------------------------------- MODULE Pipeline -------------------------------
(***************************************************************************)
(* CI jobs that judge the swarm: the tools report, and                     *)
(* tools/ci/ci-pipeline.ts enters what they report into a ledger that      *)
(* outlives the job and exits with a verdict over all of it.               *)
(*                                                                         *)
(* The two inspectors run as in Inspectors, while the DHT changes; the     *)
(* verdict of tools/bootstrap/validate-bootstrap.ts is computed; the other *)
(* tools' results are given.  A process of ci-pipeline.ts awaits nothing,  *)
(* so that it is one step.  A definition marked [mutant] is no part of the *)
(* specification.                                                          *)
(***************************************************************************)
EXTENDS Inspectors, Contradictions

CONSTANTS
    Swarms,      \* what the DHT holds at first: records and tombstones
    Plans,       \* what the jobs of a history run: sequences of sets of tools
    PeerChecks,  \* how many peers --peers and BOOTSTRAP_PEERS name, and how
                 \* many of those that are tried can be reached
    Threshold,   \* --threshold
    SimResults, TunnelResults,
    FaultAt,     \* the appends of a job that may fail, counted from 0
    MaxFaults    \* bound of the appends that fail

Tools == {"bootstrap", "sim", "ghost", "keyspace", "tunnel", "spec"}

ASSUME PipelineAssumption ==
    /\ \A swarm \in Swarms :
          swarm.records \in Records /\ swarm.graves \subseteq Peer
    /\ \A plan \in Plans :
          plan \in Seq((SUBSET Tools) \cup {{"demo"}}) /\ plan # <<>>
    /\ \A s \in SimResults : s.node_count \in Nat
    /\ None \notin Peer
    /\ PeerChecks \subseteq Nat \X Nat \X Nat
    /\ Threshold \in 0..100 /\ MaxFaults \in Nat /\ FaultAt \subseteq Nat

VARIABLES
    plan,    \* the tools of each job, or "demo": no --json-dir
    job,     \* the job under way
    stage,   \* how far it is
    files,   \* the JSON files of its tools
    ledger,  \* the events in the file
    torn,    \* whether the last line of the file is cut short
    faults,
    verdicts \* what the jobs exited with, and how much they had read

pvars == <<plan, job, stage, files, ledger, torn, faults, verdicts>>
vars == <<ivars, pvars>>

-----------------------------------------------------------------------------
(* validate-bootstrap.ts                                                   *)

\* Math.round of the percentage.
Pct(total, reachable) == (200 * reachable + total) \div (2 * total)

\* What the coordinator answers is an object, and a list of records without an
\* address: no peer is taken from it.
FetchFromCoordinator == 0

ResolvePeers(cli, env) == IF cli > 0 THEN cli ELSE env

\* Each address is counted and tried once.  The order in which the peers are
\* reported makes no difference, nor does why one cannot be reached.
BootstrapOutput(cli, env, reachable) ==
    LET total == ResolvePeers(cli, env) + FetchFromCoordinator
    IN  [exit_code |-> IF total = 0 THEN 3
                       ELSE IF reachable = 0 THEN 2
                       ELSE IF Pct(total, reachable) < Threshold THEN 1 ELSE 0,
         reachable |-> reachable, total |-> total,
         peers |-> [i \in 1..total |-> IF i <= reachable THEN "ok"
                                      ELSE "refused"],
         prune |-> 2 * (total - reachable) > total]

-----------------------------------------------------------------------------
(* ci-pipeline.ts                                                          *)

NoFiles == [tool \in Tools |-> Missing]

\* The events of a job with --json-dir.
IngestResults(results) ==
    LET of(tool, events) == IF results[tool] = Missing THEN <<>> ELSE events
    IN  <<MakeEvent("system", "env.fingerprint", TRUE)>>
        \o of("bootstrap", NormalizeBootstrap(results["bootstrap"]))
        \o of("sim", NormalizeSim(results["sim"]))
        \o of("ghost", NormalizeGhost(results["ghost"]))
        \o of("keyspace", NormalizeKeyspace(results["keyspace"]))
        \o of("tunnel", NormalizeTunnel(results["tunnel"]))
        \o of("spec", NormalizeSpec(results["spec"]))

\* [mutant] the demo reports the tunnel only
RunDemo_Tunnel ==
    NormalizeTunnel([status |-> "ready", provider |-> "trycloudflare",
                     host |-> None, port |-> None])

\* The events of a job without: a coherent swarm.
RunDemo ==
    NormalizeSim([exit_code |-> 0, node_count |-> 3,
                  peers_discovered |-> <<2, 2, 2>>])
    \o NormalizeGhost([ghost |-> 0, ghost_peers |-> {}])
    \o NormalizeKeyspace([vless_count |-> 2, hy2_count |-> 1,
                          tombstone_count |-> 0, orphan_keys |-> 0])
    \o NormalizeTunnel([status |-> "ready", provider |-> "trycloudflare",
                        host |-> "host", port |-> 443])
    \o NormalizeSpec([drift_detected |-> FALSE])

Demo == plan[job] = {"demo"}

\* The event that append writes: with the run and the time that the adapter
\* gave it, and its number.
Stamped(e, time) ==
    [tool |-> e.tool, key |-> e.key, value |-> e.value, node |-> e.node,
     run_id |-> job, timestamp |-> now, logical_time |-> time]

\* [mutant] every session numbers its events from 1
Entered_Restart(events) ==
    [i \in 1..Len(events) |-> Stamped(events[i], i)]

\* The events of a job; the clock goes on from the last session.
Entered(events) ==
    [i \in 1..Len(events) |-> Stamped(events[i], Len(ledger) + i)]

Init ==
    /\ \E swarm \in Swarms : IInit(swarm.records, swarm.graves)
    /\ plan \in Plans
    /\ job = 1
    /\ stage = "start"
    /\ files = NoFiles
    /\ ledger = <<>> /\ torn = FALSE /\ faults = 0
    /\ verdicts = <<>>

\* The inspectors take their steps first, and the DHT changes meanwhile.
Detect ==
    /\ stage = "start" /\ "ghost" \in plan[job]
    /\ GhostStep
    /\ UNCHANGED pvars

Inspect ==
    /\ stage = "start" /\ "keyspace" \in plan[job]
    /\ InspectStep
    /\ UNCHANGED pvars

Finished(tool, s) == tool \in plan[job] => s.stage = "done"

\* The other tools, and the files of all.  A tool that fails leaves no file, or
\* one that loadToolResults passes over, as a tool that is not in the plan.
Report ==
    /\ stage = "start"
    /\ Finished("ghost", scan) /\ Finished("keyspace", dump)
    /\ \E p \in PeerChecks, s \in SimResults, t \in TunnelResults,
          d \in BOOLEAN :
          LET result == [bootstrap |-> BootstrapOutput(p[1], p[2], p[3]),
                         sim |-> s,
                         ghost |-> GhostOutput, keyspace |-> KeyspaceOutput,
                         tunnel |-> t, spec |-> [drift_detected |-> d]]
          IN  files' = [tool \in Tools |-> IF tool \in plan[job]
                                          THEN result[tool] ELSE Missing]
    /\ stage' = "reported"
    /\ scan' = ScanIdle /\ dump' = DumpIdle
    /\ UNCHANGED <<world, plan, job, ledger, torn, faults, verdicts>>

Exit(judged, code) ==
    /\ verdicts' = Append(verdicts, [judged |-> judged, exit_code |-> code,
                                     upto |-> Len(ledger')])
    /\ stage' = "judged"
    /\ UNCHANGED <<ivars, plan, job, files>>

New == Entered(IF Demo THEN RunDemo ELSE IngestResults(files))

\* main, when all goes well.
Judge ==
    /\ stage = "reported" /\ ~torn
    /\ ledger' = ledger \o New
    /\ UNCHANGED <<torn, faults>>
    /\ Exit(TRUE, CiExitCode(DetectContradictions(ledger')))

\* An append throws, perhaps in the middle of a line: main().catch.  Ledger has
\* the other ways in which a write may end.
AppendFails ==
    /\ stage = "reported" /\ ~torn
    /\ faults < MaxFaults
    /\ faults' = faults + 1
    /\ torn' \in BOOLEAN
    /\ \E n \in FaultAt : n < Len(New) /\ ledger' = ledger \o SubSeq(New, 1, n)
    /\ Exit(FALSE, 1)

\* The constructor of SwarmLedger reads the file, and throws.
CannotOpen ==
    /\ stage = "reported" /\ torn
    /\ UNCHANGED <<ledger, torn, faults>>
    /\ Exit(FALSE, 1)

NextJob ==
    /\ stage = "judged" /\ job < Len(plan)
    /\ job' = job + 1
    /\ stage' = "start"
    /\ files' = NoFiles
    /\ UNCHANGED <<ivars, plan, ledger, torn, faults, verdicts>>

Environment == World /\ UNCHANGED pvars

Next ==
    \/ Report \/ Detect \/ Inspect
    \/ Judge \/ AppendFails \/ CannotOpen \/ NextJob
    \/ Environment

Spec == Init /\ [][Next]_vars

-----------------------------------------------------------------------------
(* Properties.                                                             *)

\* The state stays within its types; in particular each verdict is an exit code
\* of ciExitCode, whose cases are exhaustive, and the ledger is numbered and has
\* canonical keys only.
TypeOK ==
    /\ job \in 1..Len(plan)
    /\ stage \in {"start", "reported", "judged"}
    /\ DOMAIN files = Tools
    /\ torn \in BOOLEAN /\ faults \in 0..MaxFaults
    /\ Len(verdicts) \in {job - 1, job}
    /\ \A i \in 1..Len(verdicts) : verdicts[i].exit_code \in 0..3
    /\ \A i \in 1..Len(ledger) : /\ ledger[i].logical_time = i
                                  /\ ledger[i].key \in CanonicalKeys
    /\ scan.stage \in {"idle", "record", "tombstone", "done"}
    /\ dump.stage \in {"idle", "dumped", "counted", "labelled", "done"}

JudgedNow ==
    {j \in {job} : stage = "judged" /\ verdicts[j].judged}
EventsOf(j) == SubSeq(ledger, 1, verdicts[j].upto)

\* The ledger holds the findings of earlier jobs, but a job in which the peers,
\* the simulation and the tunnel are all reported fails with a hard
\* contradiction only for what it reported itself, and whenever its own report
\* has one (ci-pipeline.ts:342-371).
HardIsFresh ==
    \A j \in JudgedNow :
        (\A tool \in {"bootstrap", "sim", "tunnel"} :
            files[tool] # Missing) =>
        ((verdicts[j].exit_code = 3) <=>
         (CiExitCode(DetectContradictions(ReplayRun(ledger, j))) = 3))

\* Whatever jobs are entered later, a replay up to the logical time at which a
\* job ended gives the verdict that it gave (replay.ts:94-101).
ReplayReproduces ==
    stage = "judged" =>
        \A j \in 1..Len(verdicts) :
            (verdicts[j].judged /\ verdicts[j].upto > 0) =>
                CiExitCode(DetectContradictions(ReplayAt(ledger,
                    ledger[verdicts[j].upto].logical_time)))
                = verdicts[j].exit_code

\* The demo and the jobs share a ledger.  The demo describes a coherent swarm
\* and fails only for that there were no peers, if a job found none within the
\* time in which results are compared (ci-pipeline.ts:262-308,
\* contradictions.ts:89-113).
DemoClean ==
    \A j \in JudgedNow :
        (Demo /\ verdicts[j].exit_code # 0) =>
            LET b == Latest(EventsOf(j), "dht.peer.count.bootstrap")
            IN  /\ Rules(DetectContradictions(EventsOf(j)))
                       = {"dht-peer-count-consistency"}
                /\ Has(EventsOf(j), "dht.peer.count.bootstrap") /\ b.value = 0
                /\ ledger[verdicts[j].upto].timestamp - b.timestamp < SoftSkew
=============================================================================
