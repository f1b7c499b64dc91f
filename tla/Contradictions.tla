---------------------------- MODULE Contradictions ----------------------------
(***************************************************************************)
(* The rules by which the pipeline judges what the tools report            *)
(* (tools/ledger/src/contradictions.ts), and the exit code they lead to.   *)
(*                                                                         *)
(* A definition marked [mutant] is no part of the specification.           *)
(***************************************************************************)
EXTENDS Projections

CONSTANTS HardSkew, SoftSkew  \* hard_skew_ms and soft_skew_ms, in minutes

ASSUME SkewAssumption == HardSkew \in Nat /\ SoftSkew \in Nat

Found(severity, rule) == {[severity |-> severity, rule |-> rule]}

\* The value of the latest event with the key, if there is one.
ValueOf(events, key) == Latest(events, key).value

Skew(e, f) ==
    IF e.timestamp > f.timestamp THEN e.timestamp - f.timestamp
    ELSE f.timestamp - e.timestamp

\* Bootstrap reaches no peer, but the simulation has some.
PeerCountRule(events) ==
    LET b == Latest(events, "dht.peer.count.bootstrap")
        s == Latest(events, "dht.peer.count.sim")
    IN  IF /\ Has(events, "dht.peer.count.bootstrap")
           /\ Has(events, "dht.peer.count.sim")
           /\ b.value = 0 /\ s.value # 0 /\ Skew(b, s) < SoftSkew
        THEN Found(IF Skew(b, s) < HardSkew THEN "HARD" ELSE "SOFT",
                   "dht-peer-count-consistency")
        ELSE {}

\* The latest event with the key node.status would have to be of two tools.
NodeLivenessRule(events) ==
    LET of(tool, value) ==
            /\ Has(events, "node.status")
            /\ Latest(events, "node.status").tool = tool
            /\ ValueOf(events, "node.status") = value
    IN  IF of("ghost", "offline") /\ of("sim", "online")
        THEN Found("HARD", "node-liveness-consistency") ELSE {}

OrphanRule(events) ==
    IF /\ Has(events, "keyspace.orphan.keys")
       /\ ValueOf(events, "keyspace.orphan.keys") > 0
       /\ Has(events, "dht.state.clean")
    THEN Found("DRIFT", "keyspace-orphan-consistency") ELSE {}

TunnelRule(events) ==
    IF /\ Has(events, "tunnel.status") /\ Has(events, "dht.announced")
       /\ ValueOf(events, "tunnel.status") = "failed"
       /\ ValueOf(events, "dht.announced")
    THEN Found("HARD", "tunnel-vs-announce-consistency") ELSE {}

\* ghost_ratio_threshold is one half.
GhostDensityRule(events) ==
    IF /\ Has(events, "ghost.count") /\ Has(events, "dht.peer.count")
       /\ ValueOf(events, "dht.peer.count") > 0
       /\ 2 * ValueOf(events, "ghost.count") > ValueOf(events, "dht.peer.count")
    THEN Found("SOFT", "ghost-density") ELSE {}

DetectContradictions(events) ==
    UNION {PeerCountRule(events), NodeLivenessRule(events), OrphanRule(events),
           TunnelRule(events), GhostDensityRule(events)}

Severities(report) == {c.severity : c \in report}
Rules(report) == {c.rule : c \in report}

CiExitCode(report) ==
    CASE "HARD" \in Severities(report) -> 3
      [] "HARD" \notin Severities(report) /\ "SOFT" \in Severities(report) -> 2
      [] Severities(report) = {"DRIFT"} -> 1
      [] report = {} -> 0
=============================================================================
