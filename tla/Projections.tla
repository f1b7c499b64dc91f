----------------------------- MODULE Projections -----------------------------
(***************************************************************************)
(* What tools/ledger makes of the outputs of the tools and of the events   *)
(* in a ledger: the adapters that turn one into the other (adapters.ts),   *)
(* the latest event of each key (latestByKey of projections.ts), and       *)
(* replays of the events (replay.ts).  All are pure functions.             *)
(*                                                                         *)
(* A definition marked [mutant] is no part of the specification.           *)
(***************************************************************************)
EXTENDS Integers, Sequences, FiniteSets, TLC, SequencesExt

CONSTANTS
    None,     \* undefined
    Missing   \* a result file that does not exist, or cannot be parsed

\* CANONICAL_KEYS
CanonicalKeys ==
    {"dht.peer.count", "dht.peer.count.bootstrap", "dht.peer.count.sim",
     "dht.active.nodes", "dht.orphan.keys", "dht.announced", "dht.state.clean",
     "node.status", "ghost.count",
     "keyspace.vless.count", "keyspace.hysteria2.count",
     "keyspace.tombstone.count", "keyspace.orphan.keys",
     "tunnel.status", "tunnel.provider", "tunnel.host", "tunnel.port",
     "bootstrap.peer.status", "spec.alignment", "correction", "env.fingerprint"}

\* What an adapter returns; append adds an id and the logical time.  A canonical
\* key is its own normal form.
MakeEvent(tool, key, value) ==
    [tool |-> tool, key |-> key, value |-> value, node |-> None]

-----------------------------------------------------------------------------
(* The adapters.                                                           *)

NormalizeBootstrap(o) ==
    <<MakeEvent("bootstrap", "dht.peer.count.bootstrap", o.reachable)>>
    \o (IF o.exit_code = 3
        THEN <<MakeEvent("bootstrap", "dht.state.clean", TRUE)>> ELSE <<>>)
    \o [i \in 1..Len(o.peers) |->
           MakeEvent("bootstrap", "bootstrap.peer.status", o.peers[i])]

Total(numbers) == FoldLeft(LAMBDA a, b : a + b, 0, numbers)

\* [mutant] an announcement that failed is not reported
NormalizeSim_OnlySuccess(o) ==
    <<MakeEvent("sim", "dht.peer.count.sim", Total(o.peers_discovered))>>
    \o (IF o.exit_code = 0 THEN <<MakeEvent("sim", "dht.announced", TRUE)>>
        ELSE <<>>)

\* The sum of the counts stands for their average: only whether it is positive
\* matters.
NormalizeSim(o) ==
    <<MakeEvent("sim", "dht.peer.count.sim", Total(o.peers_discovered)),
      MakeEvent("sim", "dht.announced", o.exit_code = 0)>>
    \o IF o.peers_discovered # <<>>
       THEN <<MakeEvent("sim", "dht.peer.count", o.node_count)>>
       ELSE <<>>

NormalizeGhost(o) ==
    <<MakeEvent("ghost", "ghost.count", o.ghost)>>
    \o SetToSeq({[MakeEvent("ghost", "node.status", "ghost")
                     EXCEPT !.node = p] : p \in o.ghost_peers})

NormalizeKeyspace(o) ==
    <<MakeEvent("keyspace", "keyspace.vless.count", o.vless_count),
      MakeEvent("keyspace", "keyspace.hysteria2.count", o.hy2_count),
      MakeEvent("keyspace", "keyspace.tombstone.count", o.tombstone_count),
      MakeEvent("keyspace", "keyspace.orphan.keys", o.orphan_keys)>>

\* A host and a port are reported only if there are any.
NormalizeTunnel(o) ==
    <<MakeEvent("tunnel", "tunnel.status", o.status),
      MakeEvent("tunnel", "tunnel.provider", o.provider)>>
    \o (IF o.host = None THEN <<>>
         ELSE <<MakeEvent("tunnel", "tunnel.host", o.host)>>)
    \o (IF o.port = None THEN <<>>
         ELSE <<MakeEvent("tunnel", "tunnel.port", o.port)>>)

NormalizeSpec(o) == <<MakeEvent("spec", "spec.alignment", ~o.drift_detected)>>

-----------------------------------------------------------------------------
(* latestByKey of a list of events, which is a function from positions: a  *)
(* sequence, or a part of one.  It sorts the events by logical_time and    *)
(* keeps the last of each key.                                             *)

\* The order of that sort, which is stable.
Earlier(events, i, j) ==
    \/ events[i].logical_time < events[j].logical_time
    \/ events[i].logical_time = events[j].logical_time /\ i <= j

OfKey(events, key) == {i \in DOMAIN events : events[i].key = key}

LastOf(events, at) ==
    events[CHOOSE i \in at : \A j \in at : Earlier(events, j, i)]

\* has and get
Has(events, key) == OfKey(events, key) # {}
Latest(events, key) == LastOf(events, OfKey(events, key))

-----------------------------------------------------------------------------
(* Replays: the events that a filter lets through.                         *)

\* replay with a run_id, which the other filters combine with.
ReplayRun(events, run) ==
    Restrict(events, {i \in DOMAIN events : events[i].run_id = run})

\* [mutant] the last event is left out
ReplayAt_Before(events, time) ==
    Restrict(events, {i \in DOMAIN events : events[i].logical_time < time})

ReplayAt(events, time) ==
    Restrict(events, {i \in DOMAIN events : events[i].logical_time <= time})
=============================================================================
