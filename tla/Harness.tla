-------------------------------- MODULE Harness --------------------------------
(***************************************************************************)
(* The harness that starts a cluster of DHT nodes, lets each announce      *)
(* itself, kills one and scores what the others see: spawnCluster          *)
(* (tools/harness/cluster.ts), runHarness (runner.ts), verifier.ts and     *)
(* metrics.ts.                                                             *)
(*                                                                         *)
(* The nodes and their DHT are external: connections between them come and *)
(* go, and they have no others; a get may fail or answer with an old       *)
(* record, an announcement may take longer than the harness waits, and no  *)
(* put need ever end.  A definition marked [mutant] is no part of the      *)
(* specification.                                                          *)
(***************************************************************************)
EXTENDS Integers, FiniteSets

CONSTANTS
    NodeCount,  \* opts.nodeCount
    Doomed,     \* opts.killNodeIndex
    MaxPolls,   \* how often the cluster is polled before the deadline
    MaxDrops    \* bound of the connections that are lost

ASSUME HarnessAssumption ==
    /\ NodeCount \in Nat /\ NodeCount > 1
    /\ Doomed \in 0..(NodeCount - 1)
    /\ MaxPolls \in Nat \ {0} /\ MaxDrops \in Nat

Node == 0..(NodeCount - 1)
Pairs == {p \in Node \X Node : p[1] # p[2]}

VARIABLES
    phase,      \* where runHarness is
    at,         \* the node its loop has come to
    up,         \* the state of each node
    links,      \* which nodes are connected
    polls, drops,
    announced,  \* the nodes that count as announced
    putting,    \* those whose announcement is under way
    dht,        \* the record of each node
    topology,   \* what verifyTopology returned
    found,      \* what verifyCrossDiscovery has found: querier and target
    asked,
    absent, stale,  \* what verifyTombstone has found
    health

loop == <<phase, at>>
swarm == <<up, links, drops>>
spawned == <<polls, announced>>
records == <<putting, dht>>
observed == <<topology, found, asked, absent, stale>>
vars == <<loop, swarm, spawned, records, observed, health>>

Init ==
    /\ phase = "start" /\ at = 0
    /\ up = [n \in Node |-> "none"]
    /\ links = {} /\ polls = 0 /\ drops = 0
    /\ announced = {} /\ putting = {}
    /\ dht = [n \in Node |-> "none"]
    /\ topology = [edges |-> {}, isolated |-> {}]
    /\ found = {} /\ asked = {}
    /\ absent = TRUE /\ stale = 0
    /\ health = "none"

\* Unordered, as the keys of verifyTopology.
Edge(a, b) == {a, b}
PeersOf(n) == {m \in Node : Edge(n, m) \in links}
Alive == {n \in Node : up[n] = "up"}

-----------------------------------------------------------------------------
(* The nodes.                                                              *)

Connect(a, b) ==
    /\ phase \in {"start", "poll", "announce", "verify"}
    /\ a # b /\ a \in Alive /\ b \in Alive /\ Edge(a, b) \notin links
    /\ links' = links \cup {Edge(a, b)}
    /\ UNCHANGED <<loop, up, drops, spawned, records, observed, health>>

Disconnect(e) ==
    /\ phase \in {"start", "poll", "announce", "verify"}
    /\ drops < MaxDrops /\ e \in links
    /\ links' = links \ {e}
    /\ drops' = drops + 1
    /\ UNCHANGED <<loop, up, spawned, records, observed, health>>

\* An announcement whose time was up goes on in the background.
LatePut(n) ==
    /\ n \in putting /\ up[n] = "up"
    /\ phase = "announce" => at # n
    /\ dht' = [dht EXCEPT ![n] = "live"]
    /\ putting' = putting \ {n}
    /\ UNCHANGED <<loop, swarm, spawned, observed, health>>

World ==
    \/ \E a, b \in Node : Connect(a, b)
    \/ \E e \in links : Disconnect(e)
    \/ \E n \in Node : LatePut(n)

-----------------------------------------------------------------------------
(* spawnCluster                                                            *)

\* What runHarness returns if spawnCluster throws: emptyMetrics.
SpawnFails ==
    /\ phase' = "failed" /\ health' = "RED"
    /\ UNCHANGED <<at, spawned, records, observed>>

\* The bootstrap node has to start.
StartFirst ==
    /\ phase = "start" /\ at = 0
    /\ \/ /\ up' = [up EXCEPT ![0] = "up"]
          /\ at' = 1
          /\ UNCHANGED <<phase, spawned, records, observed, health>>
       \/ /\ up' = [up EXCEPT ![0] = "failed"]
          /\ SpawnFails
    /\ UNCHANGED <<links, drops>>

\* Another may fail to start, or to dial the first.
StartNext ==
    /\ phase = "start" /\ at \in 1..(NodeCount - 1)
    /\ \/ /\ up' = [up EXCEPT ![at] = "failed"]
          /\ UNCHANGED links
       \/ /\ up' = [up EXCEPT ![at] = "up"]
          /\ links' \in {links, links \cup {Edge(0, at)}}
    /\ at' = at + 1
    /\ UNCHANGED <<phase, drops, spawned, records, observed, health>>

StartsDone ==
    /\ phase = "start" /\ at = NodeCount
    /\ phase' = "poll" /\ at' = 0
    /\ UNCHANGED <<swarm, spawned, records, observed, health>>

\* In full, or every node has a peer and one of them all.  A node that failed to
\* start goes on counting in minPeers.
Converged ==
    LET peers(n) == Cardinality(PeersOf(n))
        minPeers == NodeCount - 1
    IN  \/ \A n \in Alive : peers(n) >= minPeers
        \/ /\ \A n \in Alive : peers(n) >= 1
           /\ \E n \in Alive : peers(n) >= minPeers

\* [mutant] there is no deadline
Poll_Forever ==
    /\ phase = "poll"
    /\ polls' = polls + 1
    /\ IF Converged THEN phase' = "announce" /\ at' = 0 ELSE UNCHANGED loop
    /\ UNCHANGED <<swarm, announced, records, observed, health>>

Poll ==
    /\ phase = "poll" /\ polls < MaxPolls
    /\ polls' = polls + 1
    /\ IF Converged THEN phase' = "announce" /\ at' = 0 ELSE UNCHANGED loop
    /\ UNCHANGED <<swarm, announced, records, observed, health>>

\* The nodes that did start are not stopped.
Deadline ==
    /\ phase = "poll" /\ polls = MaxPolls
    /\ SpawnFails
    /\ UNCHANGED swarm

Announcing(n) == phase = "announce" /\ at = n /\ n \in putting

\* The next node that has started calls announceProxyConfig.
Announce ==
    /\ phase = "announce" /\ at < NodeCount /\ at \notin putting
    /\ IF at \in Alive
       THEN putting' = putting \cup {at} /\ UNCHANGED at
       ELSE at' = at + 1 /\ UNCHANGED putting
    /\ UNCHANGED <<phase, swarm, spawned, dht, observed, health>>

\* [mutant] the announcement is not awaited
AnnounceDone_NoAwait(n) ==
    /\ Announcing(n)
    /\ announced' = announced \cup {n}
    /\ at' = n + 1
    /\ UNCHANGED <<phase, swarm, polls, records, observed, health>>

AnnounceDone(n) ==
    /\ Announcing(n)
    /\ \/ /\ announced' = announced \cup {n}
          /\ dht' = [dht EXCEPT ![n] = "live"]
       \/ UNCHANGED <<announced, dht>>  \* it rejects
    /\ putting' = putting \ {n}
    /\ at' = n + 1
    /\ UNCHANGED <<phase, swarm, polls, observed, health>>

\* [mutant] the announcement is awaited
AnnounceTimeout_Never(n) == FALSE /\ UNCHANGED vars

\* It loses the race against the timer.
AnnounceTimeout(n) ==
    /\ Announcing(n)
    /\ at' = n + 1
    /\ UNCHANGED <<phase, swarm, spawned, records, observed, health>>

AnnouncesDone ==
    /\ phase = "announce" /\ at = NodeCount
    /\ phase' = "verify" /\ at' = 0
    /\ UNCHANGED <<swarm, spawned, records, observed, health>>

-----------------------------------------------------------------------------
(* runHarness, with the verifications.                                     *)

VerifyTopology ==
    /\ phase = "verify"
    /\ topology' = [edges |-> links,
                    isolated |-> announced \ UNION links]
    /\ phase' = "discover"
    /\ links' = {} \* not looked at again
    /\ UNCHANGED <<at, up, drops, spawned, records, found, asked, absent, stale,
                   health>>

\* One get after the other.  One that fails finds nothing.
VerifyCrossDiscovery ==
    /\ phase = "discover"
    /\ \E p \in Pairs \ asked :
          /\ \A q \in Pairs \ asked :
                p[1] < q[1] \/ (p[1] = q[1] /\ p[2] <= q[2])
          /\ asked' = asked \cup {p}
          /\ \/ UNCHANGED found
             \/ p[1] \in Alive /\ dht[p[2]] # "none" /\ found' = found \cup {p}
    /\ UNCHANGED <<loop, swarm, spawned, records, topology, absent, stale,
                   health>>

DiscoveryDone ==
    /\ phase = "discover" /\ asked = Pairs
    /\ phase' \in {"bury", "score"} \* opts.verifyTombstones
    /\ asked' = {}
    /\ UNCHANGED <<at, swarm, spawned, records, topology, found, absent, stale,
                   health>>

\* publishTombstone, which takes the record away or marks it.  If it throws, the
\* result is what it was before: all absent.
Bury ==
    /\ phase = "bury"
    /\ \/ /\ dht' \in {[dht EXCEPT ![Doomed] = v] : v \in {"none", "dead"}}
          /\ phase' = "stop"
       \/ phase' = "score" /\ UNCHANGED dht
    /\ UNCHANGED <<at, swarm, spawned, putting, observed, health>>

Stop ==
    /\ phase = "stop"
    /\ up' = [up EXCEPT ![Doomed] = "stopped"]
    /\ putting' = putting \ {Doomed}
    /\ phase' = "tombstone"
    /\ UNCHANGED <<at, links, drops, spawned, dht, observed, health>>

\* The doomed node may throw, too.
StopFails ==
    /\ phase = "stop"
    /\ phase' = "score"
    /\ UNCHANGED <<at, swarm, spawned, records, observed, health>>

\* A survivor gets nothing, or its get fails; or what was put last, or before.
VerifyTombstone ==
    /\ phase = "tombstone"
    /\ \E n \in Alive \ asked, value \in {"none", dht[Doomed], "live"} :
          /\ \A m \in Alive \ asked : n <= m
          /\ asked' = asked \cup {n}
          /\ absent' = (absent /\ value = "none")
          /\ stale' = IF value = "live" THEN stale + 1 ELSE stale
    /\ UNCHANGED <<loop, swarm, spawned, records, topology, found, health>>

TombstoneDone ==
    /\ phase = "tombstone" /\ Alive \subseteq asked
    /\ phase' = "score"
    /\ UNCHANGED <<at, swarm, spawned, records, observed, health>>

-----------------------------------------------------------------------------
(* computeMetrics.  The scores are integers, of which Whole stands for 1.   *)

Possible == (NodeCount * (NodeCount - 1)) \div 2
Whole == 20 * Possible
Bounded(s) == IF s < 0 THEN 0 ELSE IF s > Whole THEN Whole ELSE s

\* A share of the possible edges, less 0.15 for every isolated node.
ConnectivityScore ==
    Bounded(20 * Cardinality(topology.edges)
            - 3 * Possible * Cardinality(topology.isolated))

DiscoveryScore == 10 * Cardinality(found)

\* [mutant] stale records cost nothing more
TombstoneScore_Half == Bounded(Possible * (IF absent THEN 20 ELSE 10))

\* 0.1 for every stale record.
TombstoneScore == Bounded(Possible * ((IF absent THEN 20 ELSE 10) - 2 * stale))

\* [mutant] one good score is enough
Health_Some ==
    LET scores == {ConnectivityScore, DiscoveryScore, TombstoneScore}
    IN  IF \E s \in scores : s > 16 * Possible THEN "GREEN"
        ELSE IF \A s \in scores : s < 10 * Possible THEN "RED" ELSE "YELLOW"

Health ==
    LET scores == {ConnectivityScore, DiscoveryScore, TombstoneScore}
    IN  IF \A s \in scores : s > 16 * Possible THEN "GREEN"
        ELSE IF \E s \in scores : s < 10 * Possible THEN "RED" ELSE "YELLOW"

Score ==
    /\ phase = "score"
    /\ health' = Health
    /\ phase' = "cleanup"
    /\ UNCHANGED <<at, swarm, spawned, records, observed>>

\* stopAll; what a node throws when it is stopped is ignored.
StopAll ==
    /\ phase = "cleanup"
    /\ up' = [n \in Node |-> IF up[n] = "up" THEN "stopped" ELSE up[n]]
    /\ putting' = {}
    /\ phase' = "done"
    /\ UNCHANGED <<at, links, drops, spawned, dht, observed, health>>

Success == phase \in {"done", "failed"} /\ health \in {"GREEN", "YELLOW"}

Step ==
    \/ StartFirst \/ StartNext \/ StartsDone \/ Poll \/ Deadline
    \/ Announce \/ (\E n \in Node : AnnounceTimeout(n)) \/ AnnouncesDone
    \/ VerifyTopology \/ VerifyCrossDiscovery \/ DiscoveryDone
    \/ Stop \/ StopFails \/ VerifyTombstone \/ TombstoneDone
    \/ Score \/ StopAll

\* A put on an isolated node hangs, and only that of an announcement is raced
\* against a timer.
Put == Bury \/ \E n \in Node : AnnounceDone(n)

Next == Step \/ Put \/ World

\* Timers fire, and starts, dials, gets and stops end or fail.  A put need not
\* end.
Spec == Init /\ [][Next]_vars /\ WF_vars(Step)

-----------------------------------------------------------------------------
(* Properties.                                                             *)

\* The state stays within its types, and no score leaves its range.
TypeOK ==
    /\ at \in 0..NodeCount /\ polls \in 0..MaxPolls
    /\ up \in [Node -> {"none", "up", "failed", "stopped"}]
    /\ links \subseteq SUBSET Node
    /\ announced \subseteq Node /\ putting \subseteq Node
    /\ dht \in [Node -> {"none", "live", "dead"}]
    /\ found \subseteq Pairs
    /\ stale \in 0..NodeCount
    /\ {ConnectivityScore, DiscoveryScore, TombstoneScore} \subseteq 0..Whole

\* Success leaves no node out, even if connections were lost after convergence:
\* with up to five nodes none that was announced in time is isolated, and with
\* three none at all.  The penalty spares nodes whose announcement was late
\* (verifier.ts:31-39, metrics.ts:16-22).
SuccessIsConnected ==
    Success =>
        /\ NodeCount <= 5 => topology.isolated = {}
        /\ NodeCount = 3 => \A n \in Node : \E e \in topology.edges : n \in e

\* With up to five nodes, a cluster is green only if each node's record was
\* found by another (metrics.ts:24-32, 56).
GreenIsListed ==
    (health = "GREEN" /\ NodeCount <= 5) =>
        \A t \in Node : \E q \in Node : <<q, t>> \in found

\* One survivor that still finds the record of the dead node makes the run fail:
\* 0.5 is a passing score, and 0.4 is not (metrics.ts:34-60).
NoStaleSuccess == stale > 0 => ~Success

\* An announcement that goes on in the background may overwrite the tombstone of
\* its node, but not if the node counts as announced (cluster.ts:205-214,
\* runner.ts:79-88).
AnnouncedStaysBuried ==
    (phase = "tombstone" /\ Doomed \in announced) => dht[Doomed] # "live"

\* The harness comes to an end, even if an announcement never does
\* (cluster.ts:205-213), unless it waits for the tombstone for ever, whose put
\* has no timer (runner.ts:80).
HarnessEnds == <>[](phase \in {"done", "failed", "bury"})
=============================================================================
