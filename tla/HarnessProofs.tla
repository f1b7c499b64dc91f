----------------------------- MODULE HarnessProofs -----------------------------
(***************************************************************************)
(* What the harness promises about clusters of any size, with any node to  *)
(* be killed and any number of polls and lost connections: a stale record  *)
(* fails the run, and the tombstone of a node that counts as announced is  *)
(* not overwritten.  With up to five nodes, a verdict of success or green  *)
(* also says something about every node: the arithmetic of the scores is   *)
(* in CountEdges, AvoidedNodeCosts and UnlistedNodeCosts.                  *)
(***************************************************************************)
EXTENDS Harness, FiniteSetTheorems, TLAPS

Phases == {"start", "poll", "announce", "verify", "discover", "bury", "stop",
           "tombstone", "score", "cleanup", "done", "failed"}

HTypes ==
    /\ phase \in Phases
    /\ at \in Nat
    /\ up \in [Node -> {"none", "up", "failed", "stopped"}]
    /\ dht \in [Node -> {"none", "live", "dead"}]
    /\ announced \subseteq Node /\ putting \subseteq Node
    /\ stale \in Nat /\ absent \in BOOLEAN

\* Only nodes that did start are connected, and none with itself.
LinksOK ==
    \A e \in links :
        \E a, b \in Node : /\ a # b /\ e = {a, b}
                           /\ up[a] \in {"up", "stopped"}
                           /\ up[b] \in {"up", "stopped"}

\* Nodes are started in their order, and the first of them has to start.
StartOrder ==
    /\ phase = "start" => \A n \in Node : n >= at => up[n] = "none"
    /\ phase = "poll" => \E n \in Node : up[n] = "up"
    /\ (phase = "start" /\ at > 0) => up[0] = "up"

\* A cluster that is handed to the harness has all its nodes: those left would
\* have fewer peers than convergence asks for.
NoneMissing ==
    phase \notin {"start", "poll", "failed"} =>
        \A n \in Node : up[n] # "failed"

\* Nodes are announced in their order, and one that is has no call under way.
AnnounceOrder ==
    /\ \A n \in announced : n \notin putting
    /\ phase \in {"start", "poll"} => announced = {}
    /\ phase = "announce" => \A n \in announced : n < at

\* The tombstone stands.
Buried ==
    (phase \in {"stop", "tombstone"} /\ Doomed \in announced) =>
        dht[Doomed] # "live"

\* What is stale is not absent, and the health is that of the scores.
Verdict ==
    /\ stale > 0 => ~absent
    /\ phase = "failed" => health = "RED"
    /\ phase \in {"cleanup", "done"} /\ stale > 0 => health = "RED"

HInv ==
    /\ HTypes /\ LinksOK /\ StartOrder /\ NoneMissing
    /\ AnnounceOrder /\ Buried /\ Verdict

-----------------------------------------------------------------------------

\* The nodes of a cluster are finitely many.
LEMMA Nodes == IsFiniteSet(Node) /\ Cardinality(Node) = NodeCount
<1>1. NodeCount - 1 \in Int /\ NodeCount - 1 >= 0
  BY HarnessAssumption
<1> QED
  BY <1>1, HarnessAssumption, FS_Interval, SMT DEF Node

\* While a node has failed, no other has all the peers (cluster.ts:164-180).
LEMMA FailureSpoilsConvergence ==
    ASSUME HTypes, LinksOK,
           NEW f \in Node, up[f] = "failed",
           NEW n \in Node, up[n] = "up"
    PROVE  Cardinality(PeersOf(n)) < NodeCount - 1
<1>1. n # f
  BY DEF HTypes
<1>2. PeersOf(n) \subseteq (Node \ {n}) \ {f}
  <2> SUFFICES ASSUME NEW m \in Node, {n, m} \in links PROVE m # n /\ m # f
    BY DEF PeersOf, Edge
  <2>1. PICK a, b \in Node :
            /\ a # b /\ {n, m} = {a, b}
            /\ up[a] \in {"up", "stopped"} /\ up[b] \in {"up", "stopped"}
    BY DEF LinksOK
  <2>2. m = a \/ m = b
    BY <2>1
  <2>3. n = a \/ n = b
    BY <2>1
  <2>4. m # n
    BY <2>1
  <2> QED
    BY <2>1, <2>2, <2>4
<1>3. /\ IsFiniteSet(Node \ {n})
      /\ Cardinality(Node \ {n}) = NodeCount - 1
  BY Nodes, FS_RemoveElement
<1>4. /\ IsFiniteSet((Node \ {n}) \ {f})
      /\ Cardinality((Node \ {n}) \ {f}) = (NodeCount - 1) - 1
  BY <1>1, <1>3, FS_RemoveElement
<1>5. /\ IsFiniteSet(PeersOf(n))
      /\ Cardinality(PeersOf(n)) <= Cardinality((Node \ {n}) \ {f})
  BY <1>2, <1>4, FS_Subset
<1>6. Cardinality(PeersOf(n)) \in Nat
  BY <1>5, FS_CardinalityType
<1> QED
  BY <1>4, <1>5, <1>6, HarnessAssumption

\* A cluster that converged has no failed node.
LEMMA ConvergedIsComplete ==
    ASSUME HTypes, LinksOK, \E n \in Node : up[n] = "up", Converged
    PROVE  \A n \in Node : up[n] # "failed"
<1> SUFFICES ASSUME NEW f \in Node, up[f] = "failed" PROVE FALSE
  OBVIOUS
<1>1. PICK n \in Node :
        up[n] = "up" /\ Cardinality(PeersOf(n)) >= NodeCount - 1
  BY DEF Converged, Alive
<1>2. Cardinality(PeersOf(n)) < NodeCount - 1
  BY <1>1, FailureSpoilsConvergence
<1>3. PeersOf(n) \subseteq Node
  BY DEF PeersOf
<1>4. Cardinality(PeersOf(n)) \in Nat
  BY <1>3, Nodes, FS_Subset, FS_CardinalityType
<1> QED
  BY <1>1, <1>2, <1>4, HarnessAssumption

\* One stale record is enough for a score below a half (metrics.ts:34-57).
LEMMA StaleIsRed ==
    ASSUME stale \in Nat, stale > 0, absent = FALSE PROVE Health = "RED"
<1>1. NodeCount * (NodeCount - 1) >= 2 /\ NodeCount * (NodeCount - 1) \in Nat
  BY HarnessAssumption, SMT
<1>2. Possible \in Nat /\ Possible > 0
  BY <1>1, SMT DEF Possible
<1>3. ASSUME NEW p \in Nat, p > 0, NEW k \in Int, k < 10 PROVE p * k < 10 * p
  BY <1>3, SMT
<1>4. 10 - 2 * stale \in Int /\ 10 - 2 * stale < 10
  OBVIOUS
<1>5. Possible * (10 - 2 * stale) < 10 * Possible
  BY <1>2, <1>3, <1>4
<1>6. Possible * (10 - 2 * stale) \in Int
  BY <1>2, <1>4
<1>7. Bounded(Possible * (10 - 2 * stale)) < 10 * Possible
  BY <1>2, <1>5, <1>6 DEF Bounded, Whole
<1>8. TombstoneScore < 10 * Possible
  BY <1>7 DEF TombstoneScore
<1>9. TombstoneScore \in Int
  BY <1>2, <1>6 DEF TombstoneScore, Bounded, Whole
<1>10. ~(TombstoneScore > 16 * Possible)
  BY <1>2, <1>8, <1>9
<1> QED
  BY <1>8, <1>10, Zenon DEF Health
-----------------------------------------------------------------------------

\* The harness starts in the invariant.
LEMMA HInvInit == Init => HInv
<1> SUFFICES ASSUME Init PROVE HInv
  OBVIOUS
<1>1. HTypes /\ LinksOK /\ StartOrder
  BY HarnessAssumption
     DEF Init, HTypes, Phases, LinksOK, StartOrder, Node
<1> QED
  BY <1>1
     DEF Init, HInv, NoneMissing, AnnounceOrder, Buried, Verdict

\* So does every step of it, of the nodes or of the announcements end there.
LEMMA HInvNext == HInv /\ [Next]_vars => HInv'
<1> SUFFICES ASSUME HInv, [Next]_vars PROVE HInv'
  OBVIOUS
<1> USE HarnessAssumption DEF Node
<1>a. HTypes /\ LinksOK /\ StartOrder
  BY DEF HInv
<1>b. NoneMissing /\ AnnounceOrder /\ Buried /\ Verdict
  BY DEF HInv
<1> USE <1>a, <1>b DEF loop, swarm, spawned, records, observed,
        HTypes, Phases, StartOrder, NoneMissing, AnnounceOrder,
        Buried, Verdict
<1>1. CASE \E a, b \in Node : Connect(a, b)
  <2>1. LinksOK'
    BY <1>1 DEF LinksOK, Connect, Edge, Alive
  <2>2. (HTypes /\ StartOrder /\ NoneMissing)'
    BY <1>1 DEF Connect, Edge, Alive
  <2>3. (AnnounceOrder /\ Buried /\ Verdict)'
    BY <1>1 DEF Connect, Edge, Alive
  <2> QED
    BY <2>1, <2>2, <2>3 DEF HInv
<1>2. CASE \E e \in links : Disconnect(e)
  <2>1. LinksOK'
    BY <1>2 DEF LinksOK, Disconnect
  <2>2. (HTypes /\ StartOrder /\ NoneMissing)'
    BY <1>2 DEF Disconnect
  <2>3. (AnnounceOrder /\ Buried /\ Verdict)'
    BY <1>2 DEF Disconnect
  <2> QED
    BY <2>1, <2>2, <2>3 DEF HInv
<1>3. CASE \E n \in Node : LatePut(n)
  <2>1. LinksOK'
    BY <1>3 DEF LinksOK, LatePut
  <2>2. (HTypes /\ StartOrder /\ NoneMissing)'
    BY <1>3 DEF LatePut
  <2>3. (AnnounceOrder /\ Buried /\ Verdict)'
    BY <1>3 DEF LatePut
  <2> QED
    BY <2>1, <2>2, <2>3 DEF HInv
<1>4. CASE StartFirst
  <2>1. LinksOK'
    BY <1>4 DEF LinksOK, StartFirst, SpawnFails
  <2>2. CASE /\ up' = [up EXCEPT ![0] = "up"] /\ at' = 1
             /\ UNCHANGED <<phase, spawned, records, observed, health>>
    <3>1. (HTypes /\ StartOrder /\ NoneMissing)'
      BY <1>4, <2>2 DEF StartFirst
    <3>2. (AnnounceOrder /\ Buried /\ Verdict)'
      BY <1>4, <2>2 DEF StartFirst
    <3> QED
      BY <2>1, <3>1, <3>2 DEF HInv
  <2>3. CASE up' = [up EXCEPT ![0] = "failed"] /\ SpawnFails
    <3>1. (HTypes /\ StartOrder /\ NoneMissing)'
      BY <1>4, <2>3 DEF StartFirst, SpawnFails
    <3>2. (AnnounceOrder /\ Buried /\ Verdict)'
      BY <1>4, <2>3 DEF StartFirst, SpawnFails
    <3> QED
      BY <2>1, <3>1, <3>2 DEF HInv
  <2> QED
    BY <1>4, <2>2, <2>3 DEF StartFirst
<1>5. CASE StartNext
  <2>1. LinksOK'
    BY <1>5 DEF LinksOK, StartNext, Edge
  <2>2. (HTypes /\ StartOrder /\ NoneMissing)'
    BY <1>5 DEF StartNext, Edge
  <2>3. (AnnounceOrder /\ Buried /\ Verdict)'
    BY <1>5 DEF StartNext, Edge
  <2> QED
    BY <2>1, <2>2, <2>3 DEF HInv
<1>6. CASE StartsDone
  <2>1. LinksOK'
    BY <1>6 DEF LinksOK, StartsDone
  <2>2. (HTypes /\ StartOrder /\ NoneMissing)'
    BY <1>6 DEF StartsDone
  <2>3. (AnnounceOrder /\ Buried /\ Verdict)'
    BY <1>6 DEF StartsDone
  <2> QED
    BY <2>1, <2>2, <2>3 DEF HInv
<1>7. CASE Poll
  <2>1. LinksOK'
    BY <1>7 DEF LinksOK, Poll
  <2>2. (HTypes /\ StartOrder /\ NoneMissing)'
    <3>1. CASE Converged
      <4>1. \A n \in Node : up[n] # "failed"
        BY <1>7, <3>1, ConvergedIsComplete DEF Poll
      <4> QED
        BY <1>7, <3>1, <4>1 DEF Poll
    <3>2. CASE ~Converged
      BY <1>7, <3>2 DEF Poll
    <3> QED
      BY <3>1, <3>2
  <2>3. (AnnounceOrder /\ Buried /\ Verdict)'
    BY <1>7 DEF Poll
  <2> QED
    BY <2>1, <2>2, <2>3 DEF HInv
<1>8. CASE Deadline
  <2>1. LinksOK'
    BY <1>8 DEF LinksOK, Deadline, SpawnFails
  <2>2. (HTypes /\ StartOrder /\ NoneMissing)'
    BY <1>8 DEF Deadline, SpawnFails
  <2>3. (AnnounceOrder /\ Buried /\ Verdict)'
    BY <1>8 DEF Deadline, SpawnFails
  <2> QED
    BY <2>1, <2>2, <2>3 DEF HInv
<1>9. CASE Announce
  <2>1. LinksOK'
    BY <1>9 DEF LinksOK, Announce, Alive
  <2>2. CASE at \in Alive
    <3>1. (HTypes /\ StartOrder /\ NoneMissing)'
      BY <1>9, <2>2 DEF Announce, Alive
    <3>2. (AnnounceOrder /\ Buried /\ Verdict)'
      BY <1>9, <2>2 DEF Announce, Alive
    <3> QED
      BY <2>1, <3>1, <3>2 DEF HInv
  <2>3. CASE at \notin Alive
    <3>a. /\ at' = at + 1
          /\ UNCHANGED <<phase, swarm, spawned, records, observed, health>>
      BY <1>9, <2>3 DEF Announce
    <3>1. (HTypes /\ StartOrder /\ NoneMissing)'
      BY <1>9, <3>a DEF Announce
    <3>2. (AnnounceOrder /\ Buried /\ Verdict)'
      BY <1>9, <3>a DEF Announce
    <3> QED
      BY <2>1, <3>1, <3>2 DEF HInv
  <2> QED
    BY <2>2, <2>3
<1>10. CASE \E n \in Node : AnnounceTimeout(n)
  <2>1. LinksOK'
    BY <1>10 DEF LinksOK, AnnounceTimeout, Announcing
  <2>2. (HTypes /\ StartOrder /\ NoneMissing)'
    BY <1>10 DEF AnnounceTimeout, Announcing
  <2>3. (AnnounceOrder /\ Buried /\ Verdict)'
    BY <1>10 DEF AnnounceTimeout, Announcing
  <2> QED
    BY <2>1, <2>2, <2>3 DEF HInv
<1>11. CASE AnnouncesDone
  <2>1. LinksOK'
    BY <1>11 DEF LinksOK, AnnouncesDone
  <2>2. (HTypes /\ StartOrder /\ NoneMissing)'
    BY <1>11 DEF AnnouncesDone
  <2>3. (AnnounceOrder /\ Buried /\ Verdict)'
    BY <1>11 DEF AnnouncesDone
  <2> QED
    BY <2>1, <2>2, <2>3 DEF HInv
<1>12. CASE VerifyTopology
  <2>1. LinksOK'
    BY <1>12 DEF LinksOK, VerifyTopology
  <2>2. (HTypes /\ StartOrder /\ NoneMissing)'
    BY <1>12 DEF VerifyTopology
  <2>3. (AnnounceOrder /\ Buried /\ Verdict)'
    BY <1>12 DEF VerifyTopology
  <2> QED
    BY <2>1, <2>2, <2>3 DEF HInv
<1>13. CASE VerifyCrossDiscovery
  <2>1. LinksOK'
    BY <1>13 DEF LinksOK, VerifyCrossDiscovery
  <2>2. (HTypes /\ StartOrder /\ NoneMissing)'
    BY <1>13 DEF VerifyCrossDiscovery
  <2>3. (AnnounceOrder /\ Buried /\ Verdict)'
    BY <1>13 DEF VerifyCrossDiscovery
  <2> QED
    BY <2>1, <2>2, <2>3 DEF HInv
<1>14. CASE DiscoveryDone
  <2>1. LinksOK'
    BY <1>14 DEF LinksOK, DiscoveryDone
  <2>2. (HTypes /\ StartOrder /\ NoneMissing)'
    BY <1>14 DEF DiscoveryDone
  <2>3. (AnnounceOrder /\ Buried /\ Verdict)'
    BY <1>14 DEF DiscoveryDone
  <2> QED
    BY <2>1, <2>2, <2>3 DEF HInv
<1>15. CASE Bury
  <2>1. LinksOK'
    BY <1>15 DEF LinksOK, Bury
  <2>2. (HTypes /\ StartOrder /\ NoneMissing)'
    BY <1>15 DEF Bury
  <2>3. (AnnounceOrder /\ Buried /\ Verdict)'
    BY <1>15 DEF Bury
  <2> QED
    BY <2>1, <2>2, <2>3 DEF HInv
<1>16. CASE Stop
  <2>1. LinksOK'
    BY <1>16 DEF LinksOK, Stop
  <2>2. (HTypes /\ StartOrder /\ NoneMissing)'
    BY <1>16 DEF Stop
  <2>3. (AnnounceOrder /\ Buried /\ Verdict)'
    BY <1>16 DEF Stop
  <2> QED
    BY <2>1, <2>2, <2>3 DEF HInv
<1>17. CASE StopFails
  <2>1. LinksOK'
    BY <1>17 DEF LinksOK, StopFails
  <2>2. (HTypes /\ StartOrder /\ NoneMissing)'
    BY <1>17 DEF StopFails
  <2>3. (AnnounceOrder /\ Buried /\ Verdict)'
    BY <1>17 DEF StopFails
  <2> QED
    BY <2>1, <2>2, <2>3 DEF HInv
<1>18. CASE VerifyTombstone
  <2>1. LinksOK'
    BY <1>18 DEF LinksOK, VerifyTombstone, Alive
  <2>2. (HTypes /\ StartOrder /\ NoneMissing)'
    BY <1>18 DEF VerifyTombstone, Alive
  <2>3. (AnnounceOrder /\ Buried /\ Verdict)'
    BY <1>18 DEF VerifyTombstone, Alive
  <2> QED
    BY <2>1, <2>2, <2>3 DEF HInv
<1>19. CASE TombstoneDone
  <2>1. LinksOK'
    BY <1>19 DEF LinksOK, TombstoneDone
  <2>2. (HTypes /\ StartOrder /\ NoneMissing)'
    BY <1>19 DEF TombstoneDone
  <2>3. (AnnounceOrder /\ Buried /\ Verdict)'
    BY <1>19 DEF TombstoneDone
  <2> QED
    BY <2>1, <2>2, <2>3 DEF HInv
<1>20. CASE Score
  <2>1. LinksOK'
    BY <1>20 DEF LinksOK, Score
  <2>2. (HTypes /\ StartOrder /\ NoneMissing)'
    BY <1>20 DEF Score
  <2>3. (AnnounceOrder /\ Buried)'
    BY <1>20 DEF Score
  <2>4. Verdict'
    <3>1. stale > 0 => Health = "RED"
      <4> SUFFICES ASSUME stale > 0 PROVE Health = "RED"
        OBVIOUS
      <4>1. absent = FALSE
        BY DEF Verdict
      <4> QED
        BY <4>1, StaleIsRed
    <3> QED
      BY <1>20, <3>1 DEF Score
  <2> QED
    BY <2>1, <2>2, <2>3, <2>4 DEF HInv
<1>21. CASE StopAll
  <2>1. LinksOK'
    BY <1>21 DEF LinksOK, StopAll
  <2>2. (HTypes /\ StartOrder /\ NoneMissing)'
    BY <1>21 DEF StopAll
  <2>3. (AnnounceOrder /\ Buried /\ Verdict)'
    BY <1>21 DEF StopAll
  <2> QED
    BY <2>1, <2>2, <2>3 DEF HInv
<1>22. CASE \E n \in Node : AnnounceDone(n)
  <2> SUFFICES ASSUME NEW n \in Node, AnnounceDone(n) PROVE HInv'
    BY <1>22
  <2>1. LinksOK'
    BY DEF LinksOK, AnnounceDone
  <2>a. /\ announced' \subseteq Node /\ putting' \subseteq Node
        /\ dht' \in [Node -> {"none", "live", "dead"}]
    BY DEF AnnounceDone
  <2>b. /\ at' = at + 1
        /\ UNCHANGED <<phase, swarm, polls, observed, health>>
    BY DEF AnnounceDone, Announcing
  <2>2. (HTypes /\ StartOrder /\ NoneMissing)'
    BY <2>a, <2>b DEF AnnounceDone, Announcing
  <2>3. AnnounceOrder'
    <3>1. \A m \in announced' : m = n \/ m \in announced
      BY DEF AnnounceDone
    <3>2. putting' = putting \ {n} /\ at' = n + 1 /\ n = at
      BY DEF AnnounceDone, Announcing
    <3>3. phase = "announce" /\ phase' = "announce"
      BY DEF AnnounceDone, Announcing
    <3>4. \A m \in announced' : m \notin putting'
      BY <3>1, <3>2
    <3>5. ASSUME NEW m \in announced' PROVE m < at'
      <4>1. CASE m = n
        BY <3>2, <4>1
      <4>2. CASE m \in announced
        <5>1. m \in Int /\ m < at
          BY <3>3, <4>2
        <5> QED
          BY <3>2, <5>1
      <4> QED
        BY <3>1, <4>1, <4>2
    <3> QED
      BY <3>3, <3>4, <3>5
  <2>4. (Buried /\ Verdict)'
    BY DEF AnnounceDone, Announcing
  <2> QED
    BY <2>1, <2>2, <2>3, <2>4 DEF HInv
<1>23. CASE UNCHANGED vars
  <2>1. LinksOK'
    BY <1>23 DEF LinksOK, vars
  <2>2. (HTypes /\ StartOrder /\ NoneMissing)'
    BY <1>23 DEF vars
  <2>3. (AnnounceOrder /\ Buried /\ Verdict)'
    BY <1>23 DEF vars
  <2> QED
    BY <2>1, <2>2, <2>3 DEF HInv
<1> QED
  BY <1>1, <1>2, <1>3, <1>4, <1>5, <1>6, <1>7, <1>8, <1>9, <1>10,
     <1>11, <1>12, <1>13, <1>14, <1>15, <1>16, <1>17, <1>18, <1>19, <1>20,
     <1>21, <1>22, <1>23
     DEF Next, Step, Put, World

-----------------------------------------------------------------------------

\* The invariant holds throughout.
THEOREM HarnessInvariant == Spec => []HInv
<1> QED
  BY HInvInit, HInvNext, PTL DEF Spec

\* In a cluster of any size, one survivor with a stale record makes the run fail
\* (metrics.ts:34-60, runner.ts:139-143).
THEOREM StaleFails == Spec => []NoStaleSuccess
<1>1. HInv => NoStaleSuccess
  BY DEF HInv, Verdict, HTypes, NoStaleSuccess, Success
<1> QED
  BY <1>1, HarnessInvariant, PTL

\* In a cluster of any size, no late announcement overwrites the tombstone of a
\* node that counts as announced (cluster.ts:205-214, runner.ts:79-88).
THEOREM BurialStands == Spec => []AnnouncedStaysBuried
<1>1. HInv => AnnouncedStaysBuried
  BY DEF HInv, Buried, AnnouncedStaysBuried
<1> QED
  BY <1>1, HarnessInvariant, PTL

-----------------------------------------------------------------------------
(* Counting nodes, pairs and edges.                                        *)

\* The pairs of different elements, one of S and one of T.
Unequal(S, T) == {p \in S \X T : p[1] # p[2]}

\* What they number, if T is a part of S.
LEMMA CountUnequal ==
    ASSUME NEW S, IsFiniteSet(S), NEW T \in SUBSET S
    PROVE  /\ IsFiniteSet(Unequal(S, T))
           /\ Cardinality(Unequal(S, T)) =
                  Cardinality(S) * Cardinality(T) - Cardinality(T)
<1> DEFINE same == {<<x, x>> : x \in T}
           copy == [x \in T |-> <<x, x>>]
<1>1. IsFiniteSet(T)
  BY FS_Subset
<1>2. copy \in Bijection(T, same)
  BY DEF Bijection, Injection, IsInjective, Surjection
<1>3. Cardinality(same) = Cardinality(T)
  BY <1>1, <1>2, FS_Bijection DEF ExistsBijection
<1>4. /\ IsFiniteSet(S \X T)
      /\ Cardinality(S \X T) = Cardinality(S) * Cardinality(T)
  BY <1>1, FS_Product
<1>5. (S \X T) \cap same = same
  OBVIOUS
<1>6. Unequal(S, T) = (S \X T) \ same
  BY DEF Unequal
<1> HIDE DEF same
<1>7. /\ IsFiniteSet((S \X T) \ same)
      /\ Cardinality((S \X T) \ same) =
             Cardinality(S \X T) - Cardinality((S \X T) \cap same)
  BY <1>4, FS_Difference
<1> QED
  BY <1>3, <1>4, <1>5, <1>6, <1>7

\* Two different elements of a set.
TwoOf(M, e) == \E a, b \in M : a # b /\ e = {a, b}

\* Each edge between nodes of M stands for two such pairs.
LEMMA CountEdges ==
    ASSUME NEW M \in SUBSET Node, NEW E, \A e \in E : TwoOf(M, e)
    PROVE  /\ IsFiniteSet(E)
           /\ 2 * Cardinality(E) <=
                  Cardinality(M) * Cardinality(M) - Cardinality(M)
<1> DEFINE F == {p \in M \X M : p[1] < p[2]}
           G == {p \in M \X M : p[2] < p[1]}
           swap == [p \in F |-> <<p[2], p[1]>>]
           pair == [e \in E |-> CHOOSE p \in F : e = {p[1], p[2]}]
<1>1. \A x \in M : x \in Int
  BY HarnessAssumption DEF Node
<1>2. IsFiniteSet(M)
  BY Nodes, FS_Subset
<1>3. /\ IsFiniteSet(Unequal(M, M))
      /\ Cardinality(Unequal(M, M)) =
             Cardinality(M) * Cardinality(M) - Cardinality(M)
  BY <1>2, CountUnequal
<1>4. F \cup G = Unequal(M, M) /\ F \cap G = {}
  BY <1>1 DEF Unequal
<1>5. IsFiniteSet(F) /\ IsFiniteSet(G)
  BY <1>3, <1>4, FS_Subset
<1>6. Cardinality(G) = Cardinality(F)
  <2>1. swap \in [F -> G]
    OBVIOUS
  <2>2. ASSUME NEW p \in F, NEW q \in F, swap[p] = swap[q] PROVE p = q
    BY <2>2
  <2>3. ASSUME NEW q \in G PROVE \E p \in F : swap[p] = q
    <3>1. <<q[2], q[1]>> \in F /\ swap[<<q[2], q[1]>>] = q
      OBVIOUS
    <3> QED
      BY <3>1
  <2>4. swap \in Bijection(F, G)
    BY <2>1, <2>2, <2>3 DEF Bijection, Injection, IsInjective, Surjection
  <2> QED
    BY <1>5, <2>4, FS_Bijection DEF ExistsBijection
<1>7. Cardinality(F \cup G) = Cardinality(F) + Cardinality(G)
  <2>1. Cardinality(F \cap G) = 0
    BY <1>4, FS_EmptySet
  <2>2. Cardinality(F) \in Int /\ Cardinality(G) \in Int
    BY <1>5, FS_CardinalityType
  <2> HIDE DEF F, G
  <2>3. Cardinality(F \cup G) =
            Cardinality(F) + Cardinality(G) - Cardinality(F \cap G)
    BY <1>5, FS_Union
  <2> QED
    BY <2>1, <2>2, <2>3
<1>8. \A e \in E : pair[e] \in F /\ e = {pair[e][1], pair[e][2]}
  <2> SUFFICES ASSUME NEW e \in E PROVE \E p \in F : e = {p[1], p[2]}
    OBVIOUS
  <2>1. PICK a, b \in M : a # b /\ e = {a, b}
    BY DEF TwoOf
  <2>2. CASE a < b
    <3>1. <<a, b>> \in F /\ e = {<<a, b>>[1], <<a, b>>[2]}
      BY <2>1, <2>2
    <3> QED
      BY <3>1
  <2>3. CASE b < a
    <3>1. <<b, a>> \in F /\ e = {<<b, a>>[1], <<b, a>>[2]}
      BY <2>1, <2>3
    <3> QED
      BY <3>1
  <2> QED
    BY <1>1, <2>1, <2>2, <2>3
<1>9. IsFiniteSet(E) /\ Cardinality(E) <= Cardinality(F)
  <2>1. pair \in [E -> F]
    BY <1>8
  <2> HIDE DEF pair, F
  <2>2. ASSUME NEW d \in E, NEW e \in E, pair[d] = pair[e] PROVE d = e
    BY <1>8, <2>2, Zenon
  <2>3. pair \in Injection(E, F)
    BY <2>1, <2>2 DEF Injection, IsInjective
  <2> QED
    BY <1>5, <2>3, FS_Injection
<1> HIDE DEF F, G
<1>10. Cardinality(E) \in Int /\ Cardinality(F) \in Int
  BY <1>5, <1>9, FS_CardinalityType
<1>11. 2 * Cardinality(F) = Cardinality(Unequal(M, M))
  <2>1. Cardinality(Unequal(M, M)) = Cardinality(F \cup G)
    BY <1>4, Zenon
  <2> QED
    BY <1>6, <1>7, <1>10, <2>1
<1>12. 2 * Cardinality(E) <= Cardinality(Unequal(M, M))
  BY <1>9, <1>10, <1>11
<1> QED
  BY <1>3, <1>9, <1>12

\* A cluster of n nodes has n(n - 1) pairs, twice the possible edges.
LEMMA CountPairs ==
    /\ IsFiniteSet(Pairs)
    /\ Cardinality(Pairs) = NodeCount * (NodeCount - 1)
    /\ Possible \in Nat /\ Possible > 0
    /\ 2 * Possible = NodeCount * (NodeCount - 1)
    /\ Whole = 20 * Possible
<1>1. Pairs = Unequal(Node, Node)
  BY DEF Pairs, Unequal
<1>2. /\ IsFiniteSet(Pairs)
      /\ Cardinality(Pairs) = NodeCount * NodeCount - NodeCount
  BY <1>1, Nodes, CountUnequal
<1>3. NodeCount * NodeCount - NodeCount = NodeCount * (NodeCount - 1)
  BY HarnessAssumption, SMT
<1>4. PICK k \in Nat : NodeCount = 2 * k \/ NodeCount = 2 * k + 1
  <2>1. NodeCount \div 2 \in Nat
    BY HarnessAssumption
  <2> QED
    BY <2>1, HarnessAssumption
<1>5. CASE NodeCount = 2 * k
  <2>1. NodeCount * (NodeCount - 1) = 2 * (k * (2 * k - 1))
    BY <1>5, SMT
  <2>2. k > 0 /\ k * (2 * k - 1) \in Nat /\ k * (2 * k - 1) > 0
    BY <1>5, HarnessAssumption, SMT
  <2>3. \A m \in Nat : (2 * m) \div 2 = m
    BY SMT
  <2> QED
    BY <1>2, <1>3, <2>1, <2>2, <2>3 DEF Possible, Whole
<1>6. CASE NodeCount = 2 * k + 1
  <2>1. NodeCount * (NodeCount - 1) = 2 * ((2 * k + 1) * k)
    BY <1>6, SMT
  <2>2. k > 0 /\ (2 * k + 1) * k \in Nat /\ (2 * k + 1) * k > 0
    BY <1>6, HarnessAssumption, SMT
  <2>3. \A m \in Nat : (2 * m) \div 2 = m
    BY SMT
  <2> QED
    BY <1>2, <1>3, <2>1, <2>2, <2>3 DEF Possible, Whole
<1> QED
  BY <1>4, <1>5, <1>6
-----------------------------------------------------------------------------
(* What is observed, counted and judged.                                   *)

\* The edges seen are links, an isolated node is in none of them, and what is
\* found was asked for.
Looked ==
    /\ \A e \in topology.edges : TwoOf(Node, e)
    /\ topology.isolated \subseteq Node
    /\ \A n \in topology.isolated, e \in topology.edges : n \notin e
    /\ found \subseteq Pairs

\* Each survivor is asked once for the record of the dead node.
Counted ==
    /\ at \in 0..NodeCount /\ polls \in 0..MaxPolls
    /\ stale <= NodeCount
    /\ phase \notin {"tombstone", "score", "cleanup", "done"} => stale = 0
    /\ phase \in {"bury", "stop"} => asked = {}
    /\ phase = "tombstone" =>
          asked \subseteq Node /\ stale <= Cardinality(asked)

\* The health stays that of the scores until the harness ends.
Judged ==
    /\ phase \in {"cleanup", "done"} => health = Health
    /\ phase = "failed" => health = "RED"
    /\ phase \notin {"cleanup", "done", "failed"} => health = "none"

HarnessInv == HInv /\ Looked /\ Counted /\ Judged

\* What a step may change of what is observed and judged.
LEMMA StepChanges ==
    ASSUME [Next]_vars
    PROVE  /\ VerifyTopology \/ UNCHANGED topology
           /\ VerifyCrossDiscovery \/ UNCHANGED found
           /\ phase' \in {"cleanup", "done"} => Score \/ UNCHANGED observed
           /\ \/ Score \/ health' = health
              \/ phase' = "failed" /\ health' = "RED"
BY DEF Next, Step, Put, World, vars, loop, swarm, spawned, records, observed,
       Connect, Disconnect, LatePut, StartFirst, StartNext, StartsDone,
       SpawnFails, Poll, Deadline, Announce, AnnounceTimeout, AnnounceDone,
       AnnouncesDone, VerifyTopology, VerifyCrossDiscovery, DiscoveryDone,
       Bury, Stop, StopFails, VerifyTombstone, TombstoneDone, Score, StopAll

\* What is looked at once stays as it was seen.
LEMMA LookedNext == ASSUME HInv, Looked, [Next]_vars PROVE Looked'
<1>1. CASE VerifyTopology
  <2>1. /\ topology'.edges = links
        /\ topology'.isolated = announced \ UNION links /\ found' = found
    BY <1>1 DEF VerifyTopology
  <2>2. LinksOK /\ announced \subseteq Node
    BY DEF HInv, HTypes
  <2>3. \A e \in topology'.edges : TwoOf(Node, e)
    BY <2>1, <2>2 DEF LinksOK, TwoOf
  <2> QED
    BY <2>1, <2>2, <2>3 DEF Looked
<1>2. CASE VerifyCrossDiscovery
  <2>1. topology' = topology /\ found' \subseteq Pairs
    BY <1>2 DEF VerifyCrossDiscovery, Looked
  <2> QED
    BY <2>1 DEF Looked
<1>3. CASE UNCHANGED <<topology, found>>
  BY <1>3 DEF Looked
<1>4. VerifyTopology => found' = found
  BY DEF VerifyTopology
<1>5. VerifyCrossDiscovery => topology' = topology
  BY DEF VerifyCrossDiscovery
<1> QED
  BY <1>1, <1>2, <1>3, <1>4, <1>5, StepChanges

\* A survivor is asked once, and there are no more survivors than nodes.
LEMMA CountedNext == ASSUME HInv, Counted, [Next]_vars PROVE Counted'
<1> USE HarnessAssumption
<1>0. stale \in Nat /\ phase \in Phases
  BY DEF HInv, HTypes
<1>1. CASE VerifyTombstone
  <2>1. PICK n \in Alive \ asked :
            /\ asked' = asked \cup {n}
            /\ stale' = stale \/ stale' = stale + 1
    BY <1>1 DEF VerifyTombstone
  <2>2. asked \subseteq Node /\ stale <= Cardinality(asked)
    BY <1>1 DEF VerifyTombstone, Counted
  <2>3. n \in Node /\ n \notin asked
    BY <2>1 DEF Alive
  <2>4. asked' \subseteq Node
    BY <2>1, <2>2, <2>3
  <2>5. IsFiniteSet(asked) /\ Cardinality(asked) \in Nat
    BY <2>2, Nodes, FS_Subset, FS_CardinalityType
  <2>6. Cardinality(asked') = Cardinality(asked) + 1
    BY <2>1, <2>3, <2>5, FS_AddElement
  <2>7. Cardinality(asked') <= NodeCount
    BY <2>4, Nodes, FS_Subset
  <2>8. stale' <= Cardinality(asked') /\ stale' <= NodeCount
    BY <1>0, <2>1, <2>2, <2>5, <2>6, <2>7
  <2>9. phase = "tombstone" /\ UNCHANGED <<phase, at, polls>>
    BY <1>1 DEF VerifyTombstone, loop, spawned
  <2> QED
    BY <2>4, <2>8, <2>9 DEF Counted
<1>2. CASE Stop
  <2>1. asked = {} /\ stale = 0
    BY <1>2 DEF Stop, Counted
  <2>2. /\ UNCHANGED <<at, polls, asked, stale>> /\ phase' = "tombstone"
    BY <1>2 DEF Stop, spawned, observed
  <2> QED
    BY <2>1, <2>2, FS_EmptySet DEF Counted
<1>3. CASE [Next]_vars /\ ~VerifyTombstone /\ ~Stop
  <2>1. CASE World \/ (\E n \in Node : AnnounceDone(n)) \/ UNCHANGED vars
    BY <1>0, <2>1 DEF Counted, World, Connect, Disconnect, LatePut,
       AnnounceDone, Announcing, vars, loop, swarm, spawned, observed, Node
  <2>2. CASE StartFirst \/ StartNext \/ StartsDone \/ Poll \/ Deadline
    BY <1>0, <2>2 DEF Counted, StartFirst, StartNext, StartsDone, Poll,
       Deadline, SpawnFails, loop, swarm, spawned, observed
  <2>3. CASE Announce \/ AnnouncesDone \/ \E n \in Node : AnnounceTimeout(n)
    BY <1>0, <2>3 DEF Counted, Announce, AnnounceTimeout, AnnouncesDone,
       Announcing, loop, swarm, spawned, observed, Node
  <2>4. CASE VerifyTopology \/ VerifyCrossDiscovery \/ DiscoveryDone
    BY <1>0, <2>4 DEF Counted, VerifyTopology, VerifyCrossDiscovery,
       DiscoveryDone, loop, swarm, spawned, observed
  <2>5. CASE Bury \/ StopFails \/ TombstoneDone \/ Score \/ StopAll
    BY <1>0, <2>5 DEF Counted, Bury, StopFails, TombstoneDone, Score,
       StopAll, loop, swarm, spawned, observed
  <2> QED
    BY <1>3, <2>1, <2>2, <2>3, <2>4, <2>5 DEF Next, Step, Put
<1> QED
  BY <1>1, <1>2, <1>3

\* The scores depend on nothing but what was observed.
LEMMA HealthStays == ASSUME UNCHANGED observed PROVE Health' = Health
BY DEF observed, Health, ConnectivityScore, DiscoveryScore, TombstoneScore,
       Bounded, Whole, Possible

\* And the verdict is not looked at again.
LEMMA JudgedNext == ASSUME HInv, Judged, [Next]_vars PROVE Judged'
<1>0. phase \in Phases
  BY DEF HInv, HTypes
<1>1. CASE Score
  <2>1. health' = Health /\ phase' = "cleanup" /\ UNCHANGED observed
    BY <1>1 DEF Score
  <2> QED
    BY <2>1, HealthStays DEF Judged
<1>2. CASE ~Score
  <2>1. phase' \in {"cleanup", "done"} =>
            phase \in {"cleanup", "done"} /\ Health' = Health
    <3>1. phase' \in {"cleanup", "done"} => phase \in {"cleanup", "done"}
      BY <1>0, <1>2 DEF Next, Step, Put, World, vars, loop, Connect, Disconnect,
         LatePut, StartFirst, StartNext, StartsDone, SpawnFails, Poll,
         Deadline, Announce, AnnounceTimeout, AnnounceDone, AnnouncesDone,
         VerifyTopology, VerifyCrossDiscovery, DiscoveryDone, Bury, Stop,
         StopFails, VerifyTombstone, TombstoneDone, StopAll
    <3> QED
      BY <1>2, <3>1, StepChanges, HealthStays
  <2>2. phase' = "failed" => health' = "RED"
    <3>1. phase' = "failed" => phase = "failed" \/ SpawnFails
      BY <1>0, <1>2 DEF Next, Step, Put, World, vars, loop, Connect, Disconnect,
         LatePut, StartFirst, StartNext, StartsDone, Poll,
         Deadline, Announce, AnnounceTimeout, AnnounceDone, AnnouncesDone,
         VerifyTopology, VerifyCrossDiscovery, DiscoveryDone, Bury, Stop,
         StopFails, VerifyTombstone, TombstoneDone, StopAll
    <3> QED
      BY <1>2, <3>1, StepChanges DEF SpawnFails, Judged
  <2>3. phase \in {"cleanup", "done", "failed"} =>
            phase' \in {"cleanup", "done", "failed"}
    BY <1>2 DEF Next, Step, Put, World, vars, loop, Connect, Disconnect,
       LatePut, StartFirst, StartNext, StartsDone, SpawnFails, Poll,
       Deadline, Announce, AnnounceTimeout, AnnounceDone, AnnouncesDone,
       VerifyTopology, VerifyCrossDiscovery, DiscoveryDone, Bury, Stop,
       StopFails, VerifyTombstone, TombstoneDone, StopAll, Announcing
  <2> QED
    BY <1>2, <2>1, <2>2, <2>3, StepChanges DEF Judged
<1> QED
  BY <1>1, <1>2

\* The harness starts in the invariant, and every step keeps it.
LEMMA HarnessInvHolds == Spec => []HarnessInv
<1>1. Init => HarnessInv
  <2>1. Init => Looked /\ Counted /\ Judged
    BY HarnessAssumption DEF Init, Looked, Counted, Judged
  <2> QED
    BY <2>1, HInvInit DEF HarnessInv
<1>2. HarnessInv /\ [Next]_vars => HarnessInv'
  BY HInvNext, LookedNext, CountedNext, JudgedNext DEF HarnessInv
<1> QED
  BY <1>1, <1>2, PTL DEF Spec

\* Every score is a share of the whole.
LEMMA ScoresInRange ==
    ASSUME HInv, Looked
    PROVE  {ConnectivityScore, DiscoveryScore, TombstoneScore}
               \subseteq 0..Whole
<1> DEFINE w == Whole
<1>0. Possible \in Nat /\ w = 20 * Possible /\ w \in Nat
  BY CountPairs
<1>1. \A s \in Int : Bounded(s) \in 0..w
  BY <1>0 DEF Bounded
<1>2. ConnectivityScore \in 0..w
  <2>1. Cardinality(topology.edges) \in Int
    BY Nodes, CountEdges, FS_CardinalityType DEF Looked
  <2>2. Cardinality(topology.isolated) \in Int
    BY Nodes, FS_Subset, FS_CardinalityType DEF Looked
  <2>3. 20 * Cardinality(topology.edges)
            - 3 * Possible * Cardinality(topology.isolated) \in Int
    BY <1>0, <2>1, <2>2
  <2> QED
    BY <1>1, <2>3 DEF ConnectivityScore
<1>3. DiscoveryScore \in 0..w
  <2>1. /\ Cardinality(found) \in Nat
        /\ Cardinality(found) <= Cardinality(Pairs)
    BY CountPairs, FS_Subset, FS_CardinalityType DEF Looked
  <2>2. Cardinality(Pairs) = 2 * Possible
    BY CountPairs
  <2> QED
    BY <1>0, <2>1, <2>2 DEF DiscoveryScore
<1>4. TombstoneScore \in 0..w
  <2>1. stale \in Nat
    BY DEF HInv, HTypes
  <2>2. Possible * ((IF absent THEN 20 ELSE 10) - 2 * stale) \in Int
    BY <1>0, <2>1
  <2> QED
    BY <1>1, <2>2 DEF TombstoneScore
<1> QED
  BY <1>2, <1>3, <1>4

\* Edges that avoid a node are too few for a passing score: among up to five
\* nodes if its isolation is penalised, and among three even if it is not
\* (metrics.ts:16-22).
LEMMA AvoidedNodeCosts ==
    ASSUME HInv, Looked, NEW n \in Node, \A e \in topology.edges : n \notin e,
           \/ NodeCount = 3
           \/ NodeCount <= 5 /\ n \in topology.isolated
    PROVE  ConnectivityScore < 10 * Possible
<1> DEFINE M == Node \ {n}
           c == Cardinality(topology.edges)
           i == Cardinality(topology.isolated)
           N == NodeCount
<1>1. IsFiniteSet(M) /\ Cardinality(M) = N - 1
  BY Nodes, FS_RemoveElement
<1>2. \A e \in topology.edges : TwoOf(M, e)
  BY DEF Looked, TwoOf
<1>3. c \in Nat /\ 2 * c <= (N - 1) * (N - 1) - (N - 1)
  BY <1>1, <1>2, CountEdges, FS_CardinalityType
<1>4. i \in Nat /\ (n \in topology.isolated => i > 0)
  <2>1. IsFiniteSet(topology.isolated)
    BY Nodes, FS_Subset DEF Looked
  <2> QED
    BY <2>1, FS_CardinalityType, FS_EmptySet
<1>5. Possible \in Nat /\ 2 * Possible = N * (N - 1) /\ Whole = 20 * Possible
  BY CountPairs
<1>6. ConnectivityScore = Bounded(20 * c - 3 * Possible * i)
  BY DEF ConnectivityScore
<1> HIDE DEF M, c, i, N
<1>7. N \in 2..5
  BY HarnessAssumption DEF N
<1>8. 20 * c - 3 * Possible * i < 10 * Possible
  <2>1. CASE N = 3
    <3>1. Possible = 3 /\ c <= 1
      BY <1>3, <1>5, <2>1
    <3> QED
      BY <1>3, <1>4, <3>1
  <2>2. CASE N # 3
    <3>1. i > 0
      BY <1>4, <2>2 DEF N
    <3>2. CASE N = 2
      BY <1>3, <1>4, <1>5, <3>1, <3>2
    <3>3. CASE N = 4
      BY <1>3, <1>4, <1>5, <3>1, <3>3
    <3>4. CASE N = 5
      BY <1>3, <1>4, <1>5, <3>1, <3>4
    <3> QED
      BY <1>7, <2>2, <3>2, <3>3, <3>4
  <2> QED
    BY <2>1, <2>2
<1>9. 20 * c - 3 * Possible * i \in Int
  BY <1>3, <1>4, <1>5
<1>10. Possible > 0
  BY CountPairs
<1> HIDE DEF c, i
<1> QED
  BY <1>5, <1>6, <1>8, <1>9, <1>10 DEF Bounded

\* A record that nobody found costs a fifth of a cluster of five
\* (metrics.ts:24-32).
LEMMA UnlistedNodeCosts ==
    ASSUME HInv, Looked, NodeCount <= 5,
           NEW t \in Node, \A q \in Node : <<q, t>> \notin found
    PROVE  DiscoveryScore <= 16 * Possible
<1> DEFINE T == Node \ {t}
           N == NodeCount
<1>1. IsFiniteSet(T) /\ Cardinality(T) = N - 1
  BY Nodes, FS_RemoveElement
<1>2. /\ IsFiniteSet(Unequal(Node, T))
      /\ Cardinality(Unequal(Node, T)) = N * (N - 1) - (N - 1)
  BY <1>1, Nodes, CountUnequal
<1>3. found \subseteq Unequal(Node, T)
  BY DEF Looked, Pairs, Unequal
<1>4. /\ Cardinality(found) \in Nat
      /\ Cardinality(found) <= N * (N - 1) - (N - 1)
  BY <1>2, <1>3, FS_Subset, FS_CardinalityType
<1>5. Possible \in Nat /\ 2 * Possible = N * (N - 1)
  BY CountPairs
<1>6. N \in 2..5
  BY HarnessAssumption
<1> HIDE DEF N
<1>7. 10 * Cardinality(found) <= 16 * Possible
  <2>1. CASE N = 2
    BY <1>4, <1>5, <2>1
  <2>2. CASE N = 3
    BY <1>4, <1>5, <2>2
  <2>3. CASE N = 4
    BY <1>4, <1>5, <2>3
  <2>4. CASE N = 5
    BY <1>4, <1>5, <2>4
  <2> QED
    BY <1>6, <2>1, <2>2, <2>3, <2>4
<1> QED
  BY <1>7 DEF DiscoveryScore

-----------------------------------------------------------------------------

\* The types, and scores that stay within their range, for clusters of any size
\* (metrics.ts:16-60).
THEOREM HarnessTypes == Spec => []TypeOK
<1>1. HarnessInv => TypeOK
  <2> SUFFICES ASSUME HarnessInv PROVE TypeOK
    OBVIOUS
  <2>1. HInv /\ Looked /\ Counted
    BY DEF HarnessInv
  <2>2. links \subseteq SUBSET Node
    BY <2>1 DEF HInv, LinksOK
  <2>3. stale \in 0..NodeCount
    BY <2>1, HarnessAssumption DEF HInv, HTypes, Counted
  <2> QED
    BY <2>1, <2>2, <2>3, ScoresInRange
       DEF HInv, HTypes, Looked, Counted, TypeOK
<1> QED
  BY <1>1, HarnessInvHolds, PTL

\* A harness that succeeds has seen no isolated node among up to five, and no
\* node without an edge among three (verifier.ts:31-39, metrics.ts:16-22).
THEOREM SuccessConnects == Spec => []SuccessIsConnected
<1>1. HarnessInv => SuccessIsConnected
  <2> SUFFICES ASSUME HarnessInv, Success
               PROVE  /\ NodeCount <= 5 => topology.isolated = {}
                      /\ NodeCount = 3 =>
                            \A n \in Node : \E e \in topology.edges : n \in e
    BY DEF SuccessIsConnected
  <2>0. HInv /\ Looked /\ Judged
    BY DEF HarnessInv
  <2>1. Health # "RED"
    BY <2>0 DEF Judged, Success
  <2>2. ~(ConnectivityScore < 10 * Possible)
    <3>1. ConnectivityScore \in Int /\ Possible \in Nat /\ Possible > 0
      BY <2>0, ScoresInRange, CountPairs
    <3>2. ConnectivityScore < 10 * Possible =>
              ~(ConnectivityScore > 16 * Possible)
      BY <3>1
    <3> QED
      BY <2>1, <3>2, Zenon DEF Health
  <2>3. ASSUME NodeCount <= 5, NEW n \in topology.isolated PROVE FALSE
    <3>1. n \in Node /\ \A e \in topology.edges : n \notin e
      BY <2>0, <2>3 DEF Looked
    <3> QED
      BY <2>0, <2>2, <2>3, <3>1, AvoidedNodeCosts
  <2>4. ASSUME NodeCount = 3, NEW n \in Node,
               \A e \in topology.edges : n \notin e
        PROVE  FALSE
    BY <2>0, <2>2, <2>4, AvoidedNodeCosts
  <2> QED
    BY <2>3, <2>4
<1> QED
  BY <1>1, HarnessInvHolds, PTL

\* A cluster of up to five nodes is green only if each record was found
\* (metrics.ts:24-32, 56).
THEOREM GreenLists == Spec => []GreenIsListed
<1>1. HarnessInv => GreenIsListed
  <2> SUFFICES ASSUME HarnessInv, health = "GREEN", NodeCount <= 5,
                      NEW t \in Node, \A q \in Node : <<q, t>> \notin found
               PROVE  FALSE
    BY DEF GreenIsListed
  <2>0. HInv /\ Looked /\ Judged
    BY DEF HarnessInv
  <2>1. Health = "GREEN"
    BY <2>0 DEF Judged
  <2>2. DiscoveryScore > 16 * Possible
    <3>1. (\E s \in {ConnectivityScore, DiscoveryScore, TombstoneScore} :
              ~(s > 16 * Possible)) => Health # "GREEN"
      BY DEF Health
    <3> QED
      BY <2>1, <3>1
  <2>3. DiscoveryScore <= 16 * Possible
    BY <2>0, UnlistedNodeCosts
  <2>4. DiscoveryScore \in Int /\ Possible \in Nat
    BY <2>0, ScoresInRange, CountPairs
  <2> QED
    BY <2>2, <2>3, <2>4
<1> QED
  BY <1>1, HarnessInvHolds, PTL
=============================================================================
