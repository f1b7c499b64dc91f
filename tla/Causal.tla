-------------------------------- MODULE Causal --------------------------------
(***************************************************************************)
(* The causal index (tools/ledger/src/causal.ts) over what a ledger holds: *)
(* edges from a parent to the events that name it, and between successive  *)
(* events of one node, and of one run.                                     *)
(***************************************************************************)
EXTENDS Ledger, FiniteSets

\* sort by logical_time is stable: ties stay in the order of the file.
Position(e) == CHOOSE k \in 1..Len(lines) : lines[k] = e

\* [mutant] sorted the other way round
Before_Descending(e, f) ==
    \/ e.logical_time > f.logical_time
    \/ e.logical_time = f.logical_time /\ Position(e) < Position(f)

Before(e, f) ==
    \/ e.logical_time < f.logical_time
    \/ e.logical_time = f.logical_time /\ Position(e) < Position(f)

\* f comes right after e once the events in S are sorted.
Successive(S, e, f) ==
    /\ e \in S /\ f \in S
    /\ Before(e, f)
    /\ \A g \in S : ~(Before(e, g) /\ Before(g, f))

OfNode(node) == {e \in Events : e.content.node = node}
OfRun(run) == {e \in Events : e.content.run = run}

ExplicitEdges == {p \in Events \X Events : p[2].parent_id = p[1].id}

SameNodeEdges ==
    {p \in Events \X Events :
        /\ p[1].content.node # None
        /\ Successive(OfNode(p[1].content.node), p[1], p[2])}

\* Only between the events of different tools.
SameRunEdges ==
    {p \in Events \X Events :
        /\ Successive(OfRun(p[1].content.run), p[1], p[2])
        /\ p[1].content.tool # p[2].content.tool}

\* buildCausalEdges
CausalEdges == ExplicitEdges \cup SameNodeEdges \cup SameRunEdges

\* "Builds a DAG of swarm reality" (causal.ts:2): every set of events has one
\* without a predecessor in it.
CausalDAG ==
    \A S \in SUBSET Events : S # {} =>
        \E e \in S : \A f \in S : <<f, e>> \notin CausalEdges
=============================================================================
