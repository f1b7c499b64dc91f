------------------------------- MODULE MCLedger -------------------------------
EXTENDS Causal, TLC

CONSTANTS n1, sim, ghost, ledger, run1

\* Two tools that report on one node, and the event that corrects another.
MCCorrection == [tool |-> ledger, node |-> None, run |-> run1]
MCContent ==
    {MCCorrection} \cup [tool : {sim, ghost}, node : {n1}, run : {run1}]

\* Ids are interchangeable, and so are the instances.
Symmetric == Permutations(EventId) \cup Permutations(Instance)
=============================================================================
