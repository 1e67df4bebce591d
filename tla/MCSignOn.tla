------------------------------ MODULE MCSignOn ------------------------------
EXTENDS SignOn, TLC

CONSTANTS u1, a1

MCOwner == [s \in Sessions |-> u1]
MCFlowApp == [f \in Flows |-> a1]

Symmetry == Permutations(Sessions) \cup Permutations(Flows)
=============================================================================
