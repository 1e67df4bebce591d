--------------------------- MODULE MCAccessPolicy ---------------------------
EXTENDS AccessPolicy, TLC

CONSTANTS u1, a1, s1

MCOwner == s1 :> u1

Symmetry == Permutations(Groups) \cup Permutations(Txns)
              \cup Permutations(Requests)
=============================================================================
