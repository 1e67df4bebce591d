-------------------------- MODULE MCMfaEnrollment ---------------------------
\* MfaEnrollment on a small instance, for TLC.
EXTENDS MfaEnrollment, TLC

CONSTANTS e1, e2, c1, c2

MCEnrollments == {e1, e2}
MCConfirmations == {c1, c2}

Symmetry == Permutations(MCEnrollments) \cup Permutations(MCConfirmations)
=============================================================================
