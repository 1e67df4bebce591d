------------------------- MODULE MCCentralSessions --------------------------
\* CentralSessions on a small instance, for TLC.
EXTENDS CentralSessions, TLC

CONSTANTS s1, s2, c1, l1, l2, t1, t2

MCSessions == {s1, s2}
MCLogins == {l1, l2}
MCTxns == {t1, t2}

\* At most two requests are in flight at a time.
InFlight ==
  Cardinality({l \in Logins : login[l] # NoLogin}
              \cup {t \in Txns : txn[t] # NoTxn}) <= 2

Symmetry ==
  Permutations(MCSessions) \cup Permutations(MCLogins) \cup Permutations(MCTxns)
=============================================================================
