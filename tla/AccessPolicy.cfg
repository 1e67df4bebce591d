SPECIFICATION Spec
CONSTANTS
  u1 = u1
  a1 = a1
  s1 = s1
  Users = {u1}
  Apps = {a1}
  Sessions = {s1}
  Owner <- MCOwner
  CodesPerLogin = 2
  Requests = {r1, r2}
  Groups = {g1, g2}
  Txns = {t1, t2}
  MaxTxns = 2
SYMMETRY Symmetry
INVARIANTS
  TypeOK
  CodeRedeemedOnce
PROPERTIES
  LosersRevoked
  OnlyLosersRevoked
CHECK_DEADLOCK FALSE
