SPECIFICATION Spec
CONSTANTS
  u1 = u1
  a1 = a1
  s1 = s1
  Users = {u1}
  Apps = {a1}
  Sessions = {s1}
  Owner <- MCOwner
  CodesPerLogin = 1
  Requests = {r1}
  Groups = {g1, g2}
  Txns = {t1, t2}
  MaxTxns = 2
SYMMETRY Symmetry
PROPERTIES
  DeleteRevokesLosers
CHECK_DEADLOCK FALSE
