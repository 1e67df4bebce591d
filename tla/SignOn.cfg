SPECIFICATION Spec
CONSTANTS
  u1 = u1
  a1 = a1
  Users = {u1}
  Apps = {a1}
  Sessions = {s1}
  Owner <- MCOwner
  CodesPerLogin = 2
  Requests = {f1, f2}
  FlowApp <- MCFlowApp
SYMMETRY Symmetry
INVARIANTS
  TypeOK
  StrayWasExposed
  NoSecondRevocation
CHECK_DEADLOCK FALSE
