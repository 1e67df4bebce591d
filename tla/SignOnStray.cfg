SPECIFICATION Spec
CONSTANTS
  u1 = u1
  a1 = a1
  Users = {u1}
  Apps = {a1}
  Sessions = {s1}
  Owner <- MCOwner
  CodesPerLogin = 1
  Requests = {f1}
  FlowApp <- MCFlowApp
INVARIANTS
  ClosedMeansSignedOut
CHECK_DEADLOCK FALSE
