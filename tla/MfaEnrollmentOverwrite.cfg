SPECIFICATION Spec
CONSTANTS
  e1 = e1
  e2 = e2
  c1 = c1
  c2 = c2
  Enrollments = {e1, e2}
  Confirmations = {c1, c2}
  MaxAttempts = 2
  MaxSecrets = 3
  MaxExpiries = 2
SYMMETRY Symmetry
PROPERTIES
  NeverOverwritten
CHECK_DEADLOCK FALSE
