SPECIFICATION FairSpec
CONSTANTS
  Timeout = 5
  MaxReserve = 1
  IntakeLimit = 7
  Work = {h1, h2}
INVARIANTS
  TypeOK
  ExitsInBudget
PROPERTIES
  ShutdownEnds
  ImplementsStop
CHECK_DEADLOCK FALSE
