SPECIFICATION FairSpec
CONSTANTS
  NumEvents = 1
  BatchSize = 1
  PolicyEvents = {1}
  Apps = {a1}
  Configured = {a1}
  Handlers = {h1, h2}
  MaxRetries = 2
  Largest = 15
  MaxFaults = 3
  a1 = a1
  h1 = h1
  h2 = h2
INVARIANTS
  NoEventLost
  CopiesConserved
  SentWithinFaults
  AppliedOnce
  RetryBudget
PROPERTIES
  TerminalKept
  EventReachesApps
  QueueEmpties
  EventuallyResolved
\* The system rests when every event is resolved and the faults are spent.
CHECK_DEADLOCK FALSE
