SPECIFICATION Spec
CONSTANTS
  NumEvents = 1
  BatchSize = 1
  PolicyEvents = {}
  Apps = {a1, a2, a3}
  Configured = {a1, a2}
  Handlers = {h1, h2}
  MaxRetries = 2
  Largest = 15
  MaxFaults = 1
  a1 = a1
  a2 = a2
  a3 = a3
  h1 = h1
  h2 = h2
SYMMETRY Symmetry
INVARIANTS
  AckMeansApplied
  RetryBudget
  DeadLetterEarned
  BackoffIsCapped
PROPERTIES
  KeepsPromise
\* The system rests when every event is resolved and the faults are spent.
CHECK_DEADLOCK FALSE
