CONSTANTS
  j1 = j1
  j2 = j2
  j3 = j3
  w1 = w1
  w2 = w2
  NoJob = NoJob
  Jobs = {j1, j2, j3}
  Workers = {w1, w2}
  Priority <- MCPriority
  MaxRetries <- MCMaxRetries
  Serves <- MCServes
  MaxMishaps = 1
  MaxManualRetries = 1
SPECIFICATION MCSpec
INVARIANTS
  ExclusiveClaim
  RunBudget
PROPERTIES
  FinishedIsFinal
  ImplementsLease
  EveryJobEnds
CHECK_DEADLOCK FALSE
