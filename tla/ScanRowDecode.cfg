CONSTANTS
  a = a
  b = b
  Instance = {a}
  Scan = {1}
  RepoOf <- OneRepository
  Token = {11, 12, 13, 14, 15, 16, 17, 18}
  None = None
  FullProgress = 1
  QueueBound = 1
  FaultyCalls = {}
  MaxMishaps = 0
  ClaimClockLag = TRUE
SPECIFICATION Spec
INVARIANT EveryRowDecodes
