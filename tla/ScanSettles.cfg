CONSTANTS
  a = a
  b = b
  Instance = {a}
  Scan = {1, 2}
  RepoOf <- TwoRepositories
  Token = {11, 12, 13, 14, 15, 16, 17, 18}
  None = None
  FullProgress = 1
  QueueBound = 1
  FaultyCalls = {"create", "claimNext", "renew", "update", "complete", "fail"}
  MaxMishaps = 1
  ClaimClockLag = FALSE
SPECIFICATION FairSpec
INVARIANTS
  AdmissionsAccounted
PROPERTIES
  EveryScanSettles
  EverySlotReturns
