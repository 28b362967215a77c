CONSTANTS
  a = a
  b = b
  Instance = {a, b}
  Scan = {1}
  RepoOf <- OneRepository
  Token = {11, 12, 13, 14, 15, 16, 17, 18}
  None = None
  FullProgress = 1
  QueueBound = 1
  FaultyCalls = {"create", "claim", "claimNext", "renew", "update", "complete", "fail"}
  MaxMishaps = 2
  ClaimClockLag = TRUE
SPECIFICATION Spec
SYMMETRY Symmetry
INVARIANTS
  TypeOK
  ClaimsAreExclusive
PROPERTIES
  SettledByItsHolder
  ImplementsStore
CHECK_DEADLOCK FALSE
