CONSTANTS
  a = a
  b = b
  ann = ann
  bob = bob
  Instance = {a}
  Review = {1, 2}
  Owner = {ann, bob}
  OwnerOf <- OneOwner
  Token = {11, 12, 13, 14}
  None = None
  MaxRenewals = 0
  Concurrency = 2
  PerOwnerLimit = 1
  GlobalLimit = 1
  Cancellable = {1}
  MaxMishaps = 1
SPECIFICATION FairSpec
PROPERTIES
  EveryReviewEnds
INVARIANTS
  TypeOK
  WorkersAccounted
  QueuesAccounted
