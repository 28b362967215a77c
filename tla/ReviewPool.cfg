CONSTANTS
  a = a
  b = b
  ann = ann
  bob = bob
  Instance = {a}
  Review = {1, 2, 3}
  Owner = {ann, bob}
  OwnerOf <- TwoOwners
  Token = {11, 12, 13, 14}
  None = None
  MaxRenewals = 0
  Concurrency = 1
  PerOwnerLimit = 1
  GlobalLimit = 3
  Cancellable = {}
  MaxMishaps = 0
SPECIFICATION Spec
INVARIANTS
  QueuesAccounted
PROPERTIES
  TurnsRotate
