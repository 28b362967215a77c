CONSTANTS
  a = a
  b = b
  ann = ann
  bob = bob
  Instance = {a, b}
  Review = {1}
  Owner = {ann, bob}
  OwnerOf <- OneOwner
  Token = {11, 12, 13, 14}
  None = None
  MaxRenewals = 1
  Concurrency = 1
  PerOwnerLimit = 1
  GlobalLimit = 1
  Cancellable = {1}
  MaxMishaps = 2
SPECIFICATION Spec
SYMMETRY Symmetry
INVARIANTS
  OneRunPerReview
  OverlayWithCompletion
  AnswersHold
PROPERTIES
  EndedForGood
