CONSTANTS
  s1 = s1
  s2 = s2
  s3 = s3
  t1 = t1
  t2 = t2
  Scan = {s1, s2, s3}
  RepoOf <- OneRepository
  Token = {t1, t2}
  None = None
  FullProgress = 1
SPECIFICATION StoreSpec
SYMMETRY Symmetry
INVARIANTS
  StoreTypeOK
  OneActivePerRepository
  RowsStayCoherent
  BaselineIsNewestPrevious
PROPERTIES
  TerminalIsFinal
  ProgressNeverFallsBack
  SupersededForGood
  ImplementsSlots
