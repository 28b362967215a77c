CONSTANTS
  f1 = f1
  f2 = f2
  f3 = f3
  d1 = d1
  d2 = d2
  main = main
  dev = dev
  c1 = c1
  c2 = c2
  i1 = i1
  i2 = i2
  i3 = i3
  None = None
  Branch <- TwoBranches
  Commit <- TwoCommits
  Item <- ThreeItems
  ItemsOf <- SmallAndLarge
  SizeOf <- Sizes
  MaxFiles = 2
  MaxBytes = 3
  MaxMoves = 2
  File <- ThreeFiles
  Directory <- TwoDirectories
  DirectoryOf <- OneApart
  MaxEdits = 2
  Analyzers = 2
  MaxFaults = 2
SPECIFICATION FairSpec
CHECK_DEADLOCK FALSE
INVARIANTS
  TypeOK
  SuccessIsSound
PROPERTIES
  StoredInOrder
  EveryAnalysisEnds
