CONSTANTS
  p1 = p1
  p2 = p2
  i1 = i1
  i2 = i2
  i3 = i3
  None = None
  Shipped = Shipped
  Publisher <- TwoPublishers
  Inode <- ThreeInodes
  MaxCrashes = 2
  MaxLosses = 1
SPECIFICATION FairSpec
CHECK_DEADLOCK FALSE
INVARIANTS
  TypeOK
  RuntimeSurvives
  ExchangedIsRecoverable
  EndedLeavesNoStage
PROPERTIES
  EveryScriptEnds
  PublishesInOneStep
