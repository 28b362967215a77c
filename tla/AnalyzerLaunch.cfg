CONSTANTS
  l1 = l1
  l2 = l2
  l3 = l3
  Launch <- ThreeLaunches
  MaxFaults = 2
SPECIFICATION FairSpec
CHECK_DEADLOCK FALSE
INVARIANTS
  TypeOK
  OneAnalyzer
  AdmissionAccounted
  NothingLeftBehind
PROPERTIES
  EveryLaunchEnds
