\* The bounds on launches and starts let a behaviour end.
SPECIFICATION Spec
CONSTANTS
  Node = {0, 1, 2}
  NumNodes = 3
  SetupNbr <- LineNbr
  LateLinks = {}
  MaxNumNodes = 2
  RNum = 1
  RDen = 2
  MaxQueue = 1
  MaxLaunch = 1
  MaxStarts = 1
  MaxDegree = 3
  MaxClock = 0
INVARIANT OnlyLongPathsOverflow
CHECK_DEADLOCK FALSE
