\* The bounds on launches and starts let a behaviour end.
SPECIFICATION Spec
CONSTANTS
  Node = {0, 1, 2}
  NumNodes = 3
  SetupNbr <- TriangleNbr
  LateLinks = {}
  MaxNumNodes = 3
  RNum = 1
  RDen = 1
  MaxQueue = 2
  MaxLaunch = 2
  MaxStarts = 2
  MaxDegree = 3
  MaxClock = 0
INVARIANTS MassCountsStarts NoImmediateBacktrack
CHECK_DEADLOCK FALSE
