\* The bounds on launches and starts let a behaviour end.
SPECIFICATION Spec
CONSTANTS
  Node = {0, 1}
  NumNodes = 2
  SetupNbr <- PairNbr
  LateLinks = {}
  MaxNumNodes = 2
  RNum = 1
  RDen = 2
  MaxQueue = 1
  MaxLaunch = 1
  MaxStarts = 2
  MaxDegree = 3
  MaxClock = 0
INVARIANT PheromoneNormalised
CHECK_DEADLOCK FALSE
