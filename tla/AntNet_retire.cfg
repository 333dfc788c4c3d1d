\* The bounds on launches and starts let a behaviour end.
SPECIFICATION FairSpec
CONSTANTS
  Node = {0, 1, 2, 3}
  NumNodes = 5
  SetupNbr <- PawNbr
  LateLinks = {}
  MaxNumNodes = 3
  RNum = 1
  RDen = 2
  MaxQueue = 1
  MaxLaunch = 1
  MaxStarts = 1
  MaxDegree = 3
  MaxClock = 0
INVARIANT MemoryBounded
PROPERTY AntsRetire
CHECK_DEADLOCK FALSE
