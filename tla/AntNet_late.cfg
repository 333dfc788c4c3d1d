\* The bounds on launches and starts let a behaviour end.
SPECIFICATION Spec
CONSTANTS
  Node = {0, 1, 2}
  NumNodes = 3
  SetupNbr <- SplitNbr
  LateLinks <- JoiningLinks
  MaxNumNodes = 3
  RNum = 1
  RDen = 2
  MaxQueue = 1
  MaxLaunch = 1
  MaxStarts = 2
  MaxDegree = 2
  MaxClock = 0
INVARIANTS TypeOK PheromoneInUnit EveryLinkStaysSelectable
CHECK_DEADLOCK FALSE
