\* The bounds on launches and starts let a behaviour end.
SPECIFICATION Spec
CONSTANTS
  Node = {0, 1, 2, 3, 4}
  NumNodes = 5
  SetupNbr <- BullNbr
  LateLinks = {}
  MaxNumNodes = 5
  RNum = 1
  RDen = 2
  MaxQueue = 1
  MaxLaunch = 1
  MaxStarts = 1
  MaxDegree = 3
  MaxClock = 2
INVARIANTS MemoryIsLoopErasure TripTimesMeasureHops
  BackwardRetracesMemory HopsFollowLinks DirectAntsGetHome
CHECK_DEADLOCK FALSE
