\* The bound on packets lets a behaviour end, and a failed attach does.
SPECIFICATION QueueSpec
CONSTANTS
  Limits = {1, 3}
  PreferRouting = TRUE
  MeanPktSize = 2
  Size = {1, 3}
  Hop = {a, b}
  MaxPackets = 4
  a = a
  b = b
SYMMETRY HopSymmetry
INVARIANTS QueueTypeOK NoneWaitsForIdleLink OthersStayInOrder
  AntsFirst EachPacketOnce FilterLoopRemovesAll
PROPERTIES GrowsBelowLimit AntsOustOthers GrowsWithinBytes
CHECK_DEADLOCK FALSE
