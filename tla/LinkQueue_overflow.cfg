\* The bound on packets lets a behaviour end, and a failed attach does.
SPECIFICATION QueueSpec
CONSTANTS
  Limits = {3}
  PreferRouting = FALSE
  MeanPktSize = 2
  Size = {1, 3}
  Hop = {a}
  MaxPackets = 6
  a = a
PROPERTY BytesWithinLimit
CHECK_DEADLOCK FALSE
