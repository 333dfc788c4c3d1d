SPECIFICATION TrafficSpec
CONSTANTS
  Dest = {d1, d2}
  VarNum = 1
  VarDen = 2
  C1 = 7
  C2 = 3
  CDen = 10
  Zee = 2
  TripTime = {0, 1, 3}
  Deviation = {1, 2}
  MaxSamples = 4
INVARIANTS TrafficTypeOK MeanBetweenSamples ReinforcementInUnit
CHECK_DEADLOCK FALSE
