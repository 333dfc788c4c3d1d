SPECIFICATION NodeSpec
CONSTANTS
  Payload = {d1, d2}
  NoData = NoData
  MaxPackets = 2
  MaxRefs = 1
  libname = libname
  Name <- MCName
  Undefined = Undefined
  Unset = Unset
  lib = lib
  Classifier = {lib}
  Knows <- MCKnows
  MaxTypes = 65
  router = router
  drop = drop
  eot = eot
  Tracer = {router, drop}
  Layer <- MCLayer
  Event <- MCEvent
  HasTarget = {router}
  NamTracer = {router, drop}
  Scripted = {drop}
  Smac = FALSE
  Header <- MCHeader
  PacketTracer = {lib}
  Formats <- MCFormats
  InitialEnergy = 3
  Level1 = 3
  Level2 = 2
SYMMETRY PayloadSymmetry
INVARIANTS DataPacketFollowsClassifiers
CHECK_DEADLOCK FALSE
