SPECIFICATION NodeSpec
CONSTANTS
  Payload = {d1, d2}
  NoData = NoData
  MaxPackets = 2
  MaxRefs = 1
  libname = libname
  Name <- MCName
  Undefined = Undefined
  Unset = Unset
  lib = lib
  Classifier = {lib}
  Knows <- MCKnows
  MaxTypes = 65
  router = router
  drop = drop
  eot = eot
  Tracer = {router, drop}
  Layer <- MCLayer
  Event <- MCEvent
  HasTarget = {router}
  NamTracer = {router, drop}
  Scripted = {drop}
  Smac = FALSE
  Header <- MCHeader
  PacketTracer = {lib}
  Formats <- MCFormats
  InitialEnergy = 2
  Level1 = 2
  Level2 = 1
SYMMETRY PayloadSymmetry
INVARIANTS TraceTypeOK PoolTypeOK NamNeverStale StylesMixed FreeListSound HoldersCounted DataOwned
  TypesTypeOK NamesResolve
PROPERTIES RegisteredNamesStay KnownClassesStay
CHECK_DEADLOCK FALSE
