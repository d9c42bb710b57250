CONSTANTS
  Clients = {"demo1", "ddb"}
  RestartAtStop = {TRUE, FALSE}
  PathFits = TRUE
  MaxInjections = 3
SPECIFICATION FairSpec
INVARIANTS
  TypeOK
  Restored
  PtraceNeverFails
  AppMemoryIntact
  StubInPlace
  CallsAsIntended
  OneSkewedCall
  SuccessMeansSwapped
  DanglingReported
  OneReference
PROPERTIES
  PatchOnlyLoaded
  InjectionEnds
  ImplementsHotSwap
CHECK_DEADLOCK FALSE
