CONSTANTS
  Clients = {"demo1", "ddb"}
  RestartAtStop = {TRUE, FALSE}
  PathFits = TRUE
  MaxInjections = 2
SPECIFICATION Spec
INVARIANT BufferFreed
CHECK_DEADLOCK FALSE
