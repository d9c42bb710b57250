CONSTANTS
  Clients = {"demo1"}
  RestartAtStop = {TRUE, FALSE}
  PathFits = TRUE
  MaxInjections = 2
SPECIFICATION Spec
INVARIANT RunningStackIntact
CHECK_DEADLOCK FALSE
