CONSTANTS
  s1 = s1
  f1 = f1
  Sources = {s1}
  Functions = {f1}
  FileName <- OneName
  MaxEdits = 4
  MaxLoads = 4
  MaxRestarts = 0
  MaxClock = 3
SPECIFICATION WatchSpec
INVARIANT RunsWhatWasBuilt
PROPERTY EditsRun
CHECK_DEADLOCK FALSE
