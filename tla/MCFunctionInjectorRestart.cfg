CONSTANTS
  s1 = s1
  s2 = s2
  f1 = f1
  Sources = {s1, s2}
  Functions = {f1}
  FileName <- TwoNames
  MaxEdits = 2
  MaxLoads = 3
  MaxRestarts = 1
SPECIFICATION Spec
INVARIANT Swapped
CHECK_DEADLOCK FALSE
