CONSTANTS
  Items <- MCItems
  MaxItems = 3
  Containing = {"f", "f2", "f_x"}
  Refused = {"f_x"}
SPECIFICATION Spec
INVARIANT NotFoundMeansAbsent
CHECK_DEADLOCK FALSE
