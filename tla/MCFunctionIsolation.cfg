CONSTANTS
  Items <- MCItems
  MaxItems = 3
  Containing = {"f", "f2", "f_x"}
  Refused = {"f_x"}
SPECIFICATION Spec
INVARIANTS
  TypeOK
  IsolatesTarget
  TracksDepth
  OutputInOrder
  Undisturbed
PROPERTIES
  ComesCloser
  IsolationEnds
CHECK_DEADLOCK FALSE
