CONSTANTS
  Word = 4
  LastAddr = 10
  Insns = {0, 1, 5, 7}
  Sites = {1, 5, 7}
SPECIFICATION Spec
PROPERTIES
  RestartsAtCall
CHECK_DEADLOCK FALSE
