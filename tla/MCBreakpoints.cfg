CONSTANTS
  Word = 4
  LastAddr = 10
  Insns = {0, 1, 5, 7}
  Sites = {1, 5, 7}
SPECIFICATION FairSpec
INVARIANTS
  TypeOK
  TextExact
  NeverMidInsn
  CleanQuit
PROPERTIES
  NoneMissed
  RestartReturns
  Rearmed
  StopAnswered
  ImplementsTransparent
CHECK_DEADLOCK FALSE
