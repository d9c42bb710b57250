CONSTANTS
  Callee <- Program
  Main = "main"
  Shapes <- TwoShapes
  MaxDepth = 3
  MaxLoads = 2
SPECIFICATION Spec
INVARIANTS
  TypeOK
  
  TextMatches
PROPERTY RestartsSelected
CHECK_DEADLOCK FALSE
