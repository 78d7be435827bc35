SPECIFICATION Spec
CONSTANTS
  MaxDepth = 4
  MaxUnits = 7
  MaxRefs = 6
  MaxSize = 7
  Code = {"code"}
INVARIANTS
  LoopsEntered
CHECK_DEADLOCK FALSE
