SPECIFICATION Spec
CONSTANTS
  MaxDepth = 3
  MaxUnits = 5
  MaxRefs = 6
  MaxSize = 7
  Code = {"code", "lookalike"}
INVARIANTS
  FallsThrough
CHECK_DEADLOCK FALSE
