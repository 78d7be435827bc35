SPECIFICATION Spec
CONSTANTS
  Refs = {"memory", "global"}
  MaxDepth = 3
INVARIANTS
  AccessRight
