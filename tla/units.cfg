SPECIFICATION Spec
CONSTANTS
  MaxDepth = 3
  MaxUnits = 6
  MaxRefs = 6
  MaxSize = 6
  Code = {"code", "lookalike"}
INVARIANTS
  TypeOK
  AssertsHold
  JumpsArrive
  UnitsChained
  GraphAgrees
  UnitsTile
  UnitsOccupied
  EntriesPatchTheirJumps
CHECK_DEADLOCK FALSE
