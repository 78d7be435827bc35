SPECIFICATION Spec
CONSTANTS
  UnitSize = 4
  PageSize = 8
  TotalUnits = 16
  Adjust = 5
  Threshold = 8
  Sizes = {1, 4, 7, 8, 13}
INVARIANTS
  TypeOK
  SearchInRegion
  Exclusive
  HalvesApart
PROPERTIES
  SearchEnds
CHECK_DEADLOCK FALSE
