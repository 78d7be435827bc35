SPECIFICATION Spec
CONSTANTS
  Label = {far1, far2, near1}
  NearLabel = {near1}
  Int8Max = 6
  MaxCode = 16
  MaxJumps = 4
  Gaps = {3}
INVARIANTS
  TypeOK
  AssertsHold
  ListsExact
PROPERTIES
  ImplementsLabels
  BindEnds
CHECK_DEADLOCK FALSE
