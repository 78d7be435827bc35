SPECIFICATION MCSpec
CONSTANTS
  Regs <- MCRegs
  Reserved = {}
  Values <- MCValues
  MaxHeight = 6
  SourceHeight = 3
  Float = FALSE
INVARIANTS
  TypeOK
  Simultaneous
  AssertsHold
PROPERTIES
  Completes
CHECK_DEADLOCK FALSE
