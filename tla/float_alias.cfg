SPECIFICATION MCSpec
CONSTANTS
  Regs <- MCRegs
  Reserved = {}
  Values <- MCValues
  MaxHeight = 6
  SourceHeight = 3
  Float = TRUE
INVARIANTS
  AssertsHold
CHECK_DEADLOCK FALSE
