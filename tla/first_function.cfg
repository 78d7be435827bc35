SPECIFICATION Spec
CONSTANTS
  Regs <- WithCalleeSaved
  Reserved <- CalleeSaved
  Values = {0}
  Immediates = {0}
  UnaryOp <- OneUnaryOp
  BinaryOp <- OneBinaryOp
  ParamRegs <- DxCx
  MaxHeight = 4
  NumLocals = 1
  NumParams = 1
  MaxParams = 2
  RAX = 0
  RCX = 1
  RDX = 2
  ScratchGP = 10
  FirstFunction = TRUE
  HasTable = FALSE
  MaxMemory = 0
INVARIANTS
  ReservedStayFree
