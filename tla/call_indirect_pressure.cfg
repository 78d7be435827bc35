SPECIFICATION Spec
CONSTANTS
  Regs <- FourRegs
  Reserved <- Scratch
  Values = {0}
  Immediates = {0}
  UnaryOp <- OneUnaryOp
  BinaryOp <- OneBinaryOp
  ParamRegs <- DxCx
  MaxHeight = 5
  NumLocals = 1
  NumParams = 1
  MaxParams = 1
  RAX = 0
  RCX = 1
  RDX = 2
  ScratchGP = 10
  FirstFunction = FALSE
  HasTable = TRUE
  MaxMemory = 0
INVARIANTS
  AssertsHold
