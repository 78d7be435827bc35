SPECIFICATION Spec
CONSTANTS
  Regs <- FiveRegs
  Reserved <- Scratch
  Values <- MCValues
  Immediates = {1}
  UnaryOp <- MCUnaryOp
  BinaryOp <- MCBinaryOp
  ParamRegs <- DxCx
  MaxHeight = 3
  NumLocals = 1
  NumParams = 1
  MaxParams = 2
  RAX = 0
  RCX = 1
  RDX = 2
  ScratchGP = 10
  FirstFunction = FALSE
  HasTable = TRUE
  MaxMemory = 0
VIEW View
INVARIANTS
  AssertsHold
PROPERTIES
  ImplementsWasm
