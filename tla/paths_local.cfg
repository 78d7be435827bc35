SPECIFICATION Spec
CONSTANTS
  Regs <- TwoRegs
  Reserved <- Scratch
  Values <- MCValues
  Immediates = {1}
  UnaryOp <- MCUnaryOp
  BinaryOp <- MCBinaryOp
  ParamRegs <- Cx
  MaxHeight = 2
  NumLocals = 1
  NumParams = 1
  MaxParams = 0
  RAX = 0
  RCX = 1
  RDX = 1
  ScratchGP = 10
  FirstFunction = FALSE
  HasTable = FALSE
  MaxMemory = 0
  Arity = 1
  MaxDepth = 2
  UnreachableInElse = FALSE
  CodeAfterDeadBlock = FALSE
VIEW View
PROPERTIES
  ImplementsWasm
CHECK_DEADLOCK FALSE
