SPECIFICATION Spec
CONSTANTS
  Regs <- TwoRegs
  Reserved <- Scratch
  Values <- MCValues
  Immediates = {1}
  UnaryOp <- MCUnaryOp
  BinaryOp <- MCBinaryOp
  ParamRegs <- Cx
  MaxHeight = 2
  NumLocals = 0
  NumParams = 0
  MaxParams = 0
  RAX = 0
  RCX = 1
  RDX = 1
  ScratchGP = 10
  FirstFunction = FALSE
  HasTable = FALSE
  MaxMemory = 0
  Arity = 0
  MaxDepth = 3
  UnreachableInElse = FALSE
  CodeAfterDeadBlock = FALSE
VIEW View
INVARIANTS
  AssertsHold
PROPERTIES
  ImplementsWasm
CHECK_DEADLOCK FALSE
