SPECIFICATION Spec
CONSTANTS
  Regs <- TwoRegs
  Reserved <- Scratch
  Values = {0}
  Immediates = {0}
  UnaryOp <- OneUnaryOp
  BinaryOp <- OneBinaryOp
  ParamRegs <- Cx
  MaxHeight = 3
  NumLocals = 1
  NumParams = 1
  MaxParams = 0
  RAX = 0
  RCX = 1
  RDX = 1
  ScratchGP = 10
  FirstFunction = FALSE
  HasTable = FALSE
  MaxMemory = 0
  Arity = 1
  MaxDepth = 2
  UnreachableInElse = TRUE
  CodeAfterDeadBlock = FALSE
INVARIANTS
  AssertsHold
CHECK_DEADLOCK FALSE
