SPECIFICATION Spec
CONSTANTS
  Regs <- ThreeRegs
  Reserved <- Scratch
  Values = {0}
  Immediates = {0}
  UnaryOp <- OneUnaryOp
  BinaryOp <- OneBinaryOp
  ParamRegs <- DxCx
  MaxHeight = 5
  NumLocals = 2
  NumParams = 2
  MaxParams = 2
  RAX = 0
  RCX = 1
  RDX = 2
  ScratchGP = 10
  FirstFunction = FALSE
  HasTable = FALSE
  MaxMemory = 0
VIEW View
INVARIANTS
  TypeOK
  CountsExact
  AssertsHold
  ReservedStayFree
  FrameCoversSlots
