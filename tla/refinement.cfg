SPECIFICATION Spec
CONSTANTS
  Regs <- ThreeRegs
  Reserved <- Scratch
  Values <- MCValues
  Immediates = {1}
  UnaryOp <- MCUnaryOp
  BinaryOp <- MCBinaryOp
  ParamRegs <- Dx
  MaxHeight = 4
  NumLocals = 1
  NumParams = 1
  MaxParams = 2
  RAX = 0
  RCX = 1
  RDX = 2
  ScratchGP = 10
  FirstFunction = FALSE
  HasTable = FALSE
  MaxMemory = 0
VIEW View
INVARIANTS
  TypeOK
  CountsExact
  AssertsHold
  ReservedStayFree
  FrameCoversSlots
PROPERTIES
  ImplementsWasm
