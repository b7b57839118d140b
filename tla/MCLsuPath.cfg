SPECIFICATION FairSpec
CONSTANTS
  NWords = 3
  MemEnd = 8
  Byte <- MCByte
  ZeroByte = 0
  OnesByte = 1
  NegByte <- MCNegByte
  InitMem <- MCInitMem
  Op <- MCOp
  NoOp <- MCNoOp
  MinDelay = 0
  MaxDelay = 4
  MaxOps = 2
INVARIANTS TypeOK AnswerIsForPart
PROPERTIES MemoryPortSafe AccessEnds
