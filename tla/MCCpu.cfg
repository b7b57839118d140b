SPECIFICATION Spec
CONSTANTS
  WordSize = 8
  REG_NUM = 2
  RegNum = {0, 1, 2}
  InitialPc = 0
  LINE_N = 2
  Byte <- MCByte
  ZeroByte = 0
  OnesByte = 1
  NegByte = {1}
  ToLanes <- MCToLanes
  FromLanes <- MCFromLanes
  AluOp <- MCAluOp
  ComOp <- MCComOp
  Alu <- MCAlu
  Com <- MCCom
  Decode <- MCDecode
  IfuBus <- MCIfuBus
  LsuBus <- MCLsuBus
  CsrBus = {4}
INVARIANTS TypeOK OneInFlight
PROPERTIES RequestsStay FollowsFlow
