SPECIFICATION PerfSpec
CONSTANTS
  WordSize = 8
  REG_NUM = 2
  RegNum = {0, 1, 2}
  InitialPc = 0
  LINE_N = 2
  Byte <- MCByte
  ZeroByte = 0
  OnesByte = 1
  NegByte = {1}
  ToLanes <- MCToLanes
  FromLanes <- MCFromLanes
  AluOp <- MCAluOp
  ComOp <- MCComOp
  Alu <- MCAlu
  Com <- MCCom
  Decode <- MCDecode
  IfuBus <- MCIfuBus
  LsuBus <- MCLsuBus
  CsrBus <- MCIfuBus
  MCYCLE = 1
  MCYCLEH = 2
  MVENDORID = 3
  MARCHID = 4
  MVENDORID_VAL = 5
  MARCHID_VAL = 6
  CsrAddrs = 8
  MaxCycles = 9
INVARIANTS PerfTypeOK CyclesAgree CyclesAccounted InstructionsAccounted HitsAccounted
PROPERTIES EbreakFlagged CounterReadsCycles
\* The bound on the cycles.
CHECK_DEADLOCK FALSE
