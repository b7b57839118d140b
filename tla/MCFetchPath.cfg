SPECIFICATION FairSpec
CONSTANTS
  LINE_N = 2
  NWords = 5
  Word <- MCWord
  NoInst = 0
  Flash <- MCFlash
  Pc <- MCPc
  InitialPc = 0
  MinDelay = 2
  MaxDelay = 5
INVARIANTS TypeOK CacheCoherent AnswerIsForPc
PROPERTIES FetchPortSafe FetchAnswered
