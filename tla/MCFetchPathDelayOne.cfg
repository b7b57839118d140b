SPECIFICATION FairSpec
CONSTANTS
  LINE_N = 2
  NWords = 5
  Word <- MCWord
  NoInst = 0
  Flash <- MCFlash
  Pc <- MCPc
  InitialPc = 0
  MinDelay = 1
  MaxDelay = 2
PROPERTY FetchAnswered
