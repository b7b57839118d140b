SPECIFICATION MainSpec
CONSTANTS
    Lines <- BinGoldLines
    Numbers <- MCNumbers
    Letters <- MCLetters
    Files <- MCFiles
    N_REGS = 2
    Minstrets = 16
INVARIANT CorrectPasses

\* The test program terminates.
CHECK_DEADLOCK FALSE
