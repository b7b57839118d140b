SPECIFICATION MainFairSpec
CONSTANTS
    Lines <- VcpuLines
    Numbers <- MCNumbers
    Letters <- MCLetters
    Files <- MCFiles
    N_REGS = 2
    Minstrets = 16
PROPERTY TestEnds

\* The test program terminates.
CHECK_DEADLOCK FALSE
