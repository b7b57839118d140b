SPECIFICATION MainFairSpec
CONSTANTS
    Lines <- MCLines
    Numbers <- MCNumbers
    Letters <- MCLetters
    Files <- MCFiles
    N_REGS = 2
    Minstrets = 16
INVARIANTS MainTypeOK PassedMeansAgreed CorrectPassesMapped CheckMeansA0 PassedInTime ReadAsWritten RandomAsAsked ExitMeansPassed
PROPERTY Exits

\* The test program terminates.
CHECK_DEADLOCK FALSE
