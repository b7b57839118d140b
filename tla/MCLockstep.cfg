SPECIFICATION FairSpec
CONSTANTS
    XLEN = 8
    LINE_N = 2
    N_REGS = 3
    INITIAL_PC = 16
    FLASH_START = 16
    FLASH_END = 40
    MEM_START = 64
    MEM_END = 88
    UART_START = 4
    UART_END = 15
    UartReset <- MCUartReset
    is_memcmp = FALSE
    MinDelay = 2
    MaxDelay = 4
    Fields <- MCFields
    Programs <- MCPrograms
    Following <- MCFollowing
    RegNums = {0, 1, 2, 17}
    MaxTests = 2
INVARIANTS TypeOK Ordinary Agree SameAtStart QuickSeesTheStore NoFalseAlarm PrintedOnce
PROPERTY TestsEnd

\* The last test may have ended.
CHECK_DEADLOCK FALSE
