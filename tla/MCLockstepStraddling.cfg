SPECIFICATION Spec
CONSTANTS
    XLEN = 8
    LINE_N = 2
    N_REGS = 3
    INITIAL_PC = 16
    FLASH_START = 16
    FLASH_END = 40
    MEM_START = 64
    MEM_END = 88
    UART_START = 4
    UART_END = 15
    UartReset <- MCUartReset
    is_memcmp = TRUE
    MinDelay = 2
    MaxDelay = 3
    Fields <- StraddlingFields
    Programs <- StraddlingPrograms
    Following <- Itself
    RegNums = {0, 1, 2, 17}
    MaxTests = 2
INVARIANT SameAtStart
CHECK_DEADLOCK FALSE
