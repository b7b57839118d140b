SPECIFICATION Spec
CONSTANTS
    Imm12 <- MCImm12
    Imm20 <- MCImm20
    Regs <- MCRegs
    MaxInsts = 1
INVARIANTS DecodersAgree DecodedAsAsked ListingReassembles

\* The program is complete after MaxInsts words.
CHECK_DEADLOCK FALSE
