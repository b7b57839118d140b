--------------------------------- MODULE Gold ---------------------------------
(***************************************************************************)
(* soc/gcpu.cpp: the golden model, an interpreter of RV32E that executes   *)
(* one instruction at a time.  The field record of a word,                 *)
(*     Fields(w) == [opcode, funct3, sub, rd, rs1, rs2, imm],              *)
(* has the immediate in the format of its opcode (Encoding checks how the  *)
(* bits are gathered).  Registers of the UART are read through vuart, which *)
(* shows those of the CPU's bus; what is written there is the CPU's affair. *)
(***************************************************************************)
EXTENDS Words

CONSTANTS N_REGS, INITIAL_PC, FLASH_START, FLASH_END, MEM_START, MEM_END,
          UART_START, UART_END, Fields(_)

VARIABLES pc, regs, mem, flash, ebreak, is_not_mapped, is_mem_write, written_address,
          vuart         \* what the registers of the UART hold

\* The registers of the UART that can be read: dl, ier, iir, lcr, lsr, msr.
UartRegs == {0, 1, 2, 3, 5, 6}

TypeOK == /\ pc \in AllWords
          /\ regs \in [0..N_REGS-1 -> AllWords]
          /\ mem \in [MEM_START..MEM_END-1 -> AllBytes]
          /\ flash \in [FLASH_START..FLASH_END-1 -> AllBytes]
          /\ ebreak \in BOOLEAN
          /\ is_not_mapped \in BOOLEAN
          /\ is_mem_write \in BOOLEAN
          /\ written_address \in AllWords
          /\ vuart \in [UartRegs -> AllBytes]

-----------------------------------------------------------------------------
(* Memory.                                                                 *)

InFlash(addr) == FLASH_START <= addr /\ addr < FLASH_END - 3
InMem(addr)   == MEM_START <= addr /\ addr < MEM_END - 3
InUart(addr)  == UART_START <= addr /\ addr < UART_END

InUartRegs(addr)  == addr - UART_START \in UartRegs
ReadMapped(addr)  == InFlash(addr) \/ InMem(addr) \/ InUartRegs(addr)
WriteMapped(addr) == InMem(addr) \/ InUart(addr)

g_mem_read(addr) ==
    CASE InFlash(addr) -> Joined([lane \in 0..3 |-> flash[addr + lane]])
      [] InMem(addr)   -> Joined([lane \in 0..3 |-> mem[addr + lane]])
      [] InUartRegs(addr) -> Joined([lane \in 0..3 |-> vuart[addr - UART_START]])
      [] OTHER         -> 0

g_mem_write(wen, wbmask, addr, wdata) ==
    /\ is_mem_write' = wen
    /\ written_address' = IF wen THEN addr ELSE written_address
    /\ mem' = [a \in DOMAIN mem |-> IF wen /\ InMem(addr) /\ a - addr \in wbmask
                                    THEN Split(wdata)[a - addr] ELSE mem[a]]

-----------------------------------------------------------------------------
(* Arithmetic.                                                             *)

\* -2^(XLEN-1) shifted by 0: the source negates INT_MIN, which a build without
\* overflow checks wraps around.
sra32(u, shift) ==
    IF shift = 0 THEN u
    ELSE (u \div Pow2[shift]) + IF u >= Pow2[XLEN - 1] THEN Modulus - Pow2[XLEN - shift] ELSE 0

slt(a, b) == Signed(a) < Signed(b)

alu_eval(op, lhs, rhs) ==
    LET shamt == rhs % XLEN
    IN  CASE op = 0  -> (lhs + rhs) % Modulus           \* ALU_OP_ADD
          [] op = 8  -> (lhs - rhs) % Modulus           \* ALU_OP_SUB
          [] op = 4  -> Xor(lhs, rhs)                   \* ALU_OP_XOR
          [] op = 7  -> And(lhs, rhs)                   \* ALU_OP_AND
          [] op = 6  -> Or(lhs, rhs)                    \* ALU_OP_OR
          [] op = 1  -> (lhs * Pow2[shamt]) % Modulus       \* ALU_OP_SLL
          [] op = 5  -> lhs \div Pow2[shamt]                \* ALU_OP_SRL
          [] op = 13 -> sra32(lhs, shamt)               \* ALU_OP_SRA
          [] op = 2  -> Truth(slt(lhs, rhs))            \* ALU_OP_SLT
          [] op = 3  -> Truth(lhs < rhs)                \* ALU_OP_SLTU
          [] OTHER   -> 0

compare(op, lhs, rhs) ==
    CASE op = 0 -> lhs = rhs            \* COM_OP_EQ
      [] op = 1 -> lhs # rhs            \* COM_OP_NE
      [] op = 4 -> slt(lhs, rhs)        \* COM_OP_LT
      [] op = 5 -> ~slt(lhs, rhs)       \* COM_OP_GE
      [] op = 6 -> lhs < rhs            \* COM_OP_LTU
      [] op = 7 -> lhs >= rhs           \* COM_OP_GEU
      [] OTHER  -> FALSE

-----------------------------------------------------------------------------
(* The decoder.                                                            *)

load_type(funct3) == CASE funct3 \in {0, 4} -> "INST_LOAD_BYTE"
                       [] funct3 \in {1, 5} -> "INST_LOAD_HALF"
                       [] funct3 = 2        -> "INST_LOAD_WORD"
                       [] OTHER             -> "INST_UNDEFINED"

inst_type(f) == CASE f.opcode = "OPCODE_CALC_IMM" -> "INST_IMM"
                  [] f.opcode = "OPCODE_CALC_REG" -> "INST_REG"
                  [] f.opcode = "OPCODE_LOAD"     -> load_type(f.funct3)
                  [] f.opcode = "OPCODE_STORE"    -> "INST_STORE"
                  [] f.opcode = "OPCODE_LUI"      -> "INST_UPP"
                  [] f.opcode = "OPCODE_AUIPC"    -> "INST_AUIPC"
                  [] f.opcode = "OPCODE_JALR"     -> "INST_JUMPR"
                  [] f.opcode = "OPCODE_JAL"      -> "INST_JUMP"
                  [] f.opcode = "OPCODE_BRANCH"   -> "INST_BRANCH"
                  [] OTHER                        -> "INST_UNDEFINED"

mem_wbmask(f) == CASE f.opcode # "OPCODE_STORE" -> {}
                   [] f.funct3 = 0 -> {0}
                   [] f.funct3 = 1 -> {0, 1}
                   [] f.funct3 = 2 -> 0..3
                   [] OTHER -> {}

alu_op(f) == LET alternative == f.sub /\ \/ f.funct3 = 5
                                         \/ f.funct3 = 0 /\ f.opcode = "OPCODE_CALC_REG"
             IN  IF f.opcode \in {"OPCODE_CALC_IMM", "OPCODE_CALC_REG"}
                 THEN f.funct3 + (IF alternative THEN 8 ELSE 0) ELSE 0

\* The system opcode is not implemented, but bit 20 of such a word says ebreak.
decode(f) == [inst_type   |-> inst_type(f),
              imm         |-> IF f.opcode \in {"OPCODE_CALC_REG", "OPCODE_SYSTEM"} THEN 0 ELSE f.imm,
              alu_op      |-> alu_op(f),
              com_op      |-> IF f.opcode = "OPCODE_BRANCH" THEN f.funct3 ELSE 0,
              mem_wbmask  |-> mem_wbmask(f),
              is_mem_sign |-> f.funct3 < 4,
              ebreak      |-> f.opcode = "OPCODE_SYSTEM" /\ f.imm % 2 = 1]

-----------------------------------------------------------------------------
(* One instruction.                                                        *)

rf_read(rs) == IF rs < N_REGS THEN regs[rs] ELSE 0

rf_write(wen, rd, wdata) ==
    regs' = IF wen /\ rd # 0 /\ rd < N_REGS THEN [regs EXCEPT ![rd] = wdata] ELSE regs

loads == {"INST_LOAD_BYTE", "INST_LOAD_HALF", "INST_LOAD_WORD"}

alu_lhs(dec, rdata1) ==
    IF dec.inst_type \in {"INST_JUMP", "INST_AUIPC", "INST_BRANCH"} THEN pc ELSE rdata1

\* Plausible bug: a store, whose second source is a register, takes it for its
\* address.
alu_rhsRegister(dec, rdata2) == CASE dec.inst_type \in {"INST_REG", "INST_STORE"} -> rdata2
                                  [] dec.inst_type = "INST_UPP" -> 0
                                  [] OTHER                      -> dec.imm

alu_rhs(dec, rdata2) == CASE dec.inst_type = "INST_REG" -> rdata2
                          [] dec.inst_type = "INST_UPP" -> 0
                          [] OTHER                      -> dec.imm

reg_wdata(dec, alu_res) ==
    CASE dec.inst_type = "INST_LOAD_BYTE" -> Extended(g_mem_read(alu_res), 1, dec.is_mem_sign)
      [] dec.inst_type = "INST_LOAD_HALF" -> Extended(g_mem_read(alu_res), 2, dec.is_mem_sign)
      [] dec.inst_type = "INST_LOAD_WORD" -> g_mem_read(alu_res)
      [] dec.inst_type = "INST_UPP" -> dec.imm
      [] dec.inst_type \in {"INST_JUMP", "INST_JUMPR"} -> (pc + 4) % Modulus
      [] OTHER -> alu_res

\* What makes an instruction one the model does not answer for.
Unmapped(dec, alu_res) ==
    \/ ~ReadMapped(pc - (pc % 4))
    \/ dec.inst_type = "INST_UNDEFINED"
    \/ dec.inst_type \in loads \cup {"INST_STORE"} /\ ~ReadMapped(alu_res)
    \/ dec.inst_type = "INST_STORE" /\ ~WriteMapped(alu_res)

cpu_eval ==
    LET f       == Fields(g_mem_read(pc - (pc % 4)))
        dec     == decode(f)
        rdata1  == rf_read(f.rs1)
        rdata2  == rf_read(f.rs2)
        alu_res == alu_eval(dec.alu_op, alu_lhs(dec, rdata1), alu_rhs(dec, rdata2))
        pc_jump == \/ dec.inst_type \in {"INST_JUMP", "INST_JUMPR"}
                   \/ dec.inst_type = "INST_BRANCH" /\ compare(dec.com_op, rdata1, rdata2)
        reg_wen == dec.inst_type \notin {"INST_STORE", "INST_BRANCH", "INST_UNDEFINED"}
    IN  /\ rf_write(reg_wen, f.rd, reg_wdata(dec, alu_res))
        /\ g_mem_write(dec.inst_type = "INST_STORE", dec.mem_wbmask, alu_res, rdata2)
        /\ pc' = IF pc_jump THEN alu_res ELSE (pc + 4) % Modulus
        /\ is_not_mapped' = (is_not_mapped \/ Unmapped(dec, alu_res))
        /\ ebreak' = dec.ebreak
        /\ UNCHANGED flash

\* Plausible bug: the memset that is commented out at gcpu.cpp:122.
g_resetClearing == /\ pc' = INITIAL_PC
                   /\ regs' = [r \in 0..N_REGS-1 |-> 0]
                   /\ ebreak' = FALSE
                   /\ is_not_mapped' = FALSE
                   /\ is_mem_write' = FALSE
                   /\ written_address' = 0
                   /\ mem' = [a \in DOMAIN mem |-> 0]

\* g_reset: the RAM keeps what it holds; the flash is left to g_flash_init.
g_reset == /\ pc' = INITIAL_PC
           /\ regs' = [r \in 0..N_REGS-1 |-> 0]
           /\ ebreak' = FALSE
           /\ is_not_mapped' = FALSE
           /\ is_mem_write' = FALSE
           /\ written_address' = 0
           /\ UNCHANGED mem

Init == /\ pc = INITIAL_PC
        /\ regs = [r \in 0..N_REGS-1 |-> 0]
        /\ mem = [a \in MEM_START..MEM_END-1 |-> 0]
        /\ ebreak = FALSE
        /\ is_not_mapped = FALSE
        /\ is_mem_write = FALSE
        /\ written_address = 0
=============================================================================
