--------------------------------- MODULE Idu ---------------------------------
(***************************************************************************)
(* soc/idu.sv: the instruction decoder.  It registers the fetched word for *)
(* as long as the instruction lasts and decodes it combinationally; the    *)
(* decoding of a word is the constant operator Decode.                     *)
(***************************************************************************)
EXTENDS Naturals

CONSTANTS Word, AluOp, ComOp, RegNum, Decode(_)

VARIABLES inst, idu_respValid

types == {"INST_EBREAK", "INST_CSR", "INST_CSRI", "INST_LOAD", "INST_STORE",
          "INST_BRANCH", "INST_JUMPR", "INST_JUMP", "INST_REG", "INST_IMM",
          "INST_AUIPC", "INST_UPP",
          "INST_SYSTEM_OTHER",      \* 6'b101100, which the source gives no name
          "INST_UNDEFINED"}         \* any other type without a name

\* The decoder's outputs.  size and sign are the low bits of the instruction
\* type, which matter for loads and stores.
Decoded == [type : types, rd : RegNum, rs1 : RegNum, rs2 : RegNum, imm : Word,
            alu_op : AluOp, com_op : ComOp,
            size : {"LSU_BYTE", "LSU_HALF", "LSU_WORD", "LSU_EXTA"}, sign : BOOLEAN]

TypeOK == inst \in Word /\ idu_respValid \in BOOLEAN

\* Plausible bug: the valid bit is set and never cleared.
ClockSticky(reqValid, inst_in) ==
    /\ inst' = IF reqValid THEN inst_in ELSE inst
    /\ idu_respValid' = (reqValid \/ idu_respValid)

Clock(reqValid, inst_in) ==
    /\ inst' = IF reqValid THEN inst_in ELSE inst
    /\ idu_respValid' = reqValid

\* The reset branch of the register block is empty.
Reset == UNCHANGED <<inst, idu_respValid>>

\* Before the first reset the registers hold the simulator's zeros.
Init == inst = 0 /\ idu_respValid = FALSE
=============================================================================
