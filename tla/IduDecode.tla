------------------------------ MODULE IduDecode ------------------------------
(***************************************************************************)
(* The decoder proper of soc/idu.sv, on an instruction given by its fields *)
(*     f == [opcode, funct3, sub, rd, rs1, rs2, imm]                       *)
(* where sub is inst[30] and imm the immediate in the format of the        *)
(* opcode (how its bits are gathered is the subject of Encoding).        *)
(***************************************************************************)
EXTENDS Naturals

opcodes == {"OPCODE_LUI", "OPCODE_AUIPC", "OPCODE_JAL", "OPCODE_JALR", "OPCODE_BRANCH",
            "OPCODE_LOAD", "OPCODE_STORE", "OPCODE_CALC_IMM", "OPCODE_CALC_REG",
            "OPCODE_SYSTEM"}

FUNCT3_ADD == 0
FUNCT3_SR  == 5

size(f) == CASE f.funct3 % 4 = 0 -> "LSU_BYTE"
             [] f.funct3 % 4 = 1 -> "LSU_HALF"
             [] f.funct3 % 4 = 2 -> "LSU_WORD"
             [] f.funct3 % 4 = 3 -> "LSU_EXTA"

sign(f) == f.funct3 < 4

\* 6'b101100 has no name in inst_defines.vh; it writes a register, like the rest
\* of the system instructions.
system_type(f) == CASE f.funct3 = 0      -> "INST_EBREAK"
                    [] f.funct3 \in 1..3 -> "INST_CSR"
                    [] f.funct3 = 4      -> "INST_SYSTEM_OTHER"
                    [] f.funct3 \in 5..7 -> "INST_CSRI"

inst_type(f) == CASE f.opcode = "OPCODE_CALC_IMM" -> "INST_IMM"
                  [] f.opcode = "OPCODE_CALC_REG" -> "INST_REG"
                  [] f.opcode = "OPCODE_LOAD"     -> "INST_LOAD"
                  [] f.opcode = "OPCODE_STORE"    -> "INST_STORE"
                  [] f.opcode = "OPCODE_LUI"      -> "INST_UPP"
                  [] f.opcode = "OPCODE_AUIPC"    -> "INST_AUIPC"
                  [] f.opcode = "OPCODE_JAL"      -> "INST_JUMP"
                  [] f.opcode = "OPCODE_JALR"     -> "INST_JUMPR"
                  [] f.opcode = "OPCODE_BRANCH"   -> "INST_BRANCH"
                  [] f.opcode = "OPCODE_SYSTEM"   -> system_type(f)
                  [] OTHER                        -> "INST_UNDEFINED"

\* Plausible bug: bit 30 of an addi is taken for that of a sub.
alternativeAlways(f) == f.sub /\ f.funct3 \in {FUNCT3_ADD, FUNCT3_SR}

\* The operations that bit 30 tells apart: srl/sra, and add/sub of registers.
alternative(f) ==
    /\ f.sub
    /\ \/ f.funct3 = FUNCT3_SR
       \/ f.funct3 = FUNCT3_ADD /\ f.opcode = "OPCODE_CALC_REG"

alu_op(f) ==
    CASE f.opcode \in {"OPCODE_CALC_IMM", "OPCODE_CALC_REG"} ->
            f.funct3 + IF alternative(f) THEN 8 ELSE 0
      [] f.opcode = "OPCODE_LUI" -> 11                      \* ALU_OP_RHS
      [] f.opcode = "OPCODE_SYSTEM" ->
            2 + 4 * ((f.funct3 \div 2) % 2) + 8 * (f.funct3 % 2)
      [] OTHER -> 0                                         \* ALU_OP_ADD

com_op(f) == IF f.opcode = "OPCODE_BRANCH" THEN f.funct3 ELSE 2     \* COM_OP_ONE

imm(f) == IF f.opcode \in opcodes \ {"OPCODE_CALC_REG"} THEN f.imm ELSE 0

decode(f) == [type |-> inst_type(f), rd |-> f.rd, rs1 |-> f.rs1, rs2 |-> f.rs2,
              imm |-> imm(f), alu_op |-> alu_op(f), com_op |-> com_op(f),
              size |-> size(f), sign |-> sign(f)]
=============================================================================
