--------------------------------- MODULE Exu ---------------------------------
(***************************************************************************)
(* soc/exu.sv: the execution unit, which decides when an instruction       *)
(* retires and what it computes.  Inputs:                                  *)
(*   in == [reqValid, dec, pc, rdata1, rdata2, csr_rdata,                  *)
(*          lsu_respValid, lsu_rdata]                                      *)
(* where dec is the decoded instruction (Idu!Decoded) and the data are     *)
(* words.  alu.sv and com.sv are the constant operators Alu and Com.       *)
(***************************************************************************)
EXTENDS Naturals

CONSTANTS WordSize, Alu(_, _, _), Com(_, _, _)

VARIABLES exu_state

exu_states == {"EXU_START", "EXU_RESET", "EXU_EXECUTE", "EXU_STALL_IDU", "EXU_STALL_LSU"}

TypeOK == exu_state \in exu_states

-----------------------------------------------------------------------------
(* Control.                                                                *)

is_lsu_inst(dec) == dec.type \in {"INST_LOAD", "INST_STORE"}

Takes(in) == in.reqValid /\ exu_state \in {"EXU_START", "EXU_STALL_IDU", "EXU_EXECUTE"}

\* Plausible bug: a memory instruction retires without waiting for the LSU.
lsu_or_execAtOnce(in) == "EXU_EXECUTE"

lsu_or_exec(in) == IF is_lsu_inst(in.dec) /\ ~in.lsu_respValid
                   THEN "EXU_STALL_LSU" ELSE "EXU_EXECUTE"

next_state(in) ==
    CASE exu_state = "EXU_RESET" -> "EXU_START"
      [] Takes(in) -> lsu_or_exec(in)
      [] exu_state = "EXU_STALL_LSU" ->
            IF in.lsu_respValid THEN "EXU_EXECUTE" ELSE "EXU_STALL_LSU"
      [] OTHER -> "EXU_STALL_IDU"

\* The instruction retires in this cycle.
respValid(in) == next_state(in) = "EXU_EXECUTE"

-----------------------------------------------------------------------------
(* Data.                                                                   *)

\* Plausible bug: the carry out of the program counter is kept.
pc_incKeepingCarry(in) == in.pc + 4

pc_inc(in) == (in.pc + 4) % WordSize

alu_lhs(in) == IF in.dec.type \in {"INST_JUMP", "INST_AUIPC", "INST_BRANCH"}
               THEN in.pc ELSE in.rdata1

alu_rhs(in) == IF in.dec.type = "INST_REG" THEN in.rdata2 ELSE in.dec.imm

alu_res(in) == Alu(in.dec.alu_op, alu_lhs(in), alu_rhs(in))

com_res(in) == Com(in.dec.com_op, in.rdata1, in.rdata2)

is_pc_jump(in) == \/ in.dec.type \in {"INST_JUMP", "INST_JUMPR"}
                  \/ in.dec.type = "INST_BRANCH" /\ com_res(in)

pc_next(in) == IF is_pc_jump(in) THEN alu_res(in) ELSE pc_inc(in)

\* Bit 3 of the instruction type.
writes_register(dec) ==
    dec.type \in {"INST_LOAD", "INST_REG", "INST_IMM", "INST_UPP", "INST_AUIPC",
                  "INST_JUMP", "INST_JUMPR", "INST_EBREAK", "INST_CSR", "INST_CSRI",
                  "INST_SYSTEM_OTHER"}

\* Plausible bug: the register is written in every cycle of the instruction.
rf_wenUngated(in) == writes_register(in.dec)

rf_wen(in) == writes_register(in.dec) /\ respValid(in)

\* The load types the source names: LB, LH, LW, LBU, LHU.
is_named_load(dec) == /\ dec.type = "INST_LOAD"
                      /\ \/ dec.size \in {"LSU_BYTE", "LSU_HALF"}
                         \/ dec.size = "LSU_WORD" /\ dec.sign

rf_wdata(in) ==
    CASE in.dec.type \in {"INST_JUMP", "INST_JUMPR"} -> pc_inc(in)
      [] in.dec.type \in {"INST_UPP", "INST_AUIPC", "INST_REG", "INST_IMM"} -> alu_res(in)
      [] in.dec.type \in {"INST_CSR", "INST_CSRI"} -> in.csr_rdata
      [] is_named_load(in.dec) -> in.lsu_rdata
      [] OTHER -> 0

-----------------------------------------------------------------------------
Clock(in) == exu_state' = next_state(in)

Reset == exu_state' = "EXU_RESET"

Init == exu_state = "EXU_RESET"
=============================================================================
