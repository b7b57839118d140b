-------------------------------- MODULE MCPerf --------------------------------
(***************************************************************************)
(* Three-bit words, so that the cycle counter soon needs its upper half;   *)
(* two words of code and two cache lines.                                  *)
(***************************************************************************)
EXTENDS Perf

MCByte == {0, 1}
MCToLanes(w) == [lane \in 0..3 |-> IF lane < 3 THEN (w \div 2^lane) % 2 ELSE 0]
MCFromLanes(l) == l[0] + 2*l[1] + 4*l[2]

MCAluOp == {"ALU_OP_ADD"}
MCComOp == {"COM_OP_EQ", "COM_OP_ONE"}
MCAlu(op, a, b) == (a + b) % 8
MCCom(op, a, b) == op = "COM_OP_ONE" \/ a = b

Plain == [type |-> "INST_UNDEFINED", rd |-> 0, rs1 |-> 0, rs2 |-> 0, imm |-> 0,
          alu_op |-> "ALU_OP_ADD", com_op |-> "COM_OP_ONE",
          size |-> "LSU_BYTE", sign |-> TRUE]

MCDecode(w) ==
    CASE w = 1 -> \* lh x0, 3(x0): takes two parts
                  [Plain EXCEPT !.type = "INST_LOAD", !.imm = 3, !.size = "LSU_HALF"]
      [] w = 2 -> \* sb x1, 0(x0)
                  [Plain EXCEPT !.type = "INST_STORE", !.rs2 = 1]
      [] w = 3 -> \* beq x1, x0, 0
                  [Plain EXCEPT !.type = "INST_BRANCH", !.rs1 = 1, !.com_op = "COM_OP_EQ"]
      [] w = 4 -> \* jalr x0, 0(x0)
                  [Plain EXCEPT !.type = "INST_JUMPR"]
      [] w = 5 -> \* csrr x1, mcycle
                  [Plain EXCEPT !.type = "INST_CSR", !.rd = 1, !.imm = 1]
      [] w = 6 -> \* csrr x1, mcycleh
                  [Plain EXCEPT !.type = "INST_CSRI", !.rd = 1, !.imm = 2]
      [] w = 7 -> [Plain EXCEPT !.type = "INST_EBREAK"]
      [] OTHER -> Plain

MCIfuBus == 0..7
MCLsuBus == {MCToLanes(0)}
=============================================================================
