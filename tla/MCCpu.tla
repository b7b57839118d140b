-------------------------------- MODULE MCCpu --------------------------------
(***************************************************************************)
(* A CPU with three-bit words (bytes are single bits, the highest of them  *)
(* zero), two words of code, two cache lines and one register besides x0.  *)
(* Words of the program are numbers that Decode maps to a few              *)
(* instructions, one for every way through the units and the ebreak that   *)
(* ends a test.                                                            *)
(***************************************************************************)
EXTENDS Cpu

MCByte == {0, 1}
MCToLanes(w) == [lane \in 0..3 |-> IF lane < 3 THEN (w \div 2^lane) % 2 ELSE 0]
MCFromLanes(l) == l[0] + 2*l[1] + 4*l[2]

MCAluOp == {"ALU_OP_ADD"}
MCComOp == {"COM_OP_EQ", "COM_OP_ONE"}
MCAlu(op, a, b) == (a + b) % 8
MCCom(op, a, b) == op = "COM_OP_ONE" \/ a = b

Plain == [type |-> "INST_UNDEFINED", rd |-> 0, rs1 |-> 0, rs2 |-> 0, imm |-> 0,
          alu_op |-> "ALU_OP_ADD", com_op |-> "COM_OP_ONE",
          size |-> "LSU_BYTE", sign |-> TRUE]

MCDecode(w) ==
    CASE w = 1 -> \* lw x1, 1(x1): its own register moves its address
                  [Plain EXCEPT !.type = "INST_LOAD", !.rd = 1, !.rs1 = 1, !.imm = 1,
                                !.size = "LSU_WORD"]
      [] w = 2 -> \* sh x1, 3(x0)
                  [Plain EXCEPT !.type = "INST_STORE", !.rs2 = 1, !.imm = 3,
                                !.size = "LSU_HALF"]
      [] w = 3 -> \* beq x1, x0, 2
                  [Plain EXCEPT !.type = "INST_BRANCH", !.rs1 = 1, !.imm = 2,
                                !.com_op = "COM_OP_EQ"]
      [] w = 4 -> \* jalr x1, 0(x1)
                  [Plain EXCEPT !.type = "INST_JUMPR", !.rd = 1, !.rs1 = 1]
      [] w = 5 -> \* csrr x1
                  [Plain EXCEPT !.type = "INST_CSR", !.rd = 1]
      [] w = 6 -> \* lb x17, 0(x0): a register RV32E does not have
                  [Plain EXCEPT !.type = "INST_LOAD", !.rd = 2]
      [] w = 7 -> [Plain EXCEPT !.type = "INST_EBREAK"]
      [] OTHER -> Plain

MCIfuBus == 1..7
MCLsuBus == {MCToLanes(0), MCToLanes(7)}
=============================================================================
