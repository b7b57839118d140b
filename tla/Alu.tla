--------------------------------- MODULE Alu ---------------------------------
(***************************************************************************)
(* soc/alu.sv and soc/com.sv: the arithmetic and the comparisons of the    *)
(* CPU, on words of XLEN bits (32 in the source) seen as natural numbers.  *)
(* Operation codes are the numbers of alu_defines.vh and com_defines.vh.   *)
(***************************************************************************)
EXTENDS Words

ALU_OP_ADD  == 0
ALU_OP_SLL  == 1
ALU_OP_SLT  == 2
ALU_OP_SLTU == 3
ALU_OP_XOR  == 4
ALU_OP_SRL  == 5
ALU_OP_OR   == 6
ALU_OP_AND  == 7
ALU_OP_SUB  == 8
ALU_OP_LHS  == 10
ALU_OP_RHS  == 11
ALU_OP_SRA  == 13
ALU_OP_ANDN == 15

COM_OP_EQ  == 0
COM_OP_NE  == 1
COM_OP_ONE == 2
COM_OP_LT  == 4
COM_OP_GE  == 5
COM_OP_LTU == 6
COM_OP_GEU == 7

-----------------------------------------------------------------------------
shamt(rhs) == rhs % XLEN

shift_right_signed(lhs, rhs) == (Signed(lhs) \div Pow2[shamt(rhs)]) % Modulus

alu(op, lhs, rhs) ==
    CASE op = ALU_OP_ADD  -> (lhs + rhs) % Modulus
      [] op = ALU_OP_SUB  -> (lhs - rhs) % Modulus
      [] op = ALU_OP_XOR  -> Xor(lhs, rhs)
      [] op = ALU_OP_AND  -> And(lhs, rhs)
      [] op = ALU_OP_ANDN -> And(lhs, Not(rhs))
      [] op = ALU_OP_OR   -> Or(lhs, rhs)
      [] op = ALU_OP_SLL  -> (lhs * Pow2[shamt(rhs)]) % Modulus
      [] op = ALU_OP_SRL  -> lhs \div Pow2[shamt(rhs)]
      [] op = ALU_OP_SRA  -> shift_right_signed(lhs, rhs)
      [] op = ALU_OP_SLT  -> Truth(Signed(lhs) < Signed(rhs))
      [] op = ALU_OP_SLTU -> Truth(lhs < rhs)
      [] op = ALU_OP_LHS  -> lhs
      [] op = ALU_OP_RHS  -> rhs
      [] OTHER            -> 0

com(op, lhs, rhs) ==
    CASE op = COM_OP_EQ  -> lhs = rhs
      [] op = COM_OP_NE  -> lhs # rhs
      [] op = COM_OP_LT  -> Signed(lhs) < Signed(rhs)
      [] op = COM_OP_GE  -> Signed(lhs) >= Signed(rhs)
      [] op = COM_OP_LTU -> lhs < rhs
      [] op = COM_OP_GEU -> lhs >= rhs
      [] op = COM_OP_ONE -> TRUE
      [] OTHER           -> FALSE
=============================================================================
