------------------------------ MODULE InstFlow ------------------------------
(***************************************************************************)
(* The instruction flow the CPU promises: one instruction at a time goes   *)
(* from fetch through decode, and through memory if it is a load or store, *)
(* and changes the program counter and at most its own destination         *)
(* register in the one step in which it retires and the next fetch begins. *)
(***************************************************************************)
EXTENDS Naturals

CONSTANTS WordSize, Word, REG_NUM, InitialPc, Alu(_, _, _), Com(_, _, _), Decode(_)

VARIABLES stage, pc, regs, inst

vars == <<stage, pc, regs, inst>>

dec == Decode(inst)

R(r) == IF r \in 1..REG_NUM-1 THEN regs[r] ELSE 0

UsesMemory == dec.type \in {"INST_LOAD", "INST_STORE"}

Init == /\ stage = "start"
        /\ pc = InitialPc
        /\ regs = [r \in 0..REG_NUM-1 |-> 0]
        /\ inst = 0

Start == stage = "start" /\ stage' = "fetch" /\ UNCHANGED <<pc, regs, inst>>

Fetched == /\ stage = "fetch"
           /\ stage' = "decode"
           /\ inst' \in Word
           /\ UNCHANGED <<pc, regs>>

ToMemory == /\ stage = "decode" /\ UsesMemory
            /\ stage' = "memory"
            /\ UNCHANGED <<pc, regs, inst>>

NextPc ==
    CASE dec.type = "INST_JUMP" -> Alu(dec.alu_op, pc, dec.imm)
      [] dec.type = "INST_JUMPR" -> Alu(dec.alu_op, R(dec.rs1), dec.imm)
      [] dec.type = "INST_BRANCH" /\ Com(dec.com_op, R(dec.rs1), R(dec.rs2)) ->
            Alu(dec.alu_op, pc, dec.imm)
      [] OTHER -> (pc + 4) % WordSize

HasResult == dec.type \notin {"INST_STORE", "INST_BRANCH", "INST_UNDEFINED"}

Retire == /\ stage \in {"decode", "memory"}
          /\ stage' = "fetch"
          /\ pc' = NextPc
          /\ \/ /\ HasResult /\ dec.rd \in 1..REG_NUM-1
                /\ \E v \in Word : regs' = [regs EXCEPT ![dec.rd] = v]
             \/ /\ ~(HasResult /\ dec.rd \in 1..REG_NUM-1)
                /\ UNCHANGED regs
          /\ UNCHANGED inst

\* The test bench resets the CPU between two instructions; one that has been
\* fetched by then is dropped.
Restart == /\ stage \in {"fetch", "decode"}
           /\ stage' = "start"
           /\ pc' = InitialPc
           /\ regs' = [r \in 0..REG_NUM-1 |-> 0]
           /\ UNCHANGED inst

Next == Start \/ Fetched \/ ToMemory \/ Retire \/ Restart

Spec == Init /\ [][Next]_vars
=============================================================================
