---------------------------------- MODULE Rf ----------------------------------
(***************************************************************************)
(* soc/rf.sv: the register file of RV32E.  Register numbers have five bits *)
(* but only the first REG_NUM registers exist; the others, and register 0, *)
(* read as zero and ignore writes.                                         *)
(***************************************************************************)
EXTENDS Naturals

CONSTANTS REG_NUM, Word

VARIABLES regs

TypeOK == regs \in [0..REG_NUM-1 -> Word]

Read(rs) == IF rs = 0 \/ rs >= REG_NUM THEN 0 ELSE regs[rs]

Clock(wen, rd, wdata) ==
    regs' = IF wen /\ rd # 0 /\ rd < REG_NUM
            THEN [regs EXCEPT ![rd] = wdata] ELSE regs

Reset == regs' = [r \in 0..REG_NUM-1 |-> 0]

Init == regs = [r \in 0..REG_NUM-1 |-> 0]
=============================================================================
