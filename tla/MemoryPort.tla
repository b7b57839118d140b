------------------------------ MODULE MemoryPort ------------------------------
(***************************************************************************)
(* What the memory side of the CPU promises the instruction that uses it:  *)
(* a byte-addressed memory whose operations, of one, two or four bytes at  *)
(* any address, happen one at a time.  A store may take effect in several  *)
(* steps, but all its bytes and no others are written when it finishes; a  *)
(* load gives the bytes of memory, extended to a word.                     *)
(***************************************************************************)
EXTENDS Integers

CONSTANTS Byte, ZeroByte, OnesByte, NegByte, MemEnd, Op, InitMem, NoOp

VARIABLES mem, op, busy, result

vars == <<mem, op, busy, result>>

Bytes(o) == CASE o.data_size = "LSU_BYTE" -> 1
              [] o.data_size = "LSU_HALF" -> 2
              [] o.data_size = "LSU_WORD" -> 4

Touched(o) == {o.addr + k : k \in 0..Bytes(o) - 1}

Stored(m, o, S) == [a \in 0..MemEnd-1 |-> IF a \in S THEN o.wdata[a - o.addr] ELSE m[a]]

Loaded(m, o) ==
    LET top == m[o.addr + Bytes(o) - 1]
        ext == IF o.is_mem_sign /\ top \in NegByte THEN OnesByte ELSE ZeroByte
    IN  [k \in 0..3 |-> IF k < Bytes(o) THEN m[o.addr + k] ELSE ext]

Init == /\ mem = InitMem
        /\ op = NoOp
        /\ busy = FALSE
        /\ result = [k \in 0..3 |-> ZeroByte]

Issue == /\ ~busy
         /\ busy' = TRUE
         /\ op' \in Op
         /\ UNCHANGED <<mem, result>>

StoreSome == /\ busy /\ op.is_write
             /\ \E S \in SUBSET Touched(op) : mem' = Stored(mem, op, S)
             /\ UNCHANGED <<op, busy, result>>

FinishStore == /\ busy /\ op.is_write
               /\ mem = Stored(mem, op, Touched(op))
               /\ busy' = FALSE
               /\ UNCHANGED <<mem, op, result>>

FinishLoad == /\ busy /\ ~op.is_write
              /\ busy' = FALSE
              /\ result' = Loaded(mem, op)
              /\ UNCHANGED <<mem, op>>

Next == Issue \/ StoreSome \/ FinishStore \/ FinishLoad

Spec == Init /\ [][Next]_vars
=============================================================================
