------------------------------ MODULE FetchPort ------------------------------
(***************************************************************************)
(* What the fetch side of the CPU promises: a request for the instruction  *)
(* at pc is answered, once, with the word the flash holds there.           *)
(***************************************************************************)
EXTENDS Naturals

CONSTANTS Pc, InitialPc, Word, NoInst, Flash   \* Flash \in [word addresses -> Word]

VARIABLES pc, fetching, inst

vars == <<pc, fetching, inst>>

Init == pc = InitialPc /\ fetching = FALSE /\ inst = NoInst

Fetch == /\ ~fetching
         /\ fetching' = TRUE
         /\ pc' \in Pc
         /\ UNCHANGED inst

Answer == /\ fetching
          /\ fetching' = FALSE
          /\ inst' = Flash[pc \div 4]
          /\ UNCHANGED pc

Next == Fetch \/ Answer

Spec == Init /\ [][Next]_vars
=============================================================================
