------------------------------- MODULE Icache -------------------------------
(***************************************************************************)
(* soc/icache.sv: the direct-mapped instruction cache of the CPU.          *)
(*                                                                         *)
(* An address here is a WORD address (the input port is addr[31:2]), so    *)
(* that the index addr[m+n-1:m] is the remainder by the number of lines    *)
(* and the tag addr[31:m+n] the quotient.  The module is a synchronous     *)
(* circuit: the operators of an input record                               *)
(*     in == [reqValid, wen, addr, wdata]                                  *)
(* are its combinational outputs, Clock(in) is one rising clock edge and   *)
(* Reset the reset branch of its registers.                                *)
(***************************************************************************)
EXTENDS Naturals

CONSTANTS LINE_N,       \* number of lines, 2**n in the source
          WordAddr,     \* word addresses
          Word          \* contents of a memory word

VARIABLES lines,        \* the line registers
          writeValid    \* registered copy of wen: a write was done last cycle

Index(addr) == addr % LINE_N
Tag(addr) == addr \div LINE_N

Line == [valid : BOOLEAN, tag : {Tag(a) : a \in WordAddr}, data : Word]

TypeOK == /\ lines \in [0..LINE_N-1 -> Line]
          /\ writeValid \in BOOLEAN

-----------------------------------------------------------------------------
LineOf(addr) == lines[Index(addr)]

ReadValid(in) == in.reqValid /\ ~in.wen

\* Plausible bug: a line hits whatever the tag of the address asked for.
IsHitIgnoringTag(in) == ReadValid(in) /\ LineOf(in.addr).valid

IsHit(in) == /\ ReadValid(in)
             /\ LineOf(in.addr).valid
             /\ LineOf(in.addr).tag = Tag(in.addr)

RespValid(in) == writeValid \/ ReadValid(in)

Rdata(in) == LineOf(in.addr).data

\* Plausible bug: a refill keeps the tag of the line it replaces.
FilledKeepingTag(addr, wdata) ==
    [valid |-> TRUE, tag |-> LineOf(addr).tag, data |-> wdata]

Filled(addr, wdata) == [valid |-> TRUE, tag |-> Tag(addr), data |-> wdata]

Clock(in) ==
    /\ lines' = IF in.wen
                THEN [lines EXCEPT ![Index(in.addr)] = Filled(in.addr, in.wdata)]
                ELSE lines
    /\ writeValid' = in.wen

\* Only the valid bits and writeValid are reset; tags and data keep whatever
\* they held.
Reset ==
    /\ lines' = [i \in 0..LINE_N-1 |-> [lines[i] EXCEPT !.valid = FALSE]]
    /\ writeValid' = FALSE

\* The state the reset leaves.
Init == /\ lines \in [0..LINE_N-1 -> Line]
        /\ \A i \in 0..LINE_N-1 : ~lines[i].valid
        /\ writeValid = FALSE
=============================================================================
