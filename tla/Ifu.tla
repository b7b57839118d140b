--------------------------------- MODULE Ifu ---------------------------------
(***************************************************************************)
(* soc/ifu.sv: the instruction fetch unit, which owns the instruction      *)
(* cache.  Inputs:                                                         *)
(*     in == [reqValid, pc, io_respValid, io_rdata]                        *)
(* reqValid and pc come from the CPU top, the io_ signals from the bus.    *)
(***************************************************************************)
EXTENDS Naturals

CONSTANTS LINE_N, WordAddr, Word,
          NoInst        \* the word 32'b0 that inst carries when nothing is fetched

VARIABLES ifu_state, lines, writeValid

Icache == INSTANCE Icache

ifu_states == {"IFU_IDLE", "IFU_WAIT_ICACHE", "IFU_WAIT_IO", "IFU_WRITE_ICACHE"}

TypeOK == ifu_state \in ifu_states /\ Icache!TypeOK

-----------------------------------------------------------------------------
(* Combinational part.                                                     *)

\* The answer of the bus is awaited and there: it is passed on and written to
\* the cache in the same cycle.
Filling(in) == ifu_state = "IFU_WAIT_IO" /\ in.io_respValid

IcacheIn(in) ==
    [ reqValid |-> (ifu_state = "IFU_IDLE" /\ in.reqValid) \/ Filling(in),
      wen      |-> Filling(in),
      addr     |-> in.pc \div 4,
      wdata    |-> in.io_rdata ]

\* The states in which the cache's answer decides between a hit and a request
\* on the bus.
LookingUp(in) == \/ ifu_state = "IFU_IDLE" /\ in.reqValid
                 \/ ifu_state = "IFU_WAIT_ICACHE"

Hit(in)  == LookingUp(in) /\ Icache!RespValid(IcacheIn(in)) /\ Icache!IsHit(IcacheIn(in))
Miss(in) == LookingUp(in) /\ Icache!RespValid(IcacheIn(in)) /\ ~Icache!IsHit(IcacheIn(in))

respValid(in)   == Hit(in) \/ Filling(in)
io_reqValid(in) == Miss(in)
io_addr(in)     == in.pc
inst(in) == IF Hit(in) THEN Icache!Rdata(IcacheIn(in))
            ELSE IF Filling(in) THEN in.io_rdata ELSE NoInst

next_state(in) ==
    CASE Hit(in) \/ Filling(in) -> "IFU_IDLE"
      [] Miss(in)               -> "IFU_WAIT_IO"
      [] LookingUp(in) /\ ~Hit(in) /\ ~Miss(in) -> "IFU_WAIT_ICACHE"
      [] ifu_state = "IFU_WRITE_ICACHE" /\ Icache!RespValid(IcacheIn(in)) -> "IFU_IDLE"
      [] OTHER -> ifu_state

-----------------------------------------------------------------------------
(* Registers.                                                              *)

\* Plausible bug: the bus answer does not enable the state register.
AdvancesOnRequestOnly(in) == in.reqValid \/ Icache!RespValid(IcacheIn(in))

Advances(in) == in.reqValid \/ in.io_respValid \/ Icache!RespValid(IcacheIn(in))

Clock(in) == /\ ifu_state' = IF Advances(in) THEN next_state(in) ELSE ifu_state
             /\ Icache!Clock(IcacheIn(in))

Reset == ifu_state' = "IFU_IDLE" /\ Icache!Reset

Init == ifu_state = "IFU_IDLE" /\ Icache!Init
=============================================================================
