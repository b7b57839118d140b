--------------------------------- MODULE Lsu ---------------------------------
(***************************************************************************)
(* soc/lsu.sv: the load-store unit.  Inputs:                               *)
(*   in == [reqValid, is_write, wdata, addr, data_size, is_mem_sign,       *)
(*          io_respValid, io_rdata]                                        *)
(* A 32-bit word is a function from its four byte lanes to bytes.  A byte  *)
(* is opaque but for its sign: a byte of NegByte extends with OnesByte.    *)
(* The bus carries one aligned word at a time, so an access that crosses a *)
(* word boundary is made in two parts.                                     *)
(***************************************************************************)
EXTENDS Integers

CONSTANTS Byte, ZeroByte, OnesByte, NegByte,
          NWords                \* words of the address space, 2^30 in the source

Lanes    == 0..3
BusWord  == [Lanes -> Byte]
ByteAddr == 0..(4*NWords - 1)
Sizes    == {"LSU_BYTE", "LSU_HALF", "LSU_WORD", "LSU_EXTA"}

VARIABLES lsu_state,
          io_reqValid_q,    \* io_reqValid_d of the last cycle
          first_rdata_q     \* lanes 1..3 of the last word read

lsu_states == {"LSU_IDLE", "LSU_WAIT_ONE", "LSU_WAIT_MIS_ONE", "LSU_WAIT_MIS_TWO"}

TypeOK == /\ lsu_state \in lsu_states
          /\ io_reqValid_q \in BOOLEAN
          /\ first_rdata_q \in [1..3 -> Byte]

-----------------------------------------------------------------------------
(* Control.                                                                *)

addr_offset(in) == in.addr % 4

is_misalign(in) == \/ addr_offset(in) # 0 /\ in.data_size = "LSU_WORD"
                   \/ addr_offset(in) = 3 /\ in.data_size = "LSU_HALF"

Starts(in) == lsu_state = "LSU_IDLE" /\ in.reqValid

FirstPartDone(in) == lsu_state = "LSU_WAIT_MIS_ONE" /\ in.io_respValid

is_second_part(in) == lsu_state = "LSU_WAIT_MIS_TWO" \/ FirstPartDone(in)

\* Plausible bug: the second part is never asked for.
io_reqValid_dFirstOnly(in) == Starts(in)

io_reqValid_d(in) == Starts(in) \/ FirstPartDone(in)

io_reqValid(in) == io_reqValid_d(in) \/ io_reqValid_q

respValid(in) ==
    /\ in.io_respValid
    /\ \/ Starts(in) /\ ~is_misalign(in)
       \/ lsu_state \in {"LSU_WAIT_ONE", "LSU_WAIT_MIS_TWO"}

next_state(in) ==
    CASE Starts(in) /\ in.io_respValid ->
           IF is_misalign(in) THEN "LSU_WAIT_MIS_TWO" ELSE "LSU_IDLE"
      [] Starts(in) /\ ~in.io_respValid ->
           IF is_misalign(in) THEN "LSU_WAIT_MIS_ONE" ELSE "LSU_WAIT_ONE"
      [] FirstPartDone(in) -> "LSU_WAIT_MIS_TWO"
      [] respValid(in) /\ ~Starts(in) -> "LSU_IDLE"
      [] OTHER -> lsu_state

-----------------------------------------------------------------------------
(* The request put on the bus.                                             *)

NextWord(addr) == 4 * ((addr \div 4 + 1) % NWords)

io_addr(in) == IF is_second_part(in) THEN NextWord(in.addr) ELSE in.addr

io_wdata(in) == [lane \in Lanes |-> in.wdata[(lane - addr_offset(in)) % 4]]

FirstMask(off, size) ==
    CASE size = "LSU_BYTE" -> {off}
      [] size = "LSU_HALF" -> {lane \in Lanes : off <= lane /\ lane <= off + 1}
      [] size = "LSU_WORD" -> {lane \in Lanes : off <= lane}
      [] size = "LSU_EXTA" -> Lanes

\* Plausible bug: the second part of a word writes one lane too many.
SecondMaskOneMore(off, size) ==
    CASE size = "LSU_HALF" -> {0}
      [] size = "LSU_WORD" -> {lane \in Lanes : lane <= off}
      [] OTHER -> FirstMask(off, size)

SecondMask(off, size) ==
    CASE size = "LSU_HALF" -> {0}
      [] size = "LSU_WORD" -> IF off = 0 THEN Lanes ELSE {lane \in Lanes : lane < off}
      [] OTHER -> FirstMask(off, size)

io_wmask(in) == IF is_second_part(in)
                THEN SecondMask(addr_offset(in), in.data_size)
                ELSE FirstMask(addr_offset(in), in.data_size)

Request(in) == [addr |-> io_addr(in), wdata |-> io_wdata(in),
                wmask |-> io_wmask(in), wen |-> in.is_write]

Requests == [addr : ByteAddr, wdata : BusWord, wmask : SUBSET Lanes, wen : BOOLEAN]

-----------------------------------------------------------------------------
(* The word given back.                                                    *)

\* The bytes below the boundary come from the word kept when the second part
\* is answered, from the bus otherwise.
first_rdata(in) ==
    IF lsu_state = "LSU_WAIT_MIS_TWO" /\ in.io_respValid
    THEN first_rdata_q
    ELSE [lane \in 1..3 |-> in.io_rdata[lane]]

align_rdata(in) ==
    LET off == addr_offset(in)
    IN  [k \in Lanes |-> IF off # 0 /\ k + off <= 3
                         THEN first_rdata(in)[k + off]
                         ELSE in.io_rdata[(k + off) % 4]]

Width(size) == CASE size = "LSU_BYTE" -> 1
                 [] size = "LSU_HALF" -> 2
                 [] OTHER             -> 4

Extension(byte, sign) == IF sign /\ byte \in NegByte THEN OnesByte ELSE ZeroByte

rdata(in) ==
    LET w == Width(in.data_size)
    IN  [k \in Lanes |-> IF k < w THEN align_rdata(in)[k]
                         ELSE Extension(align_rdata(in)[w - 1], in.is_mem_sign)]

-----------------------------------------------------------------------------
(* Registers.                                                              *)

Keeps(in) == ~in.is_write /\ in.io_respValid

Clock(in) ==
    /\ lsu_state' = next_state(in)
    /\ io_reqValid_q' = io_reqValid_d(in)
    /\ first_rdata_q' = IF Keeps(in)
                        THEN [lane \in 1..3 |-> in.io_rdata[lane]]
                        ELSE first_rdata_q

Reset == /\ lsu_state' = "LSU_IDLE"
         /\ io_reqValid_q' = FALSE
         /\ first_rdata_q' = [lane \in 1..3 |-> ZeroByte]

Init == /\ lsu_state = "LSU_IDLE"
        /\ io_reqValid_q = FALSE
        /\ first_rdata_q = [lane \in 1..3 |-> ZeroByte]
=============================================================================
