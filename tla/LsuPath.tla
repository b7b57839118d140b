------------------------------- MODULE LsuPath -------------------------------
(***************************************************************************)
(* The memory side of the CPU on its test bench: the LSU (soc/lsu.sv), the *)
(* bench's LSU channel (the second half of vcpu_subtick), its memory       *)
(* (v_mem_read, v_mem_write), and the rest of the CPU reduced to what it   *)
(* does to the LSU.  The CPU raises reqValid for the one cycle in which    *)
(* the IDU presents a load or a store, and holds the instruction until the *)
(* next fetch; once a load has written its register the address lines may  *)
(* change (lw x1,0(x1)).  At least one cycle passes between the end of an  *)
(* access and the next.                                                    *)
(***************************************************************************)
EXTENDS Integers

CONSTANTS Byte, ZeroByte, OnesByte, NegByte, NWords,
          MemEnd,               \* bytes of memory; MEM_START is address 0
          InitMem, Op, NoOp, MinDelay, MaxDelay,
          MaxOps                \* bound on the number of accesses

ASSUME DelayAssumption == MinDelay \in Nat /\ MaxDelay \in Nat
ASSUME MemAssumption == /\ NWords \in Nat \ {0}
                        /\ MemEnd \in Nat /\ MemEnd % 4 = 0 /\ MemEnd <= 4 * NWords
                        /\ InitMem \in [0..MemEnd-1 -> Byte]
                        /\ {ZeroByte, OnesByte} \subseteq Byte
                        /\ MaxOps \in Nat

VARIABLES
    lsu_state, io_reqValid_q, first_rdata_q,
    io_respValid, respTicks, reqPending, latch, waitTicks, io_rdata,
    mem,
    op,             \* the instruction the IDU holds
    addr,           \* the LSU's address lines, driven from the registers
    lsu_reqValid,
    busy,           \* the CPU waits for the LSU
    result,         \* what the last load wrote back
    opsDone,
    phase

lsuVars  == <<lsu_state, io_reqValid_q, first_rdata_q>>
chanVars == <<io_respValid, respTicks, reqPending, latch, waitTicks, io_rdata, mem>>
cpuVars  == <<op, addr, lsu_reqValid, busy, result, opsDone>>
vars     == <<lsuVars, chanVars, cpuVars, phase>>

Lsu     == INSTANCE Lsu
Channel == INSTANCE VcpuChannel WITH respValid <- io_respValid, Request <- Lsu!Requests

\* Every address at which a whole access is mapped: v_mem_read and v_mem_write
\* refuse the last three bytes of memory.
ASSUME OpAssumption ==
    Op \union {NoOp} \subseteq
        [is_write : BOOLEAN, is_mem_sign : BOOLEAN, wdata : Lsu!BusWord,
         addr : 0..(MemEnd - 4), data_size : Lsu!Sizes \ {"LSU_EXTA"}]

LsuIn == [reqValid |-> lsu_reqValid, is_write |-> op.is_write, wdata |-> op.wdata,
          addr |-> addr, data_size |-> op.data_size, is_mem_sign |-> op.is_mem_sign,
          io_respValid |-> io_respValid, io_rdata |-> io_rdata]

TypeOK == /\ Lsu!TypeOK
          /\ Channel!TypeOK
          /\ io_rdata \in Lsu!BusWord
          /\ mem \in [0..MemEnd-1 -> Byte]
          /\ op \in Op \union {NoOp}
          /\ addr \in Lsu!ByteAddr
          /\ lsu_reqValid \in BOOLEAN /\ busy \in BOOLEAN
          /\ result \in Lsu!BusWord
          /\ opsDone \in 0..MaxOps
          /\ phase \in {"high", "low", "edge"}

-----------------------------------------------------------------------------
ZeroWord == [lane \in 0..3 |-> ZeroByte]

Init == /\ Lsu!Init
        /\ Channel!Init([addr |-> 0, wdata |-> ZeroWord, wmask |-> {}, wen |-> FALSE])
        /\ io_rdata = ZeroWord
        /\ mem = InitMem
        /\ op = NoOp /\ addr = NoOp.addr
        /\ lsu_reqValid = FALSE /\ busy = FALSE
        /\ result = ZeroWord
        /\ opsDone = 0
        /\ phase = "low"

Mapped(a) == a < MemEnd - 3

v_mem_read(m, a) ==
    IF Mapped(a) THEN [lane \in 0..3 |-> m[4 * (a \div 4) + lane]] ELSE ZeroWord

v_mem_write(req) ==
    [a \in 0..MemEnd-1 |->
        IF /\ req.wen /\ Mapped(req.addr)
           /\ a \div 4 = req.addr \div 4
           /\ a % 4 \in req.wmask
        THEN req.wdata[a % 4] ELSE mem[a]]

\* The channel writes, then reads back, when it answers.
Subtick(sampled) ==
    \E delay \in Channel!Delays :
        LET req     == Channel!Latched(sampled, Lsu!Request(LsuIn))
            answers == Channel!Answers(sampled, delay)
        IN  /\ Channel!Subtick(sampled, Lsu!Request(LsuIn), delay)
            /\ mem' = IF answers THEN v_mem_write(req) ELSE mem
            /\ io_rdata' = IF answers THEN v_mem_read(mem', req.addr) ELSE io_rdata
            /\ UNCHANGED <<lsuVars, cpuVars>>

SubtickHigh == phase = "high" /\ phase' = "low" /\ Subtick(Lsu!io_reqValid(LsuIn))

SubtickLow == phase = "low" /\ phase' = "edge" /\ Subtick(FALSE)

-----------------------------------------------------------------------------
(* A rising edge.                                                          *)

Issue == /\ ~busy
         /\ opsDone < MaxOps
         /\ op' \in Op
         /\ addr' = op'.addr
         /\ lsu_reqValid' = TRUE /\ busy' = TRUE
         /\ opsDone' = opsDone + 1
         /\ UNCHANGED result

Idle == ~busy /\ UNCHANGED cpuVars

Waiting == /\ busy /\ ~Lsu!respValid(LsuIn)
           /\ lsu_reqValid' = FALSE
           /\ UNCHANGED <<op, addr, busy, result, opsDone>>

\* The LSU answers: a load is written back in the same cycle, and its register
\* may be the one the address comes from.
Done == /\ busy /\ Lsu!respValid(LsuIn)
        /\ lsu_reqValid' = FALSE /\ busy' = FALSE
        /\ result' = IF op.is_write THEN result ELSE Lsu!rdata(LsuIn)
        /\ addr' \in IF op.is_write THEN {addr} ELSE Lsu!ByteAddr
        /\ UNCHANGED <<op, opsDone>>

Edge == /\ phase = "edge"
        /\ phase' = "high"
        /\ Lsu!Clock(LsuIn)
        /\ Issue \/ Idle \/ Waiting \/ Done
        /\ UNCHANGED chanVars

Next == SubtickHigh \/ SubtickLow \/ Edge

Spec == Init /\ [][Next]_vars

\* The bench never stops ticking while the program runs: vcpu_fetch_exec takes
\* its next half period, whichever of the three actions that is.
HalfPeriod == phase' \in {"high", "low", "edge"} \ {phase}

FairSpec == Spec /\ WF_phase(HalfPeriod)

-----------------------------------------------------------------------------
(* Properties.                                                             *)

\* The address of the part of the access the LSU waits for.
PartAddr == IF lsu_state = "LSU_WAIT_MIS_TWO" THEN Lsu!NextWord(addr) ELSE addr

\* At a rising edge, an answer the LSU takes is the one to the part it waits
\* for.  It asks for two cycles and the bench serves each request it samples,
\* so that an access answered at once leaves a second, unwanted request behind
\* (lsu.sv:149, soc_main.cpp:736-743); that one's answer is never taken for the
\* answer of the next access.
AnswerIsForPart ==
    /\ phase = "edge" /\ io_respValid
    /\ lsu_state # "LSU_IDLE" \/ lsu_reqValid
    => /\ latch.addr = PartAddr
       /\ latch.wen = op.is_write
       /\ io_rdata = v_mem_read(mem, PartAddr)

Port == INSTANCE MemoryPort

\* Loads return the bytes of memory and stores write their bytes and no
\* others, whatever the alignment, the size and the delays, and although
\* unwanted requests are served too.
MemoryPortSafe == Port!Spec

\* Every access ends: each of its parts is asked for, and the LSU is there to
\* take the answer (lsu.sv:152-200).
AccessEnds == busy ~> ~busy
=============================================================================
