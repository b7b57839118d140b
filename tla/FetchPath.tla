------------------------------ MODULE FetchPath ------------------------------
(***************************************************************************)
(* The fetch side of the CPU on its test bench: the IFU with its           *)
(* instruction cache (soc/ifu.sv, soc/icache.sv), the bench's IFU channel  *)
(* (the first half of vcpu_subtick, soc/soc_main.cpp), the flash, and the  *)
(* rest of the CPU reduced to what it does to the IFU: it asks for the     *)
(* instruction at pc, waits for it, and some cycles later asks again, at   *)
(* any pc.                                                                 *)
(*                                                                         *)
(* vcpu_fetch_exec runs a subtick before every half period of the clock;   *)
(* "phase" is what comes next: the subtick after a rising edge, the        *)
(* subtick after a falling edge, or the rising edge.                       *)
(***************************************************************************)
EXTENDS Integers

CONSTANTS LINE_N, NWords, Word, NoInst, Flash, Pc, InitialPc, MinDelay, MaxDelay

WordAddr == 0..NWords-1

ASSUME LineNAssumption == LINE_N \in Nat \ {0}
ASSUME DelayAssumption == MinDelay \in Nat /\ MaxDelay \in Nat
ASSUME NWordsAssumption == NWords \in Nat \ {0}
ASSUME FlashAssumption == Flash \in [WordAddr -> Word] /\ NoInst \in Word
ASSUME PcAssumption == Pc \subseteq 0..(4*NWords - 1) /\ InitialPc \in Pc

VARIABLES
    ifu_state, lines, writeValid,               \* the IFU and its cache
    respValid, respTicks, reqPending, latch, waitTicks, io_rdata,  \* the channel
    is_start, ifu_reqValid, pc,                 \* registers of the CPU top
    inst,                                       \* the IDU's copy of the answer
    owner,          \* who has the instruction: "ifu" while it is being fetched
    phase

ifuVars  == <<ifu_state, lines, writeValid>>
chanVars == <<respValid, respTicks, reqPending, latch, waitTicks, io_rdata>>
cpuVars  == <<is_start, ifu_reqValid, pc, inst, owner>>
vars     == <<ifuVars, chanVars, cpuVars, phase>>

Ifu     == INSTANCE Ifu
Channel == INSTANCE VcpuChannel WITH Request <- Pc

IfuIn == [reqValid |-> ifu_reqValid, pc |-> pc,
          io_respValid |-> respValid, io_rdata |-> io_rdata]

TypeOK == /\ Ifu!TypeOK
          /\ Channel!TypeOK
          /\ io_rdata \in Word
          /\ is_start \in BOOLEAN
          /\ ifu_reqValid \in BOOLEAN
          /\ pc \in Pc
          /\ inst \in Word
          /\ owner \in {"ifu", "exu"}
          /\ phase \in {"high", "low", "edge"}

-----------------------------------------------------------------------------
Init == /\ Ifu!Init
        /\ Channel!Init(InitialPc)
        /\ io_rdata = NoInst
        /\ is_start = TRUE
        /\ ifu_reqValid = FALSE
        /\ pc = InitialPc
        /\ inst = NoInst
        /\ owner = "exu"
        /\ phase = "low"

\* v_mem_read of a flash address: the two low bits of the address are cleared.
v_mem_read(addr) == Flash[addr \div 4]

Subtick(sampled) ==
    \E delay \in Channel!Delays :
        /\ Channel!Subtick(sampled, Ifu!io_addr(IfuIn), delay)
        /\ io_rdata' = IF Channel!Answers(sampled, delay)
                       THEN v_mem_read(Channel!Latched(sampled, Ifu!io_addr(IfuIn)))
                       ELSE io_rdata
        /\ UNCHANGED <<ifuVars, cpuVars>>

\* The subtick just after a rising edge samples the request line.
SubtickHigh == phase = "high" /\ phase' = "low" /\ Subtick(Ifu!io_reqValid(IfuIn))

SubtickLow == phase = "low" /\ phase' = "edge" /\ Subtick(FALSE)

-----------------------------------------------------------------------------
(* A rising edge.  The IFU and the IDU see the same inputs; the rest of    *)
(* the CPU does one of three things.                                       *)

\* The instruction is being fetched; if the IFU answers, the IDU takes it.
Fetching == /\ owner = "ifu"
            /\ ifu_reqValid' = FALSE
            /\ owner' = IF Ifu!respValid(IfuIn) THEN "exu" ELSE "ifu"
            /\ inst' = IF Ifu!respValid(IfuIn) THEN Ifu!inst(IfuIn) ELSE inst
            /\ UNCHANGED <<is_start, pc>>

\* The instruction retires, or the CPU starts, and the next one is asked for.
Ask == /\ owner = "exu"
       /\ ifu_reqValid' = TRUE
       /\ owner' = "ifu"
       /\ is_start' = FALSE
       /\ pc' \in IF is_start THEN {pc} ELSE Pc
       /\ UNCHANGED inst

\* The instruction is still being executed.
Executing == /\ owner = "exu"
             /\ ~is_start
             /\ UNCHANGED cpuVars

Edge == /\ phase = "edge"
        /\ phase' = "high"
        /\ Ifu!Clock(IfuIn)
        /\ Fetching \/ Ask \/ Executing
        /\ UNCHANGED chanVars

Next == SubtickHigh \/ SubtickLow \/ Edge

Spec == Init /\ [][Next]_vars

\* The bench never stops ticking while the program runs: vcpu_fetch_exec takes
\* its next half period, whichever of the three actions that is.
HalfPeriod == phase' \in {"high", "low", "edge"} \ {phase}

FairSpec == Spec /\ WF_phase(HalfPeriod)

-----------------------------------------------------------------------------
(* Properties.                                                             *)

\* Every valid cache line holds the word the flash has at the address the
\* line's index and tag stand for: no answer of the bus is ever filed under
\* the address of another request (ifu.sv:95-103, icache.sv:53).
CacheCoherent ==
    \A i \in 0..LINE_N-1 :
        lines[i].valid =>
            \E a \in WordAddr : /\ Ifu!Icache!Index(a) = i
                                /\ Ifu!Icache!Tag(a) = lines[i].tag
                                /\ lines[i].data = Flash[a]

\* When the bus answers while the IFU waits, the answer is the one to the
\* request it waits for, although answers carry no address (ifu.sv:95-97,
\* soc_main.cpp:712-722).
AnswerIsForPc ==
    ifu_state = "IFU_WAIT_IO" /\ respValid =>
        latch = pc /\ io_rdata = Flash[pc \div 4]

Port == INSTANCE FetchPort WITH fetching <- (owner = "ifu")

\* Whatever the delays, an instruction the IDU gets is the flash word at pc,
\* and pc does not move while it is being fetched.
FetchPortSafe == Port!Spec

\* Every fetch is answered: the IFU is always there to take the answer to what
\* it asked for (ifu.sv:65-104).
FetchAnswered == (owner = "ifu") ~> (owner = "exu")
=============================================================================
