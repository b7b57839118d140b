-------------------------------- MODULE Perf --------------------------------
(***************************************************************************)
(* How cycles and instructions are counted: the CPU with its cycle counter *)
(* (csr.sv), the events exu.sv and icache.sv report to the bench in every  *)
(* cycle (the DPI calls of soc_main.cpp add them up, measure.sh files the  *)
(* sums), and the clock of the bench, which counts its own half periods.   *)
(* The buses are as arbitrary as in Cpu.                                   *)
(***************************************************************************)
EXTENDS Cpu

CONSTANTS MCYCLE, MCYCLEH, MVENDORID, MARCHID, MVENDORID_VAL, MARCHID_VAL,
          CsrAddrs,     \* addresses in the CSR instructions: 2^12 in the source
          MaxCycles     \* bound: cycles a behaviour counts

VARIABLES mcycle,           \* csr
          event_counts,     \* of vsoc_cpu, where the DPI calls add
          clock,            \* tb->vcpu->clock
          vcpu_ticks        \* half periods since the reset

perfVars == <<vars, mcycle, event_counts, clock, vcpu_ticks>>

Csr == INSTANCE Csr

ASSUME PerfAssumption ==
    /\ {MCYCLE, MCYCLEH, MVENDORID, MARCHID} \subseteq 0..CsrAddrs-1
    /\ {MCYCLE, MCYCLEH} \cap {MVENDORID, MARCHID} = {}
    /\ MCYCLE # MCYCLEH /\ MVENDORID # MARCHID
    /\ {MVENDORID_VAL, MARCHID_VAL} \subseteq Word
    /\ CsrAddrs \in Nat \ {0} /\ MaxCycles \in Nat
    /\ Word \subseteq CsrBus

Kinds  == {"mload_seen", "mstore_seen", "msystem_seen", "mcalc_seen", "mjump_seen",
           "mbranch_seen"}
Events == Kinds \cup {"minstret", "mifu_wait", "mlsu_wait", "mbranch_taken", "micache_hits"}

PerfTypeOK == /\ TypeOK
              /\ Csr!TypeOK
              /\ event_counts \in [Events -> Nat]
              /\ clock \in {0, 1}
              /\ vcpu_ticks \in Nat

-----------------------------------------------------------------------------
(* The wires that are reported.                                            *)

\* Plausible bug: the type 0 is forgotten.
is_calcDefined(type) == type \in {"INST_REG", "INST_IMM", "INST_AUIPC", "INST_UPP"}

\* The type of an undefined instruction is 0, which counts as a calculation.
is_calc(type) == type \in {"INST_REG", "INST_IMM", "INST_AUIPC", "INST_UPP", "INST_UNDEFINED"}

is_system(type) == type \in {"INST_EBREAK", "INST_CSR", "INST_CSRI", "INST_SYSTEM_OTHER"}

\* Plausible bug: the wait is counted from the state, a cycle late.
is_lsu_waitState(io) == exu_state = "EXU_STALL_LSU"

is_lsu_wait(io) == Exu!next_state(ExuIn(io)) = "EXU_STALL_LSU"

is_ifu_wait(io) == Exu!next_state(ExuIn(io)) = "EXU_STALL_IDU"

Happens(io, event) ==
    LET retires == Retires(io)
    IN  CASE event = "minstret"      -> retires
          [] event = "mifu_wait"     -> is_ifu_wait(io)
          [] event = "mlsu_wait"     -> is_lsu_wait(io)
          [] event = "mload_seen"    -> retires /\ dec.type = "INST_LOAD"
          [] event = "mstore_seen"   -> retires /\ dec.type = "INST_STORE"
          [] event = "msystem_seen"  -> retires /\ is_system(dec.type)
          [] event = "mcalc_seen"    -> retires /\ is_calc(dec.type)
          [] event = "mjump_seen"    -> retires /\ dec.type \in {"INST_JUMP", "INST_JUMPR"}
          [] event = "mbranch_seen"  -> retires /\ dec.type = "INST_BRANCH"
          [] event = "mbranch_taken" -> /\ retires /\ dec.type = "INST_BRANCH"
                                        /\ Exu!com_res(ExuIn(io))
          [] event = "micache_hits"  -> Ifu!Icache!IsHit(Ifu!IcacheIn(IfuIn(io)))

-----------------------------------------------------------------------------
perf_measure(io) ==
    event_counts' = [e \in Events |-> event_counts[e] + IF Happens(io, e) THEN 1 ELSE 0]

\* Plausible bug: the hits of the cache are not reset with the others.
perf_resetExuOnly ==
    event_counts' = [e \in Events |-> IF e = "micache_hits" THEN event_counts[e] ELSE 0]

\* exu_perf_reset and icache_perf_reset.
perf_reset == event_counts' = [e \in Events |-> 0]

csr_rdata == Csr!rdata(dec.imm % CsrAddrs)

\* The buses answer anything, csr.sv does not.
Answers == [ifu_respValid : BOOLEAN, ifu_rdata : IfuBus, lsu_respValid : BOOLEAN,
            lsu_rdata : LsuBus, csr_rdata : {csr_rdata}]

vcpu_cycles == vcpu_ticks \div 2

\* vcpu_tick, when it raises the clock and when it lowers it.
Rise == /\ clock = 0 /\ vcpu_cycles < MaxCycles
        /\ clock' = 1
        /\ vcpu_ticks' = vcpu_ticks + 1
        /\ \E io \in Answers : Cycle(io) /\ perf_measure(io)
        /\ Csr!Clock

Fall == /\ clock = 1
        /\ clock' = 0
        /\ vcpu_ticks' = vcpu_ticks + 1
        /\ UNCHANGED <<vars, mcycle, event_counts>>

\* Plausible bug: the ticks start at 0.
ticks_at_startZero == 0

\* The ticks the bench starts a test with.
ticks_at_start == 1

\* The next test: vcpu_reset, and what test_instructions sets.
PerfReset == /\ BenchReset
             /\ Csr!Reset
             /\ perf_reset
             /\ clock' = 0
             /\ vcpu_ticks' = ticks_at_start

PerfInit == /\ Init
            /\ Csr!Init
            /\ event_counts = [e \in Events |-> 0]
            /\ clock = 0
            /\ vcpu_ticks = ticks_at_start

PerfNext == Rise \/ Fall \/ PerfReset

PerfSpec == PerfInit /\ [][PerfNext]_perfVars

-----------------------------------------------------------------------------
(* Properties.                                                             *)

N(event) == event_counts[event]

\* The bench and the CPU count the same cycles, in every half period: what
\* test_instructions compares when an instruction has retired holds wherever
\* the loop is left (soc_main.cpp:609-610, 974-975, 1021).
CyclesAgree == mcycle = vcpu_cycles

\* Every cycle is accounted for: but for the one after the reset it retires an
\* instruction, waits for one, or waits for the memory, and none is counted
\* twice (exu.sv:175-177, soc_main.cpp:924-940).
CyclesAccounted ==
    mcycle = N("minstret") + N("mifu_wait") + N("mlsu_wait") + IF is_start THEN 0 ELSE 1

\* Every retired instruction is of exactly one kind (exu.sv:178-184).
InstructionsAccounted ==
    /\ N("minstret") = N("mload_seen") + N("mstore_seen") + N("msystem_seen")
                        + N("mcalc_seen") + N("mjump_seen") + N("mbranch_seen")
    /\ N("mbranch_taken") <= N("mbranch_seen")

\* Instructions the IFU has delivered since the reset: those that have retired
\* and the one in the IDU or in memory.  What the reset left in the IDU is
\* dropped at the start.
delivered == N("minstret") + IF (Decoding /\ ~Starting) \/ exu_state = "EXU_STALL_LSU"
                             THEN 1 ELSE 0

\* The hits of the cache belong to the instructions counted: each is looked up
\* once, a hit costs one cycle of waiting, a miss at least two
\* (icache.sv:70-90, exu.sv:176, ifu.sv:64-104).
HitsAccounted == /\ N("micache_hits") <= delivered
                 /\ 2 * delivered <= N("mifu_wait") + N("micache_hits")

\* An ebreak that has retired is flagged in the next cycle: the decoder still
\* shows it then, although the next fetch is under way (exu.sv:174).
EbreakStaysVisible ==
    N("minstret")' > N("minstret") /\ dec.type = "INST_EBREAK" => is_ebreak'

EbreakFlagged == [][EbreakStaysVisible]_perfVars

\* A program that reads the cycle counter gets what the bench has counted when
\* the instruction retires, in either half (csr.sv:22-40, exu.sv:152-153).
CounterRead ==
    LET addr == dec.imm % CsrAddrs
    IN  /\ N("minstret")' > N("minstret") /\ dec.type \in {"INST_CSR", "INST_CSRI"}
        /\ dec.rd \in 1..REG_NUM-1
        => /\ addr = MCYCLE  => regs'[dec.rd] = vcpu_cycles % WordSize
           /\ addr = MCYCLEH => regs'[dec.rd] = vcpu_cycles \div WordSize

CounterReadsCycles == [][CounterRead]_perfVars
=============================================================================
