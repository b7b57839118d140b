------------------------------ MODULE Perf_proofs ------------------------------
(***************************************************************************)
(* Proofs about the counting of cycles and events, for every word size,    *)
(* CPU, program and bus behaviour.  The CPU in Perf is the one of Cpu with *)
(* the cycle counter in the place of an arbitrary CSR answer, so that what *)
(* Cpu_proofs shows holds of it.                                           *)
(***************************************************************************)
EXTENDS Perf, Cpu_proofs

-----------------------------------------------------------------------------
(* Types.                                                                  *)

\* csr.sv answers a word, whatever the address.
LEMMA CsrAnswerType ==
    ASSUME Csr!TypeOK, NEW addr
    PROVE  Csr!rdata(addr) \in Word
<1>1. /\ mcycle \in Nat /\ mcycle < WordSize * WordSize
      /\ WordSize \in Nat \ {0}
  BY WordAssumption DEF Csr!TypeOK
<1>2. mcycle % WordSize \in 0..WordSize-1
  BY <1>1
<1>3. mcycle \div WordSize \in 0..WordSize-1
  BY <1>1
<1>4. MVENDORID_VAL \in Word /\ MARCHID_VAL \in Word /\ 0 \in Word
  BY <1>1, PerfAssumption DEF Word
<1>5. QED
  BY <1>2, <1>3, <1>4 DEF Csr!rdata, Word

\* The inputs of a rising edge are among those Cpu allows.
LEMMA AnswersAreInputs ==
    ASSUME Csr!TypeOK
    PROVE  Answers \subseteq Io
<1>1. csr_rdata \in CsrBus
  BY CsrAnswerType, PerfAssumption DEF csr_rdata
<1>2. QED
  BY <1>1 DEF Answers, Io

\* What is counted, and by whom.
CountersOK == /\ Csr!TypeOK
              /\ event_counts \in [Events -> Nat]
              /\ clock \in {0, 1}
              /\ vcpu_ticks \in Nat

\* The counters start with their types.
LEMMA CountersInit == PerfInit => CountersOK
<1>1. WordSize * WordSize \in Nat \ {0}
  BY WordAssumption
<1>2. PerfInit => Csr!TypeOK
  BY <1>1 DEF PerfInit, Csr!Init, Csr!TypeOK
<1>3. PerfInit => event_counts \in [Events -> Nat] /\ vcpu_ticks \in Nat
  BY DEF PerfInit, ticks_at_start
<1>4. PerfInit => clock \in {0, 1}
  BY DEF PerfInit
<1>5. QED
  BY <1>2, <1>3, <1>4 DEF CountersOK

\* The counters keep their types in a step of any kind.
LEMMA CountersType ==
    ASSUME CountersOK, [PerfNext]_perfVars
    PROVE  CountersOK'
<1> USE DEF CountersOK
<1>0. WordSize * WordSize \in Nat \ {0}
  BY WordAssumption
<1>1. CASE Rise
  <2>1. PICK io \in Answers : perf_measure(io)
    BY <1>1 DEF Rise
  <2>2. Csr!TypeOK'
    BY <1>0, <1>1 DEF Rise, Csr!Clock, Csr!TypeOK
  <2>3. event_counts' \in [Events -> Nat]
    BY <2>1 DEF perf_measure
  <2>4. QED
    BY <1>1, <2>2, <2>3 DEF Rise
<1>2. CASE Fall
  BY <1>2 DEF Fall, Csr!TypeOK
<1>3. CASE PerfReset
  <2>1. Csr!TypeOK'
    BY <1>0, <1>3 DEF PerfReset, Csr!Reset, Csr!TypeOK
  <2>2. event_counts' \in [Events -> Nat]
    BY <1>3 DEF PerfReset, perf_reset
  <2>3. QED
    BY <1>3, <2>1, <2>2 DEF PerfReset, ticks_at_start
<1>4. CASE UNCHANGED perfVars
  BY <1>4 DEF perfVars, Csr!TypeOK
<1>5. QED
  BY <1>1, <1>2, <1>3, <1>4 DEF PerfNext

\* The CPU of Perf is the CPU of Cpu: every step of it is a step of Cpu or
\* leaves the CPU alone.
THEOREM CpuImplemented == PerfSpec => Spec
<1>1. PerfInit => Init
  BY DEF PerfInit
<1>2. CountersOK /\ [PerfNext]_perfVars => [Next]_vars
  <2> SUFFICES ASSUME CountersOK, [PerfNext]_perfVars PROVE [Next]_vars
    OBVIOUS
  <2>1. CASE Rise
    BY <2>1, AnswersAreInputs DEF CountersOK, Rise, Next, Clocked
  <2>2. CASE PerfReset
    BY <2>2 DEF PerfReset, Next
  <2>3. CASE Fall \/ UNCHANGED perfVars
    BY <2>3 DEF Fall, perfVars
  <2>4. QED
    BY <2>1, <2>2, <2>3 DEF PerfNext
<1>3. QED
  BY <1>1, <1>2, CountersInit, CountersType, PTL DEF PerfSpec, Spec

\* The registers of the CPU, the cycle counter, the event counts and the clock
\* of the bench keep their types.
THEOREM PerfTypeCorrect == PerfSpec => []PerfTypeOK
<1>1. TypeOK /\ CountersOK => PerfTypeOK
  BY DEF CountersOK, PerfTypeOK
<1>2. QED
  BY <1>1, CpuImplemented, TypeCorrect, CountersInit, CountersType, PTL DEF PerfSpec

-----------------------------------------------------------------------------
(* Cycles.                                                                 *)

\* The bench counts two ticks a cycle, of which the first has been counted when
\* a test starts.
TicksAgree == vcpu_ticks = 2 * mcycle + 1 - clock

\* Before the bound the cycle counter does not wrap in a rising edge.
LEMMA CycleCounted ==
    ASSUME MaxCycles < WordSize * WordSize, CountersOK, TicksAgree, Rise
    PROVE  mcycle \in Nat /\ mcycle' = mcycle + 1
<1>0. mcycle \in Nat /\ vcpu_ticks \in Nat /\ clock \in {0, 1}
  BY DEF CountersOK, Csr!TypeOK
<1>1. mcycle < MaxCycles
  BY <1>0 DEF Rise, vcpu_cycles, TicksAgree
<1>2. mcycle' = (mcycle + 1) % (WordSize * WordSize)
  BY DEF Rise, Csr!Clock
<1>3. WordSize * WordSize \in Nat /\ mcycle + 1 < WordSize * WordSize
  BY <1>0, <1>1, WordAssumption, PerfAssumption
<1>4. QED
  BY <1>0, <1>2, <1>3

\* As long as a run is shorter than the counter is wide, the ticks of the bench
\* determine the counter of the CPU.
LEMMA TicksAlwaysAgree ==
    ASSUME MaxCycles < WordSize * WordSize
    PROVE  PerfSpec => []TicksAgree
<1>1. PerfInit => TicksAgree
  BY DEF PerfInit, Csr!Init, TicksAgree, ticks_at_start
<1>2. CountersOK /\ TicksAgree /\ [PerfNext]_perfVars => TicksAgree'
  <2> SUFFICES ASSUME CountersOK, TicksAgree, [PerfNext]_perfVars PROVE TicksAgree'
    OBVIOUS
  <2>0. mcycle \in Nat /\ vcpu_ticks \in Nat /\ clock \in {0, 1}
    BY DEF CountersOK, Csr!TypeOK
  <2>1. CASE Rise
    BY <2>0, <2>1, CycleCounted DEF Rise, TicksAgree
  <2>2. CASE Fall
    BY <2>0, <2>2 DEF Fall, TicksAgree
  <2>3. CASE PerfReset
    BY <2>3 DEF PerfReset, Csr!Reset, ticks_at_start, TicksAgree
  <2>4. CASE UNCHANGED perfVars
    BY <2>4 DEF perfVars, TicksAgree
  <2>5. QED
    BY <2>1, <2>2, <2>3, <2>4 DEF PerfNext
<1>3. QED
  BY <1>1, <1>2, CountersInit, CountersType, PTL DEF PerfSpec

\* The bench and the CPU count the same cycles in every half period.
THEOREM CyclesAlwaysAgree ==
    ASSUME MaxCycles < WordSize * WordSize
    PROVE  PerfSpec => []CyclesAgree
<1>1. CountersOK /\ TicksAgree => CyclesAgree
  BY DEF CountersOK, Csr!TypeOK, TicksAgree, CyclesAgree, vcpu_cycles
<1>2. QED
  BY <1>1, TicksAlwaysAgree, CountersInit, CountersType, PTL DEF PerfSpec

-----------------------------------------------------------------------------
(* Events.                                                                 *)

\* A rising edge adds one to the counts of the events that happen in it.
LEMMA EventCounted ==
    ASSUME CountersOK, NEW io, perf_measure(io), NEW e \in Events
    PROVE  /\ N(e) \in Nat /\ N(e)' \in Nat
           /\ N(e)' = IF Happens(io, e) THEN N(e) + 1 ELSE N(e)
  BY DEF CountersOK, perf_measure, N

\* What an edge counts of the EXU: the state it takes it to, and the kind of
\* the instruction if it retires.
LEMMA ExuEvents ==
    ASSUME NEW io, Exu!Clock(ExuIn(io))
    PROVE  /\ Happens(io, "minstret") <=> exu_state' = "EXU_EXECUTE"
           /\ Happens(io, "mifu_wait") <=> exu_state' = "EXU_STALL_IDU"
           /\ Happens(io, "mlsu_wait") <=> exu_state' = "EXU_STALL_LSU"
           /\ Retires(io) <=> exu_state' = "EXU_EXECUTE"
  BY DEF Happens, is_ifu_wait, is_lsu_wait, Retires, Exu!respValid, Exu!Clock

\* Every cycle but the first after a reset is one of retirement, of waiting for
\* an instruction or of waiting for the memory, and is counted once.
THEOREM CyclesAlwaysAccounted ==
    ASSUME MaxCycles < WordSize * WordSize
    PROVE  PerfSpec => []CyclesAccounted
<1> DEFINE Waits == {"minstret", "mifu_wait", "mlsu_wait"}
<1>0. Waits \subseteq Events
  BY DEF Events
<1>1. PerfInit => CyclesAccounted
  BY <1>0 DEF PerfInit, Init, Csr!Init, CyclesAccounted, N
<1>2. TypeOK /\ OneInFlight /\ CountersOK /\ TicksAgree /\ CyclesAccounted
        /\ [PerfNext]_perfVars => CyclesAccounted'
  <2> SUFFICES ASSUME TypeOK, OneInFlight, CountersOK, TicksAgree, CyclesAccounted,
                      [PerfNext]_perfVars
               PROVE  CyclesAccounted'
    OBVIOUS
  <2>1. CASE Rise
    <3> PICK io \in Answers : Cycle(io) /\ perf_measure(io)
      BY <2>1 DEF Rise
    <3>1. io \in Io
      BY AnswersAreInputs DEF CountersOK
    <3>2. is_start <=> exu_state = "EXU_RESET"
      BY DEF OneInFlight, Starting
    <3>3. /\ is_start' = FALSE /\ exu_state' \in Exu!exu_states
          /\ exu_state' # "EXU_RESET"
          /\ exu_state' = "EXU_START" <=> exu_state = "EXU_RESET"
      BY <3>1, ClockFacts DEF Exu!exu_states
    <3>4. Exu!Clock(ExuIn(io))
      BY DEF Cycle, Clock
    <3>5. mcycle \in Nat /\ mcycle' = mcycle + 1
      BY <2>1, CycleCounted
    <3>6. \A e \in Waits : /\ N(e) \in Nat /\ N(e)' \in Nat
                           /\ N(e)' = IF Happens(io, e) THEN N(e) + 1 ELSE N(e)
      BY <1>0, EventCounted
    <3>7. QED
      BY <3>2, <3>3, <3>4, <3>5, <3>6, ExuEvents DEF CyclesAccounted, Exu!exu_states
  <2>2. CASE Fall
    BY <2>2 DEF Fall, vars, CyclesAccounted, N
  <2>3. CASE PerfReset
    BY <1>0, <2>3 DEF PerfReset, BenchReset, Reset, Csr!Reset, perf_reset, CyclesAccounted, N
  <2>4. CASE UNCHANGED perfVars
    BY <2>4 DEF perfVars, vars, CyclesAccounted, N
  <2>5. QED
    BY <2>1, <2>2, <2>3, <2>4 DEF PerfNext
<1>3. QED
  BY <1>1, <1>2, CpuImplemented, TypeCorrect, AlwaysOneInFlight, CountersInit, CountersType,
     TicksAlwaysAgree, PTL DEF PerfSpec

\* The kinds of instruction exhaust the types the decoder gives and exclude one
\* another, so that an edge that retires an instruction counts it once.
LEMMA OneKind ==
    ASSUME TypeOK, NEW io, Exu!Clock(ExuIn(io))
    PROVE  /\ Happens(io, "minstret") <=> \E e \in Kinds : Happens(io, e)
           /\ \A d, e \in Kinds : Happens(io, d) /\ Happens(io, e) => d = e
           /\ Happens(io, "mbranch_taken") => Happens(io, "mbranch_seen")
<1>1. dec.type \in Idu!types
  BY DecType DEF TypeOK, Idu!TypeOK, Idu!Decoded
<1>2. QED
  BY <1>1 DEF Happens, Kinds, Idu!types, is_system, is_calc

\* Every retired instruction is counted under exactly one kind, and a branch is
\* taken no more often than it is seen.
THEOREM InstructionsAlwaysAccounted == PerfSpec => []InstructionsAccounted
<1> DEFINE Insts == Kinds \cup {"minstret", "mbranch_taken"}
<1>0. Insts \subseteq Events
  BY DEF Events, Kinds
<1>1. PerfInit => InstructionsAccounted
  BY <1>0 DEF PerfInit, InstructionsAccounted, N, Kinds
<1>2. TypeOK /\ OneInFlight /\ CountersOK /\ InstructionsAccounted /\ [PerfNext]_perfVars
        => InstructionsAccounted'
  <2> SUFFICES ASSUME TypeOK, OneInFlight, CountersOK, InstructionsAccounted,
                      [PerfNext]_perfVars
               PROVE  InstructionsAccounted'
    OBVIOUS
  <2>1. CASE Rise
    <3> PICK io \in Answers : Cycle(io) /\ perf_measure(io)
      BY <2>1 DEF Rise
    <3>1. Exu!Clock(ExuIn(io))
      BY DEF Cycle, Clock
    <3>2. \A e \in Insts : /\ N(e) \in Nat /\ N(e)' \in Nat
                           /\ N(e)' = IF Happens(io, e) THEN N(e) + 1 ELSE N(e)
      BY <1>0, EventCounted
    <3>3. QED
      BY <3>1, <3>2, OneKind DEF InstructionsAccounted, Kinds
  <2>2. CASE Fall
    BY <2>2 DEF Fall, InstructionsAccounted, N
  <2>3. CASE PerfReset
    BY <1>0, <2>3 DEF PerfReset, perf_reset, InstructionsAccounted, N, Kinds
  <2>4. CASE UNCHANGED perfVars
    BY <2>4 DEF perfVars, InstructionsAccounted, N
  <2>5. QED
    BY <2>1, <2>2, <2>3, <2>4 DEF PerfNext
<1>3. QED
  BY <1>1, <1>2, CpuImplemented, TypeCorrect, AlwaysOneInFlight, CountersInit, CountersType,
     PTL DEF PerfSpec

\* The strengthening of HitsAccounted: a fetch that waits for the bus has been
\* waited for once more than the instructions delivered account for.
HitsInFlight ==
    /\ N("micache_hits") <= delivered
    /\ 2 * delivered + (IF ifu_state = "IFU_WAIT_IO" THEN 1 ELSE 0)
            <= N("mifu_wait") + N("micache_hits")

\* The cache reports a hit only in the cycle in which a fetch is asked for, and
\* then the instruction is delivered.
LEMMA HitDelivers ==
    ASSUME TypeOK, OneInFlight, NEW io, Cycle(io), Happens(io, "micache_hits")
    PROVE  ifu_reqValid /\ ifu_state = "IFU_IDLE" /\ idu_respValid'
  BY DEF Cycle, Clock, Idu!Clock, OneInFlight, Happens, IfuIn, Ifu!IcacheIn, Ifu!Filling,
     Ifu!respValid, Ifu!Hit, Ifu!LookingUp, Ifu!Icache!IsHit, Ifu!Icache!RespValid,
     Ifu!Icache!ReadValid, TypeOK

\* And an instruction delivered in the cycle in which it is asked for is a hit.
LEMMA DeliveredAtOnceIsHit ==
    ASSUME TypeOK, OneInFlight, NEW io, Cycle(io), idu_respValid', ifu_state = "IFU_IDLE"
    PROVE  Happens(io, "micache_hits")
  BY DEF Cycle, Clock, Idu!Clock, OneInFlight, Happens, IfuIn, Ifu!IcacheIn, Ifu!Filling,
     Ifu!respValid, Ifu!Hit, Ifu!LookingUp, Ifu!Icache!IsHit, Ifu!Icache!RespValid,
     Ifu!Icache!ReadValid, TypeOK

\* The hits of the cache, the instructions delivered and the cycles waited for
\* them: a hit costs one, a miss at least two.
THEOREM HitsAlwaysAccounted == PerfSpec => []HitsAccounted
<1> DEFINE Fetches == {"minstret", "mifu_wait", "micache_hits"}
<1>0. Fetches \subseteq Events
  BY DEF Events
<1>1. PerfInit => HitsInFlight
  BY <1>0 DEF PerfInit, Init, Ifu!Init, Idu!Init, Exu!Init, HitsInFlight, delivered, N,
     Decoding
<1>2. TypeOK /\ OneInFlight /\ CountersOK /\ HitsInFlight /\ [PerfNext]_perfVars
        => HitsInFlight'
  <2> SUFFICES ASSUME TypeOK, OneInFlight, CountersOK, HitsInFlight, [PerfNext]_perfVars
               PROVE  HitsInFlight'
    OBVIOUS
  <2>1. CASE Rise
    <3> PICK io \in Answers : Cycle(io) /\ perf_measure(io)
      BY <2>1 DEF Rise
    <3>1. io \in Io
      BY AnswersAreInputs DEF CountersOK
    <3>2. Exu!Clock(ExuIn(io)) /\ OneInFlight'
      BY <3>1, ClockOneInFlight DEF Cycle, Clock
    <3>3. \A e \in Fetches : /\ N(e) \in Nat /\ N(e)' \in Nat
                             /\ N(e)' = IF Happens(io, e) THEN N(e) + 1 ELSE N(e)
      BY <1>0, EventCounted
    <3>4. /\ N("minstret")' = IF exu_state' = "EXU_EXECUTE" THEN N("minstret") + 1 ELSE N("minstret")
          /\ N("mifu_wait")' = IF exu_state' = "EXU_STALL_IDU" THEN N("mifu_wait") + 1 ELSE N("mifu_wait")
      BY <3>2, <3>3, ExuEvents
    <3>5. N("micache_hits")' = IF ifu_reqValid /\ idu_respValid'
                               THEN N("micache_hits") + 1 ELSE N("micache_hits")
      BY <3>3, HitDelivers, DeliveredAtOnceIsHit DEF OneInFlight
    <3>6. /\ N("minstret") \in Nat /\ N("mifu_wait") \in Nat /\ N("micache_hits") \in Nat
          /\ N("minstret")' \in Nat /\ N("mifu_wait")' \in Nat /\ N("micache_hits")' \in Nat
      BY <3>3
    <3> HIDE DEF Fetches, N
    <3>7. CASE exu_state = "EXU_RESET"
      <4>1. /\ ~ifu_reqValid /\ Starting /\ exu_state' = "EXU_START"
            /\ ~Decoding' /\ ifu_state' = "IFU_IDLE"
        BY <3>1, <3>2, <3>7, ClockFacts DEF OneInFlight, Starting, Decoding
      <4>2. QED
        BY <3>4, <3>5, <3>6, <3>7, <4>1 DEF HitsInFlight, delivered
    <3>8. CASE exu_state \in {"EXU_START", "EXU_EXECUTE"}
      <4>1. /\ ifu_reqValid /\ ~Decoding /\ exu_state' = "EXU_STALL_IDU"
            /\ ifu_state = "IFU_IDLE" /\ ~Starting' /\ Decoding' = idu_respValid'
            /\ ifu_state' = IF idu_respValid' THEN "IFU_IDLE" ELSE "IFU_WAIT_IO"
        BY <3>1, <3>2, <3>8, ClockFacts DEF OneInFlight, Starting, Decoding
      <4>2. QED
        BY <3>4, <3>5, <3>6, <3>8, <4>1 DEF HitsInFlight, delivered
    <3>9. CASE exu_state = "EXU_STALL_IDU" /\ Decoding
      <4>1. /\ ~ifu_reqValid /\ ~Starting /\ ~Decoding' /\ ifu_state' = "IFU_IDLE"
            /\ exu_state' \in {"EXU_EXECUTE", "EXU_STALL_LSU"}
        BY <3>1, <3>2, <3>9, ClockFacts DEF OneInFlight, Starting, Decoding
      <4>2. QED
        BY <3>4, <3>5, <3>6, <3>9, <4>1 DEF HitsInFlight, delivered
    <3>10. CASE exu_state = "EXU_STALL_IDU" /\ ~Decoding
      <4>1. /\ ~ifu_reqValid /\ ifu_state = "IFU_WAIT_IO"
            /\ exu_state' = "EXU_STALL_IDU" /\ ~Starting' /\ Decoding' = idu_respValid'
            /\ ifu_state' = IF idu_respValid' THEN "IFU_IDLE" ELSE "IFU_WAIT_IO"
        BY <3>1, <3>2, <3>10, ClockFacts DEF OneInFlight, Starting, Decoding
      <4>2. QED
        BY <3>4, <3>5, <3>6, <3>10, <4>1 DEF HitsInFlight, delivered
    <3>11. CASE exu_state = "EXU_STALL_LSU"
      <4>1. /\ ~ifu_reqValid /\ ~Decoding' /\ ifu_state' = "IFU_IDLE"
            /\ exu_state' \in {"EXU_EXECUTE", "EXU_STALL_LSU"}
        BY <3>1, <3>2, <3>11, ClockFacts DEF OneInFlight, Starting, Decoding
      <4>2. QED
        BY <3>4, <3>5, <3>6, <3>11, <4>1 DEF HitsInFlight, delivered
    <3>12. QED
      BY <3>1, <3>7, <3>8, <3>9, <3>10, <3>11, ClockFacts DEF Exu!exu_states
  <2>2. CASE Fall
    BY <2>2 DEF Fall, vars, HitsInFlight, delivered, N, Decoding, Starting
  <2>3. CASE PerfReset
    <3>1. \A e \in Fetches : N(e)' = 0
      BY <1>0, <2>3 DEF PerfReset, perf_reset, N
    <3>2. Starting' /\ exu_state' = "EXU_RESET" /\ ifu_state' = "IFU_IDLE"
      BY <2>3 DEF PerfReset, BenchReset, Reset, Ifu!Reset, Exu!Reset, Starting
    <3>3. QED
      BY <3>1, <3>2 DEF HitsInFlight, delivered
  <2>4. CASE UNCHANGED perfVars
    BY <2>4 DEF perfVars, vars, HitsInFlight, delivered, N, Decoding, Starting
  <2>5. QED
    BY <2>1, <2>2, <2>3, <2>4 DEF PerfNext
<1>3. CountersOK /\ HitsInFlight => HitsAccounted
  <2> SUFFICES ASSUME CountersOK, HitsInFlight PROVE HitsAccounted
    OBVIOUS
  <2>1. \A e \in Fetches : N(e) \in Nat
    BY <1>0 DEF CountersOK, N
  <2>2. QED
    BY <2>1 DEF HitsInFlight, HitsAccounted, delivered
<1>4. QED
  BY <1>1, <1>2, <1>3, CpuImplemented, TypeCorrect, AlwaysOneInFlight, CountersInit,
     CountersType, PTL DEF PerfSpec

-----------------------------------------------------------------------------
(* What an edge that retires an instruction shows.                         *)

\* When the count of retired instructions grows, an instruction has retired in
\* a rising edge, and the decoder holds it still.
LEMMA RetireSeen ==
    ASSUME TypeOK, OneInFlight, CountersOK, PerfNext, N("minstret")' > N("minstret")
    PROVE  /\ Rise
           /\ \E io \in Answers : Cycle(io) /\ Retires(io)
           /\ exu_state' = "EXU_EXECUTE" /\ inst' = inst
<1>0. "minstret" \in Events
  BY DEF Events
<1>1. N("minstret") \in Nat
  BY <1>0 DEF CountersOK, N
<1>2. ~Fall
  BY <1>1 DEF Fall, N
<1>3. ~PerfReset
  BY <1>0, <1>1 DEF PerfReset, perf_reset, N
<1>4. Rise
  BY <1>2, <1>3 DEF PerfNext
<1>5. PICK io \in Answers : Cycle(io) /\ perf_measure(io)
  BY <1>4 DEF Rise
<1>6. io \in Io
  BY AnswersAreInputs DEF CountersOK
<1>7. Happens(io, "minstret")
  BY <1>0, <1>1, <1>5, EventCounted
<1>8. Retires(io) /\ exu_state' = "EXU_EXECUTE"
  BY <1>5, <1>7, ExuEvents DEF Cycle, Clock
<1>9. ~idu_respValid'
  BY <1>5, <1>6, <1>8, ClockOneInFlight DEF OneInFlight, Starting, Decoding
<1>10. inst' = inst
  BY <1>5, <1>6, <1>9, ClockFacts
<1>11. QED
  BY <1>4, <1>5, <1>8, <1>10

\* An ebreak that has retired is flagged in the cycle after it, whatever the
\* fetch that is under way then brings.
THEOREM EbreakAlwaysFlagged == PerfSpec => EbreakFlagged
<1>1. TypeOK /\ OneInFlight /\ CountersOK /\ [PerfNext]_perfVars => [EbreakStaysVisible]_perfVars
  <2> SUFFICES ASSUME TypeOK, OneInFlight, CountersOK, PerfNext,
                      N("minstret")' > N("minstret"), dec.type = "INST_EBREAK"
               PROVE  is_ebreak'
    BY DEF EbreakStaysVisible
  <2>1. QED
    BY RetireSeen DEF is_ebreak, dec
<1>2. QED
  BY <1>1, CpuImplemented, TypeCorrect, AlwaysOneInFlight, CountersInit, CountersType, PTL
  DEF PerfSpec, EbreakFlagged

\* A program that reads a half of the cycle counter gets that half of what the
\* bench has counted when the instruction retires.
THEOREM CounterAlwaysReadsCycles ==
    ASSUME MaxCycles < WordSize * WordSize
    PROVE  PerfSpec => CounterReadsCycles
<1>1. TypeOK /\ OneInFlight /\ CountersOK /\ CyclesAgree /\ [PerfNext]_perfVars
        => [CounterRead]_perfVars
  <2> DEFINE addr == dec.imm % CsrAddrs
  <2> SUFFICES ASSUME TypeOK, OneInFlight, CountersOK, CyclesAgree, PerfNext,
                      N("minstret")' > N("minstret"),
                      dec.type \in {"INST_CSR", "INST_CSRI"}, dec.rd \in 1..REG_NUM-1
               PROVE  /\ addr = MCYCLE  => regs'[dec.rd] = mcycle % WordSize
                      /\ addr = MCYCLEH => regs'[dec.rd] = mcycle \div WordSize
    BY DEF CounterRead, CyclesAgree
  <2>1. PICK io \in Answers : Cycle(io) /\ Retires(io)
    BY RetireSeen
  <2>2. /\ ExuIn(io).dec = dec /\ ExuIn(io).csr_rdata = Csr!rdata(addr)
    BY DEF ExuIn, Answers, csr_rdata
  <2>3. Exu!rf_wen(ExuIn(io)) /\ Exu!rf_wdata(ExuIn(io)) = Csr!rdata(addr)
    BY <2>1, <2>2 DEF Exu!rf_wen, Exu!writes_register, Exu!rf_wdata, Exu!is_named_load, Retires
  <2>4. regs' = [regs EXCEPT ![dec.rd] = Csr!rdata(addr)]
    BY <2>1, <2>3, WordAssumption DEF Cycle, Clock, Rf!Clock
  <2>5. regs'[dec.rd] = Csr!rdata(addr)
    BY <2>4, WordAssumption DEF TypeOK, Rf!TypeOK
  <2> HIDE DEF addr
  <2>6. /\ addr = MCYCLE => Csr!rdata(addr) = mcycle % WordSize
        /\ addr = MCYCLEH => Csr!rdata(addr) = mcycle \div WordSize
    BY PerfAssumption DEF Csr!rdata
  <2>7. QED
    BY <2>5, <2>6
<1>2. QED
  BY <1>1, CpuImplemented, TypeCorrect, AlwaysOneInFlight, CountersInit, CountersType,
     CyclesAlwaysAgree, PTL DEF PerfSpec, CounterReadsCycles
=============================================================================
