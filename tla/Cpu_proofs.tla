----------------------------- MODULE Cpu_proofs -----------------------------
(***************************************************************************)
(* Proofs about the CPU, for every word size, number of registers and      *)
(* cache lines, instruction set and bus behaviour.                         *)
(***************************************************************************)
EXTENDS Cpu, TLAPS

-----------------------------------------------------------------------------
(* What one rising edge does to each unit, as the invariant sees it.       *)

\* The IFU answers at once on a hit, and otherwise when the bus does; it
\* leaves its idle state only to wait for the bus.
LEMMA IfuStep ==
    ASSUME NEW in,
           in.reqValid \in BOOLEAN, in.io_respValid \in BOOLEAN,
           ifu_state \in {"IFU_IDLE", "IFU_WAIT_IO"},
           in.reqValid => ifu_state = "IFU_IDLE",
           Ifu!Clock(in)
    PROVE  /\ Ifu!respValid(in) => /\ ifu_state' = "IFU_IDLE"
                                   /\ in.reqValid \/ ifu_state = "IFU_WAIT_IO"
           /\ ~Ifu!respValid(in) =>
                ifu_state' = IF in.reqValid THEN "IFU_WAIT_IO" ELSE ifu_state
<1> USE DEF Ifu!Clock, Ifu!Advances, Ifu!next_state, Ifu!respValid, Ifu!Hit, Ifu!Miss,
     Ifu!Filling, Ifu!LookingUp, Ifu!IcacheIn, Ifu!Icache!RespValid, Ifu!Icache!ReadValid
<1>3. CASE ifu_state = "IFU_IDLE" /\ in.reqValid
  BY <1>3
<1>4. CASE ifu_state = "IFU_IDLE" /\ ~in.reqValid
  BY <1>4
<1>5. CASE ifu_state = "IFU_WAIT_IO"
  BY <1>5
<1>6. QED
  BY <1>3, <1>4, <1>5

\* The LSU goes idle in the cycle in which it answers and in no other.
LEMMA LsuStep ==
    ASSUME NEW in,
           in.reqValid \in BOOLEAN, in.io_respValid \in BOOLEAN,
           lsu_state \in Lsu!lsu_states,
           Lsu!Clock(in)
    PROVE  /\ lsu_state' \in Lsu!lsu_states
           /\ Lsu!respValid(in) => /\ lsu_state' = "LSU_IDLE"
                                   /\ lsu_state # "LSU_IDLE" \/ in.reqValid
           /\ ~Lsu!respValid(in) =>
                (lsu_state' # "LSU_IDLE" <=> lsu_state # "LSU_IDLE" \/ in.reqValid)
  BY DEF Lsu!Clock, Lsu!next_state, Lsu!respValid, Lsu!Starts, Lsu!FirstPartDone, Lsu!lsu_states

\* The EXU retires an instruction it takes at once, or when the LSU answers.
LEMMA ExuStep ==
    ASSUME NEW in,
           in.reqValid \in BOOLEAN, in.lsu_respValid \in BOOLEAN,
           exu_state \in Exu!exu_states,
           Exu!Clock(in)
    PROVE  /\ exu_state' \in Exu!exu_states
           /\ exu_state = "EXU_RESET" => exu_state' = "EXU_START"
           /\ exu_state \in {"EXU_START", "EXU_STALL_IDU", "EXU_EXECUTE"} =>
                exu_state' = IF ~in.reqValid THEN "EXU_STALL_IDU"
                             ELSE IF Exu!is_lsu_inst(in.dec) /\ ~in.lsu_respValid
                             THEN "EXU_STALL_LSU" ELSE "EXU_EXECUTE"
           /\ exu_state = "EXU_STALL_LSU" =>
                exu_state' = IF in.lsu_respValid THEN "EXU_EXECUTE" ELSE "EXU_STALL_LSU"
           /\ Exu!respValid(in) <=> exu_state' = "EXU_EXECUTE"
  BY DEF Exu!Clock, Exu!next_state, Exu!respValid, Exu!Takes, Exu!lsu_or_exec, Exu!exu_states

-----------------------------------------------------------------------------
(* Types of the data that go from unit to unit.                            *)

\* What the decoder gives.
LEMMA DecType ==
    ASSUME inst \in Word
    PROVE  dec \in Idu!Decoded
  BY UnitsAssumption DEF dec

\* The operands are words, and so is what the ALU makes of them.
LEMMA OperandsType ==
    ASSUME TypeOK
    PROVE  /\ Operands.rdata1 \in Word /\ Operands.rdata2 \in Word
           /\ Exu!alu_res(Operands) \in Word
<1>1. dec \in Idu!Decoded
  BY DecType DEF TypeOK, Idu!TypeOK
<1>2. \A rs \in RegNum : Rf!Read(rs) \in Word
  BY WordAssumption DEF TypeOK, Rf!TypeOK, Rf!Read, Word
<1>3. dec.rs1 \in RegNum /\ dec.rs2 \in RegNum /\ dec.imm \in Word /\ dec.alu_op \in AluOp
  BY <1>1 DEF Idu!Decoded
<1>4. Operands.rdata1 \in Word /\ Operands.rdata2 \in Word /\ Operands.pc \in Word
      /\ Operands.dec = dec
  BY <1>2, <1>3 DEF Operands, TypeOK
<1>5. Exu!alu_lhs(Operands) \in Word /\ Exu!alu_rhs(Operands) \in Word
  BY <1>3, <1>4 DEF Exu!alu_lhs, Exu!alu_rhs
<1>6. QED
  BY <1>3, <1>4, <1>5, UnitsAssumption DEF Exu!alu_res

\* The LSU gives back a word.
LEMMA LsuRdataType ==
    ASSUME NEW in, in.addr \in Nat, in.io_rdata \in Lane4,
           first_rdata_q \in [1..3 -> Byte]
    PROVE  Lsu!rdata(in) \in Lane4
<1>1. Lsu!addr_offset(in) \in 0..3
  BY DEF Lsu!addr_offset
<1>2. Lsu!first_rdata(in) \in [1..3 -> Byte]
  BY DEF Lsu!first_rdata, Lane4
<1>3. Lsu!align_rdata(in) \in Lane4
  BY <1>1, <1>2 DEF Lsu!align_rdata, Lane4, Lsu!Lanes
<1>4. Lsu!Width(in.data_size) \in {1, 2, 4}
  BY DEF Lsu!Width
<1>5. \A b, sg : Lsu!Extension(b, sg) \in Byte
  BY LanesAssumption DEF Lsu!Extension
<1>6. QED
  BY <1>3, <1>4, <1>5 DEF Lsu!rdata, Lane4, Lsu!Lanes

-----------------------------------------------------------------------------
(* The type invariant.                                                     *)

\* Every register keeps its type in a cycle.
LEMMA ClockType ==
    ASSUME TypeOK, NEW io \in Io, Cycle(io)
    PROVE  TypeOK'
<1> USE DEF Cycle
<1>0. /\ io.ifu_respValid \in BOOLEAN /\ io.ifu_rdata \in Word
      /\ io.lsu_respValid \in BOOLEAN /\ io.lsu_rdata \in Lane4
      /\ io.csr_rdata \in Word
  BY BusAssumption DEF Io
<1>1. 0 \in Word /\ pc \in Word /\ pc \in Nat /\ pc \div 4 \in 0..NWords-1
  BY WordAssumption DEF TypeOK, Word, NWords
<1>2. Ifu!TypeOK'
  <2> DEFINE in == IfuIn(io)
             ic == Ifu!IcacheIn(in)
  <2>1. in.io_rdata \in Word /\ in.pc = pc /\ in.io_respValid \in BOOLEAN
    BY <1>0 DEF IfuIn
  <2>2. ic.wdata \in Word /\ ic.addr = pc \div 4 /\ ic.wen \in BOOLEAN
    BY <2>1 DEF Ifu!IcacheIn, Ifu!Filling
  <2> HIDE DEF ic
  <2>3. Ifu!Icache!Filled(ic.addr, ic.wdata) \in Ifu!Icache!Line
    BY <1>1, <2>2 DEF Ifu!Icache!Filled, Ifu!Icache!Line
  <2>4. /\ lines' = IF ic.wen
                    THEN [lines EXCEPT ![Ifu!Icache!Index(ic.addr)] = Ifu!Icache!Filled(ic.addr, ic.wdata)]
                    ELSE lines
        /\ writeValid' = ic.wen
    BY DEF Clock, Ifu!Clock, Ifu!Icache!Clock, ic
  <2>5. lines' \in [0..LINE_N-1 -> Ifu!Icache!Line] /\ writeValid' \in BOOLEAN
    BY <2>2, <2>3, <2>4 DEF TypeOK, Ifu!TypeOK, Ifu!Icache!TypeOK
  <2>6. ifu_state' \in Ifu!ifu_states
    BY DEF TypeOK, Ifu!TypeOK, Clock, Ifu!Clock, Ifu!next_state, Ifu!ifu_states
  <2>7. QED
    BY <2>5, <2>6 DEF Ifu!TypeOK, Ifu!Icache!TypeOK, Ifu!Icache!Line
<1>3. Idu!TypeOK'
  <2>1. Ifu!respValid(IfuIn(io)) \in BOOLEAN
    BY DEF Ifu!respValid
  <2>2. Ifu!inst(IfuIn(io)) \in Word
    <3>1. \A a \in 0..NWords-1 : Ifu!Icache!LineOf(a).data \in Word
      <4>1. \A a \in 0..NWords-1 : Ifu!Icache!Index(a) \in 0..LINE_N-1
        BY WordAssumption DEF Ifu!Icache!Index, NWords
      <4>2. QED
        BY <4>1 DEF TypeOK, Ifu!TypeOK, Ifu!Icache!TypeOK, Ifu!Icache!Line, Ifu!Icache!LineOf
    <3>2. QED
      BY <1>0, <1>1, <3>1 DEF Ifu!inst, IfuIn, Ifu!IcacheIn, Ifu!Icache!Rdata
  <2>3. QED
    BY <2>1, <2>2 DEF Clock, Idu!Clock, TypeOK, Idu!TypeOK
<1>4. Exu!TypeOK'
  BY DEF TypeOK, Clock, Exu!Clock, Exu!TypeOK, Exu!next_state, Exu!exu_states, Exu!lsu_or_exec
<1>5. Lsu!TypeOK'
  <2>1. lsu_state' \in Lsu!lsu_states
    BY DEF TypeOK, Lsu!TypeOK, Clock, Lsu!Clock, Lsu!next_state, Lsu!lsu_states
  <2>2. io_reqValid_q' \in BOOLEAN
    BY DEF Clock, Lsu!Clock, Lsu!io_reqValid_d
  <2>3. first_rdata_q' \in [1..3 -> Byte]
    <3>1. LsuIn(io).io_rdata \in Lane4
      BY <1>0 DEF LsuIn
    <3>2. QED
      BY <3>1 DEF TypeOK, Lsu!TypeOK, Clock, Lsu!Clock, Lane4
  <2>4. QED
    BY <2>1, <2>2, <2>3 DEF Lsu!TypeOK
<1>6. (pc \in Word)' /\ Rf!TypeOK'
  <2>1. FromLanes(Lsu!rdata(LsuIn(io))) \in Word
    <3>1. LsuIn(io).addr \in Nat /\ LsuIn(io).io_rdata \in Lane4
      BY <1>0, OperandsType, WordAssumption DEF LsuIn, Word
    <3>2. QED
      BY <3>1, LsuRdataType, LanesAssumption DEF TypeOK, Lsu!TypeOK
  <2>2. /\ ExuIn(io).pc = pc /\ ExuIn(io).dec = dec
        /\ ExuIn(io).rdata1 = Operands.rdata1 /\ ExuIn(io).rdata2 = Operands.rdata2
        /\ ExuIn(io).csr_rdata \in Word /\ ExuIn(io).lsu_rdata \in Word
    BY <1>0, <2>1 DEF ExuIn
  <2>3. Exu!pc_inc(ExuIn(io)) \in Word
    BY <1>1, <2>2, WordAssumption DEF Exu!pc_inc, Word
  <2>4. Exu!alu_res(ExuIn(io)) \in Word
    BY <2>2, OperandsType DEF Exu!alu_res, Exu!alu_lhs, Exu!alu_rhs, Operands
  <2>5. Exu!pc_next(ExuIn(io)) \in Word /\ Exu!rf_wdata(ExuIn(io)) \in Word
    BY <1>1, <2>2, <2>3, <2>4 DEF Exu!pc_next, Exu!rf_wdata
  <2>6. pc' \in Word
    BY <1>1, <2>5 DEF Clock
  <2>7. regs' \in [0..REG_NUM-1 -> Word]
    BY <2>5 DEF Clock, Rf!Clock, TypeOK, Rf!TypeOK
  <2>8. QED
    BY <2>6, <2>7 DEF Rf!TypeOK, Word
<1>7. is_start' \in BOOLEAN /\ ifu_reqValid' \in BOOLEAN
  BY DEF Clock, AsksNext, Retires, Exu!respValid, TypeOK
<1>9. ebreak' \in BOOLEAN /\ leftover' \in BOOLEAN
  BY DEF is_ebreak, TypeOK
<1>8. QED
  BY <1>2, <1>3, <1>4, <1>5, <1>6, <1>7, <1>9 DEF TypeOK

\* The reset state is well typed.
LEMMA ResetType ==
    ASSUME TypeOK, BenchReset
    PROVE  TypeOK'
<1> USE DEF BenchReset
<1>1. Ifu!TypeOK'
  <2>1. \A i \in 0..LINE_N-1 : [lines[i] EXCEPT !.valid = FALSE] \in Ifu!Icache!Line
    BY DEF TypeOK, Ifu!TypeOK, Ifu!Icache!TypeOK, Ifu!Icache!Line
  <2>2. lines' \in [0..LINE_N-1 -> Ifu!Icache!Line] /\ writeValid' = FALSE
    BY <2>1 DEF Reset, Ifu!Reset, Ifu!Icache!Reset
  <2>3. ifu_state' \in Ifu!ifu_states
    BY DEF Reset, Ifu!Reset, Ifu!ifu_states
  <2>4. QED
    BY <2>2, <2>3 DEF Ifu!TypeOK, Ifu!Icache!TypeOK, Ifu!Icache!Line
<1>2. Idu!TypeOK' /\ Exu!TypeOK'
  BY DEF TypeOK, Reset, Idu!TypeOK, Idu!Reset, Exu!TypeOK, Exu!Reset, Exu!exu_states
<1>3. Lsu!TypeOK'
  BY LanesAssumption DEF Reset, Lsu!TypeOK, Lsu!Reset, Lsu!lsu_states
<1>4. regs' \in [0..REG_NUM-1 -> Word] /\ pc' \in Word
  BY WordAssumption DEF Reset, Rf!Reset, Word
<1>5. /\ is_start' \in BOOLEAN /\ ifu_reqValid' \in BOOLEAN
      /\ ebreak' \in BOOLEAN /\ leftover' \in BOOLEAN
  BY DEF Reset, lsu_reqValid, Exu!is_lsu_inst, TypeOK, Idu!TypeOK
<1>6. QED
  BY <1>1, <1>2, <1>3, <1>4, <1>5 DEF TypeOK, Rf!TypeOK, Word

\* Every register of the CPU keeps its type: pc, registers, cache lines and
\* the LSU's kept bytes stay words and bytes whatever the buses answer.
THEOREM TypeCorrect == Spec => []TypeOK
<1>1. Init => TypeOK
  <2> SUFFICES ASSUME Init PROVE TypeOK
    OBVIOUS
  <2>1. Ifu!TypeOK
    BY DEF Init, Ifu!Init, Ifu!TypeOK, Ifu!ifu_states, Ifu!Icache!Init, Ifu!Icache!TypeOK
  <2>2. Lsu!TypeOK
    BY LanesAssumption DEF Init, Lsu!TypeOK, Lsu!Init, Lsu!lsu_states
  <2>3. /\ idu_respValid \in BOOLEAN /\ is_start \in BOOLEAN /\ ifu_reqValid \in BOOLEAN
        /\ ebreak \in BOOLEAN /\ leftover \in BOOLEAN
        /\ Exu!TypeOK
    BY DEF Init, Idu!Init, Exu!Init, Exu!TypeOK, Exu!exu_states
  <2>4. inst \in Word /\ regs \in [0..REG_NUM-1 -> Word] /\ pc \in Word
    BY WordAssumption DEF Init, Idu!Init, Rf!Init, Word
  <2>5. QED
    BY <2>1, <2>2, <2>3, <2>4 DEF TypeOK, Idu!TypeOK, Rf!TypeOK, Word
<1>2. TypeOK /\ [Next]_vars => TypeOK'
  <2> SUFFICES ASSUME TypeOK, [Next]_vars PROVE TypeOK'
    OBVIOUS
  <2>1. CASE Clocked
    BY <2>1, ClockType DEF Clocked
  <2>2. CASE BenchReset
    BY <2>2, ResetType
  <2>3. CASE UNCHANGED vars
    BY <2>3 DEF vars, TypeOK, Ifu!TypeOK, Ifu!Icache!TypeOK, Ifu!Icache!Line, Idu!TypeOK,
       Exu!TypeOK, Lsu!TypeOK, Rf!TypeOK
  <2>4. QED
    BY <2>1, <2>2, <2>3 DEF Next
<1>3. QED
  BY <1>1, <1>2, PTL DEF Spec

-----------------------------------------------------------------------------
(* One instruction in flight.                                              *)

\* One rising edge, told by the state of the EXU: what the unit lemmas say of
\* the units once they are wired together.
LEMMA ClockFacts ==
    ASSUME TypeOK, OneInFlight, NEW io \in Io, Cycle(io)
    PROVE  /\ ifu_state \in {"IFU_IDLE", "IFU_WAIT_IO"}
           /\ ifu_state' \in {"IFU_IDLE", "IFU_WAIT_IO"}
           /\ idu_respValid' \in BOOLEAN
           /\ idu_respValid' => /\ ifu_state' = "IFU_IDLE"
                                /\ ifu_reqValid \/ ifu_state = "IFU_WAIT_IO"
           /\ ~idu_respValid' =>
                /\ ifu_state' = IF ifu_reqValid THEN "IFU_WAIT_IO" ELSE ifu_state
                /\ inst' = inst
                /\ dec' = dec
           /\ Lsu!respValid(LsuIn(io)) =>
                lsu_state' = "LSU_IDLE" /\ (lsu_state # "LSU_IDLE" \/ lsu_reqValid)
           /\ ~Lsu!respValid(LsuIn(io)) =>
                (lsu_state' # "LSU_IDLE" <=> lsu_state # "LSU_IDLE" \/ lsu_reqValid)
           /\ exu_state \in Exu!exu_states /\ exu_state' \in Exu!exu_states
           /\ exu_state = "EXU_RESET" => exu_state' = "EXU_START"
           /\ exu_state \in {"EXU_START", "EXU_STALL_IDU", "EXU_EXECUTE"} =>
                exu_state' = IF ~idu_respValid THEN "EXU_STALL_IDU"
                             ELSE IF Exu!is_lsu_inst(dec) /\ ~Lsu!respValid(LsuIn(io))
                             THEN "EXU_STALL_LSU" ELSE "EXU_EXECUTE"
           /\ exu_state = "EXU_STALL_LSU" =>
                exu_state' = IF Lsu!respValid(LsuIn(io))
                             THEN "EXU_EXECUTE" ELSE "EXU_STALL_LSU"
           /\ Retires(io) <=> exu_state' = "EXU_EXECUTE"
           /\ is_start' = FALSE
           /\ ifu_reqValid' = (Retires(io) \/ is_start)
           /\ ~Retires(io) => pc' = pc /\ regs' = regs
           /\ leftover' = leftover
<1> USE DEF Cycle
<1> DEFINE ii == IfuIn(io)
           li == LsuIn(io)
           xi == ExuIn(io)
<1>1. /\ ii.reqValid = ifu_reqValid /\ ii.reqValid \in BOOLEAN
      /\ ii.io_respValid \in BOOLEAN
  BY DEF IfuIn, Io, TypeOK
<1>2. /\ li.reqValid = lsu_reqValid /\ li.reqValid \in BOOLEAN
      /\ li.io_respValid \in BOOLEAN
  BY DEF LsuIn, Io, TypeOK, lsu_reqValid, Idu!TypeOK, Exu!is_lsu_inst
<1>3. /\ xi.reqValid = idu_respValid /\ xi.reqValid \in BOOLEAN
      /\ xi.lsu_respValid = Lsu!respValid(li) /\ xi.lsu_respValid \in BOOLEAN
      /\ xi.dec = dec
  BY DEF ExuIn, TypeOK, Idu!TypeOK, Lsu!respValid
<1>4. /\ ifu_state \in {"IFU_IDLE", "IFU_WAIT_IO"}
      /\ ifu_reqValid => ifu_state = "IFU_IDLE"
      /\ exu_state \in Exu!exu_states /\ lsu_state \in Lsu!lsu_states
  BY DEF OneInFlight, TypeOK, Exu!TypeOK, Lsu!TypeOK
<1>5. /\ Ifu!Clock(ii) /\ Lsu!Clock(li) /\ Exu!Clock(xi)
      /\ idu_respValid' = Ifu!respValid(ii)
      /\ ~Ifu!respValid(ii) => inst' = inst
      /\ is_start' = FALSE
      /\ ifu_reqValid' = (Exu!respValid(xi) \/ is_start)
  BY DEF Clock, Idu!Clock, AsksNext, Retires
<1>6. ~Exu!respValid(xi) => pc' = pc /\ regs' = regs
  BY DEF Clock, Retires, Rf!Clock, Exu!rf_wen
<1>7. inst' = inst => dec' = dec
  BY DEF dec
<1> HIDE DEF ii, li, xi
<1>8. Retires(io) <=> Exu!respValid(xi)
  BY DEF Retires, xi
<1>9. idu_respValid' \in BOOLEAN
  BY <1>5 DEF Ifu!respValid
<1>10. /\ Ifu!respValid(ii) => ifu_state' = "IFU_IDLE" /\ (ifu_reqValid \/ ifu_state = "IFU_WAIT_IO")
       /\ ~Ifu!respValid(ii) =>
            ifu_state' = IF ifu_reqValid THEN "IFU_WAIT_IO" ELSE ifu_state
  BY <1>1, <1>4, <1>5, IfuStep
<1>11. /\ Lsu!respValid(li) => lsu_state' = "LSU_IDLE" /\ (lsu_state # "LSU_IDLE" \/ lsu_reqValid)
       /\ ~Lsu!respValid(li) =>
            (lsu_state' # "LSU_IDLE" <=> lsu_state # "LSU_IDLE" \/ lsu_reqValid)
  BY <1>2, <1>4, <1>5, LsuStep
<1>12. /\ exu_state' \in Exu!exu_states
       /\ exu_state = "EXU_RESET" => exu_state' = "EXU_START"
       /\ exu_state \in {"EXU_START", "EXU_STALL_IDU", "EXU_EXECUTE"} =>
            exu_state' = IF ~idu_respValid THEN "EXU_STALL_IDU"
                         ELSE IF Exu!is_lsu_inst(dec) /\ ~Lsu!respValid(li)
                         THEN "EXU_STALL_LSU" ELSE "EXU_EXECUTE"
       /\ exu_state = "EXU_STALL_LSU" =>
            exu_state' = IF Lsu!respValid(li) THEN "EXU_EXECUTE" ELSE "EXU_STALL_LSU"
       /\ Exu!respValid(xi) <=> exu_state' = "EXU_EXECUTE"
  BY <1>3, <1>4, <1>5, ExuStep
<1>13. QED
  BY <1>4, <1>5, <1>6, <1>7, <1>8, <1>9, <1>10, <1>11, <1>12 DEF li

\* OneInFlight is inductive with the types: its clauses tie the state of every
\* unit to the one state of the EXU, so that each step is a case of it; only the
\* LSU may be working for something else, and then the reset has left it.
LEMMA ClockOneInFlight ==
    ASSUME TypeOK, OneInFlight, NEW io \in Io, Cycle(io)
    PROVE  OneInFlight'
<1> USE ClockFacts DEF OneInFlight, Starting, InMemory, Decoding, lsu_reqValid
<1>1. CASE exu_state = "EXU_RESET"
  BY <1>1
<1>2. CASE exu_state \in {"EXU_START", "EXU_EXECUTE"}
  BY <1>2
<1>3. CASE exu_state = "EXU_STALL_IDU"
  BY <1>3
<1>4. CASE exu_state = "EXU_STALL_LSU"
  BY <1>4 DEF Exu!is_lsu_inst
<1>5. QED
  BY <1>1, <1>2, <1>3, <1>4 DEF Exu!exu_states

\* The reset brings every unit but the IDU to its start, and remembers what the
\* IDU still asks of the LSU.
LEMMA ResetOneInFlight ==
    ASSUME BenchReset
    PROVE  OneInFlight'
<1>1. /\ is_start' = TRUE /\ exu_state' = "EXU_RESET" /\ ifu_reqValid' = FALSE
      /\ ifu_state' = "IFU_IDLE" /\ lsu_state' = "LSU_IDLE"
  BY DEF BenchReset, Reset, Ifu!Reset, Exu!Reset, Lsu!Reset
<1>2. inst' = inst /\ idu_respValid' = idu_respValid /\ leftover' = lsu_reqValid
  BY DEF BenchReset, Reset, Idu!Reset
<1>3. lsu_reqValid' = lsu_reqValid
  BY <1>2 DEF lsu_reqValid, dec, Exu!is_lsu_inst
<1>4. QED
  BY <1>1, <1>2, <1>3 DEF OneInFlight, Starting, InMemory, Decoding

\* Whatever the two buses answer, at whatever moment, and wherever a test was
\* stopped, one instruction goes through IFU, IDU and EXU, in one place; the LSU
\* works for it, or for one that a reset has left in the IDU.
THEOREM AlwaysOneInFlight == Spec => []OneInFlight
<1>1. Init => OneInFlight
  BY DEF Init, OneInFlight, Starting, InMemory, Decoding, lsu_reqValid,
     Ifu!Init, Idu!Init, Exu!Init, Lsu!Init
<1>2. TypeOK /\ OneInFlight /\ [Next]_vars => OneInFlight'
  <2> SUFFICES ASSUME TypeOK, OneInFlight, [Next]_vars PROVE OneInFlight'
    OBVIOUS
  <2>1. CASE Clocked
    BY <2>1, ClockOneInFlight DEF Clocked
  <2>2. CASE BenchReset
    BY <2>2, ResetOneInFlight
  <2>3. CASE UNCHANGED vars
    BY <2>3 DEF vars, OneInFlight, Starting, InMemory, Decoding, lsu_reqValid, dec,
       Exu!is_lsu_inst
  <2>4. QED
    BY <2>1, <2>2, <2>3 DEF Next
<1>3. QED
  BY <1>1, <1>2, TypeCorrect, PTL DEF Spec

-----------------------------------------------------------------------------
(* What a unit is asked stays asked while it works.                        *)

\* As long as the EXU waits for the LSU after an edge, the edge has retired
\* nothing, and the registers the LSU's inputs come from are as they were.
LEMMA HeldInMemory ==
    ASSUME TypeOK, OneInFlight, NEW io \in Io, Cycle(io), exu_state' = "EXU_STALL_LSU"
    PROVE  /\ ~Retires(io)
           /\ inst' = inst /\ Operands' = Operands
           /\ InMemory \/ lsu_reqValid
<1>1. ~Lsu!respValid(LsuIn(io)) /\ (lsu_state # "LSU_IDLE" \/ lsu_reqValid)
  BY ClockFacts, ClockOneInFlight DEF InMemory, OneInFlight
<1>2. ~Retires(io) /\ ~idu_respValid'
  BY ClockFacts, ClockOneInFlight DEF OneInFlight, Starting, Decoding
<1>3. inst' = inst /\ pc' = pc /\ regs' = regs
  BY <1>2, ClockFacts
<1>4. QED
  BY <1>1, <1>2, <1>3 DEF Operands, dec, Rf!Read, InMemory

\* The LSU and the IFU latch nothing of what they are asked, and need not:
\* their inputs stand still until they have answered.
THEOREM RequestsAlwaysStay == Spec => RequestsStay
<1>1. TypeOK /\ OneInFlight /\ [Next]_vars => [RequestsStable]_vars
  <2> SUFFICES ASSUME TypeOK, OneInFlight, Next PROVE RequestsStable
    BY DEF RequestsStable
  <2>1. CASE Clocked
    <3> PICK io \in Io : Cycle(io)
      BY <2>1 DEF Clocked
    <3>1. exu_state' = "EXU_STALL_LSU" => UNCHANGED <<Operands, inst>>
      BY HeldInMemory
    <3>2. ifu_state = "IFU_WAIT_IO" /\ ifu_state' = "IFU_WAIT_IO" => UNCHANGED pc
      BY ClockFacts DEF OneInFlight, Starting, Decoding
    <3>3. QED
      BY <3>1, <3>2 DEF RequestsStable
  <2>2. CASE BenchReset
    BY <2>2 DEF BenchReset, Reset, Exu!Reset, Ifu!Reset, RequestsStable
  <2>3. QED
    BY <2>1, <2>2 DEF Next
<1>2. QED
  BY <1>1, TypeCorrect, AlwaysOneInFlight, PTL DEF Spec, RequestsStay

\* Unless a reset has left an access behind, one the LSU makes in two parts is
\* misaligned as long as it lasts, and one it makes in one part is not.
THEOREM PartsAlwaysMatch == Spec => []PartsMatchAccess
<1> DEFINE mis == Lsu!is_misalign([data_size |-> dec.size, addr |-> Exu!alu_res(Operands)])
<1>1. Init => PartsMatchAccess
  BY DEF Init, Lsu!Init, PartsMatchAccess, InMemory
<1>2. TypeOK /\ OneInFlight /\ PartsMatchAccess /\ [Next]_vars => PartsMatchAccess'
  <2> SUFFICES ASSUME TypeOK, OneInFlight, PartsMatchAccess, [Next]_vars
               PROVE  PartsMatchAccess'
    OBVIOUS
  <2>1. CASE Clocked
    <3> PICK io \in Io : Cycle(io)
      BY <2>1 DEF Clocked
    <3> SUFFICES ASSUME InMemory', ~leftover PROVE mis' <=> lsu_state' # "LSU_WAIT_ONE"
      BY DEF PartsMatchAccess, Cycle
    <3>0. exu_state' = "EXU_STALL_LSU"
      BY ClockOneInFlight DEF OneInFlight, Cycle
    <3>1. mis' <=> mis
      BY <3>0, HeldInMemory DEF Operands, dec, Exu!alu_res, Exu!alu_lhs, Exu!alu_rhs,
         Lsu!is_misalign, Lsu!addr_offset
    <3>2. Lsu!is_misalign(LsuIn(io)) <=> mis
      BY DEF LsuIn, Lsu!is_misalign, Lsu!addr_offset
    <3>3. lsu_state' = Lsu!next_state(LsuIn(io)) /\ lsu_state \in Lsu!lsu_states
      BY DEF Cycle, Clock, Lsu!Clock, TypeOK, Lsu!TypeOK
    <3>4. LsuIn(io).reqValid = lsu_reqValid /\ LsuIn(io).io_respValid \in BOOLEAN
      BY DEF LsuIn, Io
    <3>5. lsu_state # "LSU_IDLE" => (mis <=> lsu_state # "LSU_WAIT_ONE")
      BY DEF PartsMatchAccess, InMemory
    <3> HIDE DEF mis
    <3>6. QED
      BY <3>0, <3>1, <3>2, <3>3, <3>4, <3>5, HeldInMemory
      DEF Lsu!next_state, Lsu!Starts, Lsu!FirstPartDone, Lsu!respValid, Lsu!lsu_states, InMemory
  <2>2. CASE BenchReset
    BY <2>2 DEF BenchReset, Reset, Lsu!Reset, PartsMatchAccess, InMemory
  <2>3. CASE UNCHANGED vars
    BY <2>3 DEF vars, PartsMatchAccess, InMemory, Operands, dec, Rf!Read,
       Exu!alu_res, Exu!alu_lhs, Exu!alu_rhs, Lsu!is_misalign, Lsu!addr_offset
  <2>4. QED
    BY <2>1, <2>2, <2>3 DEF Next
<1>3. QED
  BY <1>1, <1>2, TypeCorrect, AlwaysOneInFlight, PTL DEF Spec

-----------------------------------------------------------------------------
(* The CPU implements the instruction flow.                                *)

\* The edge in which an instruction retires is the abstract retirement: the
\* program counter and the destination register change as the flow says.
LEMMA RetireRefines ==
    ASSUME TypeOK, OneInFlight, NEW io \in Io, Cycle(io), Retires(io)
    PROVE  Flow!Retire
<1> USE DEF Cycle
<1>1. dec \in Idu!Decoded /\ dec.type \in Idu!types /\ dec.rd \in Nat
      /\ dec.rs1 \in Nat /\ dec.rs2 \in Nat
  BY DecType, WordAssumption DEF TypeOK, Idu!TypeOK, Idu!Decoded
<1>2. /\ exu_state' = "EXU_EXECUTE"
      /\ exu_state \in {"EXU_STALL_IDU", "EXU_STALL_LSU"}
  BY ClockFacts DEF OneInFlight, Decoding, Exu!exu_states
<1>3. stage \in {"decode", "memory"}
  BY <1>2, ClockFacts DEF OneInFlight, stage, MemoryStage, InMemory, Starting, Decoding
<1>4. stage' = "fetch" /\ inst' = inst
  BY <1>2, ClockFacts, ClockOneInFlight
  DEF OneInFlight, stage, MemoryStage, InMemory, Starting, Decoding
<1>5. Flow!dec = dec
  BY DEF Flow!dec, dec
<1>6. pc' = Flow!NextPc
  <2>1. pc' = Exu!pc_next(ExuIn(io))
    BY DEF Clock
  <2>2. \A r \in Nat : Rf!Read(r) = Flow!R(r)
    BY WordAssumption DEF Rf!Read, Flow!R
  <2>3. /\ ExuIn(io).dec = dec /\ ExuIn(io).pc = pc
        /\ ExuIn(io).rdata1 = Flow!R(dec.rs1) /\ ExuIn(io).rdata2 = Flow!R(dec.rs2)
    BY <1>1, <2>2 DEF ExuIn, Operands
  <2>4. QED
    BY <1>1, <1>5, <2>1, <2>3
    DEF Exu!pc_next, Exu!is_pc_jump, Exu!alu_res, Exu!alu_lhs, Exu!alu_rhs, Exu!com_res,
        Exu!pc_inc, Flow!NextPc, Idu!types
<1>7. \/ /\ Flow!HasResult /\ dec.rd \in 1..REG_NUM-1
         /\ \E v \in Word : regs' = [regs EXCEPT ![dec.rd] = v]
      \/ ~(Flow!HasResult /\ dec.rd \in 1..REG_NUM-1) /\ UNCHANGED regs
  <2> DEFINE v == Exu!rf_wdata(ExuIn(io))
  <2>1. Flow!HasResult <=> Exu!rf_wen(ExuIn(io))
    BY <1>1, <1>5 DEF Flow!HasResult, Exu!rf_wen, Exu!writes_register, ExuIn, Retires, Idu!types
  <2>2. Flow!HasResult \in BOOLEAN
    BY DEF Flow!HasResult
  <2>3. regs' = IF Exu!rf_wen(ExuIn(io)) /\ dec.rd # 0 /\ dec.rd < REG_NUM
                THEN [regs EXCEPT ![dec.rd] = v] ELSE regs
    BY DEF Clock, Rf!Clock
  <2>4. regs \in [0..REG_NUM-1 -> Word] /\ regs' \in [0..REG_NUM-1 -> Word]
    BY ClockType DEF TypeOK, Rf!TypeOK, Word
  <2> HIDE DEF v
  <2>5. CASE Flow!HasResult /\ dec.rd \in 1..REG_NUM-1
    <3>1. regs' = [regs EXCEPT ![dec.rd] = v]
      BY <1>1, <2>1, <2>3, <2>5, WordAssumption
    <3>2. v \in Word
      <4>1. dec.rd \in 0..REG_NUM-1
        BY <2>5, WordAssumption
      <4>2. regs'[dec.rd] = v
        BY <3>1, <2>4, <4>1
      <4>3. QED
        BY <2>4, <4>1, <4>2
    <3>3. QED
      BY <2>5, <3>1, <3>2
  <2>6. CASE ~(Flow!HasResult /\ dec.rd \in 1..REG_NUM-1)
    BY <1>1, <2>1, <2>3, <2>6, WordAssumption
  <2>7. QED
    BY <2>5, <2>6
<1>8. QED
  BY <1>3, <1>4, <1>5, <1>6, <1>7 DEF Flow!Retire, Flow!dec, dec

\* When an ebreak is flagged, the EXU waits for the next instruction, which may
\* be in the IDU already: the place a test that ends by ebreak is stopped at.
FlaggedInFetch == ebreak => exu_state = "EXU_STALL_IDU"

LEMMA AlwaysFlaggedInFetch == Spec => []FlaggedInFetch
<1>1. Init => FlaggedInFetch
  BY DEF Init, FlaggedInFetch
<1>2. TypeOK /\ OneInFlight /\ FlaggedInFetch /\ [Next]_vars => FlaggedInFetch'
  <2> SUFFICES ASSUME TypeOK, OneInFlight, FlaggedInFetch, [Next]_vars PROVE FlaggedInFetch'
    OBVIOUS
  <2>1. CASE Clocked
    <3> PICK io \in Io : Cycle(io)
      BY <2>1 DEF Clocked
    <3>1. ebreak' => exu_state = "EXU_EXECUTE" /\ ~idu_respValid
      BY DEF Cycle, is_ebreak, OneInFlight, Starting, Decoding
    <3>2. QED
      BY <3>1, ClockFacts DEF FlaggedInFetch
  <2>2. CASE BenchReset
    BY <2>2 DEF BenchReset, FlaggedInFetch
  <2>3. CASE UNCHANGED vars
    BY <2>3 DEF vars, FlaggedInFetch
  <2>4. QED
    BY <2>1, <2>2, <2>3 DEF Next
<1>3. QED
  BY <1>1, <1>2, TypeCorrect, AlwaysOneInFlight, PTL DEF Spec

\* Fetch, decode, memory and retirement follow each other as documented, one
\* instruction at a time, and only retirement changes pc and the registers.
THEOREM FlowImplemented == Spec => FollowsFlow
<1>1. Init => Flow!Init
  BY DEF Init, Flow!Init, stage, Idu!Init, Rf!Init
<1>2. TypeOK /\ OneInFlight /\ FlaggedInFetch /\ [Next]_vars => [Flow!Next]_(Flow!vars)
  <2> SUFFICES ASSUME TypeOK, OneInFlight, FlaggedInFetch, [Next]_vars
               PROVE  [Flow!Next]_(Flow!vars)
    OBVIOUS
  <2>1. CASE Clocked
    <3> PICK io \in Io : Cycle(io)
      BY <2>1 DEF Clocked
    <3>1. OneInFlight' /\ TypeOK'
      BY ClockOneInFlight, ClockType
    <3>2. ~Retires(io) => pc' = pc /\ regs' = regs
      BY ClockFacts
    <3>3. CASE is_start
      <4>1. stage = "start" /\ stage' = "fetch" /\ ~Retires(io) /\ inst' = inst
        BY <3>1, <3>3, ClockFacts DEF OneInFlight, stage, MemoryStage, InMemory, Starting, Decoding
      <4>2. QED
        BY <3>2, <4>1 DEF Flow!Next, Flow!Start
    <3>4. CASE ~is_start /\ stage = "fetch"
      <4>1. ~Retires(io) /\ exu_state' # "EXU_STALL_LSU"
        BY <3>1, <3>4, ClockFacts
        DEF OneInFlight, stage, MemoryStage, InMemory, Starting, Decoding, Exu!exu_states
      <4>2. CASE idu_respValid'
        <5>1. stage' = "decode" /\ inst' \in Word
          BY <3>1, <4>2, ClockFacts DEF stage, MemoryStage, InMemory, TypeOK, Idu!TypeOK
        <5>2. QED
          BY <3>2, <3>4, <4>1, <5>1 DEF Flow!Next, Flow!Fetched
      <4>3. CASE ~idu_respValid'
        <5>1. stage' = "fetch" /\ inst' = inst
          BY <3>1, <4>1, <4>3, ClockFacts DEF OneInFlight, stage, MemoryStage
        <5>2. QED
          BY <3>2, <3>4, <4>1, <5>1 DEF Flow!vars
      <4>4. QED
        BY <4>2, <4>3
    <3>5. CASE ~is_start /\ stage # "fetch" /\ Retires(io)
      BY <3>5, RetireRefines DEF Flow!Next
    <3>6. CASE ~is_start /\ stage = "decode" /\ ~Retires(io)
      <4>1. stage' = "memory" /\ Exu!is_lsu_inst(dec) /\ inst' = inst
        BY <3>1, <3>6, ClockFacts
        DEF OneInFlight, stage, MemoryStage, InMemory, Starting, Decoding, Exu!exu_states
      <4>2. QED
        BY <3>2, <3>6, <4>1
        DEF Flow!Next, Flow!ToMemory, Flow!UsesMemory, Flow!dec, dec, Exu!is_lsu_inst
    <3>7. CASE ~is_start /\ stage = "memory" /\ ~Retires(io)
      <4>1. stage' = "memory" /\ inst' = inst
        BY <3>1, <3>7, ClockFacts
        DEF OneInFlight, stage, MemoryStage, InMemory, Starting, Decoding, Exu!exu_states
      <4>2. QED
        BY <3>2, <3>7, <4>1 DEF Flow!vars
    <3>8. QED
      BY <3>3, <3>4, <3>5, <3>6, <3>7 DEF stage, MemoryStage, InMemory
  <2>2. CASE BenchReset
    <3>1. stage \in {"fetch", "decode"}
      BY <2>2 DEF BenchReset, FlaggedInFetch, OneInFlight, stage, MemoryStage, InMemory, Starting
    <3>2. QED
      BY <2>2, <3>1 DEF BenchReset, Reset, Idu!Reset, Rf!Reset, Flow!Next, Flow!Restart, stage
  <2>3. CASE UNCHANGED vars
    BY <2>3 DEF vars, Flow!vars, stage, MemoryStage, InMemory
  <2>4. QED
    BY <2>1, <2>2, <2>3 DEF Next
<1>3. QED
  BY <1>1, <1>2, TypeCorrect, AlwaysOneInFlight, AlwaysFlaggedInFetch, PTL
  DEF Spec, Flow!Spec, FollowsFlow
=============================================================================
