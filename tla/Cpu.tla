--------------------------------- MODULE Cpu ---------------------------------
(***************************************************************************)
(* soc/cpu.sv: the CPU, its units wired together, with nothing assumed of  *)
(* the two buses: at every rising edge the bus inputs                      *)
(*   io == [ifu_respValid, ifu_rdata, lsu_respValid, lsu_rdata, csr_rdata] *)
(* are arbitrary.  (csr.sv is a free-running cycle counter and constants;  *)
(* what it answers counts as an input.)  Words are the numbers below       *)
(* WordSize; ToLanes(w) is a word as four bytes, FromLanes its inverse.        *)
(***************************************************************************)
EXTENDS Integers

CONSTANTS WordSize, REG_NUM, RegNum, InitialPc, LINE_N,
          Byte, ZeroByte, OnesByte, NegByte, ToLanes(_), FromLanes(_),
          AluOp, ComOp, Alu(_, _, _), Com(_, _, _), Decode(_),
          IfuBus, LsuBus, CsrBus        \* what the buses and csr.sv may answer

Word   == 0..WordSize-1
NWords == WordSize \div 4
Lane4  == [0..3 -> Byte]

VARIABLES ifu_state, lines, writeValid,                 \* ifu, icache
          inst, idu_respValid,                          \* idu
          exu_state,                                    \* exu
          lsu_state, io_reqValid_q, first_rdata_q,      \* lsu
          regs, pc, is_start, ifu_reqValid,             \* rf, pc, cpu
          ebreak,       \* event_counts.ebreak, which the EXU sets in the bench
          leftover      \* history: the last reset left a load or store in the IDU

vars == <<ifu_state, lines, writeValid, inst, idu_respValid, exu_state,
          lsu_state, io_reqValid_q, first_rdata_q, regs, pc, is_start, ifu_reqValid,
          ebreak, leftover>>

Ifu == INSTANCE Ifu WITH WordAddr <- 0..NWords-1, NoInst <- 0
Idu == INSTANCE Idu
Exu == INSTANCE Exu
Lsu == INSTANCE Lsu
Rf  == INSTANCE Rf

ASSUME WordAssumption ==
    /\ WordSize \in Nat \ {0} /\ WordSize % 4 = 0
    /\ InitialPc \in Word
    /\ LINE_N \in Nat \ {0}
    /\ REG_NUM \in Nat \ {0} /\ RegNum \subseteq Nat
ASSUME LanesAssumption ==
    /\ \A w \in Word : ToLanes(w) \in Lane4
    /\ \A l \in Lane4 : FromLanes(l) \in Word
    /\ {ZeroByte, OnesByte} \subseteq Byte
ASSUME UnitsAssumption ==
    /\ \A op \in AluOp : \A a \in Word : \A b \in Word : Alu(op, a, b) \in Word
    /\ \A op \in ComOp : \A a \in Word : \A b \in Word : Com(op, a, b) \in BOOLEAN
    /\ \A w \in Word : Decode(w) \in Idu!Decoded
ASSUME BusAssumption == IfuBus \subseteq Word /\ CsrBus \subseteq Word /\ LsuBus \subseteq Lane4

Io == [ifu_respValid : BOOLEAN, ifu_rdata : IfuBus,
       lsu_respValid : BOOLEAN, lsu_rdata : LsuBus, csr_rdata : CsrBus]

TypeOK == /\ Ifu!TypeOK /\ Idu!TypeOK /\ Exu!TypeOK /\ Lsu!TypeOK /\ Rf!TypeOK
          /\ pc \in Word
          /\ is_start \in BOOLEAN
          /\ ifu_reqValid \in BOOLEAN
          /\ ebreak \in BOOLEAN
          /\ leftover \in BOOLEAN

-----------------------------------------------------------------------------
(* Wires.                                                                  *)

dec == Decode(inst)

IfuIn(io) == [reqValid |-> ifu_reqValid, pc |-> pc,
              io_respValid |-> io.ifu_respValid, io_rdata |-> io.ifu_rdata]

\* The operands of the EXU, as far as they do not come from the LSU.
Operands == [dec |-> dec, pc |-> pc,
             rdata1 |-> Rf!Read(dec.rs1), rdata2 |-> Rf!Read(dec.rs2)]

lsu_reqValid == idu_respValid /\ Exu!is_lsu_inst(dec)

LsuIn(io) == [reqValid |-> lsu_reqValid,
              is_write |-> dec.type = "INST_STORE",
              wdata |-> ToLanes(Operands.rdata2),
              addr |-> Exu!alu_res(Operands),
              data_size |-> dec.size,
              is_mem_sign |-> dec.sign,
              io_respValid |-> io.lsu_respValid,
              io_rdata |-> io.lsu_rdata]

ExuIn(io) == [reqValid |-> idu_respValid, dec |-> dec, pc |-> pc,
              rdata1 |-> Operands.rdata1, rdata2 |-> Operands.rdata2,
              csr_rdata |-> io.csr_rdata,
              lsu_respValid |-> Lsu!respValid(LsuIn(io)),
              lsu_rdata |-> FromLanes(Lsu!rdata(LsuIn(io)))]

Retires(io) == Exu!respValid(ExuIn(io))

\* Plausible bug: the flag is raised in the cycle of the decoder.
is_ebreakDecoded == dec.type = "INST_EBREAK" /\ exu_state = "EXU_STALL_IDU"

is_ebreak == dec.type = "INST_EBREAK" /\ exu_state = "EXU_EXECUTE"

-----------------------------------------------------------------------------
Init == /\ Ifu!Init /\ Idu!Init /\ Exu!Init /\ Lsu!Init /\ Rf!Init
        /\ pc = InitialPc
        /\ is_start = TRUE
        /\ ifu_reqValid = FALSE
        /\ ebreak = FALSE
        /\ leftover = FALSE

\* Plausible bug: the start pulse is not cleared.
AsksNextEver(io) == Retires(io) \/ is_start \/ ifu_reqValid

AsksNext(io) == Retires(io) \/ is_start

Clock(io) ==
    /\ Ifu!Clock(IfuIn(io))
    /\ Idu!Clock(Ifu!respValid(IfuIn(io)), Ifu!inst(IfuIn(io)))
    /\ Exu!Clock(ExuIn(io))
    /\ Lsu!Clock(LsuIn(io))
    /\ Rf!Clock(Exu!rf_wen(ExuIn(io)), dec.rd, Exu!rf_wdata(ExuIn(io)))
    /\ pc' = IF Retires(io) THEN Exu!pc_next(ExuIn(io)) ELSE pc
    /\ is_start' = FALSE
    /\ ifu_reqValid' = AsksNext(io)

\* The reset line is held for some cycles; nothing moves until it is released.
Reset == /\ Ifu!Reset /\ Idu!Reset /\ Exu!Reset /\ Lsu!Reset /\ Rf!Reset
         /\ pc' = InitialPc
         /\ is_start' = TRUE
         /\ ifu_reqValid' = FALSE

\* A cycle the bench runs: none once an ebreak has been flagged, which ends the
\* test.  An ebreak that retires in one cycle is flagged in the next.
Cycle(io) == /\ ~ebreak
             /\ Clock(io)
             /\ ebreak' = is_ebreak
             /\ UNCHANGED leftover

Clocked == \E io \in Io : Cycle(io)

\* The next test resets the CPU where the last one stopped: when an instruction
\* has retired, or one cycle later when it was an ebreak.  By then the word
\* behind the ebreak may be in the IDU, which the reset does not empty.  (A test
\* stopped by max_cycles fails, and no test follows it.)
BenchReset == /\ exu_state = "EXU_EXECUTE" \/ ebreak
              /\ Reset
              /\ ebreak' = FALSE
              /\ leftover' = lsu_reqValid

Next == Clocked \/ BenchReset

Spec == Init /\ [][Next]_vars

-----------------------------------------------------------------------------
(* Properties.                                                             *)

\* The places an instruction can be in.
Starting == is_start
Fetching == ifu_reqValid \/ ifu_state # "IFU_IDLE"
Decoding == idu_respValid
InMemory == lsu_state # "LSU_IDLE"

\* Whatever the buses answer and whenever, and wherever a test was stopped, one
\* instruction goes through IFU, IDU and EXU, in one place, and the EXU's state
\* says which: no unit of the loop is asked while it is busy, when its request
\* would be lost (ifu.sv:42-53, exu.sv:68-103 look at reqValid in some states
\* only).  The LSU works for the instruction the EXU waits for, or for one the
\* reset left in the IDU (idu.sv:29-30).
OneInFlight ==
    /\ Starting <=> exu_state = "EXU_RESET"
    /\ ifu_reqValid <=> exu_state \in {"EXU_START", "EXU_EXECUTE"}
    /\ exu_state = "EXU_STALL_IDU" <=> (Decoding /\ ~Starting) \/ ifu_state = "IFU_WAIT_IO"
    /\ ~(Decoding /\ ifu_state = "IFU_WAIT_IO")
    /\ ifu_state \in {"IFU_IDLE", "IFU_WAIT_IO"}
    /\ exu_state = "EXU_STALL_LSU" => InMemory /\ Exu!is_lsu_inst(dec)
    /\ InMemory \/ (Starting /\ lsu_reqValid) => exu_state = "EXU_STALL_LSU" \/ leftover

\* The LSU works for the instruction in the CPU and for no other: start, IFU,
\* IDU, LSU, as the diagram of cpu.sv:28-36 draws it.
NoStrayAccess == InMemory => exu_state = "EXU_STALL_LSU"

\* The LSU waits for two parts exactly when the access, as its inputs show it
\* now, needs two: an address that moved under it would show here
\* (lsu.sv:40-41, 155-205).
PartsMatchAccess ==
    LET in == [data_size |-> dec.size, addr |-> Exu!alu_res(Operands)]
    IN  InMemory /\ ~leftover => (Lsu!is_misalign(in) <=> lsu_state # "LSU_WAIT_ONE")

\* While the EXU waits for the LSU, or the IFU for the bus, what the unit is
\* asked for stays on its inputs (lsu.sv and ifu.sv latch none of it).
RequestsStable ==
    /\ exu_state = "EXU_STALL_LSU" /\ exu_state' = "EXU_STALL_LSU" =>
         UNCHANGED <<Operands, inst>>
    /\ ifu_state = "IFU_WAIT_IO" /\ ifu_state' = "IFU_WAIT_IO" => UNCHANGED pc

RequestsStay == [][RequestsStable]_vars

\* The EXU waits for the LSU, or the LSU works for something fetched since the
\* reset.
MemoryStage == exu_state = "EXU_STALL_LSU" \/ (InMemory /\ ~leftover)

stage == IF is_start THEN "start"
         ELSE IF idu_respValid THEN "decode"
         ELSE IF MemoryStage THEN "memory" ELSE "fetch"

Flow == INSTANCE InstFlow

\* The CPU implements the documented instruction flow.
FollowsFlow == Flow!Spec
=============================================================================
