------------------------------- MODULE Lockstep -------------------------------
(***************************************************************************)
(* The CPU on its test bench, cycle by cycle, next to the golden model,    *)
(* which executes one instruction whenever the CPU retires one: the random *)
(* test of soc/soc_main.cpp.  Composed are soc/cpu.sv with all its units,  *)
(* the two bus channels of vcpu_subtick, the bench's flash and RAM, and    *)
(* soc/gcpu.cpp.  Tests follow one another (test_random): each resets the  *)
(* registers of both sides and loads a program into both flashes; the RAMs *)
(* keep what they hold.                                                    *)
(*                                                                         *)
(* How vcpu_fetch_exec learns that an instruction has retired is the       *)
(* subject of Harness; here it stops at the edge of the retirement, and    *)
(* the comparison is a step of its own.                                    *)
(***************************************************************************)
EXTENDS Words, SequencesExt

CONSTANTS LINE_N, N_REGS, INITIAL_PC, FLASH_START, FLASH_END, MEM_START, MEM_END,
          UART_START, UART_END,
          UartReset,    \* what vcpu_reset puts into the registers of the UART
          MinDelay, MaxDelay,
          is_memcmp,    \* the option: compare all of RAM, or what was written
          Fields(_),    \* the fields of an instruction word
          Programs,     \* what test_random may generate: sequences of words
          Following(_), \* bound: the programs of the test after that of a program
          RegNums,      \* register numbers that instructions may name
          MaxTests      \* bound: tests one behaviour runs

VARIABLES
    ifu_state, lines, writeValid, inst, idu_respValid, exu_state,
    lsu_state, io_reqValid_q, first_rdata_q, regs, pc, is_start, ifu_reqValid,
    ifu_respValid, ifu_respTicks, ifu_reqPending, ifu_latch, ifu_waitTicks, ifu_rdata,
    lsu_respValid, lsu_respTicks, lsu_reqPending, lsu_latch, lsu_waitTicks, lsu_rdata,
    mem, flash, uart, is_mem_write, written_address,
    g_pc, g_regs, g_mem, g_ebreak, g_is_not_mapped, g_is_mem_write, g_written_address,
    insts, instrets, running, is_test_success, tests, phase,
    printed, sent       \* history: bytes the bench has printed, the golden model sent

cpuVars  == <<ifu_state, lines, writeValid, inst, idu_respValid, exu_state, lsu_state,
              io_reqValid_q, first_rdata_q, regs, pc, is_start, ifu_reqValid>>
ifuVars  == <<ifu_respValid, ifu_respTicks, ifu_reqPending, ifu_latch, ifu_waitTicks, ifu_rdata>>
lsuVars  == <<lsu_respValid, lsu_respTicks, lsu_reqPending, lsu_latch, lsu_waitTicks, lsu_rdata>>
busVars  == <<mem, uart, is_mem_write, written_address, printed>>
goldVars == <<g_pc, g_regs, g_mem, flash, g_ebreak, g_is_not_mapped, g_is_mem_write,
              g_written_address, sent>>
testVars == <<insts, instrets, running, is_test_success, tests>>
vars     == <<cpuVars, ifuVars, lsuVars, busVars, goldVars, testVars, phase>>

AluI == INSTANCE Alu
IduD == INSTANCE IduDecode

RtlDecode(w) == IduD!decode(Fields(w))

n_insts == Len(insts)

\* No test here goes on to the cycle that flags an ebreak.
Cpu == INSTANCE Cpu WITH
    WordSize <- Modulus, REG_NUM <- N_REGS, RegNum <- RegNums, InitialPc <- INITIAL_PC,
    Byte <- AllBytes, ZeroByte <- 0, OnesByte <- ByteSize - 1,
    NegByte <- {b \in AllBytes : 2 * b >= ByteSize},
    ToLanes <- Split, FromLanes <- Joined, Decode <- RtlDecode,
    AluOp <- 0..15, ComOp <- 0..7, Alu <- AluI!alu, Com <- AluI!com,
    IfuBus <- AllWords, LsuBus <- [0..3 -> AllBytes], CsrBus <- {0},
    ebreak <- FALSE, leftover <- FALSE

IfuChannel == INSTANCE VcpuChannel WITH
    Request <- AllWords, respValid <- ifu_respValid, respTicks <- ifu_respTicks,
    reqPending <- ifu_reqPending, latch <- ifu_latch, waitTicks <- ifu_waitTicks

LsuChannel == INSTANCE VcpuChannel WITH
    Request <- Cpu!Lsu!Requests, respValid <- lsu_respValid, respTicks <- lsu_respTicks,
    reqPending <- lsu_reqPending, latch <- lsu_latch, waitTicks <- lsu_waitTicks

\* The golden model is shown the registers of the bench's UART.
vuart == [reg \in {0, 1, 2, 3, 5, 6} |-> uart[reg]]

Gold == INSTANCE Gold WITH
    pc <- g_pc, regs <- g_regs, mem <- g_mem, ebreak <- g_ebreak,
    is_not_mapped <- g_is_not_mapped, is_mem_write <- g_is_mem_write,
    written_address <- g_written_address

\* mem_map.h: the regions lie apart and are made of words, and the CPU starts in
\* flash.  The UART has all of the registers the golden model reads.
ASSUME MapAssumption ==
    /\ {FLASH_START, FLASH_END, MEM_START, MEM_END} \subseteq AllWords
    /\ \A a \in {FLASH_START, FLASH_END, MEM_START, MEM_END, UART_START} : a % 4 = 0
    /\ UART_START \in Nat /\ UART_END \in Nat
    /\ FLASH_END <= MEM_START /\ UART_END <= FLASH_START
    /\ INITIAL_PC \in FLASH_START..FLASH_END-4
    /\ UART_START + 10 <= UART_END /\ UartReset \in [0..UART_END-UART_START-1 -> AllBytes]
ASSUME BenchAssumption ==
    /\ LINE_N \in Nat \ {0} /\ N_REGS \in Nat \ {0} /\ RegNums \subseteq Nat
    /\ MinDelay \in Nat /\ MaxDelay \in Nat
    /\ is_memcmp \in BOOLEAN
    /\ MaxTests \in Nat \ {0}
\* A test leaves a word free at the end of both regions.
ASSUME ProgramsAssumption ==
    /\ Programs \subseteq Seq(AllWords)
    /\ \A p \in Programs : Following(p) \subseteq Programs
    /\ \A p \in Programs : /\ 4 * Len(p) + 4 <= FLASH_END - FLASH_START
                           /\ 4 * Len(p) + 4 <= MEM_END - MEM_START
\* The widths of the fields; a word that is no instruction has fields too.
ASSUME FieldsAssumption ==
    \A w \in AllWords : LET f == Fields(w)
                        IN  /\ f.funct3 \in 0..7 /\ f.sub \in BOOLEAN
                            /\ {f.rd, f.rs1, f.rs2} \subseteq RegNums
                            /\ f.imm \in AllWords

TypeOK == /\ Cpu!TypeOK
          /\ IfuChannel!TypeOK /\ ifu_rdata \in AllWords
          /\ LsuChannel!TypeOK /\ lsu_rdata \in [0..3 -> AllBytes]
          /\ mem \in [MEM_START..MEM_END-1 -> AllBytes]
          /\ uart \in [DOMAIN UartReset -> AllBytes]
          /\ is_mem_write \in BOOLEAN /\ written_address \in AllWords
          /\ {printed, sent} \subseteq Seq(AllBytes)
          /\ Gold!TypeOK
          /\ insts \in Programs
          /\ instrets \in 0..(n_insts + 1)
          /\ {running, is_test_success} \subseteq BOOLEAN
          /\ tests \in 1..MaxTests
          /\ phase \in {"high", "low", "edge", "compare"}

-----------------------------------------------------------------------------
(* Starting a test.                                                        *)

NoRequest == [addr |-> 0, wdata |-> Split(0), wmask |-> {}, wen |-> FALSE]

\* vcpu_flash_init and g_flash_init: the words of p, then what was there.
Loaded(p, old) ==
    [a \in FLASH_START..FLASH_END-1 |->
        LET off == a - FLASH_START
        IN  IF off < 4 * Len(p) THEN Split(p[off \div 4 + 1])[off % 4] ELSE old[a]]

Init == /\ insts \in Programs
        /\ flash = Loaded(insts, [a \in FLASH_START..FLASH_END-1 |-> 0])
        /\ lines = [i \in 0..LINE_N-1 |-> [valid |-> FALSE, tag |-> 0, data |-> 0]]
        /\ Cpu!Init
        /\ ifu_respValid = FALSE /\ IfuChannel!Init(0) /\ ifu_rdata = 0
        /\ lsu_respValid = FALSE /\ LsuChannel!Init(NoRequest) /\ lsu_rdata = Split(0)
        /\ mem = [a \in MEM_START..MEM_END-1 |-> 0]
        /\ uart = UartReset /\ is_mem_write = FALSE /\ written_address = 0
        /\ printed = <<>> /\ sent = <<>>
        /\ Gold!Init
        /\ instrets = 0 /\ running = TRUE /\ is_test_success = TRUE /\ tests = 1
        /\ phase = "low"

\* The next test of test_random.  The bus inputs of the CPU are not touched by
\* vcpu_reset, nor are the answers' data.
NextTest ==
    /\ ~running /\ is_test_success
    /\ tests < MaxTests
    /\ insts' \in Following(insts)
    /\ flash' = Loaded(insts', flash)
    /\ Cpu!Reset
    /\ ifu_respTicks' = 0 /\ ifu_reqPending' = FALSE /\ ifu_latch' = 0 /\ ifu_waitTicks' = 0
    /\ lsu_respTicks' = 0 /\ lsu_reqPending' = FALSE /\ lsu_latch' = NoRequest
    /\ lsu_waitTicks' = 0
    /\ uart' = UartReset /\ is_mem_write' = FALSE /\ written_address' = 0
    /\ printed' = <<>> /\ sent' = <<>>
    /\ Gold!g_reset
    /\ instrets' = 0 /\ running' = TRUE /\ tests' = tests + 1
    /\ phase' = "low"
    /\ UNCHANGED <<ifu_respValid, ifu_rdata, lsu_respValid, lsu_rdata, mem, is_test_success>>

-----------------------------------------------------------------------------
(* The bench's half periods.                                               *)

Io == [ifu_respValid |-> ifu_respValid, ifu_rdata |-> ifu_rdata,
       lsu_respValid |-> lsu_respValid, lsu_rdata |-> lsu_rdata, csr_rdata |-> 0]

IfuIn == Cpu!IfuIn(Io)
LsuIn == Cpu!LsuIn(Io)

InUart(addr) == UART_START <= addr /\ addr < UART_END - 3

\* The transmitter prints, the status registers are read only, the others store
\* the byte of the word that their address selects, whatever the mask.
v_mem_write(req) ==
    LET reg  == req.addr - UART_START
        byte == req.wdata[req.addr % 4]
        hits == req.wen /\ InUart(req.addr)
    IN  /\ is_mem_write' = req.wen
        /\ written_address' = IF req.wen THEN req.addr ELSE written_address
        /\ printed' = IF hits /\ reg = 0 THEN Append(printed, byte) ELSE printed
        /\ uart' = IF hits /\ reg \notin {0, 5, 6} THEN [uart EXCEPT ![reg] = byte] ELSE uart
        /\ mem' = [a \in DOMAIN mem |->
                IF /\ req.wen /\ Gold!InMem(req.addr)
                   /\ a \div 4 = req.addr \div 4
                   /\ a % 4 \in req.wmask
                THEN req.wdata[a % 4] ELSE mem[a]]

\* The aligned word that holds addr; a register of the UART in every lane.
v_mem_read(m, u, addr) ==
    LET base == 4 * (addr \div 4)
    IN  CASE Gold!InFlash(addr) -> [lane \in 0..3 |-> flash[base + lane]]
          [] InUart(addr)       -> [lane \in 0..3 |-> u[addr - UART_START]]
          [] Gold!InMem(addr)   -> [lane \in 0..3 |-> m[base + lane]]
          [] OTHER              -> Split(0)

SubtickIfu(sampled) ==
    \E delay \in IfuChannel!Delays :
        LET addr == IfuChannel!Latched(sampled, Cpu!Ifu!io_addr(IfuIn))
        IN  /\ IfuChannel!Subtick(sampled, Cpu!Ifu!io_addr(IfuIn), delay)
            /\ ifu_rdata' = IF IfuChannel!Answers(sampled, delay)
                            THEN Joined(v_mem_read(mem, uart, addr)) ELSE ifu_rdata

SubtickLsu(sampled) ==
    \E delay \in LsuChannel!Delays :
        LET req     == LsuChannel!Latched(sampled, Cpu!Lsu!Request(LsuIn))
            answers == LsuChannel!Answers(sampled, delay)
        IN  /\ LsuChannel!Subtick(sampled, Cpu!Lsu!Request(LsuIn), delay)
            /\ IF answers THEN v_mem_write(req) ELSE UNCHANGED busVars
            /\ lsu_rdata' = IF answers THEN v_mem_read(mem', uart', req.addr) ELSE lsu_rdata

\* Only the subtick just after a rising edge samples the requests; only there
\* does the delay drawn matter.
SubtickHigh ==
    /\ running /\ phase = "high"
    /\ phase' = "low"
    /\ SubtickIfu(Cpu!Ifu!io_reqValid(IfuIn))
    \* The LSU's half of the subtick comes second.  Its inputs depend on no
    \* output of the first half but ifu_respValid, which it does not look at.
    /\ SubtickLsu(Cpu!Lsu!io_reqValid(LsuIn))
    /\ UNCHANGED <<cpuVars, goldVars, testVars>>

SubtickLow ==
    /\ running /\ phase = "low"
    /\ phase' = "edge"
    /\ SubtickIfu(FALSE)
    /\ SubtickLsu(FALSE)
    /\ UNCHANGED <<cpuVars, goldVars, testVars>>

-----------------------------------------------------------------------------
(* The rising edge, and what test_instructions does after a retirement.    *)

is_valid_pc_address(a) ==
    \/ FLASH_START <= a /\ a <= 4 * n_insts + FLASH_START
    \/ MEM_START <= a /\ a <= 4 * n_insts + MEM_START

\* History: the byte of a store that the golden model sends to the transmitter.
Sends == LET inst_fields == Fields(Gold!g_mem_read(4 * (g_pc \div 4)))
         IN  sent' = IF g_is_mem_write' /\ g_written_address' = UART_START
                     THEN Append(sent, Gold!rf_read(inst_fields.rs2) % ByteSize) ELSE sent

Edge == /\ running /\ phase = "edge"
        /\ Cpu!Clock(Io)
        /\ IF Cpu!Retires(Io)
           THEN /\ Gold!cpu_eval /\ Sends
                /\ instrets' = instrets + 1
                /\ phase' = "compare"
                /\ UNCHANGED <<insts, running, is_test_success, tests>>
           ELSE phase' = "high" /\ UNCHANGED <<goldVars, testVars>>
        /\ UNCHANGED <<ifuVars, lsuVars, busVars>>

\* What either side has written last, if that was in RAM.
LastWritten ==
    {a \in MEM_START..(MEM_END - 3) :
        \/ g_is_mem_write /\ a = g_written_address
        \/ is_mem_write /\ a = written_address}

\* Plausible bug: the word behind the one written is left out.
ComparedWordsOne == {4 * (a \div 4) : a \in LastWritten}

\* Plausible bug: the words compared begin at the address written.
ComparedWordsUnaligned == {a + off : a \in LastWritten, off \in {0, 4}}

ComparedWords == {4 * (a \div 4) + off : a \in LastWritten, off \in {0, 4}}

Differs(m) == \E w \in ComparedWords : Joined(v_mem_read(m, uart, w)) # Gold!g_mem_read(w)

compare_vcpu_gold == /\ pc = g_pc
                     /\ regs = g_regs
                     /\ IF is_memcmp THEN mem = g_mem ELSE ~Differs(mem)

\* The golden model is asked for the words compared, which may lie behind the
\* end of RAM: from then on it does not answer for anything.
Compare ==
    /\ running /\ phase = "compare"
    /\ phase' = "high"
    /\ IF g_is_not_mapped
       THEN running' = FALSE /\ UNCHANGED <<is_test_success, g_is_not_mapped>>
       ELSE /\ is_test_success' = compare_vcpu_gold
            /\ running' = (/\ compare_vcpu_gold
                           /\ is_valid_pc_address(g_pc) /\ is_valid_pc_address(pc)
                           /\ instrets <= n_insts)
            /\ g_is_not_mapped' = (~is_memcmp /\ \E w \in ComparedWords : ~Gold!ReadMapped(w))
    /\ UNCHANGED <<cpuVars, ifuVars, lsuVars, busVars, g_pc, g_regs, g_mem, flash, g_ebreak,
                   g_is_mem_write, g_written_address, sent, insts, instrets, tests>>

Next == SubtickHigh \/ SubtickLow \/ Edge \/ Compare \/ NextTest

Spec == Init /\ [][Next]_vars

\* While a test runs, the loop of vcpu_fetch_exec takes its next half period:
\* one of four actions, whose guards cover every phase.
HalfPeriod == running /\ phase' \in {"high", "low", "edge", "compare"} \ {phase}

FairSpec == Spec /\ WF_phase(HalfPeriod)

-----------------------------------------------------------------------------
(* Properties.                                                             *)

\* The instruction the golden model executes, and its address if it is a load
\* or a store.
GoldFields == Fields(Gold!g_mem_read(g_pc - (g_pc % 4)))

GoldAddr == LET dec == Gold!decode(GoldFields)
            IN  Gold!alu_eval(dec.alu_op, Gold!alu_lhs(dec, Gold!rf_read(GoldFields.rs1)),
                                          Gold!alu_rhs(dec, Gold!rf_read(GoldFields.rs2)))

\* A store changes no word that the instruction cache holds: the CPU would go
\* on executing the old one.
SparesCache ==
    \A i \in 0..LINE_N-1 : \A k \in Gold!mem_wbmask(GoldFields) :
        /\ lines[i].valid
        /\ Gold!InMem(GoldAddr)
        /\ (GoldAddr + k) \div 4 = lines[i].tag * LINE_N + i
        => g_mem[GoldAddr + k] = Split(Gold!rf_read(GoldFields.rs2))[k]

\* What programs have to keep to for the two sides to agree, said of the
\* instruction that retires: they change no code they have executed, store no
\* word that begins below RAM and ends in it, read no register of the UART across
\* a word boundary, and use no store and no branch that RISC-V does not define.
Ordinary ==
    LET funct3 == GoldFields.funct3
    IN  running /\ phase = "edge" /\ Cpu!Retires(Io) =>
            /\ GoldFields.opcode = "OPCODE_STORE" =>
                 funct3 \in 0..2 /\ GoldAddr \notin MEM_START-3..MEM_START-1 /\ SparesCache
            /\ GoldFields.opcode = "OPCODE_LOAD" /\ Gold!InUart(GoldAddr) =>
                 /\ funct3 \in {1, 5} => GoldAddr % 4 # 3
                 /\ funct3 = 2 => GoldAddr % 4 = 0
            /\ GoldFields.opcode = "OPCODE_BRANCH" => funct3 # 2

\* After every instruction the golden model answers for, pc, registers and RAM
\* of both sides are the same, although the CPU has fetched through its cache
\* and made its accesses word by word, with answers at random times: what
\* compare_vcpu_gold asks with memcmp (soc_main.cpp:835-856).
Agree == phase = "compare" /\ ~g_is_not_mapped =>
            /\ pc = g_pc
            /\ regs = g_regs
            /\ mem = g_mem

\* Whatever byte of the store just made had been spoilt, the comparison without
\* memcmp would have seen it, although it looks at two words only
\* (soc_main.cpp:849-870).
QuickSeesTheStore ==
    phase = "compare" /\ ~g_is_not_mapped /\ g_is_mem_write /\ Gold!InMem(g_written_address) =>
        \A lane \in 0..3 : \A byte \in AllBytes :
            LET a == g_written_address + lane
            IN  byte # mem[a] => Differs([mem EXCEPT ![a] = byte])

\* A test of such programs never fails: the comparison, with memcmp or of the
\* words around the last stores, of which one may lie behind the end of RAM,
\* finds no difference where there is none (soc_main.cpp:835-883, 1051-1058).
NoFalseAlarm == is_test_success

\* A byte a program sends to the UART is printed once and in its place, also by
\* the LSU that keeps its request up for two cycles (soc_main.cpp:736-755,
\* lsu.sv:149).
PrintedOnce == phase = "compare" /\ ~g_is_not_mapped => printed = sent

\* When a test starts, the two sides hold the same: what one test leaves in
\* RAM cannot make the next one fail (gcpu.cpp:122, soc_main.cpp:636-670).
SameAtStart == is_start => mem = g_mem

\* Every test of a random program ends (soc_main.cpp:950-1113).
TestsEnd == running ~> ~running
=============================================================================
