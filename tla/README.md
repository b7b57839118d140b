# A TLA+ model of the RISC-V CPU and its test bench

This directory models the RV32E CPU of `src/soc/*.sv`, the C++ test bench that
drives it (`src/soc/soc_main.cpp`), the golden model it is compared with
(`src/soc/gcpu.cpp`) and the generator of the programs it is tested with
(`src/soc/riscv.cpp`).  TLC checks the models on small instances; TLAPS proves
what they say about safety for every value of the constants (section 4), the
agreement of CPU and golden model included.
`PROJECT.json` maps every definition to the lines it models and lists the runs,
the mutated definitions with which each property has been seen to fail, the
hazards and the theorems.

## 1. Inventory

### The parts

| Part | Source | State | Operations |
|---|---|---|---|
| pc | `pc.sv` | the program counter | written when an instruction retires |
| ifu | `ifu.sv` | `state` (idle, waiting for the bus) | takes a request, looks in the cache, asks the bus, files the answer |
| icache | `icache.sv` | lines with valid bit, tag, word | lookup, refill in one cycle, invalidate on reset; a store does *not* invalidate |
| idu | `idu.sv` | the instruction, `respValid` | latches an instruction for the cycle after the fetch; decodes it; its reset branch is empty, so a reset does not take an instruction out of it |
| exu | `exu.sv` | `state` (reset, start, stalled for the IDU, for the LSU, execute) | operands, result, next pc, register-write enable; reports to the bench through DPI calls |
| alu, com | `alu.sv`, `com.sv` | none | arithmetic and comparisons |
| lsu | `lsu.sv` | `state`, `io_reqValid_q`, the first word of a misaligned load | splits a misaligned access in two, masks and rotates, extends |
| rf | `rf.sv` | 16 registers | two reads, one write; numbers beyond RV32E read 0 and are not written |
| csr | `csr.sv` | a cycle counter of two words | counts, is read by halves; two constants |
| cpu | `cpu.sv` | `is_start`, `ifu_reqValid` | wires the units, makes the start pulse |
| vcpu bench | `soc_main.cpp` | per bus: an answer with its ticks, a pending request, a latched address, a delay; flash, RAM, UART registers, `is_mem_write`, `written_address` | `vcpu_subtick`, `vcpu_tick`, `vcpu_fetch_exec`, `vcpu_reset`, `v_mem_read`, `v_mem_write` |
| harness | `soc_main.cpp` | cycles, instructions, event counts, the verdict | `test_instructions`, `test_random`, `test_bin`, the comparisons, the DPI calls |
| event counts | `exu.sv`, `icache.sv`, `soc_main.cpp` | `event_counts` | DPI calls in every cycle add events up; reset |
| gold | `gcpu.cpp` | pc, registers, memory, `ebreak`, `is_not_mapped`, the last store | `cpu_eval`, `g_reset` |
| encoders, listing, random programs | `riscv.cpp` | the random generator | `random_instruction`, one function per format and mnemonic, `print_instruction` |
| vsoc | `soc_main.cpp` | the CPU in the ysyxSoC | the SoC is a git submodule whose source is not here |
| main | `soc_main.cpp` | `TestBenchConfig`, the exit code | reads the command line, chooses CPUs and tests, runs them |
| printing, traces, measurement files | `soc_main.cpp` | | output only |
| former bench | `cpu_main.cpp` | | not built |
| scripts | `*.sh`, `scripts/*.py` | | run the tools; the source of the options used in tests |

### How they interact

Inside the CPU the units talk by wires within one clock cycle: `reqValid` up
for one cycle asks a unit, `respValid` up for one cycle is its answer.  No unit
has a "ready": a request to a busy unit is lost.  The instruction goes
IFU → IDU → EXU, or IFU → IDU → LSU → EXU, and its retirement is the next
request to the IFU.  Only the IFU and the LSU talk to the outside, each on a
bus of its own; a bus answer carries no address.

The bench calls `vcpu_subtick` before every half period of the clock.  Just
after a rising edge it samples both requests; it draws a delay for each, counts
it down in half periods, and then holds the answer up for two of them.  Nothing
forbids a request while another waits, and the LSU, which keeps its request up
for two cycles, makes one whenever it is answered at once.

The harness calls `fetch_exec` of each CPU, which clocks it until it retires an
instruction (known through a DPI call that counts in C++), lets the golden
model execute one instruction, compares, and decides whether to go on.  Random
tests follow one another without the RAMs being cleared.

`main` reads the command line word by word into a configuration, refuses what
it cannot read, and makes the verdict of the tests its exit code.  The golden
model reads the registers of the UART where the CPU's bus keeps them, after the
CPU has executed the same instruction.

### What is hard, and what must hold

* **Losing a request or an answer.**  Every unit listens in some of its states
  only.  One instruction at a time goes through IFU, IDU and EXU, in the place the
  EXU's state names (`Cpu!OneInFlight`), every fetch and access is answered
  (`FetchAnswered`, `AccessEnds`), every test ends (`Lockstep!TestsEnd`).
* **Stopping and starting again.**  A test that ends by ebreak is stopped one cycle
  after the ebreak has retired, when the next word may be in the IDU, where the
  reset leaves it.  What the CPU makes of it: `OneInFlight`, `FollowsFlow`,
  `HitsAccounted`; and what the LSU makes of it: `NoStrayAccess`, which fails.
* **Taking an answer for another.**  Answers carry no address and unwanted
  requests are served: `AnswerIsForPc`, `AnswerIsForPart`; what comes of it is what
  the abstract ports promise (`FetchPortSafe`, `MemoryPortSafe`).
* **Stale state.**  The cache (`CacheCoherent`), the LSU's inputs, which it does
  not latch (`RequestsStay`), the event counts
  (`CorrectPassesMapped`), the RAM between tests (`SameAtStart`).
* **Boundaries.**  Misaligned accesses (`MemoryPortSafe`), immediates
  (`DecodersAgree`, `DecodedAsAsked`), operands at the extremes and the ends of
  the mapped regions (`Agree`), limits on cycles and instructions
  (`PassedInTime`, `Exits`), the length of random programs (`RandomAsAsked`).
* **A verdict that means something.**  A difference is reported, a correct CPU
  is not: `PassedMeansAgreed`, `CorrectPassesMapped`, `CheckMeansA0`, `NoFalseAlarm`; the quick
  comparison of memory sees what was stored (`QuickSeesTheStore`); a byte is
  printed once (`PrintedOnce`); the exit code tells (`ExitMeansPassed`), the
  line is read as written (`ReadAsWritten`), the listing of a failed test is
  that of the test (`ListingReassembles`).
* **Measurements nobody checks.**  Events come from two units, some from the next
  state, some from outputs; cycles are counted by the CPU and by the bench:
  `CyclesAgree`, `CyclesAccounted`, `InstructionsAccounted`, `HitsAccounted`,
  `EbreakFlagged`, `CounterReadsCycles`.

`PROJECT.json` lists each hazard at its line, with these properties.

## 2. The modules

| Module | Models | State and actions |
|---|---|---|
| `Icache` | `icache.sv` | `lines`, `writeValid`; `Clock`, `Reset` |
| `Ifu` | `ifu.sv` | `ifu_state`; outputs as operators of the inputs, `Clock`, `Reset` |
| `VcpuChannel` | one half of `vcpu_subtick` | one bus channel; `Subtick` |
| `FetchPort` | *abstract* | a fetch is asked for and answered with the flash word at pc |
| `FetchPath` | IFU, cache, channel, flash | the three half-period steps; implements `FetchPort` |
| `Lsu` | `lsu.sv` | `lsu_state`, `io_reqValid_q`, `first_rdata_q`; `Clock`, `Reset` |
| `MemoryPort` | *abstract* | a byte-addressed memory with one access at a time |
| `LsuPath` | LSU, channel, memory | the three half-period steps; implements `MemoryPort` |
| `Exu`, `Idu`, `Rf` | `exu.sv`, `idu.sv`, `rf.sv` | one register block each |
| `InstFlow` | *abstract* | one instruction at a time: fetch, decode, memory, retire; a restart drops one that is not in memory |
| `Cpu` | `cpu.sv` and all units, and the flag `ebreak` that ends a test | `Clocked` (a cycle with any bus answers), `BenchReset`; implements `InstFlow` |
| `Csr` | `csr.sv` | `mcycle`; `Clock`, `Reset` |
| `Perf` | CPU, counter, DPI counts, clock of the bench | `Rise`, `Fall`, `PerfReset` |
| `Words` | notation | words as numbers, bits, bytes; powers of two are a recursive function, which proofs can use |
| `Alu` | `alu.sv`, `com.sv` | operators |
| `IduDecode` | the decoder of `idu.sv` | operators |
| `Gold` | `gcpu.cpp` | `cpu_eval`, `g_reset` |
| `Lockstep` | CPU, both channels, memories, UART, golden model, `compare_vcpu_gold`, `test_random` | `SubtickHigh`, `SubtickLow`, `Edge`, `Compare`, `NextTest` |
| `Encoding` | `riscv.cpp`, the field wires of `idu.sv`, the decoder of `gcpu.cpp` | one action per kind of random instruction; `print_instruction` and the named encoders as operators |
| `Harness` | `test_instructions`, `test_random`, `test_bin` and what they call | `Begin`, `Cycle`, `Judge`, `NextTest` |
| `Main` | `main`, `new_testbench`; extends `Harness` | `Parse`, `Test` (a step of `Harness`), `Finish` |
| `Cpu_proofs`, `FetchPath_proofs`, `LsuPath_proofs`, `Perf_proofs`, `Encoding_proofs`, `Lockstep_proofs` | | the theorems about the module of that name |
| `Main_proofs` | | the theorems about the line `Main` reads and the tests it runs and, through it, about `Harness` |
| `Words_proofs` | | lemmas about words of any width, for `Lockstep_proofs` |

`MC*` modules give the constants their values for TLC.

A unit is a module whose combinational outputs are operators of a record of its
inputs and whose registers change in one action, `Clock`.  A composition wires
the outputs of one unit to the inputs of another with definitions, as the
Verilog does, and conjoins the `Clock`s: one rising edge is one step.  In
`FetchPath`, `LsuPath` and `Lockstep` a step is half a clock period of
`vcpu_fetch_exec`; the variable `phase` says which comes next.  The two halves of
one `vcpu_subtick` are one step, since neither looks at what the other changes.

Data are abstract where no property tells values apart: a cached word is opaque
in `FetchPath`, a byte but for its sign in `LsuPath`, the functions of ALU and
decoder are parameters of `Cpu`.  `Lockstep` puts the real functions back, on
words of `XLEN` bits.  In `Encoding` a 32-bit word is the set of the positions of
its ones, and a mnemonic of the listing is opcode, `funct3` and whether it is the
alternative (`sub`, `sra`, `srai`).  In `Harness` a program is a sequence of kinds
of instructions, since the loop looks at nothing else.  In `Main` words are
strings; what they mean as numbers or as letters of instruction kinds is a table.  A
line is its words and, for the properties only, where among them options start: the
actions look at the words alone.
The line and the configuration are forgotten when the tests start, so that lines
that ask for the same tests share their states.

When the bench resets the CPU decides what `Cpu` and `Perf` must hold against.
`vsoc_fetch_exec` returns when an instruction has retired or, for an ebreak, one cycle
later, with the flag; so `BenchReset` comes in the cycle after a retirement or when
`ebreak` is set, and no cycle is run with the flag set.  With a golden model no
random test gets as far as the flag (it takes the system opcode for undefined), so
that a test of `Lockstep` always ends at a retirement.

Histories, which no action looks at: `Lockstep` keeps the bytes the bench has
printed and those the golden model has been told to send, and `Cpu` keeps
`leftover`, whether the last reset found a load or store in the IDU.

## 3. The runs

| Run | Question | Bounds |
|---|---|---|
| `fetch` | is every fetch answered, with the flash word at pc, through cache and bus? | 5 words on 2 cache lines, 6 addresses (one not aligned), delays 2..4 |
| `fetch_delay_one` *(violation)* | and with the delay range `1 2`? | the same, delay 1 |
| `memory` | does every access end, with the right bytes? | 2 accesses, every size, alignment and sign; delays 0..3 |
| `cpu` | does one instruction at a time go through the CPU, whatever the buses do and wherever a test is stopped? | 3-bit words, 2 registers, 2 words of code and 2 cache lines, one instruction per way through the units, ebreak |
| `cpu_stray_access` *(violation)* | and does the LSU work for no other? | the same |
| `perf` | do the counts of cycles and events add up, and does a program read the cycles the bench counts? | 3-bit words (the counter has 6 bits, so both halves are used), 9 cycles, any bus answers, resets after any retirement and after the flag of an ebreak |
| `encoding` | do encoder, RTL decoder and golden decoder agree on every bit; is the listing the program? | 32 bits, every bit of every immediate alone and in mixtures |
| `lockstep` | do CPU and golden model agree after every instruction, does the quick comparison see a store, is no test reported as failed, is a byte printed once, does every test end; and are the programs of the run `Ordinary`, as the theorems ask? | 8-bit words, 3 registers, 6 words of flash and of RAM, 8 UART registers; every instruction on pairs of extreme operands; two tests in a row of three control instructions, of UART accesses; delays 2..3 |
| `lockstep_straddling` *(violation)* | and at the edge of RAM? | one program, twice |
| `main` | is the line read as written, does the verdict mean something, is it the exit code, does the program end? | every line of up to 3 of 23 options, the last one possibly cut short, and longer lines for every selection of CPUs; 2 random tests of up to 2 instructions after the prelude; binaries of up to 3; limit of 6 cycles; 2 registers |
| `harness_vcpu` *(violation)* | and for the vcpu without a limit? | 2 programs |
| `harness_bin_gold` *(violation)* | and for a binary with a golden model that ends by ebreak? | 9 programs |

Why these bounds are enough to be of interest.  *Cache*: with five words on two
lines each line is replaced by a word with another tag, and hit, missed and
missed again; in `cpu` and `perf` both words of code fit, so that the word behind an
ebreak can be a hit.  *Delays*: a channel's counter distinguishes an answer in the
cycle of the request, in the second cycle of the LSU's request, just after it,
and later; 0..3 cycles make all of these, and longer delays only repeat the
last.  *Two accesses*: what the first leaves behind (an unwanted request, an
answer still up, the first word of a load) dies with the second one's first
request; a third meets nothing new.  *Words of 8 bits* have four bytes of two
bits, so that every byte position, rotation and sign extension of the LSU is
there; shifts, carries and signs behave as at 32 bits, where the operands are 0,
1, the largest positive, the smallest negative and -1.  *Programs*: the control
programs include a loop, a jump to RAM, a jump back, a hole in the memory map and
both regions' ends, and stop at the limit on instructions.  *Minstret* counts
modulo 16 (2^64 in the source), which no program reaches that ends.  *Lines*: an
option can be first, repeated, last or cut short, and be followed by what could be
taken for its argument.  *Cycles*: in 9 cycles three instructions retire, of any
kind, the counter's low half overflows, and every wait occurs.  `MaxInsts`,
`MaxTests`, `MaxOps`, `MaxCycles`, `Following` and the delay range are bounds of the model, named so in
the modules.

Deadlock is checked in `fetch`, `memory` and `cpu`, whose systems never stop; the
programs of `Lockstep`, `Main` and `Encoding` do end, and `perf` stops at its bound.

### Fairness

`FetchPath`, `LsuPath` and `Lockstep`: `WF_phase(HalfPeriod)`.  The loop of
`vcpu_fetch_exec` takes its next half period as long as it runs; which of the
steps that is, is determined by `phase`, and the delay is drawn once per
request and bounded, so no fairness is asked of the draw.  `Main`: weak
fairness of the program (reading the line, the loops over tests and
instructions, the end), of the clock, and of the clock cycle in
which an instruction retires.  The last one stands for what `FetchPath`,
`LsuPath` and `Lockstep` show of the vcpu (every fetch and access is answered);
for the SoC, whose source is not here, it is an assumption.

### What the runs of the other kind show

Five disagreements between the code and what its own tests, comments or
documentation say were met while modelling; a run shows each:

1. *An answer after one cycle is lost* (`fetch_delay_one`).  The IFU does not
   look at `io_respValid` in the cycle of its request, and with the delay 1 of
   `random_test.sh` (and with 0, the default) the answer is up only then.  The
   comment at `soc_main.cpp:773` records the trouble with the order of tick and
   subtick.  Delays from 2 cycles work, and the passing runs that fetch use them.  The
   LSU gets its answers with all delays, but with delays below 2 a store is served
   twice, which shows when it sends a byte to the UART: it is printed twice
   (`SlowEnough` in section 4).
2. *The counts of the vcpu* (`harness_vcpu`).  The DPI calls always write
   `vsoc_cpu->event_counts`; `vcpu_fetch_exec` waits for a change of
   `vcpu_cpu->event_counts`, which never comes, and returns only on `max_cycles`.
3. *ebreak one cycle late* (`harness_bin_gold`).  The SoC raises the flag in the
   cycle after the retirement; the comparison with the golden model comes before.
4. *A store across the start of RAM* (`lockstep_straddling`).  The bench writes
   the part in RAM, the golden model writes nothing, the random test ends without
   a comparison, and the next one starts with different RAMs.
5. *An access nobody fetched* (`cpu_stray_access`).  The reset branch of the IDU is
   empty (`idu.sv:29-30`).  When an ebreak has retired, the IFU asks for the word
   behind it, and a hit (a jump went over the ebreak before) is in the IDU by the time
   the flag stops the test.  The next test's reset leaves it there, valid.  The EXU
   ignores it, but if it is a load or a store the LSU starts it at the first edge, from
   registers that are 0.  A store changes memory or a device; while the access lasts,
   the first fetch replaces the instruction it is computed from, and its answer may be
   taken for that of the next load or store.  It takes random tests with ebreaks and
   jumps, and no golden model.

Others were seen and have no run:

* No store invalidates the cache and there is no `fence.i`, so after a store over code
  it has cached the CPU executes the old instruction, and the comparison with the
  golden model reports a difference.  RISC-V promises no more without `fence.i`.
* `random_range(gen, 0, 5)` never draws the sixth branch type, so no random test
  contains `bgeu` (`riscv.cpp:513`).
* The usage text and the readme offer `timeout <cycles>`, which `main` refuses as an
  unknown mode (it reads `max`); `max` in turn does not end a run of the golden
  model alone (`Main!Endless`).
* When no CPU or no test is chosen, `main` prints `[ERROR]` and exits with
  `EXIT_SUCCESS` (`soc_main.cpp:1395-1414`).  A repeated option is refused only if
  its first value was not the default; a negative number of instructions is not
  refused and wraps around.
* The listing of a failed test shows `rs1` for the `rd` of `jal`, the immediate of
  `auipc` unshifted, and a shift right with a `funct7` that is not one of the two as
  `srai`, although it is executed as `srli`; the branch encoders lay an offset out
  like that of a store (`Encoding!NotReversible`).
* Without `memcmp` the comparison reads the word behind the one written; at the end
  of RAM that sets `is_not_mapped` in the golden model, which ends the next random
  test without a comparison (`Lockstep!Compare`).
* A half-word load that starts at the last byte of a word of the UART is two accesses,
  of two registers, for the CPU, and one for the golden model, which sees one
  register in every lane; so is a word load that is not aligned.
* A branch with `funct3` 2 and a store with `funct3` 3 or more are not instructions;
  CPU and golden model make different things of them.

`Lockstep!Ordinary` says of the instruction that retires that it is none of the last
two, no store across the start of RAM (4) and no store over cached code: a program
that does none of these makes the two sides agree wherever the golden model answers
for the result (section 4).

## 4. What is proved

Eight modules hold proofs.  Every invariant and every action property of a passing
run is a theorem, but for `Ordinary`, which is a hypothesis about programs.  The
assumptions are those of the modules the theorems are about, which TLC evaluates in
every run that extends them, and three hypotheses stated in the theorems they are
needed for: `MaxCycles < WordSize * WordSize`, `[]Ordinary` and `SlowEnough`.  But for
the last one, nothing is assumed about when an answer comes.

### The CPU (`Cpu_proofs`)

Of `Cpu!Spec`, for every word size, number of registers and cache lines, every ALU
and decoder, and whatever the buses answer:

| Theorem | Statement |
|---|---|
| `TypeCorrect` | `Spec => []TypeOK` |
| `AlwaysOneInFlight` | `Spec => []OneInFlight` |
| `PartsAlwaysMatch` | `Spec => []PartsMatchAccess` |
| `RequestsAlwaysStay` | `Spec => RequestsStay` |
| `FlowImplemented` | `Spec => FollowsFlow`: `Cpu` implements `InstFlow` |

Assumed: words are 0..WordSize-1 for a positive multiple of 4; ALU, comparator,
decoder and the conversions between words and lanes stay within their types; the
buses answer words.

The argument.  `TypeOK` is inductive by itself; its only work is that operands
and the LSU's rearranged bytes stay words (`OperandsType`, `LsuRdataType`) through
an edge (`ClockType`) and a reset (`ResetType`).  `TypeOK /\ OneInFlight` is
inductive: `OneInFlight` ties the state of every unit to that of the EXU, which
is exactly what one unit must know about another for its request not to be lost.
It has two exceptions, both from the reset that follows an ebreak: the IDU may hold
an instruction in the start cycle, and the LSU may work while the EXU does not wait
for it, but then only if the reset has left it a load or store (`leftover`).
Three lemmas say what a unit does in a cycle (`IfuStep`, `LsuStep`, `ExuStep`),
`ClockFacts` wires them together, `ClockOneInFlight` goes through the EXU's
states, and `ResetOneInFlight` is the reset.  A weaker invariant such as "at most one
unit is busy" is not inductive: it allows the EXU to wait for the wrong unit.  From it
the other three follow.  While the EXU waits for the LSU nothing retires, so pc,
registers and instruction, from which the LSU's inputs are computed, do not move
(`HeldInMemory`); with that, `RequestsStay` holds of every step, and
`PartsMatchAccess`, which is not among the runs' properties, is preserved: the LSU waits
for two parts if the access still needs two.  It is claimed until a reset leaves an
access behind; the inputs of that one do move.  The refinement maps the places of
`OneInFlight` to the stages of `InstFlow`; an edge is `Start`, `Fetched`, `ToMemory`,
`Retire` or a stutter according to the EXU's state.  The reset is `Restart`, from the
stage fetch or decode: `FlaggedInFetch` says that the flag of an ebreak finds the EXU
waiting for an instruction.

### The fetch side (`FetchPath_proofs`)

For every flash, set of addresses and number of cache lines, and for *every*
range of delays, those included with which an answer is lost:

| Theorem | Statement |
|---|---|
| `FetchTypeCorrect` | `Spec => []TypeOK` |
| `AnswerAlwaysForPc` | `Spec => []AnswerIsForPc` |
| `CacheAlwaysCoherent` | `Spec => []CacheCoherent` |
| `FetchPortImplemented` | `Spec => FetchPortSafe`: the safety part of `FetchPort` |

A bus answer carries no address, so `AnswerIsForPc` alone is not inductive: it
says nothing of what is still on its way.  `ServesFetch` does.  While the IFU waits,
what is pending or answered is the request for pc; while the instruction is
being executed nothing is pending, and the last answer is off the bus before the
next rising edge; an instruction found in the cache has asked for nothing.  The
case that needs the last clauses is an answer in the half period in which the next
fetch is asked for.  `CacheCoherent` is then preserved by a refill, which files
the answer under pc.

### The memory side (`LsuPath_proofs`)

For every initial memory, set of accesses within the mapped region and range of
delays, 0 included:

| Theorem | Statement |
|---|---|
| `LsuTypeCorrect` | `Spec => []TypeOK` |
| `AnswerAlwaysForPart` | `Spec => []AnswerIsForPart` |
| `MemoryPortImplemented` | `Spec => MemoryPortSafe`: the safety part of `MemoryPort` |

`PathInv` has four parts.  `AccessUnderWay`: LSU and CPU agree on whether an
access is under way and whether it has two parts.  `ServesPart`: what is pending
is a request for the part the LSU waits for, or is about to be overwritten by
one.  This is where the LSU's request, up for two cycles, shows: an access answered
in its first cycle leaves an unwanted request behind.  `LeftoverHarmless` says why
it may stay: it is a read, or writes what is there already.  `FirstPartKept`: while
the second part is waited for, the first word of a load is the memory's, and the
bytes of a store's first part are in memory; they stay there because the two
parts write different bytes (`PartsApart`).  The refinement then goes through
offset and size: the bytes that reach the memory or the register are those the
abstract access names.

### The measurements (`Perf_proofs`)

| Theorem | Statement |
|---|---|
| `CpuImplemented` | `PerfSpec => Spec`: with the counter put in, the CPU is still a `Cpu` |
| `PerfTypeCorrect` | `PerfSpec => []PerfTypeOK` |
| `CyclesAlwaysAgree`, `CyclesAlwaysAccounted` | `PerfSpec => []CyclesAgree`, `[]CyclesAccounted` |
| `InstructionsAlwaysAccounted` | `PerfSpec => []InstructionsAccounted` |
| `HitsAlwaysAccounted` | `PerfSpec => []HitsAccounted` |
| `EbreakAlwaysFlagged` | `PerfSpec => EbreakFlagged` |
| `CounterAlwaysReadsCycles` | `PerfSpec => CounterReadsCycles` |

`CyclesAlwaysAgree`, `CyclesAlwaysAccounted` and `CounterAlwaysReadsCycles` have the
hypothesis `MaxCycles < WordSize * WordSize`: within the bound the CPU's counter of
two words (64 bits) does not wrap, as the bench's never does.  The others need no
such limit.  `CpuImplemented` lets `OneInFlight` be used: a cycle is counted as a
wait exactly while the one instruction is on its way to the next unit, so the sum
has no gap and no overlap.  Added are `CountersOK` (types), `TicksAgree` (the bench
counts two ticks a cycle, one of which is counted when a test starts; division by
two hides that), and `HitsInFlight` (a fetch that waits for the bus has been waited
for once more than the instructions delivered account for).  What a reset leaves in
the IDU is not counted as delivered: the start cycle drops it.

### The encodings (`Encoding_proofs`)

For every set of immediates of 12 and 20 bits and of registers that
`random_bits` may draw from, that is, for every random instruction:

| Theorem | Statement |
|---|---|
| `DecodersAlwaysAgree` | `Spec => []DecodersAgree` |
| `AlwaysDecodedAsAsked` | `Spec => []DecodedAsAsked` |
| `ListingAlwaysReassembles` | `Spec => []ListingReassembles` |

The three are not inductive but consequences of `Drawn`: the word is made, by the
encoder of its kind, from fields that fit their places.  `DecodersAgree` holds of
any word and needs no more than `ShlBits`, `FieldBits` and `SignBit`: what shifts, fields
and sign extension do to each bit.  For the other two, one lemma per format (`ITypeBits`,
`RTypeBits`, `STypeBits`, `UTypeBits`) says which bit comes from which field, `OpcodesDiffer`
that an opcode tells the kind, and one lemma per format of immediate that its
pieces come together again.

### Harness and main (`Main_proofs`)

For every command line, every program and binary, any number of registers set at
the start, any limit on cycles:

| Theorem | Statement |
|---|---|
| `MainTypeCorrect` | `MainSpec => []MainTypeOK` |
| `PassedAlwaysMeansAgreed` | `MainSpec => []PassedMeansAgreed` |
| `CorrectAlwaysPasses` | `MainSpec => []CorrectPassesMapped` |
| `CheckAlwaysMeansA0` | `MainSpec => []CheckMeansA0` |
| `PassedAlwaysInTime` | `MainSpec => []PassedInTime` |
| `ExitAlwaysMeansPassed` | `MainSpec => []ExitMeansPassed` |

Assumed: what a word means as a number is natural, and no program is as long as the
counters `minstret` and `instrets` count (2^64).

The types are not inductive alone.  `HarnessTyped` adds that the harness is untouched
until the tests start (otherwise `Launch` would start from anything), that programs
fit the counters, and that a CPU about to be clocked has cycles left, without which
`cycles` would pass its limit.  `Verdicts` joins the four properties of the
harness with seven invariants of the loop:

* `VcpuFails`: the events of vcpu are lost, so a test with it never passes and its
  loop ends in the first iteration.  This is the finding of `harness_vcpu`; it also
  reduces the other parts to vsoc alone or to the golden model alone.
* `SuccessSoFar`: the loop goes on only as long as the test succeeds.
* `CountsAgree`: the loop's count of instructions and the one made by DPI calls are
  one apart while vsoc is clocked, equal otherwise.
* `InStep`: vsoc is where the golden model is, or one instruction ahead.
* `NotFailed`: a correct CPU has not failed, but for a0.
* `EbreakOnItsWay`: the flag comes one cycle after the ebreak, and the loop does not
  go on behind it; this is what `CheckMeansA0` needs.
* `Straight`: short of a loop, vsoc is as far in the program as the loop has counted,
  so the limit on instructions does not strike before the end.

The exit code follows from the number of tests (`TestsCounted`) and from the fact that
`main` finishes only when no further test is due.  TLC has checked the strengthenings
on the instance of the run `main` before they were proved.

### The command line (`Main_proofs`)

For every command line, of any length and with any words:

| Theorem | Statement |
|---|---|
| `AlwaysReadAsWritten` | `MainSpec => []ReadAsWritten` |
| `AlwaysRandomAsAsked` | `MainSpec => []RandomAsAsked` |

Assumed: that a line comes with a division into options, each a known word with as
many words as belong to it (fewer only at the end of the line), or an unknown word
with anything behind it.  Every sequence of words has such a division, so no line is
excluded, and the reader of the model does not see it.

The properties compare the configuration with the whole line, of which `main` has
forgotten what it has read.  `ReadInOrder` says how far it is: the first *n* options
of the division have been read, each complete; the words left are those from the
start of option *n* + 1 on; each option has its default or the value of the last of
its occurrences among the *n*.  A word read is therefore always the first one of an
option, never an argument (`NextOption`); `FlagRead` and `OptionRead` take one option
more, the second using that an option cut short at the end of the line is refused.
When no word is left, *n* is the length of the line (`AllRead`), and the occurrence
the configuration knows is the last one on the line (`LastIs`).  Because *n* and the last
occurrence are carried along, no induction over the line is needed.  `RandomAsAsked`
adds that the prelude, which is part of `n_insts`, is taken off again by the generator.

### Words (`Words_proofs`)

What `Lockstep` computes with words of `XLEN` bits rests on lemmas for every `XLEN`
that is a multiple of 4: `Pow2` is what its recursive definition says and adds up in
exponents (`PowersAre`, `PowersAdd`); bits and bitwise operations stay in range
(`BitwiseTypes`); a word is its four bytes and four bytes are a word (`SplitJoined`,
`JoinedSplit`); sign extension and arithmetic shift are what both languages mean by
them (`ExtendedIs`, `ShiftSigned`).  The library's induction theorems take an operator
as a parameter, which the provers cannot instantiate; `Induction` states the principle
for a set instead and follows from a least counterexample (`WFMin`, the natural
numbers being well-founded).

### CPU and golden model (`Lockstep_proofs`)

For every word size, memory map, set of programs, number of registers and of cache
lines, and, but for `PrintedOnce`, for every range of delays:

| Theorem | Statement |
|---|---|
| `LockstepTypeCorrect` | `Spec => []TypeOK` |
| `LockstepAgrees` | `Spec /\ []Ordinary => []Agree` |
| `LockstepSameAtStart` | `Spec /\ []Ordinary => []SameAtStart` |
| `LockstepQuickSees` | `Spec /\ []Ordinary => []QuickSeesTheStore` |
| `LockstepNoFalseAlarm` | `Spec /\ []Ordinary => []NoFalseAlarm` |
| `LockstepPrintedOnce` | `SlowEnough` implies `Spec /\ []Ordinary => []PrintedOnce` |

Assumed (`MapAssumption`, `BenchAssumption`, `ProgramsAssumption`, `FieldsAssumption`):
regions start and end at words, flash lies below RAM and the UART below flash, as in
`mem_map.h`; a program leaves a word free at the end of flash and of RAM; the
fields of an instruction have the widths they have.  `Ordinary` is a hypothesis because the
theorems are false without it, each of its conjuncts for a difference between the two
sides that section 3 describes.  It is about the states of the golden model and the
tags of the cache, so it can be asked of a program; the run `lockstep` checks it of its
programs as an invariant, and the program of the run `lockstep_straddling` violates it.  `SlowEnough` is that every delay
is at least two cycles.

The inductive invariant `Inv` joins what the other modules prove of the parts with what
relates the two sides:

* `TypeOK`, and `Counted`: a test does not retire more instructions than it may.
* `Control`: `OneInPlace`, which is `Cpu!OneInFlight` without its exceptions, since every
  test ends at a retirement; and what the bench's `phase` says of the EXU.
* `MemPath`: `PartsMatch`, `ServesPart`, `FirstPartKept` and `LeftoverHarmless`, as on the
  memory side, here with real words, registers of the UART and unmapped addresses.
* `MemoryAgrees`: the two RAMs are the same, but for the bytes the store under way may
  write.  The CPU writes while it executes, part by part; the golden model at once,
  when the instruction retires.  When nothing is under way the RAMs are equal.
* `ServesFetch`, `CacheAgrees`, `InstAgrees`: an answer to the IFU, a line of the cache, the
  instruction in the IDU are the word of code the *golden model* reads.  This is
  where a store over cached code has to be excluded.
* `RegistersAgree`: pc and registers are the same but while one side is ahead.

It is preserved because both sides compute the same.  `SameAlu`, `SameCom` and
`SameTypes` compare ALU, comparator and decoders, for every word; `RetiredLoad` says
that the bytes which the LSU rotated and extended out of one or two words are those that
the golden model loads, and `StoreTouches` that a store touches the bytes the golden
model writes.  With `RetiredMemory` and `RetiredRegisters` an instruction that retires
keeps `MemoryAgrees` and `RegistersAgree`.

`Agree` and `SameAtStart` are then immediate.  `QuickSeesTheStore` needs that one changed byte
changes a word (`SpoiltWord`).  `NoFalseAlarm` adds that the comparison finds no difference
in whatever word it looks at (`NoDifference`), the one behind the end of RAM
included.  `PrintedOnce` needs two more inductive parts: `Timely` (as long as the LSU
asks, its request waits, so the second cycle of the request starts the waiting anew
instead of asking again) and `PrintedAgrees` (the bench has printed what the golden model
has sent and, from the moment the store under way is served, its byte).  With a
delay of one cycle TLC finds a byte printed twice.

### Only checked by TLC

* Liveness: `FetchAnswered`, `AccessEnds`, `TestsEnd`, `Exits` (fairness and ENABLED are
  beyond the prover).
* That the programs of the run `lockstep` are `Ordinary`: with arbitrary programs it
  is not so.

## 5. What is not modelled, and why

* In `Cpu` the answers of `csr.sv` are arbitrary; `Perf` puts the counter in.
  `Lockstep` has no CSR instructions, which the golden model does not know.
* The SoC around the CPU: a submodule whose source is not in the repository.
  `Harness` models how the loop treats it.  With it the packing of the SoC's `lsr`
  for the golden model, and the memory comparison with the SoC's RAM, which has the
  shape of the one with the bench's.
* Messages, statistics, traces and the measurement file: output that nothing reads
  back.  The counts they print are those of `Perf`.  How often a file cannot be read
  is one case in `Main` (a path outside `Files`).
* How `std::stoull` reads a number: a table in `Main`.
* Scripts, and the former bench `cpu_main.cpp`, which is not built.
* Unknown values of the RTL: Verilator has two-valued logic, and registers without
  a reset start as zero.

## 6. Plan

Done, in this order: fetch side, memory side, CPU with its proofs, golden model
and lockstep, encoding, harness; then the cycle counter and the event counts, UART
and quick comparison, the command line, and the listing; then the proofs about fetch
side, memory side, measurements, encodings, harness, main and its command line; last
the lemmas on words of any width and the proofs about `Lockstep`, which the other proofs
had prepared.  What could follow:

1. `PrintedOnce` for delays from 0, of programs that send nothing: the hypothesis
   `SlowEnough` is needed for stores to the UART only.
2. `TestsEnd` as safety with a variant: a bound on the half periods between two
   retirements, which is an invariant and within the prover's reach where liveness is not.
3. `Csr` in `Lockstep`, should the golden model ever know the counters.
