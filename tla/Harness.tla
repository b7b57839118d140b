-------------------------------- MODULE Harness --------------------------------
(***************************************************************************)
(* The loop of soc/soc_main.cpp that runs tests: it lets each selected CPU *)
(* retire an instruction (vsoc_fetch_exec, vcpu_fetch_exec), has the       *)
(* golden model execute one, compares, and decides whether to go on and    *)
(* whether the test has passed.  The CPUs report what they retire through  *)
(* DPI calls that write event counts.                                      *)
(*                                                                         *)
(* A program is a sequence of kinds of instructions, a pc a position in    *)
(* it.  A CPU either does what the program says or is wrong: then a        *)
(* register, its pc or a compared part of its memory differs.              *)
(***************************************************************************)
EXTENDS Integers, Sequences

CONSTANTS Files,        \* what the binaries, by path, may contain
          N_REGS,       \* registers a random program sets first
          Minstrets     \* width of the counters minstret and instrets (2^64 in the source)

Kinds == {"calc",       \* anything that only goes on to the next word
          "set_a0",     \* leaves something other than 0 in a0
          "loop",       \* jumps to itself
          "leave",      \* jumps out of flash and RAM
          "device",     \* accesses what the golden model does not map
          "ebreak",
          "none"}       \* no instruction

Cpus == {"vsoc", "vcpu"}

inst_flags == {"j", "b", "l", "s", "c", "e"}

\* The fields of TestBench the loop depends on; correct says whether the CPUs are.
Selection == [cpus : SUBSET Cpus, gold : BOOLEAN, random : BOOLEAN, check : BOOLEAN,
              max_cycles : Nat, max_tests : Nat, n_insts : Nat,
              inst_flags : SUBSET inst_flags, bin_path : {""} \cup DOMAIN Files,
              correct : BOOLEAN]

\* Two instructions set each register but x0, a0 among them.
PreludeLen == 2 * (N_REGS - 1)
Prelude    == [i \in 1..PreludeLen |-> IF i = 1 THEN "set_a0" ELSE "calc"]

\* What random_instruction may draw; with no flag at all, the word 0.
RandomKinds(flags) ==
    IF flags = {} THEN {"none"}
    ELSE UNION {CASE f = "c"           -> {"calc", "set_a0"}
                  [] f \in {"j", "b"} -> {"calc", "loop", "leave"}
                  [] f = "l"           -> {"calc", "set_a0", "device"}
                  [] f = "s"           -> {"calc", "device"}
                  [] f = "e"           -> {"ebreak"} : f \in flags}

RandomPrograms(s) ==
    {Prelude \o p : p \in [1..(s.n_insts - PreludeLen) -> RandomKinds(s.inst_flags)]}

Programs(s) == IF s.random THEN RandomPrograms(s) ELSE Files[s.bin_path]

ASSUME HarnessAssumption ==
    /\ N_REGS \in Nat /\ N_REGS >= 2
    \* The source's counter does not wrap around within a test.
    /\ Minstrets \in Nat /\ Minstrets > PreludeLen + 2
    /\ \A path \in DOMAIN Files : \A p \in Files[path] :
           p \in Seq(Kinds) /\ Len(p) + 2 < Minstrets

VARIABLES
    tb,             \* the selected options
    program,        \* tb->insts
    cpu,            \* per CPU: pc, a0 # 0, wrong, executing (EXU_EXECUTE), last kind
    gold,           \* pc, a0 # 0, ebreak, is_not_mapped
    event_counts,   \* per CPU: minstret and ebreak
    minstret_start, \* per CPU, at the start of fetch_exec
    cycles,         \* vsoc_cycles, vcpu_cycles; counted when max_cycles is given
    instrets, is_test_success, tests,
    at              \* where the loop is

vars == <<tb, program, cpu, gold, event_counts, minstret_start, cycles, instrets,
          is_test_success, tests, at>>

n_insts == Len(program)
Outside == -1
Pcs     == Outside..(n_insts + 1)

TypeOK ==
    /\ tb \in Selection
    /\ program \in Seq(Kinds)
    /\ cpu \in [Cpus -> [pc : Pcs, a0 : BOOLEAN, wrong : BOOLEAN, executing : BOOLEAN,
                         last : Kinds]]
    /\ gold \in [pc : Pcs, a0 : BOOLEAN, ebreak : BOOLEAN, is_not_mapped : BOOLEAN]
    /\ event_counts \in [Cpus -> [minstret : 0..Minstrets-1, ebreak : BOOLEAN]]
    /\ minstret_start \in [Cpus -> 0..Minstrets-1]
    /\ cycles \in [Cpus -> 0..tb.max_cycles]
    /\ instrets \in 0..Minstrets-1
    /\ is_test_success \in BOOLEAN
    /\ tests \in 1..(tb.max_tests + 1)
    /\ at \in {"begin", "judge", "done"} \cup Cpus

-----------------------------------------------------------------------------
(* Programs.                                                               *)

\* Beyond the program the flash is not an instruction.
KindAt(pc) == IF pc \in 0..n_insts-1 THEN program[pc + 1] ELSE "none"

NextPc(pc) == CASE KindAt(pc) = "loop" -> pc
                [] KindAt(pc) = "leave" \/ pc \notin 0..n_insts -> Outside
                [] OTHER -> pc + 1

\* What the golden model does not answer for: it takes the system opcode, too,
\* for an undefined instruction.
Unmapped(pc) == KindAt(pc) \in {"device", "ebreak", "none"}

is_valid_pc_address(pc) == pc \in 0..n_insts

-----------------------------------------------------------------------------
(* The DPI calls.                                                          *)

\* Plausible bug: the counts of the wrong CPU are written.
exu_perf_measureSwapped(c, is_ebreak, is_instret) ==
    event_counts' = [event_counts EXCEPT
        !["vcpu"].ebreak = @ \/ is_ebreak,
        !["vcpu"].minstret = (@ + IF is_instret THEN 1 ELSE 0) % Minstrets]

\* Whichever CPU calls, the counts of vsoc_cpu are written.
exu_perf_measure(c, is_ebreak, is_instret) ==
    event_counts' = [event_counts EXCEPT
        !["vsoc"].ebreak = @ \/ is_ebreak,
        !["vsoc"].minstret = (@ + IF is_instret THEN 1 ELSE 0) % Minstrets]

\* Plausible bug: the reset leaves minstret alone.
exu_perf_resetEbreakOnly ==
    IF tb.cpus = {} THEN event_counts ELSE [event_counts EXCEPT !["vsoc"].ebreak = FALSE]

exu_perf_reset ==
    IF tb.cpus = {} THEN event_counts
    ELSE [event_counts EXCEPT !["vsoc"] = [minstret |-> 0, ebreak |-> FALSE]]

-----------------------------------------------------------------------------
(* fetch_exec.                                                             *)

\* Plausible bug: the limit is off by one.
TimeoutStrict(c) == tb.max_cycles # 0 /\ cycles[c] > tb.max_cycles

Timeout(c) == tb.max_cycles # 0 /\ cycles[c] >= tb.max_cycles

\* Plausible bug: a CPU that does not retire is clocked for ever.
StopsOnEvents(c) == \/ event_counts'[c].ebreak
                    \/ event_counts'[c].minstret # minstret_start[c]

\* Stops says when the loop of fetch_exec is left, with the values after the
\* cycle: on a timeout, on ebreak, or when minstret has changed.
Stops(c) == \/ tb.max_cycles # 0 /\ cycles'[c] >= tb.max_cycles
            \/ event_counts'[c].ebreak
            \/ event_counts'[c].minstret # minstret_start[c]

After(c) == IF c = "vsoc" /\ "vcpu" \in tb.cpus THEN "vcpu" ELSE "judge"

\* Plausible bug: a0 is not looked at.
CheckedMinstret(c) == event_counts'[c].ebreak \/ event_counts'[c].minstret = instrets

\* What test_instructions checks when fetch_exec returns.
Checked(c) == IF event_counts'[c].ebreak
              THEN ~(tb.check /\ cpu'[c].a0)
              ELSE event_counts'[c].minstret = instrets

\* One clock cycle.  The ebreak flag is raised by the cycle after the one that
\* retires (exu.sv:174), in which nothing else can retire.
Cycle(c, retires) ==
    /\ at = c
    /\ retires => ~cpu[c].executing
    /\ LET pc == cpu[c].pc
       IN  \E wrong \in IF retires /\ (~tb.correct \/ Unmapped(pc)) THEN BOOLEAN
                        ELSE {cpu[c].wrong} :
            cpu' = [cpu EXCEPT ![c] =
                 IF retires
                 THEN [pc |-> NextPc(pc), a0 |-> @.a0 \/ KindAt(pc) = "set_a0", wrong |-> wrong,
                       executing |-> TRUE, last |-> KindAt(pc)]
                 ELSE [@ EXCEPT !.executing = FALSE]]
    /\ exu_perf_measure(c, cpu[c].executing /\ cpu[c].last = "ebreak", retires)
    /\ cycles' = [cycles EXCEPT ![c] = IF tb.max_cycles = 0 THEN 0 ELSE @ + 1]
    /\ IF Stops(c)
       THEN /\ is_test_success' = (is_test_success /\ Checked(c))
            /\ at' = After(c)
            /\ minstret_start' = [d \in Cpus |-> IF d # c /\ d = After(c)
                                                THEN event_counts'[d].minstret
                                                ELSE minstret_start[d]]
       ELSE UNCHANGED <<is_test_success, at, minstret_start>>
    /\ UNCHANGED <<tb, program, gold, instrets, tests>>

-----------------------------------------------------------------------------
(* test_instructions.                                                      *)

Begin ==
    /\ at = "begin"
    /\ instrets' = (instrets + 1) % Minstrets
    /\ at' = CASE "vsoc" \in tb.cpus -> "vsoc"
               [] tb.cpus = {"vcpu"} -> "vcpu"
               [] OTHER -> "judge"
    /\ minstret_start' = [c \in Cpus |-> IF at' = c THEN event_counts[c].minstret
                                        ELSE minstret_start[c]]
    /\ UNCHANGED <<tb, program, cpu, gold, event_counts, cycles, is_test_success, tests>>

cpu_eval ==
    IF ~tb.gold THEN gold
    ELSE [pc |-> NextPc(gold.pc), a0 |-> gold.a0 \/ KindAt(gold.pc) = "set_a0",
          ebreak |-> KindAt(gold.pc) = "ebreak",
          is_not_mapped |-> gold.is_not_mapped \/ Unmapped(gold.pc)]

\* Plausible bug: the registers are left out of the comparison.
compare_goldIgnoringRegs(c) ==
    event_counts[c].ebreak = gold'.ebreak /\ cpu[c].pc = gold'.pc

\* compare_vsoc_gold and compare_vcpu_gold.
compare_gold(c) == /\ event_counts[c].ebreak = gold'.ebreak
                   /\ ~cpu[c].wrong
                   /\ cpu[c].pc = gold'.pc

compare_vcpu_vsoc == /\ event_counts["vcpu"].ebreak = event_counts["vsoc"].ebreak
                     /\ cpu["vcpu"].wrong = cpu["vsoc"].wrong
                     /\ cpu["vcpu"].pc = cpu["vsoc"].pc

Judge ==
    /\ at = "judge"
    /\ gold' = cpu_eval
    /\ LET a0_ok    == is_test_success /\ ~(gold'.ebreak /\ tb.check /\ gold'.a0)
           unmapped == tb.gold /\ tb.random /\ gold'.is_not_mapped
           agree    == /\ a0_ok
                       /\ tb.gold => \A c \in tb.cpus : compare_gold(c)
                       /\ ~tb.gold /\ tb.cpus = Cpus => compare_vcpu_vsoc
           timely   == \A c \in tb.cpus : ~Timeout(c)
           broken   == /\ \A c \in tb.cpus : event_counts[c].ebreak
                       /\ tb.gold => gold'.ebreak
           valid    == /\ \A c \in tb.cpus : is_valid_pc_address(cpu[c].pc)
                       /\ tb.gold => is_valid_pc_address(gold'.pc)
           limit    == tb.random /\ instrets > n_insts
       IN  /\ is_test_success' = IF unmapped THEN a0_ok ELSE agree /\ timely
           /\ at' = IF unmapped \/ ~agree \/ ~timely \/ broken \/ ~valid \/ limit
                    THEN "done" ELSE "begin"
    /\ UNCHANGED <<tb, program, cpu, event_counts, minstret_start, cycles, instrets, tests>>

Fresh(c) == [pc |-> 0, a0 |-> FALSE, wrong |-> FALSE, executing |-> FALSE, last |-> "none"]

Init == /\ tb = [cpus |-> {}, gold |-> FALSE, random |-> FALSE, check |-> FALSE,
                 max_cycles |-> 0, max_tests |-> 0, n_insts |-> 0, inst_flags |-> {},
                 bin_path |-> "", correct |-> TRUE]
        /\ program = <<>>
        /\ cpu = [c \in Cpus |-> Fresh(c)]
        /\ gold = [pc |-> 0, a0 |-> FALSE, ebreak |-> FALSE, is_not_mapped |-> FALSE]
        /\ event_counts = [c \in Cpus |-> [minstret |-> 0, ebreak |-> FALSE]]
        /\ minstret_start = [c \in Cpus |-> 0]
        /\ cycles = [c \in Cpus |-> 0]
        /\ instrets = 0 /\ is_test_success = TRUE /\ tests = 1
        /\ at = "begin"

\* test_random goes on to another program as long as tests pass; the resets of
\* the CPUs call exu_perf_reset.
\* Plausible bug: one test too many.
MoreTestsInclusive == tb.random /\ is_test_success /\ tests <= tb.max_tests

MoreTests == tb.random /\ is_test_success /\ tests < tb.max_tests

NextTest == /\ at = "done" /\ MoreTests
            /\ program' \in Programs(tb)
            /\ cpu' = [c \in Cpus |-> Fresh(c)]
            /\ gold' = [pc |-> 0, a0 |-> FALSE, ebreak |-> FALSE, is_not_mapped |-> FALSE]
            /\ event_counts' = exu_perf_reset
            /\ minstret_start' = [minstret_start EXCEPT !["vcpu"] = 0]
            /\ cycles' = [c \in Cpus |-> 0]
            /\ instrets' = 0 /\ tests' = tests + 1
            /\ at' = "begin"
            /\ UNCHANGED <<tb, is_test_success>>

Next == \/ Begin \/ Judge \/ NextTest
        \/ \E c \in Cpus, retires \in BOOLEAN : Cycle(c, retires)

-----------------------------------------------------------------------------
(* Properties.                                                             *)

done == at = "done"

\* A test that passes means something: the golden model, if it has been able
\* to follow, and every CPU are at the same pc, none is wrong and each has
\* executed as many instructions as the loop counted (soc_main.cpp:1043-1058).
PassedMeansAgreed ==
    done /\ is_test_success /\ tb.gold /\ ~(tb.random /\ gold.is_not_mapped) =>
        \A c \in tb.cpus : /\ ~cpu[c].wrong
                           /\ cpu[c].pc = gold.pc
                           /\ event_counts[c].minstret = instrets

\* A correct CPU is not reported as failed by a test without a limit on its
\* cycles, whatever the program does and whatever ran before it
\* (soc_main.cpp:950-1121).  Violated at the ebreak of a binary.
CorrectPasses ==
    done /\ tb.correct /\ ~tb.check /\ tb.max_cycles = 0 => is_test_success

\* So it is in random tests, and in binaries as long as the golden model can
\* follow: it takes ebreak, too, for an undefined instruction.
CorrectPassesMapped ==
    done /\ tb.correct /\ ~tb.check /\ tb.max_cycles = 0
         /\ (tb.gold /\ ~tb.random => ~gold.is_not_mapped) => is_test_success

\* With "check", a program that ends by ebreak passes if and only if a0 is 0
\* then, when no golden model is asked (readme.md: "on ebreak check a0 == 0,
\* otherwise test failed").
CheckMeansA0 ==
    done /\ ~tb.gold /\ tb.correct /\ tb.check /\ tb.max_cycles = 0
         /\ (\E c \in tb.cpus : cpu[c].last = "ebreak") =>
        (is_test_success <=> \A c \in tb.cpus : ~cpu[c].a0)

\* A binary is given max_cycles cycles: a test that passes has taken fewer
\* (readme.md: "timeout after <cycles> cycles").
PassedInTime == done /\ is_test_success /\ tb.max_cycles # 0 /\ ~tb.random =>
                    \A c \in tb.cpus : cycles[c] < tb.max_cycles

\* Every test ends, unless it runs a program that does not, without a limit.
TestEnds == at = "begin" ~> at = "done"
=============================================================================
