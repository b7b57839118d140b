----------------------------- MODULE Main_proofs -----------------------------
(***************************************************************************)
(* Proofs about the test harness as main runs it, for every command line,  *)
(* every program, any number of registers and any limit on the cycles.     *)
(***************************************************************************)
EXTENDS Main, SequenceTheorems, TLAPS

-----------------------------------------------------------------------------
(* The inductive invariant of the types.                                   *)

\* What has been read of the command line so far.
Options == [flags : SUBSET Flags, trace : Seq(STRING), max : Nat, delay : Nat \X Nat,
            seed : Nat, verbose : Nat, measure : Seq(STRING),
            random : {<<>>} \cup (Nat \X (PreludeLen..(Minstrets - 3)) \X SUBSET inst_flags),
            bin : Seq(STRING)]

\* Until the tests start, the harness is as its Init leaves it, and the program
\* has no exit code.
Untouched == /\ args \in Seq(STRING) /\ config \in Options
             /\ stage = "parse" => Init /\ exit_code = "none"

\* No program is longer than the counters count.
ProgramsFit == /\ tb.random => tb.n_insts \in PreludeLen..(Minstrets - 3)
               /\ n_insts + 2 < Minstrets

\* A CPU that is yet to be clocked has cycles left, and only a selected one is.
CyclesLeft == /\ at \in Cpus => at \in tb.cpus
              /\ tb.max_cycles # 0 =>
                   \A c \in tb.cpus :
                       at \in {"begin", c} \/ (at = "vsoc" /\ c = "vcpu") => cycles[c] < tb.max_cycles

HarnessTyped == MainTypeOK /\ Untouched /\ ProgramsFit /\ CyclesLeft

-----------------------------------------------------------------------------
(* The inductive invariants of the verdict.                                *)

\* The events of vcpu are lost: its first instruction fails the test.
VcpuFails ==
    /\ event_counts["vcpu"] = [minstret |-> 0, ebreak |-> FALSE]
    /\ minstret_start["vcpu"] = 0
    /\ "vcpu" \in tb.cpus =>
         /\ at = "begin" => instrets = 0
         /\ at \in Cpus  => instrets = 1
         /\ at \in {"judge", "done"} => ~is_test_success /\ tb.max_cycles # 0

\* The loop goes on only as long as the test succeeds.
SuccessSoFar == at \in {"begin", "vsoc"} => is_test_success

vsoc    == cpu["vsoc"]
counted == event_counts["vsoc"].minstret
flagged == event_counts["vsoc"].ebreak

\* vsoc alone has retired as many instructions as the loop has counted; the
\* loop does not go on once the ebreak flag is up.
CountsAgree ==
    tb.cpus = {"vsoc"} =>
        /\ at = "begin" => counted = instrets /\ ~flagged
        /\ at = "vsoc"  => /\ instrets = (counted + 1) % Minstrets
                           /\ minstret_start["vsoc"] = counted /\ ~flagged
        /\ at = "judge" /\ is_test_success /\ ~flagged => counted = instrets

\* vsoc is where the golden model is, or one instruction ahead.
InStep ==
    tb.cpus = {"vsoc"} /\ tb.gold =>
        /\ at \in {"begin", "vsoc"} =>
             vsoc.pc = gold.pc /\ ~vsoc.wrong /\ ~(vsoc.executing /\ vsoc.last = "ebreak")
        /\ at = "judge" /\ is_test_success =>
             ~flagged /\ vsoc.last = KindAt(gold.pc) /\ vsoc.pc = NextPc(gold.pc)
        /\ at = "judge" /\ tb.correct /\ vsoc.wrong => Unmapped(gold.pc)

\* A correct CPU without a limit on its cycles has not failed, but for a0.
NotFailed ==
    tb.correct /\ tb.max_cycles = 0 /\ at = "judge" =>
        is_test_success \/ (tb.check /\ tb.cpus = {"vsoc"} /\ flagged /\ vsoc.a0)

\* An ebreak is on its way to the flag, which ends the test by a0.
EbreakOnItsWay ==
    tb.cpus = {"vsoc"} /\ ~tb.gold =>
        /\ vsoc.last = "ebreak" => vsoc.executing \/ flagged
        /\ flagged => vsoc.last = "ebreak"
        /\ at = "judge" /\ flagged => (is_test_success <=> ~(tb.check /\ vsoc.a0))
        /\ ~gold.ebreak

\* Short of a loop, vsoc is as far in the program as the loop has counted.
Straight ==
    tb.cpus = {"vsoc"} /\ ~tb.gold =>
        /\ vsoc.last = "loop" => KindAt(vsoc.pc) = "loop"
        /\ vsoc.last = "ebreak" => is_valid_pc_address(vsoc.pc)
        /\ at \in {"begin", "vsoc"} => is_valid_pc_address(vsoc.pc)
        /\ vsoc.last # "loop" =>
             /\ at = "begin" => vsoc.pc = instrets
             /\ at = "vsoc"  => vsoc.pc + 1 = instrets
             /\ at = "judge" /\ is_test_success /\ ~flagged => vsoc.pc \in {instrets, Outside}

\* Tests are counted from 1 up to the number asked for.
TestsCounted == /\ ~tb.random => tests = 1
                /\ tests > 1 => tests <= tb.max_tests

Verdicts == /\ VcpuFails /\ SuccessSoFar /\ CountsAgree /\ InStep /\ NotFailed
            /\ EbreakOnItsWay /\ Straight
            /\ PassedMeansAgreed /\ CorrectPassesMapped /\ CheckMeansA0 /\ PassedInTime

-----------------------------------------------------------------------------
(* Programs.                                                               *)

\* A random program, and a binary, is one and fits.
LEMMA RandomProgramsFit ==
    ASSUME NEW s, s.n_insts \in PreludeLen..(Minstrets - 3), s.inst_flags \in SUBSET inst_flags,
           NEW p \in RandomPrograms(s)
    PROVE  p \in Seq(Kinds) /\ Len(p) + 2 < Minstrets
<1>1. PreludeLen \in Nat /\ Minstrets \in Nat
  BY HarnessAssumption DEF PreludeLen
<1>2. Prelude \in Seq(Kinds) /\ Len(Prelude) = PreludeLen
  BY <1>1 DEF Prelude, Kinds
<1>3. RandomKinds(s.inst_flags) \subseteq Kinds
  BY DEF RandomKinds, Kinds, inst_flags
<1> DEFINE k == s.n_insts - PreludeLen
<1>4. PICK drawn \in [1..k -> RandomKinds(s.inst_flags)] : p = Prelude \o drawn
  BY DEF RandomPrograms
<1>5. k \in Nat /\ PreludeLen + k = s.n_insts /\ s.n_insts + 2 < Minstrets
  BY <1>1
<1> HIDE DEF k
<1>6. drawn \in Seq(Kinds) /\ Len(drawn) = k
  BY <1>3, <1>4, <1>5
<1>7. p \in Seq(Kinds) /\ Len(p) = PreludeLen + k
  <2>1. \A a, b \in Seq(Kinds) : a \o b \in Seq(Kinds) /\ Len(a \o b) = Len(a) + Len(b)
    OBVIOUS
  <2>2. QED
    BY <1>2, <1>4, <1>6, <2>1
<1>8. QED
  BY <1>5, <1>7

\* A binary is a program that the counters can count.
LEMMA FilesFit ==
    ASSUME NEW path \in DOMAIN Files, NEW p \in Files[path]
    PROVE  p \in Seq(Kinds) /\ Len(p) + 2 < Minstrets
BY HarnessAssumption

\* The counters have room for the prelude and for one instruction more.
LEMMA Widths == /\ PreludeLen \in Nat /\ Minstrets \in Nat /\ Minstrets > 2
                /\ 0 \in 0..(Minstrets - 1) /\ 1 % Minstrets = 1
<1>1. N_REGS \in Nat /\ N_REGS >= 2 /\ Minstrets \in Nat /\ Minstrets > PreludeLen + 2
  BY HarnessAssumption
<1>2. PreludeLen \in Nat
  BY <1>1 DEF PreludeLen
<1>3. QED
  BY <1>1, <1>2

\* What lies at a position of a program, and where it leads.
LEMMA Positions ==
    ASSUME program \in Seq(Kinds), NEW pc \in Pcs
    PROVE  KindAt(pc) \in Kinds /\ NextPc(pc) \in Pcs
<1>1. n_insts \in Nat /\ pc \in Int
  BY DEF n_insts, Pcs, Outside
<1>2. KindAt(pc) \in Kinds
  BY <1>1 DEF KindAt, n_insts, Kinds
<1>3. NextPc(pc) \in Pcs
  BY <1>1 DEF NextPc, Pcs, Outside
<1>4. QED
  BY <1>2, <1>3

-----------------------------------------------------------------------------
(* Reading the command line.                                               *)

\* What is read of an option that is accepted is of its type.
LEMMA ValuesTyped ==
    ASSUME args \in Seq(STRING), args # <<>>, config \in Options,
           mode \notin Flags, ~Refused, ~Throws, ~UnknownFlag
    PROVE  [config EXCEPT ![mode] = Value(mode, Words)] \in Options
<1>1. mode \in DOMAIN Arity /\ Len(args) > Arity[mode]
  BY DEF Refused, Arity, mode
<1>2. mode \in {"trace", "max", "delay", "seed", "verbose", "measure", "random", "bin"}
  BY <1>1 DEF Arity
<1>3. Words \in Seq(STRING) /\ Len(Words) = Arity[mode]
  BY <1>1, <1>2 DEF Words, Arity
<1>4. \A i \in 1..Len(Words) : Words[i] \in STRING
  BY <1>3
<1>5. ASSUME NEW i \in DOMAIN NumberWords(mode, Words)
      PROVE  /\ Numbers[Words[i]] \in Nat
             /\ Numbers[Words[i]] + PreludeLen \in PreludeLen..(Minstrets - 3)
  <2>1. Words[i] \in DOMAIN Numbers
    BY <1>5 DEF Throws
  <2>2. Numbers[Words[i]] \in Nat /\ Numbers[Words[i]] + PreludeLen + 2 < Minstrets
    BY <2>1, MainAssumption
  <2>3. QED
    BY <2>2, Widths
<1>6. CASE mode \in {"max", "seed", "verbose"}
  <2>1. 1 \in DOMAIN NumberWords(mode, Words)
    BY <1>3, <1>6 DEF NumberWords, Arity
  <2>2. Value(mode, Words) = Numbers[Words[1]]
    BY <1>6 DEF Value
  <2>3. Value(mode, Words) \in Nat
    BY <1>5, <2>1, <2>2
  <2>4. QED
    BY <1>6, <2>3 DEF Options
<1>7. CASE mode = "delay"
  <2>1. 1 \in DOMAIN NumberWords(mode, Words) /\ 2 \in DOMAIN NumberWords(mode, Words)
    BY <1>3, <1>7 DEF NumberWords, Arity
  <2>2. Value(mode, Words) = <<Numbers[Words[1]], Numbers[Words[2]]>>
    BY <1>7 DEF Value
  <2>3. Value(mode, Words) \in Nat \X Nat
    BY <1>5, <2>1, <2>2
  <2>4. QED
    BY <1>7, <2>3 DEF Options
<1>8. CASE mode = "random"
  <2>1. 1 \in DOMAIN NumberWords(mode, Words) /\ 2 \in DOMAIN NumberWords(mode, Words)
    BY <1>3, <1>8 DEF NumberWords, Arity
  <2>2. Value(mode, Words) = <<Numbers[Words[1]], Numbers[Words[2]] + PreludeLen,
                               inst_flags_of(Words[3])>>
    BY <1>8 DEF Value
  <2>3. inst_flags_of(Words[3]) \in SUBSET inst_flags
    BY <1>8 DEF UnknownFlag
  <2>4. Value(mode, Words) \in Nat \X (PreludeLen..(Minstrets - 3)) \X SUBSET inst_flags
    BY <1>5, <2>1, <2>2, <2>3
  <2>5. QED
    BY <1>8, <2>4 DEF Options
<1>9. CASE mode \in {"trace", "measure", "bin"}
  <2>1. Value(mode, Words) = Words
    BY <1>9 DEF Value
  <2>2. QED
    BY <1>3, <1>9, <2>1 DEF Options
<1>10. QED
  BY <1>2, <1>6, <1>7, <1>8, <1>9

\* What is chosen is one of the selections the harness is made for.
LEMMA ChosenTyped ==
    ASSUME config \in Options, NEW correct \in BOOLEAN, ~NothingChosen, ~Unreadable,
           NEW p \in Programs(Chosen(correct))
    PROVE  /\ Chosen(correct) \in Selection
           /\ Chosen(correct).random => Chosen(correct).n_insts \in PreludeLen..(Minstrets - 3)
           /\ p \in Seq(Kinds) /\ Len(p) + 2 < Minstrets
<1> DEFINE s == Chosen(correct)
<1>1. /\ config.flags \in SUBSET Flags /\ config.max \in Nat /\ config.bin \in Seq(STRING)
      /\ config.random = <<>> \/ config.random \in Nat \X (PreludeLen..(Minstrets - 3)) \X SUBSET inst_flags
  BY DEF Options
<1>2. config.random # <<>> => /\ config.random[1] \in Nat
                              /\ config.random[2] \in PreludeLen..(Minstrets - 3)
                              /\ config.random[3] \in SUBSET inst_flags
  BY <1>1
<1>3. /\ s.cpus \in SUBSET Cpus /\ s.max_cycles \in Nat
      /\ s.max_tests \in Nat /\ s.n_insts \in Nat /\ s.inst_flags \in SUBSET inst_flags
      /\ s.bin_path \in {""} \cup DOMAIN Files
  <2>1. s.cpus \in SUBSET Cpus
    BY DEF Chosen
  <2>2. s.max_cycles \in Nat
    BY <1>1 DEF Chosen
  <2>3. s.max_tests \in Nat
    BY <1>2 DEF Chosen
  <2>4. s.n_insts \in Nat
    <3>1. \A n \in PreludeLen..(Minstrets - 3) : n \in Nat
      BY Widths
    <3>2. config.random # <<>> => config.random[2] \in Nat
      BY <1>2, <3>1
    <3>3. QED
      BY <3>2 DEF Chosen
  <2>5. s.inst_flags \in SUBSET inst_flags
    BY <1>2 DEF Chosen
  <2>6. s.bin_path \in {""} \cup DOMAIN Files
    <3>1. s.bin_path = IF config.bin = <<>> THEN "" ELSE config.bin[1]
      BY DEF Chosen
    <3> HIDE DEF s
    <3>2. QED
      BY <3>1 DEF Unreadable
  <2>7. QED
    BY <2>1, <2>2, <2>3, <2>4, <2>5, <2>6
<1>4. s \in Selection
  <2>1. s = [cpus |-> s.cpus, gold |-> s.gold, check |-> s.check, max_cycles |-> s.max_cycles,
             random |-> s.random, max_tests |-> s.max_tests, n_insts |-> s.n_insts,
             inst_flags |-> s.inst_flags, bin_path |-> s.bin_path, correct |-> s.correct]
    BY Zenon DEF Chosen
  <2>2. s.gold \in BOOLEAN /\ s.check \in BOOLEAN /\ s.random \in BOOLEAN /\ s.correct \in BOOLEAN
    <3>1. s.correct \in BOOLEAN
      BY DEF Chosen
    <3>2. s.gold \in BOOLEAN
      <4>1. PICK b \in BOOLEAN : b <=> "gold" \in config.flags
        OBVIOUS
      <4>2. QED
        BY <4>1 DEF Chosen
    <3>3. s.check \in BOOLEAN
      <4>1. PICK b \in BOOLEAN : b <=> "check" \in config.flags
        OBVIOUS
      <4>2. QED
        BY <4>1 DEF Chosen
    <3>4. s.random \in BOOLEAN
      BY DEF Chosen
    <3>5. QED
      BY <3>1, <3>2, <3>3, <3>4, Zenon
  <2> HIDE DEF s
  <2>3. QED
    BY <1>3, <2>1, <2>2, Zenon DEF Selection
<1>5. s.random => s.n_insts \in PreludeLen..(Minstrets - 3)
  BY <1>2 DEF Chosen
<1>6. p \in Seq(Kinds) /\ Len(p) + 2 < Minstrets
  <2>1. CASE s.random
    <3>1. p \in RandomPrograms(s)
      BY <2>1 DEF Programs
    <3>2. QED
      BY <1>3, <1>5, <2>1, <3>1, RandomProgramsFit
  <2>2. CASE ~s.random
    <3>1. config.bin # <<>> /\ s.bin_path = config.bin[1]
      BY <2>2 DEF NothingChosen, Chosen
    <3>2. s.bin_path \in DOMAIN Files
      BY <3>1 DEF Unreadable
    <3>3. p \in Files[s.bin_path]
      BY <2>2 DEF Programs
    <3>4. QED
      BY <3>2, <3>3, FilesFit
  <2>3. QED
    BY <2>1, <2>2
<1>7. QED
  BY <1>4, <1>5, <1>6
-----------------------------------------------------------------------------
(* Every variable keeps its type.                                          *)

\* Steps that leave the harness alone.
LEMMA HarnessAlone ==
    ASSUME UNCHANGED vars
    PROVE  /\ TypeOK => TypeOK'
           /\ ProgramsFit => ProgramsFit'
           /\ CyclesLeft => CyclesLeft'
           /\ Init => Init'
<1>1. TypeOK => TypeOK'
  BY DEF vars, TypeOK, Pcs, n_insts
<1>2. ProgramsFit => ProgramsFit'
  BY DEF vars, ProgramsFit, n_insts
<1>3. CyclesLeft => CyclesLeft'
  BY DEF vars, CyclesLeft
<1>4. Init => Init'
  BY DEF vars, Init
<1>5. QED
  BY <1>1, <1>2, <1>3, <1>4

\* The steps of main: they go on reading, end the program or start the tests.
LEMMA Reading ==
    ASSUME HarnessTyped, stage = "parse", Parse
    PROVE  \/ /\ UNCHANGED <<vars, line, stage, exit_code>>
              /\ args' \in Seq(STRING) /\ config' \in Options
           \/ \E code \in {"EXIT_FAILURE", "EXIT_SUCCESS", "abort"} : Exit(code)
           \/ Launch /\ ~NothingChosen /\ ~Unreadable
<1>1. args \in Seq(STRING) /\ config \in Options
  BY DEF HarnessTyped, Untouched
<1>2. CASE ReadFlag
  <2>1. args' \in Seq(STRING)
    BY <1>1, <1>2 DEF ReadFlag
  <2>2. config' \in Options
    BY <1>1, <1>2 DEF ReadFlag, Options
  <2>3. QED
    BY <1>2, <2>1, <2>2 DEF ReadFlag
<1>3. CASE ReadOption
  <2>1. CASE Refused
    BY <1>3, <2>1 DEF ReadOption
  <2>2. CASE ~Refused /\ Throws
    BY <1>3, <2>2 DEF ReadOption
  <2>3. CASE ~Refused /\ ~Throws /\ UnknownFlag
    BY <1>3, <2>3 DEF ReadOption
  <2>4. CASE ~Refused /\ ~Throws /\ ~UnknownFlag
    <3>1. /\ args # <<>> /\ mode \notin Flags
          /\ config' = [config EXCEPT ![mode] = Value(mode, Words)] /\ args' = Rest
          /\ UNCHANGED <<vars, line, stage, exit_code>>
      BY <1>3, <2>4 DEF ReadOption
    <3>2. config' \in Options
      BY <1>1, <2>4, <3>1, ValuesTyped
    <3>3. mode \in DOMAIN Arity /\ Len(args) > Arity[mode]
      BY <1>1, <2>4, <3>1 DEF Refused, Arity, mode
    <3>4. Arity[mode] \in 1..3
      BY <3>3 DEF Arity
    <3>5. Rest \in Seq(STRING)
      BY <1>1, <3>3, <3>4 DEF Rest
    <3>6. QED
      BY <3>1, <3>2, <3>5
  <2>5. QED
    BY <2>1, <2>2, <2>3, <2>4
<1>4. CASE EndOfLine
  <2>1. CASE line.words = <<>>
    BY <1>4, <2>1 DEF EndOfLine
  <2>2. CASE line.words # <<>> /\ NothingChosen
    BY <1>4, <2>2 DEF EndOfLine
  <2>3. CASE line.words # <<>> /\ ~NothingChosen /\ Unreadable
    BY <1>4, <2>3 DEF EndOfLine
  <2>4. CASE line.words # <<>> /\ ~NothingChosen /\ ~Unreadable
    BY <1>4, <2>4 DEF EndOfLine
  <2>5. QED
    BY <2>1, <2>2, <2>3, <2>4
<1>5. QED
  BY <1>2, <1>3, <1>4 DEF Parse

\* What a CPU's state can be.
CpuStates == [pc : Pcs, a0 : BOOLEAN, wrong : BOOLEAN, executing : BOOLEAN, last : Kinds]

\* A CPU after its reset has its type.
LEMMA FreshTyped ==
    ASSUME program' \in Seq(Kinds), NEW c \in Cpus
    PROVE  Fresh(c) \in CpuStates'
<1>1. 0 \in Pcs'
  BY DEF Pcs, n_insts, Outside
<1>2. "none" \in Kinds
  BY DEF Kinds
<1>3. QED
  BY <1>1, <1>2 DEF Fresh, CpuStates

\* HarnessTyped holds at the start.
LEMMA InitTyped == MainInit => HarnessTyped
<1> SUFFICES ASSUME MainInit PROVE HarnessTyped
  OBVIOUS
<1> USE DEF MainInit
<1>1. Default \in Options
  BY DEF Default, Options, Flags
<1>2. line \in SplitLines /\ args \in Seq(STRING)
  <2>1. line \in SplitLines
    BY LinesAssumption
  <2>2. QED
    BY <2>1 DEF SplitLines
<1>3. TypeOK
  <2>1. tb \in Selection
    BY DEF Init, Selection
  <2>2. program \in Seq(Kinds) /\ 0 \in Pcs
    <3>1. program = <<>>
      BY DEF Init
    <3>2. program \in Seq(Kinds) /\ Len(program) = 0
      BY <3>1
    <3>3. QED
      BY <3>2 DEF Pcs, n_insts, Outside
  <2>3. cpu \in [Cpus -> [pc : Pcs, a0 : BOOLEAN, wrong : BOOLEAN, executing : BOOLEAN, last : Kinds]]
    BY <2>2 DEF Init, Fresh, Kinds
  <2>4. gold \in [pc : Pcs, a0 : BOOLEAN, ebreak : BOOLEAN, is_not_mapped : BOOLEAN]
    BY <2>2 DEF Init
  <2>5. /\ event_counts \in [Cpus -> [minstret : 0..(Minstrets - 1), ebreak : BOOLEAN]]
        /\ minstret_start \in [Cpus -> 0..(Minstrets - 1)] /\ instrets \in 0..(Minstrets - 1)
    BY Widths DEF Init
  <2>6. /\ cycles \in [Cpus -> 0..tb.max_cycles] /\ is_test_success \in BOOLEAN
        /\ tests \in 1..(tb.max_tests + 1)
        /\ at \in {"begin", "judge", "done"} \cup Cpus
    <3>1. tb.max_cycles = 0 /\ tb.max_tests = 0
      BY DEF Init
    <3>2. 0 \in 0..0 /\ 1 \in 1..(0 + 1)
      OBVIOUS
    <3>3. cycles \in [Cpus -> 0..0]
      BY <3>2 DEF Init
    <3>4. is_test_success \in BOOLEAN /\ tests = 1 /\ at = "begin"
      BY DEF Init
    <3>5. QED
      BY <3>1, <3>2, <3>3, <3>4
  <2>7. QED
    BY <2>1, <2>2, <2>3, <2>4, <2>5, <2>6 DEF TypeOK
<1>4. MainTypeOK
  BY <1>1, <1>2, <1>3 DEF MainTypeOK, Default, Flags
<1>5. Untouched
  BY <1>1, <1>2 DEF Untouched
<1>6. ProgramsFit
  <2>1. program = <<>> /\ tb.random = FALSE
    BY DEF Init
  <2>2. Len(program) = 0
    BY <2>1
  <2>3. QED
    BY <2>1, <2>2, Widths DEF ProgramsFit, n_insts
<1>7. CyclesLeft
  BY DEF CyclesLeft, Init, Cpus
<1>8. QED
  BY <1>4, <1>5, <1>6, <1>7 DEF HarnessTyped

\* Starting the tests preserves HarnessTyped.
LEMMA LaunchTyped ==
    ASSUME HarnessTyped, stage = "parse", Launch, ~NothingChosen, ~Unreadable
    PROVE  HarnessTyped'
<1>1. PICK correct \in BOOLEAN : tb' = Chosen(correct) /\ program' \in Programs(tb')
  BY DEF Launch
<1>2. /\ tb' \in Selection /\ program' \in Seq(Kinds) /\ Len(program') + 2 < Minstrets
      /\ tb'.random => tb'.n_insts \in PreludeLen..(Minstrets - 3)
  BY <1>1, ChosenTyped DEF HarnessTyped, Untouched
<1>3. TypeOK /\ Init /\ exit_code = "none"
  <2>1. TypeOK
    BY DEF HarnessTyped, MainTypeOK
  <2>2. Init
    BY DEF HarnessTyped, Untouched
  <2>3. exit_code = "none"
    BY DEF HarnessTyped, Untouched
  <2>4. QED
    BY <2>1, <2>2, <2>3
<1>4. tb'.max_cycles \in Nat /\ tb'.max_tests \in Nat
  BY <1>2 DEF Selection
<1>5. /\ cpu' = [c \in Cpus |-> Fresh(c)] /\ cycles' = [c \in Cpus |-> 0]
      /\ gold' = [pc |-> 0, a0 |-> FALSE, ebreak |-> FALSE, is_not_mapped |-> FALSE]
      /\ UNCHANGED <<event_counts, minstret_start, instrets, is_test_success, exit_code, args>>
      /\ tests' = 1 /\ at' = "begin"
      /\ stage' = "test" /\ line' = NoLine /\ config' = Default
  BY <1>3 DEF Launch, Init
<1>6. TypeOK'
  <2>1. 0 \in Pcs'
    BY <1>2 DEF Pcs, n_insts, Outside
  <2>2. cpu' \in [Cpus -> CpuStates']
    BY <1>2, <1>5, FreshTyped
  <2>3. gold' \in [pc : Pcs', a0 : BOOLEAN, ebreak : BOOLEAN, is_not_mapped : BOOLEAN]
    BY <1>5, <2>1
  <2>4. cycles' \in [Cpus -> 0..tb'.max_cycles] /\ tests' \in 1..(tb'.max_tests + 1)
    BY <1>4, <1>5
  <2>5. QED
    BY <1>2, <1>3, <1>5, <2>2, <2>3, <2>4 DEF TypeOK, CpuStates
<1>7. Default \in Options
  BY DEF Default, Options, Flags
<1>8. MainTypeOK'
  <2>1. NoLine \in SplitLines
    BY DEF NoLine, SplitLines
  <2>2. QED
    BY <1>3, <1>5, <1>6, <2>1 DEF MainTypeOK, Default, Flags
<1>9. Untouched'
  BY <1>5, <1>7 DEF Untouched, HarnessTyped
<1>10. ProgramsFit'
  BY <1>2 DEF ProgramsFit, n_insts
<1>11. CyclesLeft'
  <2>1. tb'.max_cycles # 0 => \A c \in Cpus : cycles'[c] < tb'.max_cycles
    BY <1>4, <1>5
  <2>2. tb'.cpus \subseteq Cpus
    BY <1>2 DEF Selection
  <2>3. QED
    BY <1>5, <2>1, <2>2 DEF CyclesLeft, Cpus
<1>12. QED
  BY <1>8, <1>9, <1>10, <1>11 DEF HarnessTyped

\* Reading the command line preserves HarnessTyped.
LEMMA ReadingTyped ==
    ASSUME HarnessTyped, stage = "parse", Parse
    PROVE  HarnessTyped'
<1>1. CASE /\ UNCHANGED <<vars, line, stage, exit_code>>
           /\ args' \in Seq(STRING) /\ config' \in Options
  <2>1. TypeOK' /\ ProgramsFit' /\ CyclesLeft' /\ Init'
    BY <1>1, HarnessAlone DEF HarnessTyped, MainTypeOK, Untouched
  <2>2. MainTypeOK'
    BY <1>1, <2>1 DEF HarnessTyped, MainTypeOK, Options, Default
  <2>3. Untouched'
    BY <1>1, <2>1 DEF HarnessTyped, Untouched
  <2>4. QED
    BY <2>1, <2>2, <2>3 DEF HarnessTyped
<1>2. CASE \E code \in {"EXIT_FAILURE", "EXIT_SUCCESS", "abort"} : Exit(code)
  <2>1. /\ UNCHANGED <<vars, line, args, config>> /\ stage' = "exit"
        /\ exit_code' \in {"EXIT_FAILURE", "EXIT_SUCCESS", "abort"}
    BY <1>2 DEF Exit
  <2>2. TypeOK' /\ ProgramsFit' /\ CyclesLeft'
    BY <2>1, HarnessAlone DEF HarnessTyped, MainTypeOK
  <2>3. MainTypeOK'
    BY <2>1, <2>2 DEF HarnessTyped, MainTypeOK
  <2>4. Untouched'
    BY <2>1 DEF HarnessTyped, Untouched
  <2>5. QED
    BY <2>2, <2>3, <2>4 DEF HarnessTyped
<1>3. CASE Launch /\ ~NothingChosen /\ ~Unreadable
  BY <1>3, LaunchTyped
<1>4. QED
  BY <1>1, <1>2, <1>3, Reading
\* What a clock cycle does, spelt out.
LEMMA CycleIs ==
    ASSUME TypeOK, NEW c \in Cpus, NEW retires \in BOOLEAN, Cycle(c, retires)
    PROVE  /\ at = c /\ (retires => ~cpu[c].executing)
           /\ retires  => cpu'[c].pc = NextPc(cpu[c].pc) /\ cpu'[c].last = KindAt(cpu[c].pc)
           /\ ~retires => cpu'[c].pc = cpu[c].pc /\ cpu'[c].last = cpu[c].last
           /\ cpu'[c].executing <=> retires
           /\ cpu'[c].a0 <=> cpu[c].a0 \/ (retires /\ KindAt(cpu[c].pc) = "set_a0")
           /\ ~retires \/ (tb.correct /\ ~Unmapped(cpu[c].pc)) => (cpu'[c].wrong <=> cpu[c].wrong)
           /\ cpu' \in [Cpus -> CpuStates']
           /\ UNCHANGED <<tb, program, gold, instrets, tests>>
<1>1. /\ cpu \in [Cpus -> CpuStates] /\ program \in Seq(Kinds)
  BY DEF TypeOK, CpuStates
<1>2. /\ at = c /\ (retires => ~cpu[c].executing)
      /\ UNCHANGED <<tb, program, gold, instrets, tests>>
  BY DEF Cycle
<1> DEFINE pc == cpu[c].pc
<1>3. PICK wrong \in BOOLEAN :
        /\ cpu' = [cpu EXCEPT ![c] =
                 IF retires
                 THEN [pc |-> NextPc(pc), a0 |-> @.a0 \/ KindAt(pc) = "set_a0", wrong |-> wrong,
                       executing |-> TRUE, last |-> KindAt(pc)]
                 ELSE [@ EXCEPT !.executing = FALSE]]
        /\ ~retires \/ (tb.correct /\ ~Unmapped(pc)) => wrong = cpu[c].wrong
  <2>1. cpu[c].wrong \in BOOLEAN
    BY <1>1 DEF CpuStates
  <2>2. QED
    BY <2>1, Zenon DEF Cycle
<1>4. CASE retires
  <2>1. cpu'[c] = [pc |-> NextPc(pc), a0 |-> cpu[c].a0 \/ KindAt(pc) = "set_a0", wrong |-> wrong,
                   executing |-> TRUE, last |-> KindAt(pc)]
    BY <1>1, <1>3, <1>4, Zenon
  <2>2. \A d \in Cpus : d # c => cpu'[d] = cpu[d]
    BY <1>1, <1>3
  <2>3. KindAt(pc) \in Kinds /\ NextPc(pc) \in Pcs /\ pc \in Pcs
    BY <1>1, Positions DEF CpuStates
  <2>4. cpu'[c] \in CpuStates
    BY <2>1, <2>3, <1>1 DEF CpuStates
  <2>5. cpu' \in [Cpus -> CpuStates]
    BY <1>1, <1>3, <2>1, <2>2, <2>4
  <2>6. CpuStates' = CpuStates
    BY <1>2 DEF CpuStates, Pcs, n_insts
  <2>7. /\ cpu'[c].pc = NextPc(pc) /\ cpu'[c].last = KindAt(pc)
        /\ cpu'[c].executing = TRUE /\ cpu'[c].wrong = wrong
        /\ cpu'[c].a0 <=> cpu[c].a0 \/ KindAt(pc) = "set_a0"
    <3>1. /\ cpu'[c].pc = NextPc(pc) /\ cpu'[c].last = KindAt(pc)
          /\ cpu'[c].executing = TRUE /\ cpu'[c].wrong = wrong
      BY <2>1
    <3>2. PICK a0 \in BOOLEAN : a0 <=> cpu[c].a0 \/ KindAt(pc) = "set_a0"
      OBVIOUS
    <3>3. cpu'[c].a0 <=> a0
      BY <2>1, <3>2
    <3>4. QED
      BY <3>1, <3>2, <3>3
  <2>8. QED
    BY <1>2, <1>3, <1>4, <2>5, <2>6, <2>7
<1>5. CASE ~retires
  <2>1. cpu'[c] = [cpu[c] EXCEPT !.executing = FALSE]
    BY <1>1, <1>3, <1>5, Zenon
  <2>2. \A d \in Cpus : d # c => cpu'[d] = cpu[d]
    BY <1>1, <1>3
  <2>3. cpu[c] \in CpuStates
    BY <1>1
  <2>4. cpu'[c] \in CpuStates
    BY <2>1, <2>3 DEF CpuStates
  <2>5. cpu' \in [Cpus -> CpuStates]
    BY <1>1, <1>3, <2>1, <2>2, <2>4
  <2>6. CpuStates' = CpuStates
    BY <1>2 DEF CpuStates, Pcs, n_insts
  <2>7. /\ cpu'[c].pc = pc /\ cpu'[c].last = cpu[c].last
        /\ cpu'[c].executing = FALSE /\ cpu'[c].wrong = cpu[c].wrong
        /\ cpu'[c].a0 = cpu[c].a0
    BY <2>1, <2>3 DEF CpuStates
  <2>8. QED
    BY <1>2, <1>3, <1>5, <2>5, <2>6, <2>7
<1>6. QED
  BY <1>4, <1>5

\* The events of a clock cycle, whichever the CPU: those of vcpu are lost.
LEMMA EventsAre ==
    ASSUME TypeOK, NEW c \in Cpus, NEW retires \in BOOLEAN, Cycle(c, retires)
    PROVE  /\ event_counts'["vcpu"] = event_counts["vcpu"]
           /\ retires  => event_counts'["vsoc"].minstret =
                            (event_counts["vsoc"].minstret + 1) % Minstrets
           /\ ~retires => event_counts'["vsoc"].minstret = event_counts["vsoc"].minstret
           /\ event_counts'["vsoc"].ebreak <=>
                event_counts["vsoc"].ebreak \/ (cpu[c].executing /\ cpu[c].last = "ebreak")
           /\ event_counts' \in [Cpus -> [minstret : 0..(Minstrets - 1), ebreak : BOOLEAN]]
<1> DEFINE m == event_counts["vsoc"].minstret
           e == event_counts["vsoc"].ebreak
           raised == cpu[c].executing /\ cpu[c].last = "ebreak"
<1>1. event_counts \in [Cpus -> [minstret : 0..(Minstrets - 1), ebreak : BOOLEAN]]
  BY DEF TypeOK
<1>2. "vsoc" \in Cpus /\ "vcpu" \in Cpus
  BY DEF Cpus
<1>3. event_counts' = [event_counts EXCEPT
        !["vsoc"].ebreak = @ \/ raised,
        !["vsoc"].minstret = (@ + IF retires THEN 1 ELSE 0) % Minstrets]
  BY Zenon DEF Cycle, exu_perf_measure
<1>4. m \in 0..(Minstrets - 1) /\ e \in BOOLEAN
  BY <1>1, <1>2
<1>5. /\ (m + 1) % Minstrets \in 0..(Minstrets - 1)
      /\ (m + 0) % Minstrets = m
  <2>1. Minstrets \in Nat \ {0}
    BY Widths
  <2>2. QED
    BY <1>4, <2>1
<1> HIDE DEF raised
<1>6. event_counts'["vsoc"].ebreak <=> e \/ raised
  BY <1>1, <1>2, <1>3
<1>7. event_counts'["vsoc"].minstret = (m + IF retires THEN 1 ELSE 0) % Minstrets
  BY <1>1, <1>2, <1>3
<1>8. event_counts'["vcpu"] = event_counts["vcpu"]
  BY <1>1, <1>2, <1>3
<1>9. event_counts' \in [Cpus -> [minstret : 0..(Minstrets - 1), ebreak : BOOLEAN]]
  <2>1. event_counts'["vsoc"].minstret \in 0..(Minstrets - 1)
    BY <1>4, <1>5, <1>7
  <2>2. QED
    BY <1>1, <1>2, <1>3, <2>1 DEF Cpus
<1>10. QED
  BY <1>5, <1>6, <1>7, <1>8, <1>9 DEF raised
\* How fetch_exec goes on after a clock cycle.
LEMMA OutcomeIs ==
    ASSUME TypeOK, NEW c \in Cpus, NEW retires \in BOOLEAN, Cycle(c, retires)
    PROVE  /\ cycles' = [cycles EXCEPT ![c] = IF tb.max_cycles = 0 THEN 0 ELSE @ + 1]
           /\ Stops(c) => /\ is_test_success' = (is_test_success /\ Checked(c))
                          /\ at' = After(c)
                          /\ minstret_start' = [d \in Cpus |-> IF d # c /\ d = After(c)
                                                              THEN event_counts'[d].minstret
                                                              ELSE minstret_start[d]]
           /\ ~Stops(c) => UNCHANGED <<is_test_success, at, minstret_start>>
BY Zenon DEF Cycle

\* A clock cycle of a CPU preserves HarnessTyped.
LEMMA CycleTyped ==
    ASSUME HarnessTyped, stage = "test", UNCHANGED mainVars,
           NEW c \in Cpus, NEW retires \in BOOLEAN, Cycle(c, retires)
    PROVE  HarnessTyped'
<1>1. TypeOK
  BY DEF HarnessTyped, MainTypeOK
<1>2. UNCHANGED <<tb, program, gold, instrets, tests>> /\ at = c /\ cpu' \in [Cpus -> CpuStates']
  BY <1>1, CycleIs
<1>3. event_counts' \in [Cpus -> [minstret : 0..(Minstrets - 1), ebreak : BOOLEAN]]
  BY <1>1, EventsAre
<1>4. /\ cycles' = [cycles EXCEPT ![c] = IF tb.max_cycles = 0 THEN 0 ELSE @ + 1]
      /\ Stops(c) => /\ is_test_success' = (is_test_success /\ Checked(c))
                     /\ at' = After(c)
                     /\ minstret_start' = [d \in Cpus |-> IF d # c /\ d = After(c)
                                                         THEN event_counts'[d].minstret
                                                         ELSE minstret_start[d]]
      /\ ~Stops(c) => UNCHANGED <<is_test_success, at, minstret_start>>
  BY <1>1, OutcomeIs
<1>5. tb.max_cycles \in Nat /\ tb.cpus \subseteq Cpus
  BY <1>1 DEF TypeOK, Selection
<1>6. cycles \in [Cpus -> 0..tb.max_cycles] /\ minstret_start \in [Cpus -> 0..(Minstrets - 1)]
  BY <1>1 DEF TypeOK
<1>7. c \in tb.cpus /\ (tb.max_cycles # 0 => cycles[c] < tb.max_cycles)
  BY <1>2 DEF HarnessTyped, CyclesLeft
<1>8. cycles' \in [Cpus -> 0..tb.max_cycles]
  <2>1. (IF tb.max_cycles = 0 THEN 0 ELSE cycles[c] + 1) \in 0..tb.max_cycles
    BY <1>5, <1>6, <1>7
  <2>2. QED
    BY <1>4, <1>6, <2>1
<1>9. minstret_start' \in [Cpus -> 0..(Minstrets - 1)]
  <2>1. \A d \in Cpus : event_counts'[d].minstret \in 0..(Minstrets - 1)
    BY <1>3
  <2>2. QED
    BY <1>4, <1>6, <2>1
<1>10. is_test_success' \in BOOLEAN
  <2>1. is_test_success \in BOOLEAN
    BY <1>1 DEF TypeOK
  <2>2. CASE Stops(c)
    <3>1. PICK b \in BOOLEAN : b <=> is_test_success /\ Checked(c)
      OBVIOUS
    <3>2. QED
      BY <1>4, <2>2, <3>1
  <2>3. CASE ~Stops(c)
    BY <1>4, <2>1, <2>3
  <2>4. QED
    BY <2>2, <2>3
<1>11. at' \in {"judge", "vcpu", c} /\ (at' = "vcpu" /\ c = "vsoc" => "vcpu" \in tb.cpus)
  BY <1>2, <1>4 DEF After
<1>12. TypeOK'
  <2>1. Pcs' = Pcs
    BY <1>2 DEF Pcs, n_insts
  <2>2. at' \in {"begin", "judge", "done"} \cup Cpus
    BY <1>11 DEF Cpus
  <2>3. QED
    BY <1>1, <1>2, <1>3, <1>8, <1>9, <1>10, <2>1, <2>2 DEF TypeOK, CpuStates
<1>13. CyclesLeft'
  <2>1. at' \in Cpus => at' \in tb'.cpus
    BY <1>2, <1>7, <1>11 DEF Cpus
  <2>2. ASSUME tb.max_cycles # 0, NEW d \in tb.cpus,
               at' \in {"begin", d} \/ (at' = "vsoc" /\ d = "vcpu")
        PROVE  cycles'[d] < tb.max_cycles
    <3>1. d \in Cpus
      BY <1>5, <2>2
    <3>2. CASE d = c
      <4>1. ~Stops(c)
        BY <1>4, <2>2, <3>2 DEF After, Cpus
      <4>2. ~(cycles'[c] >= tb.max_cycles)
        BY <1>2, <2>2, <4>1 DEF Stops
      <4>3. QED
        BY <1>5, <1>8, <3>2, <4>2
    <3>3. CASE d # c
      <4>1. c = "vsoc" /\ d = "vcpu"
        BY <1>2, <1>11, <2>2, <3>1, <3>3 DEF Cpus
      <4>2. cycles[d] < tb.max_cycles
        BY <1>2, <2>2, <4>1 DEF HarnessTyped, CyclesLeft
      <4>3. QED
        BY <1>4, <1>6, <3>1, <3>3, <4>2
    <3>4. QED
      BY <3>2, <3>3
  <2>3. QED
    BY <1>2, <2>1, <2>2 DEF CyclesLeft
<1>14. MainTypeOK'
  BY <1>12 DEF HarnessTyped, MainTypeOK, mainVars
<1>15. Untouched' /\ ProgramsFit'
  BY <1>2 DEF HarnessTyped, Untouched, ProgramsFit, n_insts, mainVars
<1>16. QED
  BY <1>13, <1>14, <1>15 DEF HarnessTyped
\* The verdict of an iteration, by its parts.
A0Right     == is_test_success /\ ~(gold'.ebreak /\ tb.check /\ gold'.a0)
NotFollowed == tb.gold /\ tb.random /\ gold'.is_not_mapped
Agreed      == /\ A0Right
               /\ tb.gold => \A c \in tb.cpus : compare_gold(c)
               /\ ~tb.gold /\ tb.cpus = Cpus => compare_vcpu_vsoc
Timely      == \A c \in tb.cpus : ~Timeout(c)
Broken      == /\ \A c \in tb.cpus : event_counts[c].ebreak
               /\ tb.gold => gold'.ebreak
Valid       == /\ \A c \in tb.cpus : is_valid_pc_address(cpu[c].pc)
               /\ tb.gold => is_valid_pc_address(gold'.pc)
Limit       == tb.random /\ instrets > n_insts

\* Judging, by the names of its conditions.
LEMMA JudgeIs ==
    ASSUME Judge
    PROVE  /\ at = "judge" /\ gold' = cpu_eval
           /\ NotFollowed  => is_test_success' = A0Right /\ at' = "done"
           /\ ~NotFollowed => is_test_success' = (Agreed /\ Timely)
           /\ at' = IF NotFollowed \/ ~Agreed \/ ~Timely \/ Broken \/ ~Valid \/ Limit
                    THEN "done" ELSE "begin"
           /\ UNCHANGED <<tb, program, cpu, event_counts, minstret_start, cycles, instrets, tests>>
BY Zenon DEF Judge, A0Right, NotFollowed, Agreed, Timely, Broken, Valid, Limit

\* The golden model executes an instruction, if it is there.
LEMMA GoldIs ==
    ASSUME TypeOK, gold' = cpu_eval
    PROVE  /\ ~tb.gold => gold' = gold
           /\ tb.gold => /\ gold'.pc = NextPc(gold.pc)
                         /\ gold'.ebreak <=> KindAt(gold.pc) = "ebreak"
                         /\ gold'.is_not_mapped <=> gold.is_not_mapped \/ Unmapped(gold.pc)
           /\ gold' \in [pc : Pcs, a0 : BOOLEAN, ebreak : BOOLEAN, is_not_mapped : BOOLEAN]
<1>1. /\ gold \in [pc : Pcs, a0 : BOOLEAN, ebreak : BOOLEAN, is_not_mapped : BOOLEAN]
      /\ program \in Seq(Kinds) /\ tb.gold \in BOOLEAN
  BY DEF TypeOK, Selection
<1>2. CASE ~tb.gold
  BY <1>1, <1>2 DEF cpu_eval
<1>3. CASE tb.gold
  <2>1. PICK a \in BOOLEAN : a <=> gold.a0 \/ KindAt(gold.pc) = "set_a0"
    OBVIOUS
  <2>2. PICK e \in BOOLEAN : e <=> KindAt(gold.pc) = "ebreak"
    OBVIOUS
  <2>3. PICK u \in BOOLEAN : u <=> gold.is_not_mapped \/ Unmapped(gold.pc)
    OBVIOUS
  <2>4. gold' = [pc |-> NextPc(gold.pc), a0 |-> a, ebreak |-> e, is_not_mapped |-> u]
    BY <1>3, <2>1, <2>2, <2>3 DEF cpu_eval
  <2>5. NextPc(gold.pc) \in Pcs
    BY <1>1, Positions
  <2>6. QED
    BY <1>3, <2>2, <2>3, <2>4, <2>5
<1>4. QED
  BY <1>2, <1>3

\* Judging preserves HarnessTyped.
LEMMA JudgeTyped ==
    ASSUME HarnessTyped, stage = "test", UNCHANGED mainVars, Judge
    PROVE  HarnessTyped'
<1>1. TypeOK
  BY DEF HarnessTyped, MainTypeOK
<1>2. /\ at = "judge" /\ gold' = cpu_eval
      /\ UNCHANGED <<tb, program, cpu, event_counts, minstret_start, cycles, instrets, tests>>
      /\ at' \in {"begin", "done"} /\ (at' = "begin" => Timely)
  BY JudgeIs
<1>3. gold' \in [pc : Pcs, a0 : BOOLEAN, ebreak : BOOLEAN, is_not_mapped : BOOLEAN]
  BY <1>1, <1>2, GoldIs
<1>4. is_test_success' \in BOOLEAN
  <2>1. CASE NotFollowed
    <3>1. PICK b \in BOOLEAN : b <=> A0Right
      OBVIOUS
    <3>2. QED
      BY <2>1, <3>1, JudgeIs
  <2>2. CASE ~NotFollowed
    <3>1. PICK b \in BOOLEAN : b <=> Agreed /\ Timely
      OBVIOUS
    <3>2. QED
      BY <2>2, <3>1, JudgeIs
  <2>3. QED
    BY <2>1, <2>2
<1>5. TypeOK'
  <2>1. Pcs' = Pcs
    BY <1>2 DEF Pcs, n_insts
  <2>2. QED
    BY <1>1, <1>2, <1>3, <1>4, <2>1 DEF TypeOK
<1>6. CyclesLeft'
  <2>1. ASSUME at' = "begin", tb.max_cycles # 0, NEW c \in tb.cpus
        PROVE  cycles[c] < tb.max_cycles
    <3>1. ~(cycles[c] >= tb.max_cycles)
      BY <1>2, <2>1 DEF Timely, Timeout
    <3>2. tb.max_cycles \in Nat /\ cycles[c] \in 0..tb.max_cycles
      BY <1>1, <2>1 DEF TypeOK, Selection
    <3>3. QED
      BY <3>1, <3>2
  <2>2. tb.cpus \subseteq Cpus /\ "begin" \notin Cpus /\ "done" \notin Cpus
    BY <1>1 DEF TypeOK, Selection, Cpus
  <2>3. QED
    BY <1>2, <2>1, <2>2 DEF CyclesLeft, Cpus
<1>7. MainTypeOK'
  BY <1>5 DEF HarnessTyped, MainTypeOK, mainVars
<1>8. Untouched' /\ ProgramsFit'
  BY <1>2 DEF HarnessTyped, Untouched, ProgramsFit, n_insts, mainVars
<1>9. QED
  BY <1>6, <1>7, <1>8 DEF HarnessTyped

\* Beginning an iteration of the loop preserves HarnessTyped.
LEMMA BeginTyped ==
    ASSUME HarnessTyped, stage = "test", UNCHANGED mainVars, Begin
    PROVE  HarnessTyped'
<1>1. TypeOK
  BY DEF HarnessTyped, MainTypeOK
<1>2. /\ at = "begin" /\ instrets' = (instrets + 1) % Minstrets
      /\ minstret_start' = [c \in Cpus |-> IF at' = c THEN event_counts[c].minstret
                                          ELSE minstret_start[c]]
      /\ UNCHANGED <<tb, program, cpu, gold, event_counts, cycles, is_test_success, tests>>
  BY DEF Begin
<1>3. at' \in {"judge"} \cup tb.cpus /\ tb.cpus \subseteq Cpus
  <2>1. tb.cpus \subseteq Cpus
    BY <1>1 DEF TypeOK, Selection
  <2>2. CASE "vsoc" \in tb.cpus
    BY <2>1, <2>2 DEF Begin
  <2>3. CASE "vsoc" \notin tb.cpus /\ tb.cpus = {"vcpu"}
    BY <2>1, <2>3 DEF Begin
  <2>4. CASE "vsoc" \notin tb.cpus /\ tb.cpus # {"vcpu"}
    BY <2>1, <2>4 DEF Begin
  <2>5. QED
    BY <2>2, <2>3, <2>4
<1>4. instrets' \in 0..(Minstrets - 1)
  <2>1. instrets \in Nat /\ Minstrets \in Nat \ {0}
    BY <1>1, Widths DEF TypeOK
  <2>2. QED
    BY <1>2, <2>1
<1>5. minstret_start' \in [Cpus -> 0..(Minstrets - 1)]
  BY <1>1, <1>2 DEF TypeOK
<1>6. TypeOK'
  <2>1. Pcs' = Pcs
    BY <1>2 DEF Pcs, n_insts
  <2>2. at' \in {"begin", "judge", "done"} \cup Cpus
    BY <1>3
  <2>3. QED
    BY <1>1, <1>2, <1>4, <1>5, <2>1, <2>2 DEF TypeOK
<1>7. CyclesLeft'
  <2>1. tb.max_cycles # 0 => \A c \in tb.cpus : cycles[c] < tb.max_cycles
    BY <1>2 DEF HarnessTyped, CyclesLeft
  <2>2. QED
    BY <1>2, <1>3, <2>1 DEF CyclesLeft, Cpus
<1>8. MainTypeOK'
  BY <1>6 DEF HarnessTyped, MainTypeOK, mainVars
<1>9. Untouched' /\ ProgramsFit'
  BY <1>2 DEF HarnessTyped, Untouched, ProgramsFit, n_insts, mainVars
<1>10. QED
  BY <1>7, <1>8, <1>9 DEF HarnessTyped

\* Going on to the next random test preserves HarnessTyped.
LEMMA NextTestTyped ==
    ASSUME HarnessTyped, stage = "test", UNCHANGED mainVars, NextTest
    PROVE  HarnessTyped'
<1>1. TypeOK
  BY DEF HarnessTyped, MainTypeOK
<1>2. /\ at' = "begin" /\ tb.random /\ tests < tb.max_tests
      /\ program' \in Programs(tb)
      /\ cpu' = [c \in Cpus |-> Fresh(c)] /\ cycles' = [c \in Cpus |-> 0]
      /\ gold' = [pc |-> 0, a0 |-> FALSE, ebreak |-> FALSE, is_not_mapped |-> FALSE]
      /\ minstret_start' = [minstret_start EXCEPT !["vcpu"] = 0]
      /\ instrets' = 0 /\ tests' = tests + 1
      /\ UNCHANGED <<tb, is_test_success>>
  BY DEF NextTest, MoreTests
<1>3. program' \in Seq(Kinds) /\ Len(program') + 2 < Minstrets
  <2>1. tb.inst_flags \in SUBSET inst_flags
    BY <1>1 DEF TypeOK, Selection
  <2>2. tb.n_insts \in PreludeLen..(Minstrets - 3)
    BY <1>2 DEF HarnessTyped, ProgramsFit
  <2>3. program' \in RandomPrograms(tb)
    BY <1>2 DEF Programs
  <2>4. QED
    BY <2>1, <2>2, <2>3, RandomProgramsFit
<1>4. tb.max_cycles \in Nat /\ tb.max_tests \in Nat /\ tests \in 1..(tb.max_tests + 1)
  BY <1>1 DEF TypeOK, Selection
<1>5. 0 \in Pcs'
  BY <1>3 DEF Pcs, n_insts, Outside
<1>6. cpu' \in [Cpus -> CpuStates']
  BY <1>2, <1>3, FreshTyped
<1>7. event_counts' \in [Cpus -> [minstret : 0..(Minstrets - 1), ebreak : BOOLEAN]]
  <2>1. event_counts' = exu_perf_reset
    BY DEF NextTest
  <2>2. [minstret |-> 0, ebreak |-> FALSE] \in [minstret : 0..(Minstrets - 1), ebreak : BOOLEAN]
    BY Widths
  <2>3. event_counts \in [Cpus -> [minstret : 0..(Minstrets - 1), ebreak : BOOLEAN]]
    BY <1>1 DEF TypeOK
  <2>4. QED
    BY <2>1, <2>2, <2>3 DEF exu_perf_reset
<1>8. /\ minstret_start' \in [Cpus -> 0..(Minstrets - 1)] /\ instrets' \in 0..(Minstrets - 1)
      /\ cycles' \in [Cpus -> 0..tb.max_cycles] /\ tests' \in 1..(tb.max_tests + 1)
  <2>1. minstret_start \in [Cpus -> 0..(Minstrets - 1)] /\ 0 \in 0..(Minstrets - 1)
    BY <1>1, Widths DEF TypeOK
  <2>2. minstret_start' \in [Cpus -> 0..(Minstrets - 1)] /\ instrets' \in 0..(Minstrets - 1)
    BY <1>2, <2>1
  <2>3. cycles' \in [Cpus -> 0..tb.max_cycles]
    BY <1>2, <1>4
  <2>4. tests' \in 1..(tb.max_tests + 1)
    BY <1>2, <1>4
  <2>5. QED
    BY <2>2, <2>3, <2>4
<1>9. gold' \in [pc : Pcs', a0 : BOOLEAN, ebreak : BOOLEAN, is_not_mapped : BOOLEAN]
  BY <1>2, <1>5
<1>10. TypeOK'
  BY <1>1, <1>2, <1>3, <1>6, <1>7, <1>8, <1>9 DEF TypeOK, CpuStates
<1>11. CyclesLeft'
  <2>1. tb.max_cycles # 0 => \A c \in Cpus : cycles'[c] < tb.max_cycles
    BY <1>2, <1>4
  <2>2. tb.cpus \subseteq Cpus
    BY <1>1 DEF TypeOK, Selection
  <2>3. QED
    BY <1>2, <2>1, <2>2 DEF CyclesLeft, Cpus
<1>12. MainTypeOK'
  BY <1>10 DEF HarnessTyped, MainTypeOK, mainVars
<1>13. Untouched'
  BY DEF HarnessTyped, Untouched, mainVars
<1>14. ProgramsFit'
  BY <1>2, <1>3 DEF HarnessTyped, ProgramsFit, n_insts
<1>15. QED
  BY <1>11, <1>12, <1>13, <1>14 DEF HarnessTyped

\* Every step of the program, sorted by what it does to the harness.
LEMMA StepsAre ==
    ASSUME [MainNext]_MainVars
    PROVE  \/ stage = "parse" /\ Parse
           \/ stage = "test" /\ UNCHANGED mainVars /\ Begin
           \/ stage = "test" /\ UNCHANGED mainVars /\ Judge
           \/ stage = "test" /\ UNCHANGED mainVars /\ NextTest
           \/ /\ stage = "test" /\ UNCHANGED mainVars
              /\ \E c \in Cpus, retires \in BOOLEAN : Cycle(c, retires)
           \/ Finish
           \/ UNCHANGED <<vars, mainVars>>
BY Zenon DEF MainNext, Parse, Test, Running, Next, MainVars

\* The exit preserves HarnessTyped.
LEMMA FinishTyped ==
    ASSUME HarnessTyped, Finish \/ UNCHANGED <<vars, mainVars>>
    PROVE  HarnessTyped'
<1>1. CASE Finish
  <2>1. /\ UNCHANGED <<vars, line, args, config>> /\ stage' = "exit"
        /\ exit_code' \in {"EXIT_FAILURE", "EXIT_SUCCESS"}
    BY <1>1 DEF Finish, Exit
  <2>2. TypeOK' /\ ProgramsFit' /\ CyclesLeft'
    BY <2>1, HarnessAlone DEF HarnessTyped, MainTypeOK
  <2>3. MainTypeOK'
    BY <2>1, <2>2 DEF HarnessTyped, MainTypeOK
  <2>4. Untouched'
    BY <2>1 DEF HarnessTyped, Untouched
  <2>5. QED
    BY <2>2, <2>3, <2>4 DEF HarnessTyped
<1>2. CASE UNCHANGED <<vars, mainVars>>
  <2>1. TypeOK' /\ ProgramsFit' /\ CyclesLeft' /\ (Init => Init')
    BY <1>2, HarnessAlone DEF HarnessTyped, MainTypeOK
  <2>2. MainTypeOK'
    BY <1>2, <2>1 DEF HarnessTyped, MainTypeOK, mainVars
  <2>3. Untouched'
    BY <1>2, <2>1 DEF HarnessTyped, Untouched, mainVars
  <2>4. QED
    BY <2>1, <2>2, <2>3 DEF HarnessTyped
<1>3. QED
  BY <1>1, <1>2

\* HarnessTyped is an invariant.
LEMMA HarnessAlwaysTyped == MainSpec => []HarnessTyped
<1>1. MainInit => HarnessTyped
  BY InitTyped
<1>2. HarnessTyped /\ [MainNext]_MainVars => HarnessTyped'
  BY StepsAre, ReadingTyped, BeginTyped, JudgeTyped, NextTestTyped, CycleTyped, FinishTyped
<1>3. QED
  BY <1>1, <1>2, PTL DEF MainSpec

\* Every variable of the harness and of main keeps its type: the positions stay
\* in or next to the program, the counters in their width, the cycles below
\* their limit and the tests in their number (soc_main.cpp:950-1191).
THEOREM MainTypeCorrect == MainSpec => []MainTypeOK
<1>1. HarnessTyped => MainTypeOK
  BY DEF HarnessTyped
<1>2. QED
  BY <1>1, HarnessAlwaysTyped, PTL

-----------------------------------------------------------------------------
(* What a passed test means.                                               *)

\* A test is about to begin.
TestStarts ==
    /\ at = "begin" /\ instrets = 0 /\ is_test_success
    /\ cpu = [c \in Cpus |-> Fresh(c)]
    /\ gold = [pc |-> 0, a0 |-> FALSE, ebreak |-> FALSE, is_not_mapped |-> FALSE]
    /\ event_counts["vcpu"] = [minstret |-> 0, ebreak |-> FALSE]
    /\ minstret_start["vcpu"] = 0
    /\ tb.cpus # {} => event_counts["vsoc"] = [minstret |-> 0, ebreak |-> FALSE]

\* At the start of a test every verdict is still open.
LEMMA StartVerdicts ==
    ASSUME TestStarts, n_insts \in Nat
    PROVE  Verdicts
<1> USE DEF TestStarts
<1>1. vsoc = [pc |-> 0, a0 |-> FALSE, wrong |-> FALSE, executing |-> FALSE, last |-> "none"]
  BY DEF vsoc, Cpus, Fresh
<1>2. VcpuFails
  BY DEF VcpuFails, Cpus
<1>3. SuccessSoFar
  BY DEF SuccessSoFar
<1>4. CountsAgree
  BY DEF CountsAgree, counted, flagged
<1>5. InStep
  BY <1>1 DEF InStep
<1>6. NotFailed
  BY DEF NotFailed
<1>7. EbreakOnItsWay
  BY <1>1 DEF EbreakOnItsWay, flagged
<1>8. Straight
  <2>1. is_valid_pc_address(vsoc.pc) /\ vsoc.pc = 0 /\ vsoc.last = "none"
    BY <1>1 DEF is_valid_pc_address
  <2>2. QED
    BY <2>1 DEF Straight
<1>9. PassedMeansAgreed /\ CorrectPassesMapped /\ CheckMeansA0 /\ PassedInTime
  BY DEF PassedMeansAgreed, CorrectPassesMapped, CheckMeansA0, PassedInTime, done
<1>10. QED
  BY <1>2, <1>3, <1>4, <1>5, <1>6, <1>7, <1>8, <1>9 DEF Verdicts

\* Tests start when main launches them and after a random test that passed.
LEMMA InitStarts == Init => TestStarts /\ n_insts \in Nat
<1> SUFFICES ASSUME Init PROVE TestStarts /\ n_insts \in Nat
  OBVIOUS
<1>1. program = <<>>
  BY DEF Init
<1>2. n_insts \in Nat
  BY <1>1 DEF n_insts
<1>3. TestStarts
  BY DEF Init, TestStarts, Cpus
<1>4. QED
  BY <1>2, <1>3

\* The first test starts as a test does.
LEMMA LaunchStarts ==
    ASSUME HarnessTyped, HarnessTyped', stage = "parse", Launch
    PROVE  TestStarts' /\ n_insts' \in Nat
<1>1. TestStarts
  BY InitStarts DEF HarnessTyped, Untouched
<1>2. UNCHANGED <<cpu, gold, event_counts, minstret_start, instrets, is_test_success, at>>
  BY DEF Launch
<1>3. Init
  BY DEF HarnessTyped, Untouched
<1>4. event_counts["vsoc"] = [minstret |-> 0, ebreak |-> FALSE]
  BY <1>3 DEF Init, Cpus
<1>5. TestStarts'
  BY <1>1, <1>2, <1>4 DEF TestStarts
<1>6. program' \in Seq(Kinds)
  BY DEF HarnessTyped, MainTypeOK, TypeOK
<1>7. n_insts' \in Nat
  BY <1>6 DEF n_insts
<1>8. QED
  BY <1>5, <1>7

\* Every further test starts as the first one.
LEMMA NextTestStarts ==
    ASSUME HarnessTyped, HarnessTyped', VcpuFails, NextTest
    PROVE  TestStarts' /\ n_insts' \in Nat
<1>1. /\ at' = "begin" /\ instrets' = 0 /\ is_test_success /\ UNCHANGED <<tb, is_test_success>>
      /\ cpu' = [c \in Cpus |-> Fresh(c)]
      /\ gold' = [pc |-> 0, a0 |-> FALSE, ebreak |-> FALSE, is_not_mapped |-> FALSE]
      /\ event_counts' = exu_perf_reset
      /\ minstret_start' = [minstret_start EXCEPT !["vcpu"] = 0]
  BY DEF NextTest, MoreTests
<1>2. /\ event_counts \in [Cpus -> [minstret : 0..(Minstrets - 1), ebreak : BOOLEAN]]
      /\ minstret_start \in [Cpus -> 0..(Minstrets - 1)]
      /\ program' \in Seq(Kinds)
  BY DEF HarnessTyped, MainTypeOK, TypeOK
<1>3. event_counts'["vcpu"] = [minstret |-> 0, ebreak |-> FALSE]
  BY <1>1, <1>2 DEF exu_perf_reset, VcpuFails, Cpus
<1>4. tb.cpus # {} => event_counts'["vsoc"] = [minstret |-> 0, ebreak |-> FALSE]
  BY <1>1, <1>2 DEF exu_perf_reset, Cpus
<1>5. minstret_start'["vcpu"] = 0
  BY <1>1, <1>2 DEF Cpus
<1>6. n_insts' \in Nat
  BY <1>2 DEF n_insts
<1>7. QED
  BY <1>1, <1>3, <1>4, <1>5, <1>6 DEF TestStarts

\* What does not touch the harness does not touch the verdicts.
LEMMA VerdictsAlone ==
    ASSUME UNCHANGED vars, Verdicts
    PROVE  Verdicts'
<1> USE DEF vars, Verdicts
<1>1. VcpuFails' /\ SuccessSoFar' /\ CountsAgree'
  BY DEF VcpuFails, SuccessSoFar, CountsAgree, counted, flagged
<1>2. InStep' /\ NotFailed' /\ EbreakOnItsWay'
  BY DEF InStep, NotFailed, EbreakOnItsWay, vsoc, flagged, KindAt, NextPc, Unmapped, n_insts
<1>3. Straight'
  BY DEF Straight, vsoc, flagged, KindAt, n_insts, is_valid_pc_address
<1>4. PassedMeansAgreed' /\ CorrectPassesMapped' /\ CheckMeansA0' /\ PassedInTime'
  BY DEF PassedMeansAgreed, CorrectPassesMapped, CheckMeansA0, PassedInTime, done
<1>5. QED
  BY <1>1, <1>2, <1>3, <1>4

\* Beginning an iteration of the loop preserves the verdicts.
LEMMA BeginVerdicts ==
    ASSUME HarnessTyped, Verdicts, Begin
    PROVE  Verdicts'
<1>1. TypeOK /\ n_insts + 2 < Minstrets
  BY DEF HarnessTyped, MainTypeOK, ProgramsFit
<1>2. /\ at = "begin" /\ instrets' = (instrets + 1) % Minstrets
      /\ minstret_start' = [c \in Cpus |-> IF at' = c THEN event_counts[c].minstret
                                          ELSE minstret_start[c]]
      /\ UNCHANGED <<tb, program, cpu, gold, event_counts, cycles, is_test_success, tests>>
  BY DEF Begin
<1>3. /\ tb.cpus \subseteq Cpus
      /\ "vsoc" \in tb.cpus => at' = "vsoc"
      /\ tb.cpus = {"vcpu"} => at' = "vcpu"
      /\ tb.cpus = {}       => at' = "judge"
  <2>1. tb.cpus \subseteq Cpus
    BY <1>1 DEF TypeOK, Selection
  <2>2. CASE "vsoc" \in tb.cpus
    BY <2>1, <2>2 DEF Begin
  <2>3. CASE "vsoc" \notin tb.cpus /\ tb.cpus = {"vcpu"}
    BY <2>1, <2>3 DEF Begin
  <2>4. CASE "vsoc" \notin tb.cpus /\ tb.cpus # {"vcpu"}
    BY <2>1, <2>4 DEF Begin
  <2>5. QED
    BY <2>1, <2>2, <2>3, <2>4
<1>4. tb.cpus = {} \/ tb.cpus = {"vsoc"} \/ "vcpu" \in tb.cpus
  BY <1>3 DEF Cpus
<1>5. at' \in {"vsoc", "vcpu", "judge"} /\ ("vcpu" \in tb.cpus => at' \in Cpus)
  BY <1>3, <1>4 DEF Cpus
<1>6. is_test_success
  BY <1>2 DEF Verdicts, SuccessSoFar
<1>7. /\ vsoc' = vsoc /\ counted' = counted /\ (flagged' <=> flagged)
      /\ \A pc : KindAt(pc)' = KindAt(pc)
  BY <1>2 DEF vsoc, counted, flagged, KindAt, n_insts
<1>8. VcpuFails'
  <2>1. minstret_start'["vcpu"] = 0
    BY <1>2 DEF Verdicts, VcpuFails, Cpus
  <2>2. "vcpu" \in tb.cpus => instrets' = 1
    BY <1>2, Widths DEF Verdicts, VcpuFails
  <2>3. event_counts'["vcpu"] = [minstret |-> 0, ebreak |-> FALSE]
    BY <1>2 DEF Verdicts, VcpuFails
  <2>4. "vcpu" \in tb'.cpus => at' \in Cpus /\ instrets' = 1
    BY <1>2, <1>5, <2>2
  <2>5. QED
    BY <2>1, <2>3, <2>4 DEF VcpuFails, Cpus
<1>9. SuccessSoFar'
  BY <1>2, <1>6 DEF SuccessSoFar
<1>10. CountsAgree'
  <2>1. ASSUME tb.cpus = {"vsoc"}
        PROVE  /\ at' = "vsoc" /\ instrets' = (counted + 1) % Minstrets
               /\ minstret_start'["vsoc"] = counted /\ ~flagged
    <3>1. at' = "vsoc" /\ counted = instrets /\ ~flagged
      BY <1>2, <1>3, <2>1 DEF Verdicts, CountsAgree
    <3>2. minstret_start'["vsoc"] = counted
      BY <1>2, <3>1 DEF counted, Cpus
    <3>3. QED
      BY <1>2, <3>1, <3>2
  <2>2. QED
    BY <1>2, <1>7, <2>1 DEF CountsAgree
<1>11. InStep'
  <2>1. ASSUME tb.cpus = {"vsoc"}, tb.gold
        PROVE  /\ at' = "vsoc" /\ vsoc.pc = gold.pc /\ ~vsoc.wrong
               /\ ~(vsoc.executing /\ vsoc.last = "ebreak")
    BY <1>2, <1>3, <2>1 DEF Verdicts, InStep
  <2>2. QED
    BY <1>2, <1>7, <2>1 DEF InStep
<1>12. NotFailed'
  BY <1>2, <1>6 DEF NotFailed
<1>13. EbreakOnItsWay'
  <2>1. tb.cpus = {"vsoc"} => at' = "vsoc"
    BY <1>3
  <2>2. QED
    BY <1>2, <1>7, <2>1 DEF Verdicts, EbreakOnItsWay
<1>14. Straight'
  <2>1. ASSUME tb.cpus = {"vsoc"}, ~tb.gold
        PROVE  /\ at' = "vsoc" /\ is_valid_pc_address(vsoc.pc)
               /\ vsoc.last # "loop" => vsoc.pc + 1 = instrets'
    <3>1. /\ at' = "vsoc" /\ is_valid_pc_address(vsoc.pc)
          /\ vsoc.last # "loop" => vsoc.pc = instrets
      BY <1>2, <1>3, <2>1 DEF Verdicts, Straight
    <3>2. program \in Seq(Kinds) /\ Minstrets \in Nat /\ instrets \in Nat
      BY <1>1, Widths DEF TypeOK
    <3>3. n_insts \in Nat
      BY <3>2 DEF n_insts
    <3>4. vsoc.last # "loop" => instrets \in 0..n_insts
      BY <3>1 DEF is_valid_pc_address
    <3>5. \A k \in 0..n_insts : (k + 1) % Minstrets = k + 1
      BY <1>1, <3>2, <3>3
    <3>6. QED
      BY <1>2, <3>1, <3>4, <3>5
  <2>2. is_valid_pc_address(vsoc.pc)' <=> is_valid_pc_address(vsoc.pc)
    BY <1>2, <1>7 DEF is_valid_pc_address, n_insts
  <2>3. QED
    BY <1>2, <1>7, <2>1, <2>2 DEF Verdicts, Straight
<1>15. PassedMeansAgreed' /\ CorrectPassesMapped' /\ CheckMeansA0' /\ PassedInTime'
  BY <1>5 DEF PassedMeansAgreed, CorrectPassesMapped, CheckMeansA0, PassedInTime, done
<1>16. QED
  BY <1>8, <1>9, <1>10, <1>11, <1>12, <1>13, <1>14, <1>15 DEF Verdicts
\* A counter that has gone on by one has changed.
LEMMA CounterMoves == \A k \in 0..(Minstrets - 1) : (k + 1) % Minstrets # k
<1>1. Minstrets \in Nat /\ Minstrets > 2
  BY Widths
<1>2. \A k \in 0..(Minstrets - 1) :
        /\ k + 1 < Minstrets => (k + 1) % Minstrets = k + 1
        /\ k + 1 = Minstrets => (k + 1) % Minstrets = 0
  BY <1>1
<1>3. QED
  BY <1>1, <1>2

\* A clock cycle of vsoc on its own.
LEMMA VsocCycle ==
    ASSUME HarnessTyped, Verdicts, tb.cpus = {"vsoc"},
           NEW c \in Cpus, NEW retires \in BOOLEAN, Cycle(c, retires)
    PROVE  /\ c = "vsoc" /\ at = "vsoc" /\ is_test_success /\ ~flagged
           /\ instrets = (counted + 1) % Minstrets
           /\ retires  => counted' = instrets
           /\ Stops(c)  => /\ at' = "judge" /\ (is_test_success' <=> Checked(c))
                           /\ retires \/ flagged' \/ tb.max_cycles # 0
                           /\ is_test_success' /\ ~flagged' => counted' = instrets /\ retires
           /\ ~Stops(c) => at' = "vsoc" /\ ~retires /\ ~flagged' /\ counted' = counted
                           /\ UNCHANGED <<minstret_start, is_test_success>>
<1>1. TypeOK
  BY DEF HarnessTyped, MainTypeOK
<1>2. at = c /\ c = "vsoc" /\ UNCHANGED instrets
  BY <1>1, CycleIs DEF HarnessTyped, CyclesLeft
<1>3. /\ instrets = (counted + 1) % Minstrets /\ minstret_start["vsoc"] = counted /\ ~flagged
      /\ is_test_success
  BY <1>2 DEF Verdicts, CountsAgree, SuccessSoFar
<1>4. counted \in 0..(Minstrets - 1)
  BY <1>1 DEF TypeOK, counted, Cpus
<1>5. /\ retires  => counted' = instrets
      /\ ~retires => counted' = counted
  BY <1>1, <1>3, EventsAre DEF counted
<1>6. instrets # counted
  BY <1>3, <1>4, CounterMoves
<1>7. Stops(c) <=> \/ tb.max_cycles # 0 /\ cycles'[c] >= tb.max_cycles
                   \/ flagged' \/ counted' # counted
  BY <1>2, <1>3 DEF Stops, flagged, counted
<1>8. ASSUME Stops(c)
      PROVE  /\ at' = "judge" /\ (is_test_success' <=> Checked(c))
             /\ retires \/ flagged' \/ tb.max_cycles # 0
             /\ is_test_success' /\ ~flagged' => counted' = instrets /\ retires
  <2>1. at' = "judge" /\ (is_test_success' <=> Checked(c))
    <3>1. is_test_success' = (is_test_success /\ Checked(c)) /\ at' = After(c)
      BY <1>1, <1>8, OutcomeIs
    <3>2. PICK b \in BOOLEAN : b <=> Checked(c)
      OBVIOUS
    <3>3. at' = "judge"
      BY <3>1 DEF After
    <3>4. is_test_success' <=> b
      BY <1>3, <3>1, <3>2
    <3>5. QED
      BY <3>2, <3>3, <3>4
  <2>2. retires \/ flagged' \/ tb.max_cycles # 0
    BY <1>5, <1>7, <1>8
  <2>3. Checked(c) /\ ~flagged' => counted' = instrets'
    BY <1>2 DEF Checked, flagged, counted
  <2>4. QED
    BY <1>2, <1>5, <1>6, <2>1, <2>2, <2>3
<1>9. ASSUME ~Stops(c)
      PROVE  /\ at' = "vsoc" /\ ~retires /\ ~flagged' /\ counted' = counted
             /\ UNCHANGED <<minstret_start, is_test_success>>
  <2>1. UNCHANGED <<is_test_success, at, minstret_start>>
    BY <1>1, <1>9, OutcomeIs
  <2>2. QED
    BY <1>2, <1>5, <1>6, <1>7, <1>9, <2>1
<1>10. QED
  BY <1>2, <1>3, <1>5, <1>8, <1>9

\* A clock cycle of a CPU preserves the verdicts.
LEMMA CycleVerdicts ==
    ASSUME HarnessTyped, Verdicts, NEW c \in Cpus, NEW retires \in BOOLEAN, Cycle(c, retires)
    PROVE  Verdicts'
<1>1. TypeOK /\ n_insts + 2 < Minstrets
  BY DEF HarnessTyped, MainTypeOK, ProgramsFit
<1>2. /\ at = c /\ c \in tb.cpus /\ tb.cpus \subseteq Cpus
      /\ UNCHANGED <<tb, program, gold, instrets, tests>>
      /\ \A pc : KindAt(pc)' = KindAt(pc) /\ NextPc(pc)' = NextPc(pc)
  <2>1. at = c /\ UNCHANGED <<tb, program, gold, instrets, tests>>
    BY <1>1, CycleIs
  <2>2. c \in tb.cpus /\ tb.cpus \subseteq Cpus
    BY <1>1, <2>1 DEF HarnessTyped, CyclesLeft, TypeOK, Selection
  <2>3. QED
    BY <2>1, <2>2 DEF KindAt, NextPc, n_insts
<1>3. at' \in {"judge", "vcpu", c}
  BY <1>1, <1>2, OutcomeIs DEF After
<1>4. tb.cpus = {"vsoc"} \/ "vcpu" \in tb.cpus
  BY <1>2 DEF Cpus
<1>5. VcpuFails'
  <2>1. /\ event_counts["vcpu"] = [minstret |-> 0, ebreak |-> FALSE]
        /\ minstret_start["vcpu"] = 0
    BY DEF Verdicts, VcpuFails
  <2>2. event_counts'["vcpu"] = [minstret |-> 0, ebreak |-> FALSE]
    BY <1>1, <2>1, EventsAre
  <2>3. minstret_start'["vcpu"] = 0
    BY <1>1, <2>1, <2>2, OutcomeIs DEF Cpus
  <2>4. ASSUME "vcpu" \in tb.cpus
        PROVE  /\ instrets' = 1 /\ at' \in {"judge", "vcpu", "vsoc"}
               /\ at' = "judge" => ~is_test_success' /\ tb.max_cycles # 0
    <3>1. instrets = 1 /\ instrets' = 1
      BY <1>2, <2>4 DEF Verdicts, VcpuFails
    <3>2. ASSUME at' = "judge"
          PROVE  ~is_test_success' /\ tb.max_cycles # 0
      <4>1. Stops(c) /\ c = "vcpu"
        BY <1>1, <1>2, <2>4, <3>2, OutcomeIs DEF After, Cpus
      <4>2. tb.max_cycles # 0
        BY <2>1, <2>2, <4>1 DEF Stops
      <4>3. ~Checked(c)
        BY <2>2, <3>1, <4>1 DEF Checked
      <4>4. is_test_success' = (is_test_success /\ Checked(c))
        BY <1>1, <4>1, OutcomeIs
      <4>5. QED
        BY <4>2, <4>3, <4>4
    <3>3. QED
      BY <1>3, <3>1, <3>2 DEF Cpus
  <2>5. QED
    BY <1>2, <2>2, <2>3, <2>4 DEF VcpuFails, Cpus
<1>6. SuccessSoFar'
  <2>1. ASSUME at' \in {"begin", "vsoc"}
        PROVE  is_test_success'
    <3>1. at' = "vsoc" /\ c = "vsoc"
      BY <1>3, <2>1 DEF Cpus
    <3>2. ~Stops(c)
      BY <1>1, <3>1, OutcomeIs DEF After
    <3>3. UNCHANGED is_test_success
      BY <1>1, <3>2, OutcomeIs
    <3>4. QED
      BY <1>2, <3>1, <3>3 DEF Verdicts, SuccessSoFar
  <2>2. QED
    BY <2>1 DEF SuccessSoFar
<1>7. CountsAgree'
  <2>1. ASSUME tb.cpus = {"vsoc"}
        PROVE  /\ at' \in {"vsoc", "judge"}
               /\ at' = "vsoc" => /\ instrets = (counted' + 1) % Minstrets
                                  /\ minstret_start'["vsoc"] = counted' /\ ~flagged'
               /\ at' = "judge" /\ is_test_success' /\ ~flagged' => counted' = instrets
    <3>1. minstret_start["vsoc"] = counted
      BY <2>1, VsocCycle DEF Verdicts, CountsAgree
    <3>2. QED
      BY <2>1, <3>1, VsocCycle
  <2>2. QED
    BY <1>2, <2>1 DEF CountsAgree
<1>8. InStep'
  <2>1. ASSUME tb.cpus = {"vsoc"}, tb.gold
        PROVE  /\ at' \in {"vsoc", "judge"} /\ ~flagged'
               /\ at' = "vsoc" => /\ vsoc'.pc = gold.pc /\ ~vsoc'.wrong
                                  /\ ~(vsoc'.executing /\ vsoc'.last = "ebreak")
               /\ at' = "judge" /\ is_test_success' =>
                    vsoc'.last = KindAt(gold.pc) /\ vsoc'.pc = NextPc(gold.pc)
               /\ at' = "judge" /\ tb.correct /\ vsoc'.wrong => Unmapped(gold.pc)
    <3>1. c = "vsoc" /\ at = "vsoc" /\ at' \in {"vsoc", "judge"} /\ ~flagged
      BY <2>1, VsocCycle
    <3>2. vsoc.pc = gold.pc /\ ~vsoc.wrong /\ ~(vsoc.executing /\ vsoc.last = "ebreak")
      BY <2>1, <3>1 DEF Verdicts, InStep
    <3>3. ~flagged'
      BY <1>1, <3>1, <3>2, EventsAre DEF flagged, vsoc
    <3>4. at' = "vsoc" => ~retires
      BY <2>1, VsocCycle
    <3>5. at' = "judge" /\ is_test_success' => retires
      BY <2>1, <3>3, VsocCycle
    <3>6. /\ retires => vsoc'.pc = NextPc(vsoc.pc) /\ vsoc'.last = KindAt(vsoc.pc)
          /\ ~retires => vsoc'.pc = vsoc.pc /\ vsoc'.last = vsoc.last
          /\ vsoc'.executing <=> retires
          /\ ~retires \/ (tb.correct /\ ~Unmapped(vsoc.pc)) => (vsoc'.wrong <=> vsoc.wrong)
      BY <1>1, <3>1, CycleIs DEF vsoc
    <3>7. QED
      BY <3>1, <3>2, <3>3, <3>4, <3>5, <3>6
  <2>2. Unmapped(gold.pc)' <=> Unmapped(gold.pc)
    BY <1>2 DEF Unmapped
  <2>3. QED
    BY <1>2, <2>1, <2>2 DEF InStep
<1>9. NotFailed'
  <2>1. ASSUME tb.correct, tb.max_cycles = 0, at' = "judge"
        PROVE  is_test_success' \/ (tb.check /\ tb.cpus = {"vsoc"} /\ flagged' /\ vsoc'.a0)
    <3>1. tb.cpus = {"vsoc"}
      BY <1>2, <1>4, <1>5, <2>1 DEF VcpuFails
    <3>2. Stops(c) /\ (is_test_success' <=> Checked(c)) /\ c = "vsoc"
      BY <2>1, <3>1, VsocCycle
    <3>3. CASE flagged'
      BY <3>1, <3>2, <3>3 DEF Checked, flagged, vsoc
    <3>4. CASE ~flagged'
      <4>1. counted' = instrets
        BY <2>1, <3>1, <3>2, <3>4, VsocCycle
      <4>2. Checked(c)
        BY <1>2, <3>2, <3>4, <4>1 DEF Checked, flagged, counted
      <4>3. QED
        BY <3>2, <4>2
    <3>5. QED
      BY <3>3, <3>4
  <2>2. QED
    BY <1>2, <2>1 DEF NotFailed
<1>10. EbreakOnItsWay'
  <2>1. ASSUME tb.cpus = {"vsoc"}, ~tb.gold
        PROVE  /\ vsoc'.last = "ebreak" => vsoc'.executing \/ flagged'
               /\ flagged' => vsoc'.last = "ebreak"
               /\ at' = "judge" /\ flagged' => (is_test_success' <=> ~(tb.check /\ vsoc'.a0))
               /\ ~gold.ebreak
    <3>1. c = "vsoc" /\ at = "vsoc" /\ ~flagged
      BY <2>1, VsocCycle
    <3>2. vsoc.last = "ebreak" => vsoc.executing
      BY <2>1, <3>1 DEF Verdicts, EbreakOnItsWay
    <3>3. flagged' <=> vsoc.executing /\ vsoc.last = "ebreak"
      BY <1>1, <3>1, EventsAre DEF flagged, vsoc
    <3>4. /\ retires => ~vsoc.executing
          /\ ~retires => vsoc'.last = vsoc.last
          /\ vsoc'.executing <=> retires
      BY <1>1, <3>1, CycleIs DEF vsoc
    <3>5. at' = "judge" /\ flagged' => (is_test_success' <=> ~(tb.check /\ vsoc'.a0))
      <4>1. at' = "judge" => (is_test_success' <=> Checked(c))
        BY <2>1, VsocCycle
      <4>2. flagged' => (Checked(c) <=> ~(tb.check /\ vsoc'.a0))
        BY <3>1 DEF Checked, flagged, vsoc
      <4>3. QED
        BY <4>1, <4>2
    <3>6. ~gold.ebreak
      BY <2>1 DEF Verdicts, EbreakOnItsWay
    <3>7. QED
      BY <3>2, <3>3, <3>4, <3>5, <3>6
  <2>2. QED
    BY <1>2, <2>1 DEF EbreakOnItsWay
<1>11. Straight'
  <2>1. ASSUME tb.cpus = {"vsoc"}, ~tb.gold
        PROVE  /\ at' \in {"vsoc", "judge"}
               /\ vsoc'.last = "loop" => KindAt(vsoc'.pc) = "loop"
               /\ vsoc'.last = "ebreak" => is_valid_pc_address(vsoc'.pc)
               /\ at' = "vsoc" => is_valid_pc_address(vsoc'.pc)
               /\ vsoc'.last # "loop" =>
                    /\ at' = "vsoc" => vsoc'.pc + 1 = instrets
                    /\ at' = "judge" /\ is_test_success' /\ ~flagged' =>
                         vsoc'.pc \in {instrets, Outside}
    <3>1. c = "vsoc" /\ at = "vsoc" /\ at' \in {"vsoc", "judge"}
      BY <2>1, VsocCycle
    <3>2. /\ vsoc.last = "loop" => KindAt(vsoc.pc) = "loop"
          /\ vsoc.last = "ebreak" => is_valid_pc_address(vsoc.pc)
          /\ is_valid_pc_address(vsoc.pc)
          /\ vsoc.last # "loop" => vsoc.pc + 1 = instrets
      BY <2>1, <3>1 DEF Verdicts, Straight
    <3>3. at' = "vsoc" => ~retires
      BY <2>1, VsocCycle
    <3>4. at' = "judge" /\ is_test_success' /\ ~flagged' => retires
      BY <2>1, VsocCycle
    <3>5. /\ retires => vsoc'.pc = NextPc(vsoc.pc) /\ vsoc'.last = KindAt(vsoc.pc)
          /\ ~retires => vsoc'.pc = vsoc.pc /\ vsoc'.last = vsoc.last
      BY <1>1, <3>1, CycleIs DEF vsoc
    <3>6. CASE ~retires
      BY <3>1, <3>2, <3>4, <3>5, <3>6
    <3>7. CASE retires
      <4>1. n_insts \in Nat /\ vsoc.pc \in 0..n_insts
        BY <1>1, <3>2 DEF TypeOK, n_insts, is_valid_pc_address
      <4>2. KindAt(vsoc.pc) = "loop" => NextPc(vsoc.pc) = vsoc.pc
        BY <4>1 DEF NextPc
      <4>3. KindAt(vsoc.pc) # "loop" => NextPc(vsoc.pc) \in {Outside, vsoc.pc + 1}
        BY DEF NextPc
      <4>4. KindAt(vsoc.pc) = "ebreak" => NextPc(vsoc.pc) \in 0..n_insts
        BY <4>1 DEF NextPc, KindAt
      <4>5. QED
        BY <3>1, <3>2, <3>3, <3>5, <3>7, <4>2, <4>3, <4>4 DEF is_valid_pc_address
    <3>8. QED
      BY <3>6, <3>7
  <2>2. \A pc : is_valid_pc_address(pc)' <=> is_valid_pc_address(pc)
    BY <1>2 DEF is_valid_pc_address, n_insts
  <2>3. QED
    BY <1>2, <2>1, <2>2 DEF Straight, is_valid_pc_address, n_insts
<1>12. PassedMeansAgreed' /\ CorrectPassesMapped' /\ CheckMeansA0' /\ PassedInTime'
  BY <1>3 DEF PassedMeansAgreed, CorrectPassesMapped, CheckMeansA0, PassedInTime, done, Cpus
<1>13. QED
  BY <1>5, <1>6, <1>7, <1>8, <1>9, <1>10, <1>11, <1>12 DEF Verdicts

\* Judging preserves the verdicts.
LEMMA JudgeVerdicts ==
    ASSUME HarnessTyped, Verdicts, Judge
    PROVE  Verdicts'
<1>1. TypeOK
  BY DEF HarnessTyped, MainTypeOK
<1>2. /\ at = "judge" /\ gold' = cpu_eval
      /\ UNCHANGED <<tb, program, cpu, event_counts, minstret_start, cycles, instrets, tests>>
      /\ at' \in {"begin", "done"}
      /\ NotFollowed  => at' = "done" /\ (is_test_success' <=> A0Right)
      /\ ~NotFollowed => (is_test_success' <=> Agreed /\ Timely)
      /\ at' = "begin" <=> ~(NotFollowed \/ ~Agreed \/ ~Timely \/ Broken \/ ~Valid \/ Limit)
  <2>1. PICK a, b \in BOOLEAN : (a <=> A0Right) /\ (b <=> Agreed /\ Timely)
    OBVIOUS
  <2>2. /\ NotFollowed  => (is_test_success' <=> A0Right)
        /\ ~NotFollowed => (is_test_success' <=> Agreed /\ Timely)
    BY <2>1, JudgeIs
  <2>3. /\ at' \in {"begin", "done"}
        /\ NotFollowed  => at' = "done"
        /\ at' = "begin" <=> ~(NotFollowed \/ ~Agreed \/ ~Timely \/ Broken \/ ~Valid \/ Limit)
    BY JudgeIs
  <2>4. QED
    BY <2>2, <2>3, JudgeIs
<1>3. /\ tb.cpus \subseteq Cpus
      /\ tb.cpus = {} \/ tb.cpus = {"vsoc"} \/ "vcpu" \in tb.cpus
  <2>1. tb.cpus \subseteq Cpus
    BY <1>1 DEF TypeOK, Selection
  <2>2. QED
    BY <2>1 DEF Cpus
<1>4. /\ ~tb.gold => gold' = gold
      /\ tb.gold => /\ gold'.pc = NextPc(gold.pc)
                    /\ gold'.ebreak <=> KindAt(gold.pc) = "ebreak"
                    /\ gold'.is_not_mapped <=> gold.is_not_mapped \/ Unmapped(gold.pc)
  BY <1>1, <1>2, GoldIs
<1>5. /\ vsoc' = vsoc /\ counted' = counted /\ (flagged' <=> flagged)
      /\ \A pc : KindAt(pc)' = KindAt(pc)
      /\ \A pc : is_valid_pc_address(pc)' <=> is_valid_pc_address(pc)
  BY <1>2 DEF vsoc, counted, flagged, KindAt, is_valid_pc_address, n_insts
<1>6. "vcpu" \in tb.cpus => ~is_test_success /\ tb.max_cycles # 0
  BY <1>2 DEF Verdicts, VcpuFails
<1>7. Agreed => is_test_success
  BY DEF Agreed, A0Right
<1>8. tb.cpus = {"vsoc"} /\ tb.gold /\ Agreed =>
        /\ flagged = gold'.ebreak /\ ~vsoc.wrong /\ vsoc.pc = gold'.pc
  BY Zenon DEF Agreed, compare_gold, flagged, vsoc
<1>9. ASSUME tb.cpus = {"vsoc"}, at' = "begin"
      PROVE  ~flagged /\ is_test_success
  <2>1. ~NotFollowed /\ Agreed /\ ~Broken
    BY <1>2, <1>9
  <2>2. flagged => tb.gold /\ ~gold'.ebreak
    BY <1>9, <2>1 DEF Broken, flagged
  <2>3. tb.gold => flagged = gold'.ebreak
    BY <1>8, <1>9, <2>1
  <2>4. QED
    BY <1>7, <2>1, <2>2, <2>3
<1>10. VcpuFails'
  <2>1. "vcpu" \in tb.cpus => ~is_test_success' /\ at' = "done"
    BY <1>2, <1>6, <1>7 DEF A0Right
  <2>2. /\ event_counts'["vcpu"] = [minstret |-> 0, ebreak |-> FALSE]
        /\ minstret_start'["vcpu"] = 0
    BY <1>2 DEF Verdicts, VcpuFails
  <2>3. QED
    BY <1>2, <1>6, <2>1, <2>2 DEF VcpuFails, Cpus
<1>11. SuccessSoFar'
  <2>1. at' = "begin" => is_test_success'
    BY <1>2
  <2>2. QED
    BY <1>2, <2>1 DEF SuccessSoFar
<1>12. CountsAgree'
  <2>1. tb.cpus = {"vsoc"} /\ at' = "begin" => counted = instrets /\ ~flagged
    BY <1>2, <1>9 DEF Verdicts, CountsAgree
  <2>2. QED
    BY <1>2, <1>5, <2>1 DEF CountsAgree
<1>13. InStep'
  <2>1. ASSUME tb.cpus = {"vsoc"}, tb.gold, at' = "begin"
        PROVE  /\ vsoc.pc = gold'.pc /\ ~vsoc.wrong
               /\ ~(vsoc.executing /\ vsoc.last = "ebreak")
    <3>1. Agreed
      BY <1>2, <2>1
    <3>2. ~flagged /\ is_test_success
      BY <1>9, <2>1
    <3>3. vsoc.last = KindAt(gold.pc)
      BY <1>2, <2>1, <3>2 DEF Verdicts, InStep
    <3>4. KindAt(gold.pc) # "ebreak"
      BY <1>4, <1>8, <2>1, <3>1, <3>2
    <3>5. QED
      BY <1>8, <2>1, <3>1, <3>3, <3>4
  <2>2. QED
    BY <1>2, <1>5, <2>1 DEF InStep
<1>14. NotFailed'
  BY <1>2 DEF NotFailed
<1>15. EbreakOnItsWay'
  BY <1>2, <1>4, <1>5 DEF Verdicts, EbreakOnItsWay
<1>16. Straight'
  <2>1. ASSUME tb.cpus = {"vsoc"}, ~tb.gold, at' = "begin"
        PROVE  /\ is_valid_pc_address(vsoc.pc)
               /\ vsoc.last # "loop" => vsoc.pc = instrets
    <3>1. is_valid_pc_address(vsoc.pc)
      BY <1>2, <2>1 DEF Valid, vsoc
    <3>2. vsoc.last # "loop" => vsoc.pc \in {instrets, Outside}
      BY <1>2, <1>9, <2>1 DEF Verdicts, Straight
    <3>3. vsoc.pc # Outside
      BY <3>1 DEF is_valid_pc_address, Outside
    <3>4. QED
      BY <3>1, <3>2, <3>3
  <2>2. QED
    BY <1>2, <1>5, <2>1 DEF Verdicts, Straight
<1>17. PassedMeansAgreed'
  <2>1. ASSUME is_test_success', tb.gold, ~(tb.random /\ gold'.is_not_mapped), NEW c \in tb.cpus
        PROVE  ~cpu[c].wrong /\ cpu[c].pc = gold'.pc /\ event_counts[c].minstret = instrets
    <3>1. Agreed
      BY <1>2, <2>1 DEF NotFollowed
    <3>2. tb.cpus = {"vsoc"} /\ c = "vsoc"
      BY <1>3, <1>6, <1>7, <2>1, <3>1
    <3>3. ~flagged
      BY <1>2, <1>7, <2>1, <3>1, <3>2 DEF Verdicts, InStep
    <3>4. counted = instrets
      BY <1>2, <1>7, <3>1, <3>2, <3>3 DEF Verdicts, CountsAgree
    <3>5. ~vsoc.wrong /\ vsoc.pc = gold'.pc
      BY <1>8, <2>1, <3>1, <3>2
    <3>6. QED
      BY <3>2, <3>4, <3>5 DEF vsoc, counted
  <2>2. QED
    BY <1>2, <2>1 DEF PassedMeansAgreed, done
<1>18. ASSUME tb.correct, tb.max_cycles = 0
       PROVE  /\ Timely /\ (tb.cpus = {} \/ tb.cpus = {"vsoc"})
              /\ is_test_success \/ (tb.check /\ tb.cpus = {"vsoc"} /\ flagged /\ vsoc.a0)
  BY <1>2, <1>3, <1>6, <1>18 DEF Timely, Timeout, Verdicts, NotFailed
<1>19. CorrectPassesMapped'
  <2>1. ASSUME tb.correct, ~tb.check, tb.max_cycles = 0,
               tb.gold /\ ~tb.random => ~gold'.is_not_mapped
        PROVE  is_test_success'
    <3>1. is_test_success /\ A0Right /\ Timely
      BY <1>18, <2>1 DEF A0Right
    <3>2. CASE NotFollowed
      BY <1>2, <3>1, <3>2
    <3>3. CASE ~NotFollowed
      <4>1. ASSUME tb.gold, NEW c \in tb.cpus
            PROVE  compare_gold(c)
        <5>1. tb.cpus = {"vsoc"} /\ c = "vsoc"
          BY <1>18, <2>1, <4>1
        <5>2. ~Unmapped(gold.pc)
          BY <1>4, <2>1, <3>3, <4>1 DEF NotFollowed
        <5>3. ~flagged /\ vsoc.pc = NextPc(gold.pc) /\ ~vsoc.wrong
          BY <1>2, <2>1, <3>1, <4>1, <5>1, <5>2 DEF Verdicts, InStep
        <5>4. KindAt(gold.pc) # "ebreak"
          BY <5>2 DEF Unmapped
        <5>5. event_counts["vsoc"].ebreak \in BOOLEAN /\ gold'.ebreak \in BOOLEAN
          BY <1>1, <1>2, GoldIs DEF TypeOK, Cpus
        <5>6. event_counts["vsoc"].ebreak = gold'.ebreak
          BY <1>4, <4>1, <5>3, <5>4, <5>5 DEF flagged
        <5>7. QED
          BY <1>4, <4>1, <5>1, <5>3, <5>6 DEF compare_gold, vsoc
      <4>2. tb.cpus # Cpus
        BY <1>18, <2>1 DEF Cpus
      <4>3. Agreed
        BY <3>1, <4>1, <4>2 DEF Agreed
      <4>4. QED
        BY <1>2, <3>1, <3>3, <4>3
    <3>4. QED
      BY <3>2, <3>3
  <2>2. QED
    BY <1>2, <2>1 DEF CorrectPassesMapped, done
<1>20. CheckMeansA0'
  <2>1. ASSUME at' = "done", ~tb.gold, tb.correct, tb.check, tb.max_cycles = 0,
               NEW c \in tb.cpus, cpu[c].last = "ebreak"
        PROVE  tb.cpus = {"vsoc"} /\ (is_test_success' <=> ~vsoc.a0)
    <3>1. tb.cpus = {"vsoc"} /\ vsoc.last = "ebreak"
      BY <1>18, <2>1 DEF vsoc
    <3>2. ~gold'.ebreak
      BY <1>4, <2>1, <3>1 DEF Verdicts, EbreakOnItsWay
    <3>3. ~NotFollowed /\ (Agreed <=> is_test_success) /\ Timely
      <4>1. tb.cpus # Cpus
        BY <3>1 DEF Cpus
      <4>2. QED
        BY <1>18, <2>1, <3>2, <4>1 DEF NotFollowed, Agreed, A0Right
    <3>4. is_test_success' <=> is_test_success
      BY <1>2, <3>3
    <3>5. CASE flagged
      BY <1>2, <2>1, <3>1, <3>4, <3>5 DEF Verdicts, EbreakOnItsWay
    <3>6. CASE ~flagged
      <4>1. is_test_success
        BY <1>18, <2>1, <3>6
      <4>2. vsoc.pc \in {instrets, Outside} /\ is_valid_pc_address(vsoc.pc)
        BY <1>2, <2>1, <3>1, <3>6, <4>1 DEF Verdicts, Straight
      <4>3. instrets \in 0..n_insts
        BY <4>2 DEF is_valid_pc_address, Outside
      <4>4. ~Limit
        <5>1. program \in Seq(Kinds)
          BY <1>1 DEF TypeOK
        <5>2. n_insts \in Nat
          BY <5>1 DEF n_insts
        <5>3. QED
          BY <4>3, <5>2 DEF Limit
      <4>5. ~Broken
        BY <3>1, <3>6 DEF Broken, flagged
      <4>6. Valid
        BY <2>1, <3>1, <4>2 DEF Valid, vsoc
      <4>7. QED
        BY <1>2, <2>1, <3>3, <4>1, <4>4, <4>5, <4>6
    <3>7. QED
      BY <3>1, <3>5, <3>6
  <2>2. QED
    BY <1>2, <2>1 DEF CheckMeansA0, done, vsoc
<1>21. PassedInTime'
  <2>1. ASSUME is_test_success', tb.max_cycles # 0, ~tb.random, NEW c \in tb.cpus
        PROVE  cycles[c] < tb.max_cycles
    <3>1. Timely
      BY <1>2, <2>1 DEF NotFollowed
    <3>2. ~(cycles[c] >= tb.max_cycles)
      BY <2>1, <3>1 DEF Timely, Timeout
    <3>3. tb.max_cycles \in Nat /\ cycles[c] \in 0..tb.max_cycles
      BY <1>1, <1>3, <2>1 DEF TypeOK, Selection
    <3>4. QED
      BY <3>2, <3>3
  <2>2. QED
    BY <1>2, <2>1 DEF PassedInTime, done
<1>22. QED
  BY <1>10, <1>11, <1>12, <1>13, <1>14, <1>15, <1>16, <1>17, <1>19, <1>20, <1>21 DEF Verdicts
-----------------------------------------------------------------------------
(* The theorems.                                                           *)

\* Verdicts is an invariant of the program.
LEMMA VerdictsAlways == MainSpec => []Verdicts
<1>1. MainInit => Verdicts
  BY InitStarts, StartVerdicts DEF MainInit
<1>2. ASSUME HarnessTyped, HarnessTyped', Verdicts, [MainNext]_MainVars
      PROVE  Verdicts'
  <2>1. CASE stage = "parse" /\ Parse
    <3>1. CASE UNCHANGED <<vars, line, stage, exit_code>>
      BY <1>2, <3>1, VerdictsAlone
    <3>2. CASE \E code \in {"EXIT_FAILURE", "EXIT_SUCCESS", "abort"} : Exit(code)
      BY <1>2, <3>2, VerdictsAlone DEF Exit
    <3>3. CASE Launch
      <4>1. TestStarts' /\ n_insts' \in Nat
        BY <1>2, <2>1, <3>3, LaunchStarts
      <4>2. (TestStarts /\ n_insts \in Nat => Verdicts)'
        BY StartVerdicts, PTL
      <4>3. QED
        BY <4>1, <4>2
    <3>4. QED
      BY <1>2, <2>1, <3>1, <3>2, <3>3, Reading
  <2>2. CASE Begin
    BY <1>2, <2>2, BeginVerdicts
  <2>3. CASE Judge
    BY <1>2, <2>3, JudgeVerdicts
  <2>4. CASE NextTest
    <3>1. TestStarts' /\ n_insts' \in Nat
      BY <1>2, <2>4, NextTestStarts DEF Verdicts
    <3>2. (TestStarts /\ n_insts \in Nat => Verdicts)'
      BY StartVerdicts, PTL
    <3>3. QED
      BY <3>1, <3>2
  <2>5. CASE \E c \in Cpus, retires \in BOOLEAN : Cycle(c, retires)
    BY <1>2, <2>5, CycleVerdicts
  <2>6. CASE Finish
    BY <1>2, <2>6, VerdictsAlone DEF Finish, Exit
  <2>7. CASE UNCHANGED <<vars, mainVars>>
    BY <1>2, <2>7, VerdictsAlone
  <2>8. QED
    BY <1>2, <2>1, <2>2, <2>3, <2>4, <2>5, <2>6, <2>7, StepsAre
<1>3. QED
  BY <1>1, <1>2, HarnessAlwaysTyped, PTL DEF MainSpec

\* A test that passes against a golden model that could follow means that every
\* CPU is where the golden model is, is not wrong and has retired as many
\* instructions as the loop has counted (soc_main.cpp:1043-1058).
THEOREM PassedAlwaysMeansAgreed == MainSpec => []PassedMeansAgreed
<1>1. Verdicts => PassedMeansAgreed
  BY DEF Verdicts
<1>2. QED
  BY <1>1, VerdictsAlways, PTL

\* A correct CPU without a limit on its cycles passes every test the golden
\* model can follow (soc_main.cpp:950-1121).
THEOREM CorrectAlwaysPasses == MainSpec => []CorrectPassesMapped
<1>1. Verdicts => CorrectPassesMapped
  BY DEF Verdicts
<1>2. QED
  BY <1>1, VerdictsAlways, PTL

\* With "check", a program that ends by ebreak passes if and only if a0 is 0
\* (soc_main.cpp:991-997, 1019-1025).
THEOREM CheckAlwaysMeansA0 == MainSpec => []CheckMeansA0
<1>1. Verdicts => CheckMeansA0
  BY DEF Verdicts
<1>2. QED
  BY <1>1, VerdictsAlways, PTL

\* A binary that passes has stayed below its limit of cycles
\* (soc_main.cpp:1074-1090).
THEOREM PassedAlwaysInTime == MainSpec => []PassedInTime
<1>1. Verdicts => PassedInTime
  BY DEF Verdicts
<1>2. QED
  BY <1>1, VerdictsAlways, PTL

\* What carries the verdict of the last test to the exit code: the tests are
\* counted, and the exit behind them has given a code.
Exited == TestsCounted /\ ExitMeansPassed /\ (stage = "exit" /\ done => exit_code # "none")

\* The exit code tells success only of tests that have all run and passed: main
\* goes on to the exit only when no further test is due (soc_main.cpp:1142-1191,
\* 1400-1409).
THEOREM ExitAlwaysMeansPassed == MainSpec => []ExitMeansPassed
<1>1. ASSUME MainInit
      PROVE  Exited
  <2>1. stage = "parse" /\ at = "begin" /\ tests = 1
    BY <1>1 DEF MainInit, Init
  <2>2. TestsCounted
    BY <2>1 DEF TestsCounted
  <2>3. QED
    BY <2>1, <2>2 DEF Exited, ExitMeansPassed
<1>2. ASSUME HarnessTyped, HarnessTyped', Exited, [MainNext]_MainVars
      PROVE  Exited'
  <2>1. tests \in Nat /\ tests >= 1 /\ tb.max_tests \in Nat /\ is_test_success \in BOOLEAN
    <3>1. TypeOK
      BY <1>2 DEF HarnessTyped, MainTypeOK
    <3>2. tb \in Selection /\ tests \in 1..(tb.max_tests + 1) /\ is_test_success \in BOOLEAN
      BY <3>1 DEF TypeOK
    <3>3. tb.max_tests \in Nat
      BY <3>2, Zenon DEF Selection
    <3>4. tests \in Nat /\ tests >= 1
      BY <3>2, <3>3
    <3>5. QED
      BY <3>2, <3>3, <3>4
  <2>2. CASE UNCHANGED vars /\ UNCHANGED <<stage, exit_code>>
    BY <1>2, <2>2 DEF Exited, TestsCounted, ExitMeansPassed, done, vars
  <2>3. CASE stage = "parse" /\ Parse
    <3>1. CASE UNCHANGED <<vars, line, stage, exit_code>>
      BY <2>2, <3>1
    <3>2. CASE \E code \in {"EXIT_FAILURE", "EXIT_SUCCESS", "abort"} : Exit(code)
      <4>1. Init
        BY <1>2, <2>3 DEF HarnessTyped, Untouched
      <4>2. UNCHANGED vars /\ at = "begin"
        BY <3>2, <4>1 DEF Exit, Init
      <4>3. QED
        BY <1>2, <4>2 DEF Exited, TestsCounted, ExitMeansPassed, done, vars
    <3>3. CASE Launch
      <4>1. Init
        BY <1>2, <2>3 DEF HarnessTyped, Untouched
      <4>2. at' = "begin" /\ tests' = 1
        BY <3>3, <4>1 DEF Launch, Init
      <4>3. QED
        BY <4>2 DEF Exited, TestsCounted, ExitMeansPassed, done
    <3>4. QED
      BY <1>2, <2>3, <3>1, <3>2, <3>3, Reading
  <2>4. CASE /\ stage = "test" /\ UNCHANGED mainVars
             /\ \/ Begin \/ Judge
                \/ \E c \in Cpus, retires \in BOOLEAN : Cycle(c, retires)
    <3>1. UNCHANGED <<tb, tests>>
      BY <2>4 DEF Begin, Judge, Cycle
    <3>2. QED
      BY <1>2, <2>4, <3>1 DEF Exited, TestsCounted, ExitMeansPassed, mainVars
  <2>5. CASE stage = "test" /\ UNCHANGED mainVars /\ NextTest
    <3>1. UNCHANGED tb /\ tb.random /\ tests < tb.max_tests /\ tests' = tests + 1
      BY <2>5 DEF NextTest, MoreTests
    <3>2. QED
      BY <1>2, <2>1, <2>5, <3>1 DEF Exited, TestsCounted, ExitMeansPassed, mainVars
  <2>6. CASE Finish
    <3>1. /\ UNCHANGED vars /\ stage' = "exit"
          /\ exit_code' = IF is_test_success THEN "EXIT_SUCCESS" ELSE "EXIT_FAILURE"
          /\ ~MoreTests
      BY <2>6 DEF Finish, Exit
    <3>2. is_test_success => tests = IF tb.random /\ tb.max_tests > 1 THEN tb.max_tests ELSE 1
      BY <1>2, <2>1, <3>1 DEF MoreTests, Exited, TestsCounted
    <3>3. QED
      BY <1>2, <2>1, <3>1, <3>2 DEF Exited, TestsCounted, ExitMeansPassed, done, vars
  <2>7. CASE UNCHANGED <<vars, mainVars>>
    BY <2>2, <2>7 DEF mainVars
  <2>8. QED
    BY <1>2, <2>3, <2>4, <2>5, <2>6, <2>7, StepsAre
<1>3. Exited => ExitMeansPassed
  BY DEF Exited
<1>4. QED
  BY <1>1, <1>2, <1>3, HarnessAlwaysTyped, PTL DEF MainSpec

-----------------------------------------------------------------------------
(* The command line: main reads every one as it is written.                *)

\* The word an option starts with, where the i-th one starts, and its words.
OptionAt(l, i) == l.words[l.starts[i]]
StartOf(l, i)  == IF i <= Len(l.starts) THEN l.starts[i] ELSE Len(l.words) + 1
WordsOf(l, i)  == SubSeq(l.words, StartOf(l, i) + 1, StartOf(l, i + 1) - 1)

\* The first n options have been read: they are complete, the configuration has
\* the value of the last occurrence of each, and the other words are left.
ReadUpTo(l, n) ==
    /\ args = SubSeq(l.words, StartOf(l, n + 1), Len(l.words))
    /\ \A i \in 1..n : /\ Known(OptionAt(l, i))
                       /\ StartOf(l, i + 1) = StartOf(l, i) + Length(OptionAt(l, i))
                       /\ OptionAt(l, i) = "random" => l.words[StartOf(l, i) + 2] \in DOMAIN Numbers
    /\ config.flags = {flag \in Flags : \E i \in 1..n : OptionAt(l, i) = flag}
    /\ \A option \in DOMAIN Arity :
         \/ /\ config[option] = Default[option]
            /\ \A i \in 1..n : OptionAt(l, i) # option
         \/ \E i \in 1..n : /\ OptionAt(l, i) = option
                            /\ config[option] = Value(option, WordsOf(l, i))
                            /\ \A j \in 1..n : OptionAt(l, j) = option => j <= i

\* The words read are those of the first options of the line.
ReadInOrder == stage = "parse" => /\ line \in Lines
                                  /\ \E n \in 0..Len(line.starts) : ReadUpTo(line, n)

-----------------------------------------------------------------------------
(* Lines and their options.                                                *)

\* A piece of the rest of a sequence is a piece of the sequence.
LEMMA PieceOfRest ==
    ASSUME NEW S, NEW s \in Seq(S), NEW k \in 1..(Len(s) + 1),
           NEW from \in Nat \ {0}, NEW to \in Nat, k + to <= Len(s) + 1
    PROVE  SubSeq(SubSeq(s, k, Len(s)), from, to) = SubSeq(s, k + from - 1, k + to - 1)
<1> DEFINE rest == SubSeq(s, k, Len(s))
           left == SubSeq(rest, from, to)
           right == SubSeq(s, k + from - 1, k + to - 1)
<1>1. /\ rest \in Seq(S) /\ Len(rest) = Len(s) - k + 1
      /\ \A i \in 1..(Len(s) - k + 1) : rest[i] = s[k + i - 1]
  <2>1. \A i \in k..Len(s) : s[i] \in S
    OBVIOUS
  <2>2. QED
    BY <2>1, SubSeqProperties
<1>2. /\ left \in Seq(S) /\ Len(left) = IF from <= to THEN to - from + 1 ELSE 0
      /\ \A i \in 1..(to - from + 1) : left[i] = rest[from + i - 1]
  <2>1. \A i \in from..to : rest[i] \in S
    BY <1>1
  <2>2. QED
    BY <2>1, SubSeqProperties
<1>3. /\ right \in Seq(S) /\ Len(right) = IF from <= to THEN to - from + 1 ELSE 0
      /\ \A i \in 1..(to - from + 1) : right[i] = s[k + from - 1 + i - 1]
  <2>1. \A i \in (k + from - 1)..(k + to - 1) : s[i] \in S
    OBVIOUS
  <2>2. QED
    BY <2>1, SubSeqProperties
<1>4. \A i \in 1..Len(left) : left[i] = right[i]
  <2> SUFFICES ASSUME NEW i \in 1..Len(left) PROVE left[i] = right[i]
    OBVIOUS
  <2> HIDE DEF rest, left, right
  <2>1. i \in 1..(to - from + 1) /\ from + i - 1 \in 1..(Len(s) - k + 1)
    BY <1>2
  <2>2. left[i] = s[k + (from + i - 1) - 1] /\ right[i] = s[k + from - 1 + i - 1]
    BY <1>1, <1>2, <1>3, <2>1
  <2>3. k + (from + i - 1) - 1 = k + from - 1 + i - 1
    BY <2>1
  <2>4. QED
    BY <2>2, <2>3
<1>5. QED
  BY <1>2, <1>3, <1>4, SeqEqual

\* Where the options of a line are.
LEMMA OptionsOfLine ==
    ASSUME NEW l \in Lines, NEW i \in 1..Len(l.starts)
    PROVE  /\ l.words \in Seq(STRING) /\ Len(l.starts) \in Nat
           /\ StartOf(l, i) \in 1..Len(l.words) /\ StartOf(l, i) = l.starts[i]
           /\ StartOf(l, i + 1) \in (StartOf(l, i) + 1)..(Len(l.words) + 1)
           /\ Group(l, i) = SubSeq(l.words, StartOf(l, i), StartOf(l, i + 1) - 1)
           /\ Len(Group(l, i)) = StartOf(l, i + 1) - StartOf(l, i)
           /\ Group(l, i)[1] = OptionAt(l, i)
           /\ Tail(Group(l, i)) = WordsOf(l, i)
           /\ Known(OptionAt(l, i)) =>
                /\ StartOf(l, i + 1) <= StartOf(l, i) + Length(OptionAt(l, i))
                /\ i < Len(l.starts) => StartOf(l, i + 1) = StartOf(l, i) + Length(OptionAt(l, i))
<1>1. l \in SplitLines
  BY LinesAssumption
<1>2. l.words \in Seq(STRING) /\ l.starts \in Seq(Nat)
  BY <1>1 DEF SplitLines
<1>3. StartOf(l, i) = l.starts[i] /\ StartOf(l, i) \in 1..Len(l.words) /\ Len(l.starts) \in Nat
  BY <1>2, LinesAssumption DEF StartOf
<1>4. StartOf(l, i + 1) = IF i < Len(l.starts) THEN l.starts[i + 1] ELSE Len(l.words) + 1
  BY <1>3 DEF StartOf
<1>5. StartOf(l, i + 1) \in Nat /\ StartOf(l, i + 1) <= Len(l.words) + 1
  <2>1. CASE i < Len(l.starts)
    <3>1. i + 1 \in 1..Len(l.starts)
      BY <1>3, <2>1
    <3>2. l.starts[i + 1] \in 1..Len(l.words)
      BY <3>1, LinesAssumption
    <3>3. QED
      BY <1>2, <1>4, <2>1, <3>2
  <2>2. CASE ~(i < Len(l.starts))
    BY <1>2, <1>4, <2>2
  <2>3. QED
    BY <2>1, <2>2
<1>6. Group(l, i) = SubSeq(l.words, StartOf(l, i), StartOf(l, i + 1) - 1)
  <2>1. (IF i < Len(l.starts) THEN l.starts[i + 1] - 1 ELSE Len(l.words))
        = StartOf(l, i + 1) - 1
    BY <1>2, <1>4
  <2>2. QED
    BY <1>3, <2>1 DEF Group
<1>7. Len(Group(l, i)) >= 1
  BY LinesAssumption
<1> DEFINE a == StartOf(l, i)
           b == StartOf(l, i + 1) - 1
           group == Group(l, i)
<1>a. /\ a \in 1..Len(l.words) /\ b \in Int /\ b <= Len(l.words) /\ Len(l.words) \in Nat
      /\ group = SubSeq(l.words, a, b)
  BY <1>2, <1>3, <1>5, <1>6
<1>8. Len(group) = b - a + 1 /\ b >= a /\ group[1] = l.words[a]
  <2> HIDE DEF a, b, group
  <2>1. \A k \in a..b : l.words[k] \in STRING
    BY <1>2, <1>a
  <2>2. /\ Len(group) = IF a <= b THEN b - a + 1 ELSE 0
        /\ \A k \in 1..(b - a + 1) : group[k] = l.words[a + k - 1]
    BY <1>a, <2>1, SubSeqProperties
  <2>3. b >= a
    BY <1>7, <1>a, <2>2 DEF group
  <2>4. group[1] = l.words[a + 1 - 1]
    BY <1>a, <2>2, <2>3
  <2>5. QED
    BY <1>a, <2>2, <2>3, <2>4
<1>b. /\ Len(Group(l, i)) = StartOf(l, i + 1) - StartOf(l, i)
      /\ StartOf(l, i + 1) > StartOf(l, i) /\ Group(l, i)[1] = l.words[StartOf(l, i)]
  BY <1>3, <1>5, <1>8
<1>9. Tail(Group(l, i)) = WordsOf(l, i)
  <2> HIDE DEF a, b, group
  <2>1. b \in a..Len(l.words)
    BY <1>a, <1>8
  <2>2. Tail(group) = SubSeq(l.words, a + 1, b)
    BY <1>2, <1>a, <2>1, HeadTailOfSubSeq
  <2>3. QED
    BY <2>2 DEF WordsOf, a, b, group
<1>10. ASSUME Known(OptionAt(l, i))
       PROVE  Len(Group(l, i)) \in IF i < Len(l.starts) THEN {Length(OptionAt(l, i))}
                                      ELSE 1..Length(OptionAt(l, i))
  BY <1>3, <1>b, <1>10, LinesAssumption DEF OptionAt
<1>11. Known(OptionAt(l, i)) =>
         /\ StartOf(l, i + 1) <= StartOf(l, i) + Length(OptionAt(l, i))
         /\ i < Len(l.starts) => StartOf(l, i + 1) = StartOf(l, i) + Length(OptionAt(l, i))
  <2> SUFFICES ASSUME Known(OptionAt(l, i))
               PROVE  /\ StartOf(l, i + 1) <= StartOf(l, i) + Length(OptionAt(l, i))
                      /\ i < Len(l.starts) =>
                           StartOf(l, i + 1) = StartOf(l, i) + Length(OptionAt(l, i))
    OBVIOUS
  <2>1. Length(OptionAt(l, i)) \in Nat
    BY DEF Known, Length, Arity, Flags
  <2>2. QED
    BY <1>3, <1>5, <1>b, <1>10, <2>1
<1>12. StartOf(l, i + 1) \in (StartOf(l, i) + 1)..(Len(l.words) + 1)
  BY <1>3, <1>5, <1>a, <1>b
<1>13. QED
  BY <1>2, <1>3, <1>6, <1>b, <1>9, <1>11, <1>12 DEF OptionAt

-----------------------------------------------------------------------------
(* Reading.                                                                *)

\* The word that is read next is the one the next option starts with.
LEMMA NextOption ==
    ASSUME NEW l \in Lines, NEW n \in 0..Len(l.starts), ReadUpTo(l, n), args # <<>>
    PROVE  /\ n + 1 \in 1..Len(l.starts) /\ mode = OptionAt(l, n + 1)
           /\ Len(args) = Len(l.words) - StartOf(l, n + 1) + 1
<1>1. l.words \in Seq(STRING) /\ l.starts \in Seq(Nat)
  BY LinesAssumption DEF SplitLines
<1>2. Len(l.words) \in Nat /\ Len(l.starts) \in Nat /\ n \in Nat
  BY <1>1
<1>3. n + 1 \in 1..Len(l.starts)
  <2> SUFFICES ASSUME ~(n + 1 <= Len(l.starts)) PROVE FALSE
    BY <1>2
  <2>1. args = SubSeq(l.words, Len(l.words) + 1, Len(l.words))
    BY DEF ReadUpTo, StartOf
  <2>2. QED
    BY <1>2, <2>1, SubSeqEmpty
<1>4. StartOf(l, n + 1) \in 1..Len(l.words) /\ OptionAt(l, n + 1) = l.words[StartOf(l, n + 1)]
  BY <1>3, OptionsOfLine DEF OptionAt
<1>5. args = SubSeq(l.words, StartOf(l, n + 1), Len(l.words))
  BY DEF ReadUpTo
<1>6. Head(args) = l.words[StartOf(l, n + 1)]
  BY <1>1, <1>2, <1>4, <1>5, HeadTailOfSubSeq
<1>7. Len(args) = Len(l.words) - StartOf(l, n + 1) + 1
  <2>1. \A k \in StartOf(l, n + 1)..Len(l.words) : l.words[k] \in STRING
    BY <1>1, <1>4
  <2>2. StartOf(l, n + 1) \in Int /\ Len(l.words) \in Int /\ StartOf(l, n + 1) <= Len(l.words)
    BY <1>2, <1>4
  <2>3. QED
    BY <1>5, <2>1, <2>2, SubSeqProperties
<1>8. QED
  BY <1>3, <1>4, <1>6, <1>7 DEF mode

\* One option more is read.
LEMMA ReadOn ==
    ASSUME NEW l \in Lines, NEW n \in 0..Len(l.starts), n + 1 \in 1..Len(l.starts),
           ReadUpTo(l, n), config \in Options, NEW option, option = OptionAt(l, n + 1),
           Known(option), StartOf(l, n + 2) = StartOf(l, n + 1) + Length(option),
           option = "random" => l.words[StartOf(l, n + 1) + 2] \in DOMAIN Numbers,
           args' = SubSeq(l.words, StartOf(l, n + 2), Len(l.words)),
           \/ option \in Flags /\ config' = [config EXCEPT !.flags = @ \cup {option}]
           \/ /\ option \in DOMAIN Arity
              /\ config' = [config EXCEPT ![option] = Value(option, WordsOf(l, n + 1))]
    PROVE  ReadUpTo(l, n + 1)'
<1>1. n \in Nat /\ Len(l.starts) \in Nat /\ (n + 1) + 1 = n + 2 /\ 1..(n + 1) = 1..n \cup {n + 1}
  BY LinesAssumption DEF SplitLines
<1>2. args' = SubSeq(l.words, StartOf(l, (n + 1) + 1), Len(l.words))
  BY <1>1
<1>3. \A i \in 1..(n + 1) :
         /\ Known(OptionAt(l, i))
         /\ StartOf(l, i + 1) = StartOf(l, i) + Length(OptionAt(l, i))
         /\ OptionAt(l, i) = "random" => l.words[StartOf(l, i) + 2] \in DOMAIN Numbers
  <2> SUFFICES ASSUME NEW i \in 1..(n + 1)
               PROVE  /\ Known(OptionAt(l, i))
                      /\ StartOf(l, i + 1) = StartOf(l, i) + Length(OptionAt(l, i))
                      /\ OptionAt(l, i) = "random" => l.words[StartOf(l, i) + 2] \in DOMAIN Numbers
    OBVIOUS
  <2>1. CASE i \in 1..n
    BY <2>1 DEF ReadUpTo
  <2>2. CASE i = n + 1
    BY <1>1, <2>2
  <2>3. QED
    BY <1>1, <2>1, <2>2
<1>4. "flags" \in DOMAIN config /\ "flags" \notin DOMAIN Arity /\ DOMAIN Arity \subseteq DOMAIN config
      /\ DOMAIN Arity \cap Flags = {}
  BY DEF Options, Arity, Flags
<1>5. config'.flags = {flag \in Flags : \E i \in 1..(n + 1) : OptionAt(l, i) = flag}
  <2>1. config.flags = {flag \in Flags : \E i \in 1..n : OptionAt(l, i) = flag}
    BY DEF ReadUpTo
  <2>2. CASE option \in Flags /\ config' = [config EXCEPT !.flags = @ \cup {option}]
    <3>1. config'.flags = config.flags \cup {option}
      BY <1>4, <2>2
    <3>2. QED
      BY <1>1, <2>1, <2>2, <3>1
  <2>3. CASE /\ option \in DOMAIN Arity
             /\ config' = [config EXCEPT ![option] = Value(option, WordsOf(l, n + 1))]
    <3>1. config'.flags = config.flags
      BY <1>4, <2>3
    <3>2. option \notin Flags
      BY <1>4, <2>3
    <3>3. QED
      BY <1>1, <2>1, <3>1, <3>2
  <2>4. QED
    BY <2>2, <2>3
<1>6. ASSUME NEW o \in DOMAIN Arity
      PROVE  \/ /\ config'[o] = Default[o]
                /\ \A i \in 1..(n + 1) : OptionAt(l, i) # o
             \/ \E i \in 1..(n + 1) :
                   /\ OptionAt(l, i) = o /\ config'[o] = Value(o, WordsOf(l, i))
                   /\ \A j \in 1..(n + 1) : OptionAt(l, j) = o => j <= i
  <2>1. CASE o = option
    <3>1. config'[o] = Value(o, WordsOf(l, n + 1))
      BY <1>4, <2>1
    <3>2. \A j \in 1..(n + 1) : j <= n + 1
      BY <1>1
    <3>3. n + 1 \in 1..(n + 1)
      BY <1>1
    <3>4. QED
      BY <2>1, <3>1, <3>2, <3>3
  <2>2. CASE o # option
    <3>1. config'[o] = config[o]
      BY <1>4, <2>2
    <3>2. \/ config[o] = Default[o] /\ \A i \in 1..n : OptionAt(l, i) # o
          \/ \E i \in 1..n : /\ OptionAt(l, i) = o /\ config[o] = Value(o, WordsOf(l, i))
                             /\ \A j \in 1..n : OptionAt(l, j) = o => j <= i
      BY DEF ReadUpTo
    <3>3. QED
      BY <1>1, <2>2, <3>1, <3>2
  <2>3. QED
    BY <2>1, <2>2
<1>7. QED
  BY <1>2, <1>3, <1>5, <1>6 DEF ReadUpTo

\* Reading a flag reads an option.
LEMMA FlagRead ==
    ASSUME NEW l \in Lines, NEW n \in 0..Len(l.starts), ReadUpTo(l, n), config \in Options,
           ReadFlag
    PROVE  n + 1 \in 0..Len(l.starts) /\ ReadUpTo(l, n + 1)'
<1>1. /\ args # <<>> /\ mode \in Flags /\ args' = Tail(args)
      /\ config' = [config EXCEPT !.flags = @ \cup {mode}]
  BY DEF ReadFlag
<1>2. /\ n + 1 \in 1..Len(l.starts) /\ mode = OptionAt(l, n + 1)
      /\ Len(args) = Len(l.words) - StartOf(l, n + 1) + 1
  BY <1>1, NextOption
<1>3. Length(mode) = 1 /\ Known(mode) /\ mode # "random"
  BY <1>1 DEF Length, Known, Flags
<1>4. /\ l.words \in Seq(STRING) /\ Len(l.words) \in Nat
      /\ StartOf(l, n + 1) \in 1..Len(l.words)
      /\ StartOf(l, (n + 1) + 1) = StartOf(l, n + 1) + 1
  BY <1>2, <1>3, OptionsOfLine
<1>5. (n + 1) + 1 = n + 2 /\ n + 1 \in 0..Len(l.starts)
  BY <1>2
<1>6. Tail(args) = SubSeq(l.words, StartOf(l, n + 1) + 1, Len(l.words))
  <2>1. args = SubSeq(l.words, StartOf(l, n + 1), Len(l.words))
    BY DEF ReadUpTo
  <2>2. Len(l.words) \in StartOf(l, n + 1)..Len(l.words)
    BY <1>4
  <2>3. QED
    BY <1>4, <2>1, <2>2, HeadTailOfSubSeq
<1>7. StartOf(l, n + 2) = StartOf(l, n + 1) + Length(mode)
  BY <1>3, <1>4, <1>5
<1>8. args' = SubSeq(l.words, StartOf(l, n + 2), Len(l.words))
  BY <1>1, <1>3, <1>6, <1>7
<1>9. QED
  BY <1>1, <1>2, <1>3, <1>5, <1>7, <1>8, ReadOn

\* Reading an option with its words reads it whole: the last one, too, has all of
\* them, or main would have refused it.
LEMMA OptionRead ==
    ASSUME NEW l \in Lines, NEW n \in 0..Len(l.starts), ReadUpTo(l, n), config \in Options,
           args # <<>>, mode \notin Flags, ~Refused, ~Throws, args' = Rest,
           config' = [config EXCEPT ![mode] = Value(mode, Words)]
    PROVE  n + 1 \in 0..Len(l.starts) /\ ReadUpTo(l, n + 1)'
<1>1. /\ n + 1 \in 1..Len(l.starts) /\ mode = OptionAt(l, n + 1)
      /\ Len(args) = Len(l.words) - StartOf(l, n + 1) + 1
  BY NextOption
<1>2. mode \in DOMAIN Arity /\ ~(Len(args) <= Arity[mode])
  BY DEF Refused
<1>3. Length(mode) = 1 + Arity[mode] /\ Known(mode) /\ Arity[mode] \in 1..3
  BY <1>2 DEF Length, Known, Arity
<1>4. /\ l.words \in Seq(STRING) /\ Len(l.words) \in Nat
      /\ StartOf(l, n + 1) \in 1..Len(l.words)
      /\ StartOf(l, (n + 1) + 1) \in (StartOf(l, n + 1) + 1)..(Len(l.words) + 1)
      /\ StartOf(l, (n + 1) + 1) <= StartOf(l, n + 1) + Length(mode)
      /\ n + 1 < Len(l.starts) => StartOf(l, (n + 1) + 1) = StartOf(l, n + 1) + Length(mode)
  BY <1>1, <1>3, OptionsOfLine
<1>5. (n + 1) + 1 = n + 2 /\ n + 1 \in 0..Len(l.starts)
  BY <1>1
<1>6. StartOf(l, n + 2) = StartOf(l, n + 1) + Length(mode)
  <2>1. CASE n + 1 < Len(l.starts)
    BY <1>4, <1>5, <2>1
  <2>2. CASE ~(n + 1 < Len(l.starts))
    <3>1. StartOf(l, n + 2) = Len(l.words) + 1
      BY <1>1, <2>2 DEF StartOf
    <3>2. QED
      BY <1>1, <1>2, <1>3, <1>4, <1>5, <3>1
  <2>3. QED
    BY <2>1, <2>2
<1>7. args = SubSeq(l.words, StartOf(l, n + 1), Len(l.words))
  BY DEF ReadUpTo
<1>8. Words = WordsOf(l, n + 1)
  <2>1. 1 + Arity[mode] \in Nat /\ StartOf(l, n + 1) + (1 + Arity[mode]) <= Len(l.words) + 1
    BY <1>3, <1>4, <1>5, <1>6
  <2>2. Words = SubSeq(l.words, StartOf(l, n + 1) + 2 - 1, StartOf(l, n + 1) + (1 + Arity[mode]) - 1)
    <3> DEFINE a == StartOf(l, n + 1)
               to == 1 + Arity[mode]
    <3>1. a \in 1..(Len(l.words) + 1) /\ to \in Nat /\ a + to <= Len(l.words) + 1
      BY <1>4, <2>1
    <3> HIDE DEF a, to
    <3>2. SubSeq(SubSeq(l.words, a, Len(l.words)), 2, to) = SubSeq(l.words, a + 2 - 1, a + to - 1)
      BY <1>4, <3>1, PieceOfRest
    <3>3. QED
      BY <1>7, <3>2 DEF Words, a, to
  <2>3. StartOf(l, n + 1) + 2 - 1 = StartOf(l, n + 1) + 1
    BY <1>4
  <2>4. StartOf(l, n + 1) + (1 + Arity[mode]) - 1 = StartOf(l, (n + 1) + 1) - 1
    BY <1>3, <1>4, <1>5, <1>6
  <2>5. QED
    BY <2>2, <2>3, <2>4 DEF WordsOf
<1>9. args' = SubSeq(l.words, StartOf(l, n + 2), Len(l.words))
  <2>1. Len(args) \in Nat /\ StartOf(l, n + 1) + Len(args) <= Len(l.words) + 1
    BY <1>1, <1>4
  <2>2. 2 + Arity[mode] \in Nat \ {0}
    BY <1>3
  <2>3. Rest = SubSeq(l.words, StartOf(l, n + 1) + (2 + Arity[mode]) - 1,
                      StartOf(l, n + 1) + Len(args) - 1)
    <3> DEFINE a == StartOf(l, n + 1)
               from == 2 + Arity[mode]
               to == Len(args)
    <3>1. /\ a \in 1..(Len(l.words) + 1) /\ from \in Nat \ {0} /\ to \in Nat
          /\ a + to <= Len(l.words) + 1
      BY <1>4, <2>1, <2>2
    <3> HIDE DEF a, from, to
    <3>2. SubSeq(SubSeq(l.words, a, Len(l.words)), from, to)
          = SubSeq(l.words, a + from - 1, a + to - 1)
      BY <1>4, <3>1, PieceOfRest
    <3>3. QED
      BY <1>7, <3>2 DEF Rest, a, from, to
  <2>4. StartOf(l, n + 1) + (2 + Arity[mode]) - 1 = StartOf(l, n + 2)
    BY <1>3, <1>4, <1>6
  <2>5. StartOf(l, n + 1) + Len(args) - 1 = Len(l.words)
    BY <1>1, <1>4
  <2>6. QED
    BY <2>3, <2>4, <2>5
<1>10. mode = "random" => l.words[StartOf(l, n + 1) + 2] \in DOMAIN Numbers
  <2> SUFFICES ASSUME mode = "random"
               PROVE  l.words[StartOf(l, n + 1) + 2] \in DOMAIN Numbers
    OBVIOUS
  <2> DEFINE a == StartOf(l, n + 1)
  <2>1. Arity[mode] = 3
    BY DEF Arity
  <2>2. a \in Nat /\ a + 3 <= Len(l.words) /\ StartOf(l, (n + 1) + 1) - 1 = a + 3
    BY <1>3, <1>4, <1>5, <1>6, <2>1
  <2>3. Words = SubSeq(l.words, a + 1, a + 3)
    BY <1>8, <2>2 DEF WordsOf
  <2> HIDE DEF a
  <2>4. \A k \in (a + 1)..(a + 3) : l.words[k] \in STRING
    BY <1>4, <2>2
  <2>5. /\ Words \in Seq(STRING) /\ Len(Words) = 3
        /\ \A k \in 1..3 : Words[k] = l.words[a + 1 + k - 1]
    <3> DEFINE b == a + 1
               c == a + 3
    <3>1. c - b + 1 = 3 /\ b <= c /\ b \in Int /\ c \in Int
      BY <2>2
    <3> HIDE DEF b, c
    <3>2. /\ SubSeq(l.words, b, c) \in Seq(STRING)
          /\ Len(SubSeq(l.words, b, c)) = IF b <= c THEN c - b + 1 ELSE 0
          /\ \A k \in 1..(c - b + 1) : SubSeq(l.words, b, c)[k] = l.words[b + k - 1]
      BY <2>4, <3>1, SubSeqProperties DEF b, c
    <3>3. SubSeq(l.words, b, c) = Words
      BY <2>3 DEF b, c
    <3>4. QED
      BY <3>1, <3>2, <3>3 DEF b
  <2>6. NumberWords(mode, Words) = SubSeq(Words, 1, 2)
    BY DEF NumberWords
  <2>7. /\ Len(SubSeq(Words, 1, 2)) = 2 /\ SubSeq(Words, 1, 2) \in Seq(STRING)
    <3>1. Words \in Seq(STRING) /\ Len(Words) = 3
      BY <2>5
    <3>2. \A s \in Seq(STRING) : \A k \in 1..Len(s) : s[k] \in STRING
      OBVIOUS
    <3>3. \A k \in 1..2 : k \in 1..Len(Words)
      BY <3>1
    <3>4. \A k \in 1..2 : Words[k] \in STRING
      BY <3>1, <3>2, <3>3, Zenon
    <3>5. QED
      BY <3>4, SubSeqProperties
  <2>8. 2 \in DOMAIN NumberWords(mode, Words)
    BY <2>6, <2>7
  <2>9. Words[2] \in DOMAIN Numbers
    BY <2>8 DEF Throws
  <2>10. Words[2] = l.words[a + 2]
    BY <2>2, <2>5
  <2>11. QED
    BY <2>9, <2>10 DEF a
<1>11. config' = [config EXCEPT ![mode] = Value(mode, WordsOf(l, n + 1))]
  BY <1>8
<1>12. QED
  BY <1>1, <1>2, <1>3, <1>5, <1>6, <1>9, <1>10, <1>11, ReadOn

\* The options read are the first ones of the line, in its order.
LEMMA AlwaysInOrder == MainSpec => []ReadInOrder
<1>1. ASSUME MainInit
      PROVE  ReadInOrder
  <2>1. line \in Lines /\ args = line.words /\ config = Default
    BY <1>1 DEF MainInit
  <2>2. line.words \in Seq(STRING) /\ line.starts \in Seq(Nat)
    BY <2>1, LinesAssumption DEF SplitLines
  <2>3. StartOf(line, 0 + 1) = 1
    <3>1. line.words # <<>> => Len(line.starts) >= 1 /\ line.starts[1] = 1
      BY <2>1, <2>2, LinesAssumption
    <3>2. line.words = <<>> => Len(line.starts) = 0
      <4>1. \A i \in 1..Len(line.starts) : line.starts[i] \in 1..Len(line.words)
        BY <2>1, LinesAssumption
      <4>2. QED
        BY <2>2, <4>1
    <3>3. line.words = <<>> => Len(line.words) = 0
      OBVIOUS
    <3>4. QED
      BY <2>2, <3>1, <3>2, <3>3 DEF StartOf
  <2>4. args = SubSeq(line.words, StartOf(line, 0 + 1), Len(line.words))
    BY <2>1, <2>2, <2>3, SubSeqFull
  <2>5. config.flags = {} /\ \A option \in DOMAIN Arity : config[option] = Default[option]
    BY <2>1 DEF Default
  <2>6. 1..0 = {}
    OBVIOUS
  <2>7. ReadUpTo(line, 0)
    BY <2>4, <2>5, <2>6 DEF ReadUpTo
  <2>8. QED
    BY <2>1, <2>2, <2>7 DEF ReadInOrder
<1>2. ASSUME HarnessTyped, ReadInOrder, [MainNext]_MainVars
      PROVE  ReadInOrder'
  <2> SUFFICES ASSUME stage' = "parse"
               PROVE  line' \in Lines /\ \E n \in 0..Len(line'.starts) : ReadUpTo(line, n)'
    BY DEF ReadInOrder
  <2>1. CASE stage = "parse" /\ Parse
    <3>1. line \in Lines /\ \E n \in 0..Len(line.starts) : ReadUpTo(line, n)
      BY <1>2, <2>1 DEF ReadInOrder
    <3>2. PICK l \in Lines : l = line
      BY <3>1
    <3>3. PICK n \in 0..Len(l.starts) : ReadUpTo(l, n)
      BY <3>1, <3>2
    <3>4. config \in Options
      BY <1>2 DEF HarnessTyped, Untouched
    <3>5. CASE ReadFlag
      <4>1. line' = line
        BY <3>5 DEF ReadFlag
      <4>2. n + 1 \in 0..Len(l.starts) /\ ReadUpTo(l, n + 1)'
        BY <3>3, <3>4, <3>5, FlagRead
      <4>3. line' \in Lines /\ n + 1 \in 0..Len(line'.starts)
        BY <3>2, <4>1, <4>2
      <4>4. ReadUpTo(line, n + 1)'
        BY <3>2, <4>1, <4>2 DEF ReadUpTo
      <4>5. QED
        BY <4>3, <4>4 DEF ReadUpTo
    <3>6. CASE ReadOption
      <4>1. ~Refused /\ ~Throws /\ ~UnknownFlag
        BY <3>6 DEF ReadOption, Exit
      <4>2. /\ args # <<>> /\ mode \notin Flags /\ args' = Rest
            /\ config' = [config EXCEPT ![mode] = Value(mode, Words)] /\ line' = line
        BY <3>6, <4>1 DEF ReadOption
      <4>3. n + 1 \in 0..Len(l.starts) /\ ReadUpTo(l, n + 1)'
        BY <3>3, <3>4, <4>1, <4>2, OptionRead
      <4>4. line' \in Lines /\ n + 1 \in 0..Len(line'.starts)
        BY <3>2, <4>2, <4>3
      <4>5. ReadUpTo(line, n + 1)'
        BY <3>2, <4>2, <4>3 DEF ReadUpTo
      <4>6. QED
        BY <4>4, <4>5 DEF ReadUpTo
    <3>7. CASE EndOfLine
      BY <3>7 DEF EndOfLine, Exit, Launch
    <3>8. QED
      BY <2>1, <3>5, <3>6, <3>7 DEF Parse
  <2>2. CASE UNCHANGED <<vars, mainVars>>
    BY <1>2, <2>2 DEF mainVars, ReadInOrder, ReadUpTo
  <2>3. CASE stage = "test" /\ UNCHANGED mainVars
    BY <2>3 DEF mainVars
  <2>4. CASE Finish
    BY <2>4 DEF Finish, Exit
  <2>5. QED
    BY <1>2, <2>1, <2>2, <2>3, <2>4, StepsAre
<1>3. QED
  BY <1>1, <1>2, HarnessAlwaysTyped, PTL DEF MainSpec

-----------------------------------------------------------------------------
(* The theorems.                                                           *)

\* Of a line that is accepted all options have been read.
LEMMA AllRead ==
    ASSUME ReadInOrder, accepted
    PROVE  line \in Lines /\ ReadUpTo(line, Len(line.starts))
<1>1. line \in Lines /\ args = <<>>
  BY DEF ReadInOrder, accepted
<1>2. PICK n \in 0..Len(line.starts) : ReadUpTo(line, n)
  BY DEF ReadInOrder, accepted
<1>3. line.words \in Seq(STRING) /\ line.starts \in Seq(Nat)
  BY <1>1, LinesAssumption DEF SplitLines
<1>4. ASSUME n # Len(line.starts)
      PROVE  FALSE
  <2>1. n + 1 \in 1..Len(line.starts)
    BY <1>3, <1>4
  <2>2. StartOf(line, n + 1) \in 1..Len(line.words)
    BY <1>1, <2>1, OptionsOfLine
  <2>3. \A k \in StartOf(line, n + 1)..Len(line.words) : line.words[k] \in STRING
    BY <1>3, <2>2
  <2>4. Len(args) = Len(line.words) - StartOf(line, n + 1) + 1
    <3>1. args = SubSeq(line.words, StartOf(line, n + 1), Len(line.words))
      BY <1>2 DEF ReadUpTo
    <3>2. QED
      BY <1>3, <2>2, <2>3, <3>1, SubSeqProperties
  <2>5. QED
    BY <1>1, <1>3, <2>2, <2>4
<1>5. QED
  BY <1>1, <1>2, <1>4

\* The last occurrence of an option.
LEMMA LastIs ==
    ASSUME line \in Lines, NEW option, NEW k \in 1..Len(line.starts),
           OptionAt(line, k) = option,
           \A j \in 1..Len(line.starts) : OptionAt(line, j) = option => j <= k
    PROVE  Given(option) # {} /\ LastOf(option) = Group(line, k)
<1>1. Given(option) = {i \in 1..Len(line.starts) : OptionAt(line, i) = option}
  <2>1. line.starts \in Seq(Nat)
    BY LinesAssumption DEF SplitLines
  <2>2. \A i \in 1..Len(line.starts) : Group(line, i)[1] = OptionAt(line, i)
    BY OptionsOfLine
  <2>3. QED
    BY <2>1, <2>2 DEF Given
<1>2. k \in Given(option) /\ \A j \in Given(option) : j <= k /\ j \in Int
  BY <1>1
<1>3. (CHOOSE i \in Given(option) : \A j \in Given(option) : j <= i) = k
  <2> DEFINE last == CHOOSE i \in Given(option) : \A j \in Given(option) : j <= i
  <2>1. \E i \in Given(option) : \A j \in Given(option) : j <= i
    BY <1>2
  <2>2. last \in Given(option) /\ \A j \in Given(option) : j <= last
    BY <2>1, Zenon
  <2> HIDE DEF last
  <2>3. last = k
    BY <1>2, <2>2
  <2>4. QED
    BY <2>3 DEF last
<1>4. QED
  BY <1>2, <1>3 DEF LastOf

\* A line that is accepted is read as it is written: no word of an option is
\* taken for another option, and the value of an option is that of its last
\* occurrence (soc_main.cpp:1226-1385).
THEOREM AlwaysReadAsWritten == MainSpec => []ReadAsWritten
<1>1. ASSUME ReadInOrder
      PROVE  ReadAsWritten
  <2> SUFFICES ASSUME accepted PROVE ReadAsWritten
    BY DEF ReadAsWritten
  <2> DEFINE n == Len(line.starts)
  <2>1. line \in Lines /\ ReadUpTo(line, n)
    BY <1>1, AllRead
  <2>2. DOMAIN line.starts = 1..n /\ line.starts \in Seq(Nat)
    BY <2>1, LinesAssumption DEF SplitLines
  <2>3. \A i \in 1..n : /\ Group(line, i)[1] = OptionAt(line, i)
                        /\ Tail(Group(line, i)) = WordsOf(line, i)
                        /\ Len(Group(line, i)) = StartOf(line, i + 1) - StartOf(line, i)
                        /\ StartOf(line, i) \in Nat
    BY <2>1, OptionsOfLine
  <2>4. \A option : Given(option) = {i \in 1..n : OptionAt(line, i) = option}
    BY <2>2, <2>3 DEF Given
  <2>5. ASSUME NEW i \in 1..n
        PROVE  Known(Group(line, i)[1]) /\ Len(Group(line, i)) = Length(Group(line, i)[1])
    <3>1. /\ Known(OptionAt(line, i))
          /\ StartOf(line, i + 1) = StartOf(line, i) + Length(OptionAt(line, i))
      BY <2>1 DEF ReadUpTo
    <3>2. Length(OptionAt(line, i)) \in Nat
      BY <3>1 DEF Length, Known, Arity
    <3>3. QED
      BY <2>3, <3>1, <3>2
  <2>6. config.flags = {flag \in Flags : Given(flag) # {}}
    <3>1. config.flags = {flag \in Flags : \E i \in 1..n : OptionAt(line, i) = flag}
      BY <2>1 DEF ReadUpTo
    <3>2. QED
      BY <2>4, <3>1
  <2>7. ASSUME NEW option \in DOMAIN Arity
        PROVE  config[option] = IF Given(option) # {} THEN Value(option, Tail(LastOf(option)))
                                ELSE Default[option]
    <3>1. CASE config[option] = Default[option] /\ \A i \in 1..n : OptionAt(line, i) # option
      BY <2>4, <3>1
    <3>2. CASE \E i \in 1..n : /\ OptionAt(line, i) = option
                               /\ config[option] = Value(option, WordsOf(line, i))
                               /\ \A j \in 1..n : OptionAt(line, j) = option => j <= i
      <4>1. PICK k \in 1..n : /\ OptionAt(line, k) = option
                              /\ config[option] = Value(option, WordsOf(line, k))
                              /\ \A j \in 1..n : OptionAt(line, j) = option => j <= k
        BY <3>2
      <4>2. Given(option) # {} /\ LastOf(option) = Group(line, k)
        BY <2>1, <4>1, LastIs
      <4>3. QED
        BY <2>3, <4>1, <4>2
    <3>3. QED
      BY <2>1, <3>1, <3>2 DEF ReadUpTo
  <2>8. QED
    BY <2>2, <2>5, <2>6, <2>7 DEF ReadAsWritten
<1>2. QED
  BY <1>1, AlwaysInOrder, PTL

\* Behind the instructions that set the registers a random program has as many
\* instructions as "random" asks for, each of a kind it asks for
\* (soc_main.cpp:1173, 1341).
THEOREM AlwaysRandomAsAsked == MainSpec => []RandomAsAsked
<1>1. ASSUME HarnessTyped, ReadInOrder
      PROVE  RandomAsAsked
  <2> SUFFICES ASSUME accepted, ~NothingChosen, config.bin = <<>>,
                      NEW p \in Programs(Chosen(TRUE))
               PROVE  LET asked == LastOf("random")
                          drawn == SubSeq(p, PreludeLen + 1, Len(p))
                      IN  /\ SubSeq(p, 1, PreludeLen) = Prelude
                          /\ Len(drawn) = Numbers[asked[3]]
                          /\ \A i \in DOMAIN drawn :
                                drawn[i] \in RandomKinds(inst_flags_of(asked[4]))
    BY DEF RandomAsAsked
  <2> DEFINE n == Len(line.starts)
             asked == LastOf("random")
             s == Chosen(TRUE)
             drawn == SubSeq(p, PreludeLen + 1, Len(p))
  <2>1. line \in Lines /\ ReadUpTo(line, n)
    BY <1>1, AllRead
  <2>2. config.random # <<>> /\ config \in Options
    BY <1>1 DEF NothingChosen, HarnessTyped, Untouched
  <2>3. PICK k \in 1..n : /\ OptionAt(line, k) = "random"
                          /\ config.random = Value("random", WordsOf(line, k))
                          /\ \A j \in 1..n : OptionAt(line, j) = "random" => j <= k
    <3>1. "random" \in DOMAIN Arity /\ Default["random"] = <<>>
      BY DEF Arity, Default
    <3>2. \/ config["random"] = Default["random"]
          \/ \E i \in 1..n : /\ OptionAt(line, i) = "random"
                             /\ config["random"] = Value("random", WordsOf(line, i))
                             /\ \A j \in 1..n : OptionAt(line, j) = "random" => j <= i
      BY <2>1, <3>1 DEF ReadUpTo
    <3>3. QED
      BY <2>2, <3>1, <3>2
  <2>4. asked = Group(line, k)
    BY <2>1, <2>3, LastIs
  <2> DEFINE a == StartOf(line, k)
             b == a + 3
  <2>5. /\ line.words \in Seq(STRING) /\ a \in 1..Len(line.words) /\ b \in 1..Len(line.words)
        /\ asked = SubSeq(line.words, a, b) /\ Tail(asked) = WordsOf(line, k)
        /\ line.words[a + 2] \in DOMAIN Numbers
    <3>1. /\ StartOf(line, k + 1) = a + Length("random")
          /\ line.words[a + 2] \in DOMAIN Numbers
      BY <2>1, <2>3 DEF ReadUpTo
    <3>2. Length("random") = 4
      BY DEF Length, Flags, Arity
    <3>3. /\ line.words \in Seq(STRING) /\ a \in 1..Len(line.words)
          /\ StartOf(line, k + 1) \in (a + 1)..(Len(line.words) + 1)
          /\ asked = SubSeq(line.words, a, StartOf(line, k + 1) - 1)
          /\ Tail(asked) = WordsOf(line, k)
      BY <2>1, <2>4, OptionsOfLine
    <3>4. StartOf(line, k + 1) - 1 = b /\ b \in 1..Len(line.words)
      BY <3>1, <3>2, <3>3
    <3>5. QED
      BY <3>1, <3>3, <3>4
  <2> HIDE DEF a, asked
  <2>6. /\ asked \in Seq(STRING) /\ Len(asked) = 4
        /\ \A i \in 1..4 : asked[i] = line.words[a + i - 1]
    <3>1. \A i \in a..b : line.words[i] \in STRING
      BY <2>5
    <3>2. b - a + 1 = 4 /\ a <= b /\ a \in Int /\ b \in Int
      BY <2>5
    <3> HIDE DEF b
    <3>3. QED
      BY <2>5, <3>1, <3>2, SubSeqProperties
  <2>7. asked[3] \in DOMAIN Numbers
    <3>1. a + 3 - 1 = a + 2
      BY <2>5
    <3>2. QED
      BY <2>5, <2>6, <3>1
  <2>8. config.random = <<Numbers[asked[2]], Numbers[asked[3]] + PreludeLen, inst_flags_of(asked[4])>>
    <3>1. asked \in Seq(STRING) /\ Len(asked) = 4
      BY <2>6
    <3>2. asked # <<>>
      <4>1. asked = <<>> => Len(asked) = 0
        OBVIOUS
      <4>2. Len(asked) # 0
        BY <3>1
      <4>3. QED
        BY <4>1, <4>2, Zenon
    <3>3. Tail(asked)[1] = asked[2] /\ Tail(asked)[2] = asked[3] /\ Tail(asked)[3] = asked[4]
      <4>1. Len(Tail(asked)) = 3
        BY <3>1, <3>2, HeadTailProperties
      <4>2. \A i \in 1..Len(Tail(asked)) : Tail(asked)[i] = asked[i + 1]
        BY <3>1, <3>2, HeadTailProperties
      <4>3. QED
        BY <4>1, <4>2
    <3>4. QED
      BY <2>3, <2>5, <3>3 DEF Value
  <2>9. s.random /\ s.n_insts = Numbers[asked[3]] + PreludeLen
        /\ s.inst_flags = inst_flags_of(asked[4])
    <3>1. s.random <=> config.random # <<>> /\ config.bin = <<>>
      BY Zenon DEF Chosen
    <3>2. /\ s.n_insts = IF config.random # <<>> THEN config.random[2] ELSE 0
          /\ s.inst_flags = IF config.random # <<>> THEN config.random[3] ELSE {}
      BY DEF Chosen
    <3>3. /\ config.random[2] = Numbers[asked[3]] + PreludeLen
          /\ config.random[3] = inst_flags_of(asked[4])
      BY <2>8
    <3>4. QED
      BY <2>2, <3>1, <3>2, <3>3
  <2> HIDE DEF s
  <2>10. Numbers[asked[3]] \in Nat /\ PreludeLen \in Nat
    BY <2>7, MainAssumption, Widths
  <2> DEFINE many == Numbers[asked[3]]
  <2>11. PICK q \in [1..many -> RandomKinds(inst_flags_of(asked[4]))] : p = Prelude \o q
    <3>1. p \in RandomPrograms(s)
      BY <2>9 DEF Programs, s
    <3>2. s.n_insts - PreludeLen = many
      BY <2>9, <2>10
    <3>3. QED
      BY <2>9, <3>1, <3>2 DEF RandomPrograms
  <2> HIDE DEF many
  <2>12. Prelude \in Seq(Kinds) /\ Len(Prelude) = PreludeLen
    BY <2>10 DEF Prelude, Kinds
  <2>13. q \in Seq(RandomKinds(inst_flags_of(asked[4]))) /\ Len(q) = many /\ many \in Nat
    BY <2>10 DEF many
  <2> DEFINE All == Kinds \cup RandomKinds(inst_flags_of(asked[4]))
  <2>14. /\ p \in Seq(All) /\ Len(p) = PreludeLen + many
         /\ \A i \in 1..PreludeLen : p[i] = Prelude[i]
         /\ \A i \in 1..many : p[PreludeLen + i] = q[i]
    <3>1. Prelude \in Seq(All) /\ q \in Seq(All)
      BY <2>12, <2>13
    <3> HIDE DEF All
    <3>2. QED
      BY <2>10, <2>11, <2>12, <2>13, <3>1
  <2>15. SubSeq(p, 1, PreludeLen) = Prelude
    <3> HIDE DEF All
    <3>1. \A i \in 1..PreludeLen : p[i] \in All
      BY <2>10, <2>13, <2>14
    <3>2. /\ SubSeq(p, 1, PreludeLen) \in Seq(All)
          /\ Len(SubSeq(p, 1, PreludeLen)) = PreludeLen
          /\ \A i \in 1..PreludeLen : SubSeq(p, 1, PreludeLen)[i] = p[i]
      BY <2>10, <3>1, SubSeqProperties
    <3>3. Prelude \in Seq(All)
      BY <2>12 DEF All
    <3>4. QED
      BY <2>12, <2>14, <3>2, <3>3, SeqEqual
  <2>16. Len(drawn) = many /\ \A i \in 1..many : drawn[i] = q[i]
    <3> HIDE DEF All
    <3> DEFINE from == PreludeLen + 1
               to == PreludeLen + many
    <3>1. from \in Int /\ to \in Int /\ to - from + 1 = many /\ drawn = SubSeq(p, from, to)
      BY <2>10, <2>13, <2>14
    <3>2. \A i \in from..to : p[i] \in All
      BY <2>10, <2>13, <2>14
    <3>3. \A i \in 1..many : from + i - 1 = PreludeLen + i
      BY <2>10, <2>13
    <3> HIDE DEF from, to, drawn
    <3>4. /\ Len(SubSeq(p, from, to)) = IF from <= to THEN to - from + 1 ELSE 0
          /\ \A i \in 1..(to - from + 1) : SubSeq(p, from, to)[i] = p[from + i - 1]
      BY <3>1, <3>2, SubSeqProperties
    <3>5. Len(drawn) = many
      BY <2>13, <3>1, <3>4
    <3>6. ASSUME NEW i \in 1..many
          PROVE  drawn[i] = q[i]
      <4>1. drawn[i] = p[from + i - 1]
        BY <3>1, <3>4
      <4>2. from + i - 1 = PreludeLen + i
        BY <3>3
      <4>3. p[PreludeLen + i] = q[i]
        BY <2>14
      <4>4. QED
        BY <4>1, <4>2, <4>3
    <3>7. QED
      BY <3>5, <3>6
  <2>17. DOMAIN drawn = 1..many
    <3>1. drawn \in Seq(All)
      <4>1. \A i \in (PreludeLen + 1)..Len(p) : p[i] \in All
        BY <2>10, <2>13, <2>14
      <4>2. QED
        BY <2>10, <2>13, <2>14, <4>1, SubSeqProperties
    <3>2. QED
      BY <2>16, <3>1
  <2>18. QED
    BY <2>13, <2>15, <2>16, <2>17 DEF many, asked
<1>2. QED
  BY <1>1, AlwaysInOrder, HarnessAlwaysTyped, PTL
=============================================================================
