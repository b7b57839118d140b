-------------------------------- MODULE Main --------------------------------
(***************************************************************************)
(* main of soc/soc_main.cpp: reads the command line word by word, runs the *)
(* tests it asks for (Harness) and turns the verdict into an exit code.    *)
(* Words are strings; what a word means as a number, or as the letters of  *)
(* instruction kinds, is given by constants.                               *)
(***************************************************************************)
EXTENDS Harness

CONSTANTS Lines,        \* command lines: words, and where among them options start
          Numbers,      \* the words that std::stoull reads, with their values
          Letters       \* the words for instruction kinds: sets of lower-case letters

ASSUME MainAssumption ==
    \A word \in DOMAIN Numbers : /\ Numbers[word] \in Nat
                                 /\ Numbers[word] + PreludeLen + 2 < Minstrets

VARIABLES line,         \* the command line; forgotten when the tests start
          args,         \* the words still to be read
          config,       \* TestBenchConfig
          stage,        \* "parse", "test", "exit"
          exit_code

mainVars == <<line, args, config, stage, exit_code>>

Flags == {"vsoc", "vcpu", "gold", "memcmp", "check"}

\* Options with the number of words that belong to them.
Arity == [trace |-> 1, max |-> 1, delay |-> 2, seed |-> 1, verbose |-> 1,
          measure |-> 1, random |-> 3, bin |-> 1]
Once  == {"trace", "max", "delay", "seed", "random", "bin"}

SplitLines == [words : Seq(STRING), starts : Seq(Nat)]

\* The i-th option of a line l and its words.
Group(l, i) == SubSeq(l.words, l.starts[i],
                      IF i < Len(l.starts) THEN l.starts[i + 1] - 1 ELSE Len(l.words))

Known(option) == option \in Flags \cup DOMAIN Arity
Length(option) == 1 + IF option \in Flags THEN 0 ELSE Arity[option]

\* Any words can be split so: the last option may be cut short, and what follows
\* an unknown one is its own.
ASSUME LinesAssumption ==
    \A l \in Lines :
        /\ l \in SplitLines
        /\ l.words # <<>> => l.starts # <<>> /\ l.starts[1] = 1
        /\ \A i \in 1..Len(l.starts) :
             /\ l.starts[i] \in 1..Len(l.words) /\ Len(Group(l, i)) >= 1
             /\ Known(Group(l, i)[1]) =>
                  LET length == Length(Group(l, i)[1])
                  IN  Len(Group(l, i)) \in (IF i < Len(l.starts) THEN {length} ELSE 1..length)

NoLine == [words |-> <<>>, starts |-> <<>>]

Default == [flags |-> {}, trace |-> <<>>, max |-> 0, delay |-> <<0, 0>>, seed |-> 0,
            verbose |-> 2, measure |-> <<>>, random |-> <<>>, bin |-> <<>>]

\* Words read by std::stoull, which throws at what is not a number.
NumberWords(option, words) == CASE option \in {"max", "seed", "verbose", "delay"} -> words
                              [] option = "random" -> SubSeq(words, 1, 2)
                              [] OTHER           -> <<>>

inst_flags_of(word) == IF word = "all" THEN inst_flags ELSE Letters[word]

\* Plausible bug: the instructions that set the registers are counted as random.
ValueWithoutPrelude(option, words) ==
    CASE option \in {"max", "seed", "verbose"} -> Numbers[words[1]]
      [] option = "delay"  -> <<Numbers[words[1]], Numbers[words[2]]>>
      [] option = "random" -> <<Numbers[words[1]], Numbers[words[2]], inst_flags_of(words[3])>>
      [] OTHER           -> words

Value(option, words) ==
    CASE option \in {"max", "seed", "verbose"} -> Numbers[words[1]]
      [] option = "delay"  -> <<Numbers[words[1]], Numbers[words[2]]>>
      [] option = "random" -> <<Numbers[words[1]], Numbers[words[2]] + PreludeLen,
                              inst_flags_of(words[3])>>
      [] OTHER           -> words

-----------------------------------------------------------------------------
(* Reading the command line.                                               *)

Exit(code) == /\ stage' = "exit" /\ exit_code' = code
              /\ UNCHANGED <<vars, line, args, config>>

mode == Head(args)
Words == SubSeq(args, 2, 1 + Arity[mode])

\* Plausible bug: the path of a trace is read again, as an option.
RestKeepingPath == SubSeq(args, IF mode = "trace" THEN 2 ELSE 2 + Arity[mode], Len(args))

Rest == SubSeq(args, 2 + Arity[mode], Len(args))

ReadFlag == /\ args # <<>> /\ mode \in Flags
            /\ config' = [config EXCEPT !.flags = @ \cup {mode}]
            /\ args' = Tail(args)
            /\ UNCHANGED <<vars, line, stage, exit_code>>

Refused == \/ mode \notin DOMAIN Arity
           \/ mode \in Once /\ config[mode] # Default[mode]
           \/ Len(args) <= Arity[mode]

Throws == \E i \in DOMAIN NumberWords(mode, Words) : Words[i] \notin DOMAIN Numbers

UnknownFlag == mode = "random" /\ ~(inst_flags_of(Words[3]) \subseteq inst_flags)

ReadOption ==
    /\ args # <<>> /\ mode \notin Flags
    /\ CASE Refused     -> Exit("EXIT_FAILURE")
         [] ~Refused /\ Throws -> Exit("abort")
         [] ~Refused /\ ~Throws /\ UnknownFlag -> Exit("EXIT_FAILURE")
         [] OTHER -> /\ config' = [config EXCEPT ![mode] = Value(mode, Words)]
                     /\ args' = Rest
                     /\ UNCHANGED <<vars, line, stage, exit_code>>

-----------------------------------------------------------------------------
(* Running the tests.                                                      *)

\* new_testbench, and main's preference for a binary.
Chosen(correct) ==
    LET random == config.random # <<>>
    IN  [cpus |-> Cpus \cap config.flags, gold |-> "gold" \in config.flags,
         check |-> "check" \in config.flags, max_cycles |-> config.max,
         random |-> random /\ config.bin = <<>>,
         max_tests  |-> IF random THEN config.random[1] ELSE 0,
         n_insts    |-> IF random THEN config.random[2] ELSE 0,
         inst_flags |-> IF random THEN config.random[3] ELSE {},
         bin_path   |-> IF config.bin = <<>> THEN "" ELSE config.bin[1],
         correct |-> correct]

NothingChosen == \/ config.flags \cap {"vsoc", "vcpu", "gold"} = {}
                 \/ config.bin = <<>> /\ config.random = <<>>

Unreadable == config.bin # <<>> /\ config.bin[1] \notin DOMAIN Files

\* The harness is still as its Init leaves it, but for the options.
Launch == /\ tb' \in {Chosen(correct) : correct \in BOOLEAN}
          /\ program' \in Programs(tb')
          /\ stage' = "test"
          /\ line' = NoLine /\ config' = Default
          /\ UNCHANGED <<cpu, gold, event_counts, minstret_start, cycles, instrets,
                         is_test_success, tests, at, args, exit_code>>

EndOfLine == /\ args = <<>>
             /\ CASE line.words = <<>> -> Exit("EXIT_FAILURE")
                  [] line.words # <<>> /\ NothingChosen -> Exit("EXIT_SUCCESS")
                  [] ~NothingChosen /\ Unreadable -> Exit("EXIT_FAILURE")
                  [] OTHER -> Launch

Parse == stage = "parse" /\ (ReadFlag \/ ReadOption \/ EndOfLine)

Running(A) == stage = "test" /\ A /\ UNCHANGED mainVars

Test == Running(Next)

Finish == /\ stage = "test" /\ at = "done" /\ ~MoreTests
          /\ Exit(IF is_test_success THEN "EXIT_SUCCESS" ELSE "EXIT_FAILURE")

MainInit == /\ line \in Lines
            /\ args = line.words
            /\ config = Default
            /\ stage = "parse" /\ exit_code = "none"
            /\ Init

MainNext == Parse \/ Test \/ Finish

MainVars == <<vars, mainVars>>

\* The program runs on, and a CPU that is clocked retires: every fetch and every
\* access is answered (FetchPath, LsuPath).
MainSpec == MainInit /\ [][MainNext]_MainVars

MainFairSpec ==
    /\ MainSpec
    /\ WF_MainVars(Parse \/ Finish \/ Running(Begin \/ Judge \/ NextTest))
    /\ \A c \in Cpus : WF_MainVars(Running(\E retires \in BOOLEAN : Cycle(c, retires)))
    /\ \A c \in Cpus : WF_MainVars(Running(Cycle(c, TRUE)))

-----------------------------------------------------------------------------
(* Properties.                                                             *)

MainTypeOK ==
    /\ TypeOK
    /\ line \in SplitLines
    /\ stage \in {"parse", "test", "exit"}
    /\ exit_code \in {"none", "abort", "EXIT_SUCCESS", "EXIT_FAILURE"}
    /\ stage # "parse" => exit_code = "none" <=> stage = "test"
    /\ DOMAIN config = DOMAIN Default /\ config.flags \subseteq Flags

Given(option) == {i \in DOMAIN line.starts : Group(line, i)[1] = option}

LastOf(option) == Group(line, CHOOSE i \in Given(option) : \A j \in Given(option) : j <= i)

accepted == stage = "parse" /\ line.words # <<>> /\ args = <<>>

\* A line that is accepted is made of complete options and read as such: no word
\* of an option, such as a path called "gold", is taken for another option, and
\* the value of an option is that of its last occurrence (soc_main.cpp:1226-1385).
ReadAsWritten ==
    accepted =>
        /\ \A i \in DOMAIN line.starts :
              LET group == Group(line, i)
              IN  Known(group[1]) /\ Len(group) = Length(group[1])
        /\ config.flags = {flag \in Flags : Given(flag) # {}}
        /\ \A option \in DOMAIN Arity :
              config[option] = IF Given(option) # {} THEN Value(option, Tail(LastOf(option)))
                               ELSE Default[option]

\* Behind the instructions that set the registers a random program has as many
\* instructions as "random" asks for, each of a kind it asks for: main adds the
\* length of the prelude, test_random takes it away again (soc_main.cpp:1173, 1341).
RandomAsAsked ==
    accepted /\ ~NothingChosen /\ config.bin = <<>> =>
        \A p \in Programs(Chosen(TRUE)) :
            LET asked == LastOf("random")
                drawn == SubSeq(p, PreludeLen + 1, Len(p))
            IN  /\ SubSeq(p, 1, PreludeLen) = Prelude
                /\ Len(drawn) = Numbers[asked[3]]
                /\ \A i \in DOMAIN drawn : drawn[i] \in RandomKinds(inst_flags_of(asked[4]))

\* After tests the exit code is EXIT_SUCCESS exactly if all that were asked for
\* have run, one at least, and none has failed (soc_main.cpp:1142-1191, 1400-1409).
ExitMeansPassed ==
    stage = "exit" /\ done =>
        /\ exit_code = "EXIT_SUCCESS" <=> is_test_success
        /\ is_test_success => tests = IF tb.random /\ tb.max_tests > 1 THEN tb.max_tests ELSE 1

\* What never ends: a vcpu without a limit (its events are lost), and a binary
\* that loops where no CPU counts cycles to a limit.
Endless == /\ stage = "test"
           /\ \/ tb.max_cycles = 0 /\ "vcpu" \in tb.cpus
              \/ /\ ~tb.random /\ (tb.max_cycles = 0 \/ tb.cpus = {})
                 /\ \E i \in DOMAIN program : program[i] = "loop"

\* Otherwise the program ends, whatever the line.
Exits == <>(stage = "exit" \/ Endless)
=============================================================================
