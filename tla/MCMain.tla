------------------------------- MODULE MCMain -------------------------------
EXTENDS Main, SequencesExt

ProgramsUpTo(n) == UNION {[1..i -> Kinds] : i \in 0..n}

\* Programs in which the loop is left at the last instruction at the latest.
Ends(p) == p # <<>> /\ p[Len(p)] \in {"ebreak", "leave"} /\ \A i \in DOMAIN p : p[i] # "loop"

MCFiles == [short |-> ProgramsUpTo(2),
            ends  |-> {p \in ProgramsUpTo(3) : Ends(p)},
            break |-> {p \in [1..3 -> {"calc", "set_a0", "ebreak"}] : p[3] = "ebreak"}]

MCNumbers == [w \in {"0", "1", "2", "3", "4", "6"} |->
                 CASE w = "0" -> 0 [] w = "1" -> 1 [] w = "2" -> 2
                   [] w = "3" -> 3 [] w = "4" -> 4 [] w = "6" -> 6]

MCLetters == [cj |-> {"c", "j"}, C |-> {"c"}, le |-> {"l", "e"}, x |-> {"x"}, no |-> {}]

FlagGroups == {<<f>> : f \in Flags}

OptionGroups ==
    {<<"trace", "vcd">>, <<"trace", "gold">>, <<"max", "0">>, <<"max", "6">>, <<"max", "many">>,
     <<"delay", "0", "0">>, <<"delay", "2", "4">>, <<"seed", "0">>, <<"seed", "3">>,
     <<"verbose", "4">>, <<"measure", "bin">>, <<"random", "1", "0", "no">>,
     <<"random", "0", "1", "no">>, <<"random", "2", "1", "cj">>, <<"random", "1", "2", "x">>,
     <<"bin", "ends">>, <<"bin", "absent">>, <<"timeout", "6">>}

Groups == FlagGroups \cup OptionGroups

\* Every line of up to three options, the last one possibly cut short.
ShortLines == UNION {[1..n -> Groups] : n \in 0..3}
CutLines   == {Append(l, SubSeq(g, 1, Len(g) - 1)) :
                  l \in UNION {[1..n -> Groups] : n \in 0..1}, g \in OptionGroups}

\* Every selection of CPUs, with what a test depends on; random_test.sh and the
\* compiled tests are among them.
Selected == {SetToSeq(s) : s \in SUBSET {<<"vsoc">>, <<"vcpu">>, <<"gold">>}}
LongLines ==
    {s \o <<<<"max", "6">>, <<"bin", "short">>>> : s \in Selected}
    \cup {<<<<"vsoc">>, <<"bin", "ends">>>>, <<<<"check">>, <<"vsoc">>, <<"bin", "ends">>>>}
    \cup {s \o <<<<"random", "2", n, k>>>> :
             s \in {<<<<"vsoc">>>>, <<<<"vsoc">>, <<"gold">>>>},
             n \in {"1", "2"}, k \in {"all", "C", "le"}}

\* A line of these options.
Of(options) == [words  |-> FlattenSeq(options),
                starts |-> [i \in DOMAIN options |->
                               1 + Len(FlattenSeq(SubSeq(options, 1, i - 1)))]]

MCLines == {Of(l) : l \in ShortLines \cup CutLines \cup LongLines}

\* random_test.sh vcpu: "build_run.sh fast vcpu gold random 1000 100 all".
VcpuLines == {Of(<<<<"vcpu">>, <<"gold">>, <<"random", "1", n, "C">>>>) : n \in {"1", "2", "3"}}

\* A binary on the SoC and on the golden model.
BinGoldLines == {Of(<<<<"vsoc">>, <<"gold">>, <<"bin", "break">>>>)}
=============================================================================
