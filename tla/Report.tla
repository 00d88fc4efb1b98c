------------------------------- MODULE Report --------------------------------
(***************************************************************************)
(* The second half of BENCH.cpp's main(): the sections of one option, each *)
(* a heading and a call of process<Option>Output(file, benchmarkName),     *)
(* which looks for the benchmark's row in the table the stage left in the  *)
(* file, splits it at blanks and prints some of its tokens.                *)
(*                                                                         *)
(* A row of Google Benchmark's table is six tokens (name, time, ms, cpu,   *)
(* ms, iterations) and one for each counter, in the order of the counters' *)
(* names; a counter above 1100 is scaled and gets a suffix: k, M or G.     *)
(* Here a number is identified by the benchmark and the counter it is of,  *)
(* with the power of 1000 it is scaled by and whether, as it is written, it *)
(* is whole or has a fraction.  The row of SkipWithError has words where   *)
(* the counters would be.                                                  *)
(***************************************************************************)
EXTENDS Naturals, Sequences

Options == {"disk", "memory", "network", "cpu", "gpu"}

(* A section of main(): the file it reads and the benchmark it looks for.  *)
Section(file, bench) == [file |-> file, bench |-> bench]

Sections(option) ==
    CASE option = "disk" ->
            << Section("test1", "Fio-Random"),
               Section("fio-sync-test", "Fio-sequential"),
               Section("compilebench", "BM_Compilebench") >>
      [] option = "memory" ->
            << Section("ramsmp", "INTmem"),
               Section("ramsmp", "FLOATmem"),
               Section("cache", "BM_CacheBench") >>
      [] option = "network" ->
            << Section("ethrr", "BM_EthrBenchmark"),
               Section("sockk", "BM_Sockperf"),
               Section("iperff", "iperf") >>
      [] option = "cpu" ->
            << Section("c-ray", "BM_CRayBenchmark"),
               Section("blake2", "BM_Blake2_Benchmark"),
               Section("sysbench", "BM_Sysbench") >>
      [] option = "gpu" ->
            << Section("unigine", "BM_Unigine"),
               Section("gputest", "BM_FurMarkBenchmark"),
               Section("gputest", "BM_TessMarkBenchmark") >>

(***************************************************************************)
(* The rows of the files                                                   *)
(***************************************************************************)
(* The counters of a benchmark in the order of the table's columns.        *)
Counters(bench) ==
    CASE bench \in {"Fio-Random", "Fio-sequential"} -> <<"Average_Read", "Average_Write">>
      [] bench = "iperf" -> <<"Receiver", "Sender">>
      [] OTHER -> <<"Average">>

Scale == 0..3       \* nothing, k, M, G

Word            == [word |-> TRUE]
Figure(c, s, w) == [word |-> FALSE, of |-> c, scale |-> s, whole |-> w]

(* The name, two times with their unit, and the iterations.                *)
FirstSix == <<Word, Word, Word, Word, Word, Word>>

(* The wrappers that call SkipWithError(); all their messages have at      *)
(* least four words, after the name, "ERROR" and "OCCURRED:".              *)
MayFail == {"BM_CRayBenchmark", "BM_Compilebench"}
ErrorRow == FirstSix \o <<Word>>

(* A mean may have a fraction; fio's are whole numbers of MiB/s, and get a *)
(* fraction only by being scaled.                                          *)
Figures(bench, name) ==
    { Figure(<<bench, name>>, s, w) : s \in Scale, w \in BOOLEAN }
        \ (IF bench \in {"Fio-Random", "Fio-sequential"}
           THEN {Figure(<<bench, name>>, 0, FALSE)} ELSE {})

CounterRows(bench) ==
    LET names == Counters(bench)
        Column(i) == Figures(bench, names[i])
    IN  IF Len(names) = 1 THEN {FirstSix \o <<f>> : f \in Column(1)}
        ELSE {FirstSix \o <<f, g>> : f \in Column(1), g \in Column(2)}

(* What a stage may leave for a benchmark: no row, its row, an ERROR row.  *)
Tables(bench) ==
    {<< >>} \cup {<<r>> : r \in CounterRows(bench)}
            \cup (IF bench \in MayFail THEN {<<ErrorRow>>} ELSE {})

VARIABLES
    option,         \* argv[1]
    table,          \* the files: for each benchmark its rows
    printed,        \* what each section printed: a sequence of figures
    status          \* "reporting", "END" or "crashed"

vars == <<option, table, printed, status>>

Benches(o)  == {Sections(o)[i].bench : i \in 1..3}

Init ==
    /\ option \in Options
    /\ \E first \in Tables(Sections(option)[1].bench),
          second \in Tables(Sections(option)[2].bench),
          third \in Tables(Sections(option)[3].bench) :
           table = [b \in Benches(option) |->
                       CASE b = Sections(option)[1].bench -> first
                         [] b = Sections(option)[2].bench -> second
                         [] OTHER -> third]
    /\ printed = << >>
    /\ status = "reporting"

(***************************************************************************)
(* process<Option>Output()                                                 *)
(***************************************************************************)
(* A faulty variant of Matching, to validate FiguresAsMeasured: every row  *)
(* of the file counts.                                                     *)
EveryRow(section) ==
    LET sharing == SelectSeq(Sections(option), LAMBDA t : t.file = section.file)
    IN  table[sharing[1].bench] \o IF Len(sharing) > 1 THEN table[sharing[2].bench] ELSE << >>

(* line.find(benchmarkName): the rows of this section's benchmark only,    *)
(* although two benchmarks share a file in two options.                    *)
Matching(section) == table[section.bench]

(* The suffixes the code multiplies out; any other is dropped by stof().   *)
Handled(bench) ==
    CASE bench \in {"Fio-Random", "Fio-sequential", "BM_Compilebench", "INTmem", "FLOATmem",
                    "BM_CacheBench", "BM_Sysbench", "BM_FurMarkBenchmark",
                    "BM_TessMarkBenchmark"} -> {1}
      [] bench = "BM_EthrBenchmark" -> {3}
      [] OTHER -> {}

(* The numbers that may be printed for a token.  Everything but the disk's *)
(* figures goes through stof() and keeps its fraction.  The disk's go      *)
(* through stoi(), which cuts it off: `cut` says that the number printed   *)
(* is an integer below what the digits say, by one at most.  A number with *)
(* a k has been multiplied by 1000 as a float before, and its fraction may *)
(* be gone by that or, as with 2.001k, have come only by that.             *)
Numbers(bench, token) ==
    LET scale == IF token.scale \in Handled(bench) THEN token.scale ELSE 0
        cuts  == IF option # "disk" \/ token.whole THEN {FALSE}
                 ELSE IF scale = 0 THEN {TRUE} ELSE BOOLEAN
    IN  { [of |-> token.of, scale |-> scale, cut |-> c] : c \in cuts }

(* processDiskOutput() looks at tokens[7] of every row it finds.           *)
ReadsToken7(bench) == bench \in {"Fio-Random", "Fio-sequential", "BM_Compilebench"}
PastTheEnd(bench, row) == ReadsToken7(bench) /\ Len(row) < 8

(* The figures a section prints: their labels and tokens (tokens[6] is the *)
(* seventh).                                                               *)
Labels(bench) ==
    CASE bench \in {"Fio-Random", "Fio-sequential"} ->
            << [label |-> "Average_Read", at |-> 7], [label |-> "Average_Write", at |-> 8] >>
      [] bench = "iperf" -> << [label |-> "Receiver", at |-> 7], [label |-> "Sender", at |-> 7] >>
      [] OTHER -> << [label |-> "Average", at |-> 7] >>

(* A word where a number should be makes stof() or stoi() throw: the       *)
(* section ends there, its figures unprinted.                              *)
FiguresOf(bench, row) ==
    IF row[7].word THEN {<< >>}
    ELSE LET labels == Labels(bench)
             Shown(i) == { [label |-> labels[i].label, number |-> n] :
                             n \in Numbers(bench, row[labels[i].at]) }
         IN  IF Len(labels) = 1 THEN {<<f>> : f \in Shown(1)}
             ELSE {<<f, g>> : f \in Shown(1), g \in Shown(2)}

Here == Sections(option)[Len(printed) + 1]

(* A faulty variant of ProcessOutput, to validate ReachesEnd: no catch     *)
(* around the conversions.                                                 *)
ProcessOutputUncaught ==
    /\ status = "reporting"
    /\ Len(printed) < 3
    /\ LET rows == Matching(Here)
       IN  IF rows # << >> /\ rows[1][7].word
           THEN status' = "crashed" /\ UNCHANGED printed
           ELSE /\ \E figures \in IF rows = << >> THEN {<< >>} ELSE FiguresOf(Here.bench, rows[1]) :
                       printed' = Append(printed, figures)
                /\ UNCHANGED status
    /\ UNCHANGED <<option, table>>

(* The heading, and the section's row if there is one.                     *)
ProcessOutput ==
    /\ status = "reporting"
    /\ Len(printed) < 3
    /\ LET rows == Matching(Here)
       IN  \E figures \in IF rows = << >> THEN {<< >>} ELSE FiguresOf(Here.bench, rows[1]) :
               printed' = Append(printed, figures)
    /\ UNCHANGED <<option, table, status>>

(* tokens[7] of a vector of seven strings: the eighth cell is allocated    *)
(* (the capacity is eight) and never constructed; what find() makes of it  *)
(* is undefined.  Either nothing is found there, and ProcessOutput goes    *)
(* on, or the program dies.                                                *)
CrashOnToken7 ==
    /\ status = "reporting"
    /\ Len(printed) < 3
    /\ LET rows == Matching(Here)
       IN  rows # << >> /\ PastTheEnd(Here.bench, rows[1])
    /\ status' = "crashed"
    /\ UNCHANGED <<option, table, printed>>

(* "######## END ########".                                                *)
PrintEnd ==
    /\ status = "reporting"
    /\ Len(printed) = 3
    /\ status' = "END"
    /\ UNCHANGED <<option, table, printed>>

Next == ProcessOutput \/ CrashOnToken7 \/ PrintEnd

Spec == Init /\ [][Next]_vars /\ WF_vars(Next)

(***************************************************************************)
(* Properties                                                              *)
(***************************************************************************)
(* The figure of the table a label of a section is about.                  *)
Measured(bench, label) ==
    LET column == CHOOSE i \in DOMAIN Counters(bench) : Counters(bench)[i] = label
    IN  table[bench][1][6 + column]

ForEveryFigure(Holds(_, _)) ==
    \A i \in DOMAIN printed : \A j \in DOMAIN printed[i] :
        Holds(Sections(option)[i].bench, printed[i][j])

(* A figure is printed only under a benchmark that left a row, it is of    *)
(* that row and of the column its label names, however many rows the file  *)
(* holds (iperf's sender apart: its line shows the receiver's column), and *)
(* what the table shows without a suffix is printed as it was measured,    *)
(* except that the disk's figures lose their fraction.  Where the numbers  *)
(* are commonly above 1100, in the disk's and the memory's sections, the   *)
(* suffix k is not lost.                                                   *)
FiguresAsMeasured ==
    ForEveryFigure(LAMBDA bench, figure :
        /\ table[bench] # << >>
        /\ figure.number.of[1] = bench
        /\ LET measured == Measured(bench, figure.label)
               number   == figure.number
           IN  figure.label # "Sender" =>
                   /\ number.of = measured.of
                   /\ measured.scale = 0 =>
                          number.scale = 0 /\ (number.cut <=> option = "disk" /\ ~measured.whole)
                   /\ measured.scale = 1 /\ option \in {"disk", "memory"} => number.scale = 1)

(* A section without a row, or with an ERROR row, keeps none of the other  *)
(* sections from being printed: the report reaches its END unless the      *)
(* program dies in compilebench's section.                                 *)
ReachesEnd == <>(status = "END" \/ (status = "crashed" /\ option = "disk" /\ Len(printed) = 2))
==============================================================================
