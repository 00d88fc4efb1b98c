------------------------------ MODULE Wrappers -------------------------------
(***************************************************************************)
(* The wrapper executables side by side.  The wrapper is chosen at the     *)
(* start and then used over and over in its directory, one session after   *)
(* the other or several at a time; its state is kept in the variables      *)
(* below, and what all wrappers have in common to say about the figures    *)
(* they publish is stated once.                                            *)
(***************************************************************************)
EXTENDS GBenchRun

CONSTANT
    FnIterations    \* the n of the executables with two functions; the others
                    \* have Iterations, but for c-ray, whose n is 1

ASSUME FnIterationsAssumption == FnIterations \in 1..Iterations

VARIABLES
    wrapper,        \* the wrapper in use
    raw,            \* its file of measurements; ramsmp and GpuTest: files
    res,            \* the file(s) the figure is taken from
    local,          \* what each session, or its script, has read so far
    fn,             \* two functions: the one each session runs
    log             \* GpuTest: its log; ethr: the values it cannot read back

vars == <<runVars, wrapper, raw, res, local, fn, log>>

Sock    == INSTANCE Sockperfbench    WITH sockout <- raw, sockres <- res, holds <- local
Ethr    == INSTANCE Ethrbench        WITH ethroutput <- raw, ethres <- res, holds <- local,
                                          unreadable <- log
Iperf   == INSTANCE Iperfbench       WITH iperfResults <- raw, counters <- local
Cache   == INSTANCE Cacheebench      WITH cacheoutput <- raw, cacheresults <- res, holds <- local
Blake   == INSTANCE BlakeBench       WITH blakeOutput <- raw
Compile == INSTANCE CompileBench     WITH compileResult <- raw, compileOutput <- res, holds <- local
Fio     == INSTANCE WrapFioBenchmark WITH runStatus <- raw, averageValues <- res, holds <- local
Unigine == INSTANCE UnigineBench     WITH unigineResult <- raw, terms <- local
Cray    == INSTANCE CrayBench        WITH crayResult <- raw, counter <- local, Iterations <- 1
Ram     == INSTANCE RamsmpBench      WITH output <- raw, result <- res, holds <- local, bench <- fn,
                                          Iterations <- FnIterations
Gpu     == INSTANCE FurmarkBench     WITH res <- raw, score <- local, module <- fn,
                                          Iterations <- FnIterations

Init ==
    \/ wrapper = "sock"    /\ Sock!Init    /\ fn = "-" /\ log = {}
    \/ wrapper = "ethr"    /\ Ethr!Init    /\ fn = "-"
    \/ wrapper = "iperf"   /\ Iperf!Init   /\ fn = "-" /\ log = {} /\ res = "-"
    \/ wrapper = "cache"   /\ Cache!Init   /\ fn = "-" /\ log = {}
    \/ wrapper = "blake"   /\ Blake!Init   /\ fn = "-" /\ log = {} /\ res = "-" /\ local = "-"
    \/ wrapper = "compile" /\ Compile!Init /\ fn = "-" /\ log = {}
    \/ wrapper = "fio"     /\ Fio!Init     /\ fn = "-" /\ log = {}
    \/ wrapper = "unigine" /\ Unigine!Init /\ fn = "-" /\ log = {} /\ res = "-"
    \/ wrapper = "cray"    /\ Cray!Init    /\ fn = "-" /\ log = {} /\ res = "-"
    \/ wrapper = "ramsmp"  /\ Ram!Init     /\ log = {}
    \/ wrapper = "gputest" /\ Gpu!Init     /\ res = "-"

Next ==
    /\ UNCHANGED wrapper
    /\ \/ wrapper = "sock"    /\ Sock!Next    /\ UNCHANGED <<fn, log>>
       \/ wrapper = "ethr"    /\ Ethr!Next    /\ UNCHANGED fn
       \/ wrapper = "iperf"   /\ Iperf!Next   /\ UNCHANGED <<fn, log, res>>
       \/ wrapper = "cache"   /\ Cache!Next   /\ UNCHANGED <<fn, log>>
       \/ wrapper = "blake"   /\ Blake!Next   /\ UNCHANGED <<fn, log, res, local>>
       \/ wrapper = "compile" /\ Compile!Next /\ UNCHANGED <<fn, log>>
       \/ wrapper = "fio"     /\ Fio!Next     /\ UNCHANGED <<fn, log>>
       \/ wrapper = "unigine" /\ Unigine!Next /\ UNCHANGED <<fn, log, res>>
       \/ wrapper = "cray"    /\ Cray!Next    /\ UNCHANGED <<fn, log, res>>
       \/ wrapper = "ramsmp"  /\ Ram!Next     /\ UNCHANGED log
       \/ wrapper = "gputest" /\ Gpu!Next     /\ UNCHANGED res

Spec == Init /\ [][Next]_vars

(***************************************************************************)
(* Properties                                                              *)
(***************************************************************************)
(* Type invariant: the files of every wrapper hold measurements of known   *)
(* sessions, and no loop passes its ->Iterations(n).                       *)
TypeOK ==
    /\ wrapper = "sock"    => Sock!TypeOK
    /\ wrapper = "ethr"    => Ethr!TypeOK
    /\ wrapper = "iperf"   => Iperf!TypeOK
    /\ wrapper = "cache"   => Cache!TypeOK
    /\ wrapper = "blake"   => Blake!TypeOK
    /\ wrapper = "compile" => Compile!TypeOK
    /\ wrapper = "fio"     => Fio!TypeOK
    /\ wrapper = "unigine" => Unigine!TypeOK
    /\ wrapper = "cray"    => Cray!TypeOK
    /\ wrapper = "ramsmp"  => Ram!TypeOK
    /\ wrapper = "gputest" => Gpu!TypeOK

(* The wrappers and functions that keep Measurement's promise, and those   *)
(* whose row can be an old one.                                            *)
Promising   == {"sock", "iperf", "cache", "blake", "cray"}
PromisingFn == {"INT", "FurMark", "TessMark"}
Outliving   == {"ethr", "compile", "fio"}

(* A file that every session truncates, or rewrites before it is read,     *)
(* publishes for sockperf, iperf, cachebench, BLAKE2 and c-ray exactly     *)
(* what Measurement promises, whatever was killed or failed before, and    *)
(* whatever tool of an earlier session still writes.                       *)
Promise == INSTANCE Measurement WITH
    session <- IF wrapper \in Promising THEN session ELSE 0,
    spell   <- IF wrapper \in Promising THEN spell ELSE [p \in Sessions |-> 0],
    undone  <- IF wrapper \in Promising THEN undone ELSE {},
    samples <- IF wrapper \in Promising THEN samples ELSE [p \in Sessions |-> << >>],
    row     <- IF wrapper \in Promising THEN row ELSE [p \in Sessions |-> Nothing]

KeepsPromise == Promise!Spec

(* The executables with two functions.  INTmem may abort the executable    *)
(* (bench.cpp:81), and both GpuTest functions read one log                 *)
(* (furmark_bench.cpp:29); each row of INTmem, FurMark and TessMark keeps  *)
(* the promise nevertheless.                                               *)
TwoFunctions == wrapper \in {"ramsmp", "gputest"}
Keeps(p) == TwoFunctions /\ fn[p] \in PromisingFn

FunctionPromise == INSTANCE Measurement WITH
    session <- IF TwoFunctions THEN session ELSE 0,
    spell   <- IF TwoFunctions THEN spell ELSE [p \in Sessions |-> 0],
    undone  <- IF TwoFunctions THEN undone \cap {p \in Sessions : Keeps(p)} ELSE {},
    samples <- [p \in Sessions |-> IF Keeps(p) THEN samples[p] ELSE << >>],
    row     <- [p \in Sessions |-> IF Keeps(p) THEN row[p] ELSE Nothing]

FunctionsKeepPromise == FunctionPromise!Spec

(* ethr, compilebench, fio and ramsmp's FLOATmem read a second file that a *)
(* failed script leaves alone: a session in which the script had something *)
(* to average nevertheless shows exactly its own measurements, if no other *)
(* session ran at the same time and the script ran to its end.             *)
FreshWhenMeasured ==
    \A p \in Sessions :
        (wrapper \in Outliving \/ (wrapper = "ramsmp" /\ fn[p] = "FLOAT")) => Fresh(p)

(* And when there was nothing to average, the old figure those four show   *)
(* is one of an earlier spell.  Tools and scripts that outlive their       *)
(* session may make two sessions share a mean, but never two spells.       *)
WholeOrOldFigure ==
    wrapper \in Outliving \cup {"ramsmp"} => \A p \in Sessions : WholeOrOld(p)

(* unigine.cpp reads its file from the beginning in every iteration: the   *)
(* mean of a session that runs alone counts its first value again and      *)
(* again, and nothing of an earlier spell is ever counted.                 *)
FirstValueRepeated == wrapper = "unigine" => Unigine!FirstValueRepeated
==============================================================================
