---------------------------- MODULE FurmarkBench -----------------------------
(***************************************************************************)
(* GpuTest_Linux_x64_0.7.0/furmark_bench.cpp: FurMark and then TessMark,   *)
(* each with its own result file.  GpuTest (not in source form) writes one *)
(* log for both modules, anew at each of its starts; the wrapper copies    *)
(* the module's first score from that log to the result file, but only     *)
(* after a script that returned 0.                                         *)
(***************************************************************************)
EXTENDS GBenchRun

Modules == {"FurMark", "TessMark"}

VARIABLES
    module,         \* the function each session runs; "none" before it
    res,            \* furmark_res.txt and tessmark_res.txt
    log,            \* _geeks3d_gputest_log.txt: its score lines
    score           \* the score each session has found, to be appended

vars == <<runVars, module, res, log, score>>

Score == [module : Modules, of : Sample]

Init ==
    /\ RunInit
    /\ module = [p \in Sessions |-> "none"]
    /\ res = [m \in Modules |-> << >>]
    /\ log = << >>
    /\ score = [p \in Sessions |-> << >>]

(* Type invariant: result files and log hold scores of known sessions, and *)
(* no loop passes ->Iterations(n).                                         *)
TypeOK ==
    /\ RunTypeOK({"start", "loop", "run", "copy", "append", "between"})
    /\ module \in [Sessions -> {"none"} \cup Modules]
    /\ res \in [Modules -> Seq(Sample)]
    /\ log \in Seq(Score)
    /\ score \in [Sessions -> Seq(Sample)]

Main ==
    /\ Launch("start")
    /\ module' = [module EXCEPT ![session'] = "FurMark"]
    /\ UNCHANGED <<res, log, score>>

(* ClearResultsFile() of the function's own file.                          *)
ClearResultsFile(p) ==
    /\ Goto(p, "start", "loop")
    /\ res' = [res EXCEPT ![module[p]] = << >>]
    /\ UNCHANGED <<module, log, score>>

(* A faulty variant of ScriptFails, to validate FunctionsKeepPromise: its  *)
(* status is ignored, as the other wrappers do.                            *)
ScriptStatusIgnored(p) ==
    /\ iter[p] < Iterations
    /\ Goto(p, "loop", "copy")
    /\ UNCHANGED <<module, res, log, score>>

(* The script fails before GpuTest has emptied its log: nothing is copied. *)
ScriptFails(p) ==
    /\ Iterate(p, FALSE)
    /\ UNCHANGED <<module, res, log, score>>

StartGpuTest(p) ==
    /\ iter[p] < Iterations
    /\ Goto(p, "loop", "run")
    /\ log' = << >>
    /\ UNCHANGED <<module, res, score>>

LogScore(p) == log' = Append(log, [module |-> module[p], of |-> Current(p)])

(* The script returns 0, with or without a score in the log.               *)
ScriptSucceeds(p) ==
    /\ \E scored \in BOOLEAN :
          /\ Produce(p, "run", scored, "copy")
          /\ IF scored THEN LogScore(p) ELSE UNCHANGED log
    /\ UNCHANGED <<module, res, score>>

(* GpuTest fails, the status of its script: nothing is copied either, not  *)
(* even a score it has written.                                            *)
GpuTestFails(p) ==
    /\ NextIteration(p, "run")
    /\ LogScore(p) \/ UNCHANGED log
    /\ UNCHANGED <<module, res, score>>

(* The scores the function's regular expression matches.                   *)
Matches(m) == {i \in DOMAIN log : log[i].module = m}

(* The rest of RunAndAppendBenchmark(): the first match ...                *)
FindScore(p) ==
    /\ Goto(p, "copy", "append")
    /\ score' = [score EXCEPT ![p] =
          LET matches == Matches(module[p])
          IN  IF matches = {} THEN << >>
              ELSE <<log[CHOOSE i \in matches : \A j \in matches : i <= j].of>>]
    /\ UNCHANGED <<module, res, log>>

(* ... is appended.                                                        *)
CopyScore(p) ==
    /\ NextIteration(p, "append")
    /\ res' = [res EXCEPT ![module[p]] = @ \o score[p]]
    /\ score' = [score EXCEPT ![p] = << >>]
    /\ UNCHANGED <<module, log>>

(* CalculateAverageScore(): 0.0 without a score.                           *)
CalculateAverageScore(m) == IF res[m] = << >> THEN NoData ELSE Mean(res[m])

PublishFurMark(p) ==
    /\ module[p] = "FurMark"
    /\ iter[p] = Iterations
    /\ PublishFirst(p, "loop", CalculateAverageScore("FurMark"))
    /\ UNCHANGED <<module, res, log, score>>

StartTessMark(p) ==
    /\ StartSecond(p, "start")
    /\ module' = [module EXCEPT ![session'] = "TessMark"]
    /\ UNCHANGED <<res, log, score>>

PublishTessMark(p) ==
    /\ module[p] = "TessMark"
    /\ iter[p] = Iterations
    /\ Publish(p, "loop", CalculateAverageScore("TessMark"))
    /\ UNCHANGED <<module, res, log, score>>

Next ==
    \/ Main
    \/ \E p \in Sessions :
          \/ Kill(p) /\ UNCHANGED <<module, res, log, score>>
          \/ ClearResultsFile(p)
          \/ ScriptFails(p)
          \/ StartGpuTest(p)
          \/ ScriptSucceeds(p)
          \/ GpuTestFails(p)
          \/ FindScore(p)
          \/ CopyScore(p)
          \/ PublishFurMark(p)
          \/ StartTessMark(p)
          \/ PublishTessMark(p)

Spec == Init /\ [][Next]_vars
==============================================================================
