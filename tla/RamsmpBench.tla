---------------------------- MODULE RamsmpBench ------------------------------
(***************************************************************************)
(* ramsmp-3.5.0/bench.cpp with its scripts average.py and avg.py: two      *)
(* benchmark functions in one executable, INTmem and then FLOATmem.        *)
(* They differ where their scripts differ: average.py always rewrites      *)
(* result.txt, with a sentence when it found nothing, and std::stod of its *)
(* last word then throws out of main; avg.py reports the exception and     *)
(* leaves res.txt alone.  extractAverage() only feeds two sums nobody      *)
(* reads.                                                                  *)
(***************************************************************************)
EXTENDS GBenchRun

Functions == {"INT", "FLOAT"}

VARIABLES
    bench,          \* the function each session runs; "none" before it
    output,         \* output.txt (INT), out.txt (FLOAT): AVERAGE lines
    result,         \* result.txt (INT), res.txt (FLOAT)
    holds           \* the averages each session's script has read

files == <<output, result, holds>>
vars == <<runVars, bench, files>>

Init ==
    /\ RunInit
    /\ bench = [p \in Sessions |-> "none"]
    /\ output = [f \in Functions |-> << >>]
    /\ result = [f \in Functions |-> Nothing]
    /\ holds = [p \in Sessions |-> << >>]

(* Type invariant: the four files of bench.cpp hold measurements of known  *)
(* sessions, and no loop passes ->Iterations(n).                           *)
TypeOK ==
    /\ RunTypeOK({"start", "loop", "script", "open", "write", "read", "between"})
    /\ bench \in [Sessions -> {"none"} \cup Functions]
    /\ output \in [Functions -> Seq(Sample)]
    /\ result \in [Functions -> Figure]
    /\ holds \in [Sessions -> Seq(Sample)]

Main ==
    /\ Launch("start")
    /\ bench' = [bench EXCEPT ![session'] = "INT"]
    /\ UNCHANGED files

(* A faulty variant of ClearFile, to validate WholeOrOldFigure: FLOATmem   *)
(* appends to what the last session left in out.txt.                       *)
ClearIntOnly(p) ==
    /\ Goto(p, "start", "loop")
    /\ output' = IF bench[p] = "INT" THEN [output EXCEPT !["INT"] = << >>] ELSE output
    /\ UNCHANGED <<bench, result, holds>>

(* std::ofstream clearFile(averageValuesPath).                             *)
ClearFile(p) ==
    /\ Goto(p, "start", "loop")
    /\ output' = [output EXCEPT ![bench[p]] = << >>]
    /\ UNCHANGED <<bench, result, holds>>

(* One `ramsmp -b 3 >> output.txt` or `ramsmp -b 6 >> out.txt`.            *)
RunRamsmp(p) ==
    /\ \E ok \in BOOLEAN :
          /\ Iterate(p, ok)
          /\ output' = IF ok THEN [output EXCEPT ![bench[p]] = Append(@, Current(p))]
                             ELSE output
    /\ UNCHANGED <<bench, result, holds>>

EndLoop(p) == LoopEnds(p, "script") /\ UNCHANGED <<bench, files>>

(* A faulty variant of AveragePyReads, to validate FunctionsKeepPromise:   *)
(* it leaves result.txt alone when there is nothing to average, as avg.py  *)
(* does.                                                                   *)
AveragePySilent(p) ==
    /\ bench[p] = "INT"
    /\ IF output["INT"] = << >> THEN ScriptEnds(p, "script") ELSE Goto(p, "script", "open")
    /\ holds' = [holds EXCEPT ![p] = output["INT"]]
    /\ UNCHANGED <<bench, output, result>>

(* average.py: "No average values found!" is a result like any other.      *)
AveragePyReads(p) ==
    /\ bench[p] = "INT"
    /\ Goto(p, "script", "open")
    /\ holds' = [holds EXCEPT ![p] = output["INT"]]
    /\ UNCHANGED <<bench, output, result>>

(* A faulty variant of AvgPyReads, to validate FreshWhenMeasured: the      *)
(* result is written only when there is none yet.                          *)
AvgPyOnce(p) ==
    /\ bench[p] = "FLOAT"
    /\ IF output["FLOAT"] = << >> \/ result["FLOAT"] # Nothing
       THEN ScriptEnds(p, "script") ELSE Goto(p, "script", "open")
    /\ holds' = [holds EXCEPT ![p] = output["FLOAT"]]
    /\ UNCHANGED <<bench, output, result>>

(* avg.py: the exception for "no lines" skips write_result_to_file().      *)
AvgPyReads(p) ==
    /\ bench[p] = "FLOAT"
    /\ IF output["FLOAT"] = << >> THEN ScriptEnds(p, "script") ELSE Goto(p, "script", "open")
    /\ holds' = [holds EXCEPT ![p] = output["FLOAT"]]
    /\ UNCHANGED <<bench, output, result>>

(* write_to_file() and write_result_to_file().                             *)
ScriptOpens(p) ==
    /\ Goto(p, "open", "write")
    /\ result' = [result EXCEPT ![bench[p]] = Nothing]
    /\ UNCHANGED <<bench, output, holds>>

ScriptWrites(p) ==
    /\ ScriptEnds(p, "write")
    /\ result' = [result EXCEPT ![bench[p]] =
                     IF holds[p] = << >> THEN NoData ELSE Mean(holds[p])]
    /\ holds' = [holds EXCEPT ![p] = << >>]
    /\ UNCHANGED <<bench, output>>

ScriptFails(p) == ScriptCutShort(p) /\ UNCHANGED <<bench, files>>

(* The INT counter, -1 for an empty file; the row is printed and FLOATmem  *)
(* follows.                                                                *)
PublishInt(p) ==
    /\ bench[p] = "INT"
    /\ result["INT"].kind # "nodata"
    /\ PublishFirst(p, "read", IF result["INT"] = Nothing THEN NoData ELSE result["INT"])
    /\ UNCHANGED <<bench, files>>

(* std::stod("found!") throws std::invalid_argument: the process aborts.   *)
AbortInt(p) ==
    /\ bench[p] = "INT"
    /\ result["INT"].kind = "nodata"
    /\ Goto(p, "read", "idle")
    /\ UNCHANGED <<bench, files>>

StartFloat(p) ==
    /\ StartSecond(p, "start")
    /\ bench' = [bench EXCEPT ![session'] = "FLOAT"]
    /\ UNCHANGED files

(* The FLOAT counter: -1 only while res.txt is empty.                      *)
PublishFloat(p) ==
    /\ bench[p] = "FLOAT"
    /\ Publish(p, "read", IF result["FLOAT"].kind = "mean" THEN result["FLOAT"] ELSE NoData)
    /\ UNCHANGED <<bench, files>>

Next ==
    \/ Main
    \/ \E p \in Sessions :
          \/ Kill(p) /\ UNCHANGED <<bench, files>>
          \/ ClearFile(p)
          \/ RunRamsmp(p)
          \/ EndLoop(p)
          \/ AveragePyReads(p)
          \/ AvgPyReads(p)
          \/ ScriptOpens(p)
          \/ ScriptWrites(p)
          \/ ScriptFails(p)
          \/ PublishInt(p)
          \/ AbortInt(p)
          \/ StartFloat(p)
          \/ PublishFloat(p)

Spec == Init /\ [][Next]_vars
==============================================================================
