---------------------------- MODULE CompileBench -----------------------------
(***************************************************************************)
(* compilebench-0.6/compile.cpp.  The mean goes through a second file,     *)
(* compile-output.txt, which is rewritten only when a run was found in     *)
(* compile-result.txt and read back in any case.                           *)
(***************************************************************************)
EXTENDS GBenchRun

VARIABLES
    compileResult,  \* compile-result.txt: its "compile total runs" lines
    compileOutput,  \* compile-output.txt
    holds           \* the averages each session has added up in totalAvg

files == <<compileResult, compileOutput, holds>>
vars == <<runVars, files>>

(* compile_bench.sh creates compile-output.txt; the executable started by  *)
(* hand in a fresh checkout does not find it.                              *)
Missing == [kind |-> "missing", of |-> << >>]

Init ==
    /\ RunInit
    /\ compileResult = << >>
    /\ compileOutput \in {Missing, Nothing}
    /\ holds = [p \in Sessions |-> << >>]

(* Type invariant: the two files of compile.cpp hold measurements of known *)
(* sessions, and no loop passes ->Iterations(n).                           *)
TypeOK ==
    /\ RunTypeOK({"start", "loop", "parse", "open", "write", "read"})
    /\ compileResult \in Seq(Sample)
    /\ compileOutput \in Figure \cup {Missing}
    /\ holds \in [Sessions -> Seq(Sample)]

(* A faulty variant of ClearFile, to validate WholeOrOldFigure: opening    *)
(* with std::ofstream::app.                                                *)
OpenAppend(p) == Goto(p, "start", "loop") /\ UNCHANGED files

(* Opening compile-result.txt with std::ofstream::trunc.                   *)
ClearFile(p) ==
    /\ Goto(p, "start", "loop")
    /\ compileResult' = << >>
    /\ UNCHANGED <<compileOutput, holds>>

(* runCompilebench(): the output is appended; its status is ignored.       *)
RunCompilebench(p) ==
    /\ \E ok \in BOOLEAN :
          /\ Iterate(p, ok)
          /\ compileResult' = IF ok THEN Append(compileResult, Current(p)) ELSE compileResult
    /\ UNCHANGED <<compileOutput, holds>>

EndLoop(p) == LoopEnds(p, "parse") /\ UNCHANGED files

(* compile-result.txt cannot be opened (it could not be created either).   *)
ResultFileFails(p) == Publish(p, "parse", Error) /\ UNCHANGED files

(* A faulty variant of OverallAverage, to validate FreshWhenMeasured: the  *)
(* file is written only when there is none yet.                            *)
OverallAverageOnce(p) ==
    /\ Goto(p, "parse", IF compileResult = << >> \/ compileOutput.kind = "mean"
                        THEN "read" ELSE "open")
    /\ holds' = [holds EXCEPT ![p] = compileResult]
    /\ UNCHANGED <<compileResult, compileOutput>>

(* The loop over the lines, and if (count > 0).                            *)
OverallAverage(p) ==
    /\ Goto(p, "parse", IF compileResult = << >> THEN "read" ELSE "open")
    /\ holds' = [holds EXCEPT ![p] = compileResult]
    /\ UNCHANGED <<compileResult, compileOutput>>

(* std::ofstream output("compile-output.txt") ...                          *)
OpenOutput(p) ==
    /\ Goto(p, "open", "write")
    /\ compileOutput' = Nothing
    /\ UNCHANGED <<compileResult, holds>>

(* ... output << totalAvg, in the file when it is closed.                  *)
WriteOutput(p) ==
    /\ Goto(p, "write", "read")
    /\ compileOutput' = Mean(holds[p])
    /\ holds' = [holds EXCEPT ![p] = << >>]
    /\ UNCHANGED compileResult

(* Whatever compile-output.txt holds: an ERROR row if it is missing; and   *)
(* when it is empty, outputFile >> avgFromOutputFile does not assign the   *)
(* variable, which has no initial value.                                   *)
ReadOutputFile ==
    CASE compileOutput = Missing       -> Error
      [] compileOutput.kind = "mean"   -> compileOutput
      [] OTHER                         -> Garbage

PublishCompile(p) == Publish(p, "read", ReadOutputFile) /\ UNCHANGED files

Next ==
    \/ Launch("start") /\ UNCHANGED files
    \/ \E p \in Sessions :
          \/ Kill(p) /\ UNCHANGED files
          \/ ClearFile(p)
          \/ RunCompilebench(p)
          \/ EndLoop(p)
          \/ ResultFileFails(p)
          \/ OverallAverage(p)
          \/ OpenOutput(p)
          \/ WriteOutput(p)
          \/ PublishCompile(p)

Spec == Init /\ [][Next]_vars
==============================================================================
