-------------------------- MODULE WrapFioBenchmark ---------------------------
(***************************************************************************)
(* fio-3.35/WrapFioBenchmark.cpp with PhoronixFio1.py; fio-sync/ holds the *)
(* same program and script under another benchmark name.                   *)
(*                                                                         *)
(* `if (iterationCount = 1)` assigns, so both conditions are always true;  *)
(* BM_WrapFio runs once in a process, so the file is cleared once, before  *)
(* the loop.  The script fails (statistics.mean of an empty list) when no  *)
(* run has a "Run status" section, and does not run at all when sudo       *)
(* fails; the wrapper says so and reads average_values.txt all the same.   *)
(***************************************************************************)
EXTENDS GBenchRun

VARIABLES
    runStatus,      \* run_status_output.txt: its READ and WRITE lines
    averageValues,  \* average_values.txt
    holds           \* the bandwidths each session's script has read

files == <<runStatus, averageValues, holds>>
vars == <<runVars, files>>

Init ==
    /\ RunInit
    /\ runStatus = << >>
    /\ averageValues = Nothing
    /\ holds = [p \in Sessions |-> << >>]

(* Type invariant: the two files of WrapFioBenchmark.cpp hold measurements *)
(* of known sessions, and no loop passes ->Iterations(n).                  *)
TypeOK ==
    /\ RunTypeOK({"start", "loop", "script", "open", "write", "read"})
    /\ runStatus \in Seq(Sample)
    /\ averageValues \in Figure
    /\ holds \in [Sessions -> Seq(Sample)]

(* A faulty variant of ClearFile, to validate WholeOrOldFigure: the first  *)
(* condition is meant as a comparison, and false.                          *)
ClearSkipped(p) == Goto(p, "start", "loop") /\ UNCHANGED files

(* run_status_output.txt is opened with std::ios::out.                     *)
ClearFile(p) ==
    /\ Goto(p, "start", "loop")
    /\ runStatus' = << >>
    /\ UNCHANGED <<averageValues, holds>>

(* One `fio mytest.fio`, read through a pipe: a fio that outlives its      *)
(* wrapper leaves nothing behind.  Only an output with a "Run status       *)
(* group" section is appended, by the wrapper.                             *)
ExecFio(p) ==
    /\ \/ Iterate(p, FALSE) /\ UNCHANGED runStatus
       \/ Iterate(p, TRUE) /\ runStatus' = Append(runStatus, Current(p))
    /\ UNCHANGED <<averageValues, holds>>

EndLoop(p) == LoopEnds(p, "script") /\ UNCHANGED files

(* A faulty variant of PhoronixFio1Reads, to validate FreshWhenMeasured:   *)
(* the result is written only when there is none yet.                      *)
PhoronixFio1Once(p) ==
    /\ IF runStatus = << >> \/ averageValues # Nothing
       THEN ScriptEnds(p, "script") ELSE Goto(p, "script", "open")
    /\ holds' = [holds EXCEPT ![p] = runStatus]
    /\ UNCHANGED <<runStatus, averageValues>>

(* PhoronixFio1.py: StatisticsError before anything is written, or both    *)
(* means.                                                                  *)
PhoronixFio1Reads(p) ==
    /\ IF runStatus = << >> THEN ScriptEnds(p, "script") ELSE Goto(p, "script", "open")
    /\ holds' = [holds EXCEPT ![p] = runStatus]
    /\ UNCHANGED <<runStatus, averageValues>>

PhoronixFio1Opens(p) ==
    /\ Goto(p, "open", "write")
    /\ averageValues' = Nothing
    /\ UNCHANGED <<runStatus, holds>>

PhoronixFio1Writes(p) ==
    /\ ScriptEnds(p, "write")
    /\ averageValues' = Mean(holds[p])
    /\ holds' = [holds EXCEPT ![p] = << >>]
    /\ UNCHANGED runStatus

(* `sudo python3 PhoronixFio1.py` that is refused, or interrupted.         *)
PhoronixFio1CutShort(p) == ScriptCutShort(p) /\ UNCHANGED files

(* inFile >> average_read >> average_write: 0 and 0 for an empty file.     *)
ReadAverages == IF averageValues.kind = "mean" THEN averageValues ELSE NoData

PublishFio(p) == Publish(p, "read", ReadAverages) /\ UNCHANGED files

Next ==
    \/ Launch("start") /\ UNCHANGED files
    \/ \E p \in Sessions :
          \/ Kill(p) /\ UNCHANGED files
          \/ ClearFile(p)
          \/ ExecFio(p)
          \/ EndLoop(p)
          \/ PhoronixFio1Reads(p)
          \/ PhoronixFio1Opens(p)
          \/ PhoronixFio1Writes(p)
          \/ PhoronixFio1CutShort(p)
          \/ PublishFio(p)

Spec == Init /\ [][Next]_vars
==============================================================================
