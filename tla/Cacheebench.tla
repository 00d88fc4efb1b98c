----------------------------- MODULE Cacheebench -----------------------------
(***************************************************************************)
(* llcbench/cachebench/cacheebench.cpp with average-cache.py.  Like        *)
(* sockperfbench, in that the file it reads back is rewritten even when    *)
(* there is nothing to report ("No MB/sec data found.").                   *)
(***************************************************************************)
EXTENDS GBenchRun

VARIABLES
    cacheoutput,    \* cacheoutput.txt: one entry for each run's table
    cacheresults,   \* cacheresults.txt
    holds           \* the values each session's script has read

files == <<cacheoutput, cacheresults, holds>>
vars == <<runVars, files>>

Init ==
    /\ RunInit
    /\ cacheoutput = << >>
    /\ cacheresults = Nothing
    /\ holds = [p \in Sessions |-> << >>]

(* Type invariant: the two files of cacheebench.cpp hold measurements of   *)
(* known sessions, and no loop passes ->Iterations(n).                     *)
TypeOK ==
    /\ RunTypeOK({"start", "loop", "script", "open", "write", "read"})
    /\ cacheoutput \in Seq(Sample)
    /\ cacheresults \in Figure
    /\ holds \in [Sessions -> Seq(Sample)]

(* std::ofstream clearFile("cacheoutput.txt").                             *)
ClearFile(p) ==
    /\ Goto(p, "start", "loop")
    /\ cacheoutput' = << >>
    /\ UNCHANGED <<cacheresults, holds>>

(* One `cachebench ... >> cacheoutput.txt 2>&1`; its status is ignored.    *)
RunCachebench(p) ==
    /\ \E ok \in BOOLEAN :
          /\ Iterate(p, ok)
          /\ cacheoutput' = IF ok THEN Append(cacheoutput, Current(p)) ELSE cacheoutput
    /\ UNCHANGED <<cacheresults, holds>>

EndLoop(p) == LoopEnds(p, "script") /\ UNCHANGED files

(* A faulty variant of AverageCachePyReads, to validate KeepsPromise: the  *)
(* script is done when there is nothing to average.                        *)
AverageCachePySilent(p) ==
    /\ IF cacheoutput = << >> THEN ScriptEnds(p, "script") ELSE Goto(p, "script", "open")
    /\ holds' = [holds EXCEPT ![p] = cacheoutput]
    /\ UNCHANGED <<cacheoutput, cacheresults>>

(* average-cache.py: extract_mb_sec_values() ...                           *)
AverageCachePyReads(p) ==
    /\ Goto(p, "script", "open")
    /\ holds' = [holds EXCEPT ![p] = cacheoutput]
    /\ UNCHANGED <<cacheoutput, cacheresults>>

(* ... and write_to_file() of the mean or of a text.                       *)
AverageCachePyOpens(p) ==
    /\ Goto(p, "open", "write")
    /\ cacheresults' = Nothing
    /\ UNCHANGED <<cacheoutput, holds>>

AverageCachePyWrites(p) ==
    /\ ScriptEnds(p, "write")
    /\ cacheresults' = IF holds[p] = << >> THEN NoData ELSE Mean(holds[p])
    /\ holds' = [holds EXCEPT ![p] = << >>]
    /\ UNCHANGED cacheoutput

AverageCachePyCutShort(p) == ScriptCutShort(p) /\ UNCHANGED files

(* readAverageFromFile(): -1.0 when the fourth word is not a number.       *)
ReadAverageFromFile == IF cacheresults.kind = "mean" THEN cacheresults ELSE NoData

PublishCache(p) == Publish(p, "read", ReadAverageFromFile) /\ UNCHANGED files

Next ==
    \/ Launch("start") /\ UNCHANGED files
    \/ \E p \in Sessions :
          \/ Kill(p) /\ UNCHANGED files
          \/ ClearFile(p)
          \/ RunCachebench(p)
          \/ EndLoop(p)
          \/ AverageCachePyReads(p)
          \/ AverageCachePyOpens(p)
          \/ AverageCachePyWrites(p)
          \/ AverageCachePyCutShort(p)
          \/ PublishCache(p)

Spec == Init /\ [][Next]_vars
==============================================================================
