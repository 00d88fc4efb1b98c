---------------------------- MODULE Sockperfbench ----------------------------
(***************************************************************************)
(* sockperf-3.7/sockperfbench.cpp with its averaging script sock-avg.py.   *)
(* Every iteration appends the client's output to sockout.txt; the script  *)
(* turns sockout.txt into sockres.txt; the wrapper reads sockres.txt back. *)
(* The server's life is in NetworkOption.                                  *)
(***************************************************************************)
EXTENDS GBenchRun

VARIABLES
    sockout,        \* sockout.txt: its "avg-latency=" lines
    sockres,        \* sockres.txt
    holds           \* the latencies each session's script has read

files == <<sockout, sockres, holds>>
vars == <<runVars, files>>

Init ==
    /\ RunInit
    /\ sockout = << >>
    /\ sockres = Nothing
    /\ holds = [p \in Sessions |-> << >>]

(* Type invariant: the two files of sockperfbench.cpp hold measurements of *)
(* known sessions, and no loop passes ->Iterations(n).                     *)
TypeOK ==
    /\ RunTypeOK({"start", "loop", "script", "open", "write", "read"})
    /\ sockout \in Seq(Sample)
    /\ sockres \in Figure
    /\ holds \in [Sessions -> Seq(Sample)]

(* A faulty variant of ClearFileContents, to validate KeepsPromise: the    *)
(* truncation is left out.                                                 *)
ClearNothing(p) == Goto(p, "start", "loop") /\ UNCHANGED files

(* clearFileContents(), after the server has been started.                 *)
ClearFileContents(p) ==
    /\ Goto(p, "start", "loop")
    /\ sockout' = << >>
    /\ UNCHANGED <<sockres, holds>>

(* One `sockperf under-load ... >> sockout.txt`; its status is ignored.    *)
RunSockperfLatencyTest(p) ==
    /\ \E ok \in BOOLEAN :
          /\ Iterate(p, ok)
          /\ sockout' = IF ok THEN Append(sockout, Current(p)) ELSE sockout
    /\ UNCHANGED <<sockres, holds>>

EndLoop(p) == LoopEnds(p, "script") /\ UNCHANGED files

(* sock-avg.py: it reads the latency lines ...                             *)
SockAvgReads(p) ==
    /\ Goto(p, "script", "open")
    /\ holds' = [holds EXCEPT ![p] = sockout]
    /\ UNCHANGED <<sockout, sockres>>

(* ... opens sockres.txt in either branch with 'w' ...                     *)
SockAvgOpens(p) ==
    /\ Goto(p, "open", "write")
    /\ sockres' = Nothing
    /\ UNCHANGED <<sockout, holds>>

(* ... and writes their mean, or a text when there are none.               *)
SockAvgWrites(p) ==
    /\ ScriptEnds(p, "write")
    /\ sockres' = IF holds[p] = << >> THEN NoData ELSE Mean(holds[p])
    /\ holds' = [holds EXCEPT ![p] = << >>]
    /\ UNCHANGED sockout

SockAvgCutShort(p) == ScriptCutShort(p) /\ UNCHANGED files

(* readAveragelatency(): the first number in sockres.txt, 0 if no word is  *)
(* one, -1 if there is no line; then the counter is set.                   *)
ReadAveragelatency == IF sockres.kind = "mean" THEN sockres ELSE NoData

PublishLatency(p) == Publish(p, "read", ReadAveragelatency) /\ UNCHANGED files

Next ==
    \/ Launch("start") /\ UNCHANGED files
    \/ \E p \in Sessions :
          \/ Kill(p) /\ UNCHANGED files
          \/ ClearFileContents(p)
          \/ RunSockperfLatencyTest(p)
          \/ EndLoop(p)
          \/ SockAvgReads(p)
          \/ SockAvgOpens(p)
          \/ SockAvgWrites(p)
          \/ SockAvgCutShort(p)
          \/ PublishLatency(p)

Spec == Init /\ [][Next]_vars
==============================================================================
