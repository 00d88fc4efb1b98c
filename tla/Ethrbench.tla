------------------------------ MODULE Ethrbench ------------------------------
(***************************************************************************)
(* ethr-bench/ethrbench.cpp with its averaging script ethr-average.py.     *)
(* The client appends JSON lines to ethroutput.txt; the script writes      *)
(* ethres.txt only when it found a bandwidth, and is stopped by the first  *)
(* bandwidth whose suffix it does not know.  The wrapper reads ethres.txt  *)
(* whatever happened.  The server's life is in NetworkOption.              *)
(***************************************************************************)
EXTENDS GBenchRun

VARIABLES
    ethroutput,     \* ethroutput.txt: its TCP bandwidth lines
    ethres,         \* ethres.txt
    holds,          \* the bandwidths each session's script has read
    unreadable      \* the values ethr printed with a suffix the script does
                    \* not know: after the digits of BitsPerSecond it puts
                    \* K, M, G or nothing, the script knows "G" and nothing

files == <<ethroutput, ethres, holds>>
vars == <<runVars, files, unreadable>>

Init ==
    /\ RunInit
    /\ ethroutput = << >>
    /\ ethres = Nothing
    /\ holds = [p \in Sessions |-> << >>]
    /\ unreadable = {}

(* Type invariant: the two files of ethrbench.cpp hold measurements of     *)
(* known sessions, and no loop passes ->Iterations(n).                     *)
TypeOK ==
    /\ RunTypeOK({"start", "loop", "script", "open", "write", "read"})
    /\ ethroutput \in Seq(Sample)
    /\ ethres \in Figure
    /\ holds \in [Sessions -> Seq(Sample)]
    /\ unreadable \subseteq Sample

(* A faulty variant of ClearFileContents, to validate WholeOrOldFigure:    *)
(* the truncation is left out.                                             *)
ClearNothing(p) == Goto(p, "start", "loop") /\ UNCHANGED <<files, unreadable>>

(* clearFileContents("ethroutput.txt"), before the server is started;      *)
(* ethres.txt keeps what the last session left there.                      *)
ClearFileContents(p) ==
    /\ Goto(p, "start", "loop")
    /\ ethroutput' = << >>
    /\ UNCHANGED <<ethres, holds, unreadable>>

(* One `ethr -c localhost ... -o ethroutput.txt`; its status is ignored.   *)
RunEthrBenchmark(p) ==
    /\ \/ Iterate(p, FALSE) /\ UNCHANGED <<ethroutput, unreadable>>
       \/ /\ Iterate(p, TRUE)
          /\ ethroutput' = Append(ethroutput, Current(p))
          /\ unreadable' \in {unreadable, unreadable \cup {Current(p)}}
    /\ UNCHANGED <<ethres, holds>>

EndLoop(p) == LoopEnds(p, "script") /\ UNCHANGED <<files, unreadable>>

(* extract_bandwidth() raises a ValueError nobody catches on "234M": the   *)
(* script is cut short before it has written anything.                     *)
ScriptStops == \E i \in DOMAIN ethroutput : ethroutput[i] \in unreadable

(* A faulty variant of EthrAverageReads, to validate FreshWhenMeasured:    *)
(* the result is written only when there is none yet.                      *)
EthrAverageOnce(p) ==
    /\ ~ScriptStops
    /\ IF ethroutput = << >> \/ ethres # Nothing
       THEN ScriptEnds(p, "script") ELSE Goto(p, "script", "open")
    /\ holds' = [holds EXCEPT ![p] = ethroutput]
    /\ UNCHANGED <<ethroutput, ethres, unreadable>>

(* calculate_average_bandwidth(): no value, and ethres.txt is left alone.  *)
EthrAverageReads(p) ==
    /\ ~ScriptStops
    /\ IF ethroutput = << >> THEN ScriptEnds(p, "script") ELSE Goto(p, "script", "open")
    /\ holds' = [holds EXCEPT ![p] = ethroutput]
    /\ UNCHANGED <<ethroutput, ethres, unreadable>>

EthrAverageOpens(p) ==
    /\ Goto(p, "open", "write")
    /\ ethres' = Nothing
    /\ UNCHANGED <<ethroutput, holds, unreadable>>

EthrAverageWrites(p) ==
    /\ ScriptEnds(p, "write")
    /\ ethres' = Mean(holds[p])
    /\ holds' = [holds EXCEPT ![p] = << >>]
    /\ UNCHANGED <<ethroutput, unreadable>>

(* By a value it cannot read, or by anything else.                         *)
EthrAverageCutShort(p) == ScriptCutShort(p) /\ UNCHANGED <<files, unreadable>>

(* readAverageBandwidth(): 0.0 for an empty file.                          *)
ReadAverageBandwidth == IF ethres.kind = "mean" THEN ethres ELSE NoData

PublishBandwidth(p) ==
    Publish(p, "read", ReadAverageBandwidth) /\ UNCHANGED <<files, unreadable>>

Next ==
    \/ Launch("start") /\ UNCHANGED <<files, unreadable>>
    \/ \E p \in Sessions :
          \/ Kill(p) /\ UNCHANGED <<files, unreadable>>
          \/ ClearFileContents(p)
          \/ RunEthrBenchmark(p)
          \/ EndLoop(p)
          \/ EthrAverageReads(p)
          \/ EthrAverageOpens(p)
          \/ EthrAverageWrites(p)
          \/ EthrAverageCutShort(p)
          \/ PublishBandwidth(p)

Spec == Init /\ [][Next]_vars
==============================================================================
