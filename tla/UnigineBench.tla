----------------------------- MODULE UnigineBench ----------------------------
(***************************************************************************)
(* unigine-heaven-4.0/unigine.cpp.  The output of every iteration is       *)
(* appended to unigine-result.txt, and every iteration reads the file from *)
(* its beginning and stops at the first line with "FPS:".  A run without   *)
(* a value adds 0.0 to the sum, which is divided by state.iterations().    *)
(***************************************************************************)
EXTENDS GBenchRun

VARIABLES
    unigineResult,  \* unigine-result.txt: its "FPS:" lines
    terms           \* the values each session has added to its sum_fps; a
                    \* 0.0 only lowers the mean

vars == <<runVars, unigineResult, terms>>

Init ==
    /\ RunInit
    /\ unigineResult = << >>
    /\ terms = [p \in Sessions |-> << >>]

(* Type invariant: unigine-result.txt holds values of known sessions, and  *)
(* no loop passes ->Iterations(n).                                         *)
TypeOK ==
    /\ RunTypeOK({"start", "loop", "read"})
    /\ unigineResult \in Seq(Sample)
    /\ terms \in [Sessions -> Seq(Sample)]

(* A faulty variant of ClearFile, to validate FirstValueRepeated: the file *)
(* is not truncated.                                                       *)
OpenAppend(p) == Goto(p, "start", "loop") /\ UNCHANGED <<unigineResult, terms>>

(* Opening with std::ofstream::trunc.                                      *)
ClearFile(p) == Goto(p, "start", "loop") /\ unigineResult' = << >> /\ UNCHANGED terms

(* One `heaven_x64 ... >> unigine-result.txt 2>&1`; its status is ignored. *)
RunHeaven(p) ==
    /\ \E ok \in BOOLEAN :
          /\ Produce(p, "loop", ok, "read")
          /\ unigineResult' = IF ok THEN Append(unigineResult, Current(p)) ELSE unigineResult
    /\ UNCHANGED terms

(* The first "FPS:" line of the file; 0.0 when there is none.              *)
FirstFPS == IF unigineResult = << >> THEN << >> ELSE <<unigineResult[1]>>

(* The value RunUnigineHeavenBenchmark() returns, added to sum_fps.        *)
ReadFPS(p) ==
    /\ NextIteration(p, "read")
    /\ terms' = [terms EXCEPT ![p] = @ \o FirstFPS]
    /\ UNCHANGED unigineResult

PublishFPS(p) ==
    /\ iter[p] = Iterations
    /\ Publish(p, "loop", IF terms[p] = << >> THEN NoData ELSE Mean(terms[p]))
    /\ UNCHANGED <<unigineResult, terms>>

Next ==
    \/ Launch("start") /\ UNCHANGED <<unigineResult, terms>>
    \/ \E p \in Sessions :
          \/ Kill(p) /\ UNCHANGED <<unigineResult, terms>>
          \/ ClearFile(p)
          \/ RunHeaven(p)
          \/ ReadFPS(p)
          \/ PublishFPS(p)

Spec == Init /\ [][Next]_vars

(***************************************************************************)
(* Properties                                                              *)
(***************************************************************************)
(* What the AvgFPS of a session that has its spell to itself stands for:   *)
(* from the session's first measured value on, every iteration counts that *)
(* one value again.  And nothing of an earlier spell is ever counted.      *)
FirstValueRepeated ==
    \A p \in Sessions : row[p].kind = "mean" =>
        /\ \A i \in DOMAIN row[p].of : spell[row[p].of[i][1]] = spell[p]
        /\ Alone(p) =>
              /\ samples[p] # << >>
              /\ \A i \in DOMAIN row[p].of : row[p].of[i] = samples[p][1]
              /\ Len(row[p].of) = Iterations + 1 - samples[p][1][2]
==============================================================================
