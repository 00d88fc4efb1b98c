----------------------------- MODULE BlakeBench ------------------------------
(***************************************************************************)
(* BLAKE2-20170307/blake_bench.cpp.  The one wrapper that averages in its  *)
(* own process: no script, no second file.                                 *)
(***************************************************************************)
EXTENDS GBenchRun

VARIABLE blakeOutput    \* blake_output.txt: its "#long" lines

vars == <<runVars, blakeOutput>>

Init == RunInit /\ blakeOutput = << >>

(* Type invariant: blake_output.txt holds measurements of known sessions,  *)
(* and no loop passes ->Iterations(n).                                     *)
TypeOK == RunTypeOK({"start", "loop", "parse"}) /\ blakeOutput \in Seq(Sample)

(* A faulty variant of ClearFile, to validate KeepsPromise: opening with   *)
(* std::ofstream::app.                                                     *)
OpenAppend(p) == Goto(p, "start", "loop") /\ UNCHANGED blakeOutput

(* Opening with std::ofstream::trunc.                                      *)
ClearFile(p) == Goto(p, "start", "loop") /\ blakeOutput' = << >>

(* One `sudo bench/blake2s >> blake_output.txt`; its status is ignored.    *)
RunBlake2s(p) ==
    \E ok \in BOOLEAN :
        /\ Iterate(p, ok)
        /\ blakeOutput' = IF ok THEN Append(blakeOutput, Current(p)) ELSE blakeOutput

EndLoop(p) == LoopEnds(p, "parse") /\ UNCHANGED blakeOutput

(* The mean of the matching lines; 0 when count is 0.                      *)
PublishPerByte(p) ==
    /\ Publish(p, "parse", IF blakeOutput = << >> THEN NoData ELSE Mean(blakeOutput))
    /\ UNCHANGED blakeOutput

Next ==
    \/ Launch("start") /\ UNCHANGED blakeOutput
    \/ \E p \in Sessions :
          \/ Kill(p) /\ UNCHANGED blakeOutput
          \/ ClearFile(p)
          \/ RunBlake2s(p)
          \/ EndLoop(p)
          \/ PublishPerByte(p)

Spec == Init /\ [][Next]_vars
==============================================================================
