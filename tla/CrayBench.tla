------------------------------ MODULE CrayBench ------------------------------
(***************************************************************************)
(* c-ray-1.1/cray_bench.cpp.  No averaging: ->Iterations(1), the shell     *)
(* truncates c-ray-result.txt with `>` at each start of c-ray-mt, and an   *)
(* output without a rendering time becomes an ERROR row.                   *)
(***************************************************************************)
EXTENDS GBenchRun   \* instantiated with Iterations <- 1

VARIABLES
    crayResult,     \* c-ray-result.txt: its "Rendering took:" line, if any
    counter         \* each state.counters, or Error after SkipWithError

vars == <<runVars, crayResult, counter>>

Init ==
    /\ RunInit
    /\ crayResult = << >>
    /\ counter = [p \in Sessions |-> Nothing]

(* Type invariant: c-ray-result.txt and the counter hold times of known    *)
(* sessions, and no loop passes ->Iterations(1).                           *)
TypeOK ==
    /\ RunTypeOK({"loop", "render", "parse", "return"})
    /\ crayResult \in Seq(Sample)
    /\ counter \in [Sessions -> Figure]

(* GetNumCPUThreads() failed: RunCRayBenchmark() returns before c-ray-mt   *)
(* is started.                                                             *)
NoThreadCount(p) ==
    /\ Iterate(p, FALSE)
    /\ counter' = [counter EXCEPT ![p] = Error]
    /\ UNCHANGED crayResult

(* A faulty variant of OpenResult, to validate KeepsPromise: `>` without   *)
(* its effect.                                                             *)
OpenNoTruncate(p) ==
    Goto(p, "loop", "render") /\ iter[p] < Iterations /\ UNCHANGED <<crayResult, counter>>

(* The shell opens c-ray-result.txt with `>` before c-ray-mt runs.         *)
OpenResult(p) ==
    /\ Goto(p, "loop", "render")
    /\ iter[p] < Iterations
    /\ crayResult' = << >>
    /\ UNCHANGED counter

(* c-ray-mt writes its rendering time, or fails before it.  Every c-ray-mt *)
(* writes it right after its version line, at the same place of the file:  *)
(* the last one to write is the one that is read.                          *)
Render(p) ==
    /\ \E ok \in BOOLEAN :
          /\ Produce(p, "render", ok, "parse")
          /\ crayResult' = IF ok THEN <<Current(p)>> ELSE crayResult
    /\ UNCHANGED counter

(* The first rendering time of the file, or SkipWithError.                 *)
Parse(p) ==
    /\ NextIteration(p, "parse")
    /\ counter' = [counter EXCEPT ![p] =
                      IF crayResult = << >> THEN Error ELSE Mean(<<crayResult[1]>>)]
    /\ UNCHANGED crayResult

EndLoop(p) == LoopEnds(p, "return") /\ UNCHANGED <<crayResult, counter>>

PublishTime(p) == Publish(p, "return", counter[p]) /\ UNCHANGED <<crayResult, counter>>

Next ==
    \/ Launch("loop") /\ UNCHANGED <<crayResult, counter>>
    \/ \E p \in Sessions :
          \/ Kill(p) /\ UNCHANGED <<crayResult, counter>>
          \/ NoThreadCount(p)
          \/ OpenResult(p)
          \/ Render(p)
          \/ Parse(p)
          \/ EndLoop(p)
          \/ PublishTime(p)

Spec == Init /\ [][Next]_vars
==============================================================================
