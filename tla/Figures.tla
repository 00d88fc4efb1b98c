------------------------------- MODULE Figures --------------------------------
(***************************************************************************)
(* What a result file and a row of a wrapper's table can hold.             *)
(*                                                                         *)
(* A measured value is identified by where it comes from, the pair         *)
(* <<session, iteration>>, and a mean by the sequence of values it was     *)
(* computed from: what the properties of the wrappers are about is WHICH   *)
(* measurements a published figure stands for, never its digits.           *)
(***************************************************************************)
EXTENDS Naturals, Sequences

CONSTANTS
    Iterations,     \* the n of ->Iterations(n)
    MaxSessions,    \* bound on the number of sessions
    MaxRuns         \* bound on the number of runs of the executable

ASSUME IterationsAssumption  == Iterations \in Nat \ {0}
ASSUME MaxSessionsAssumption == MaxSessions \in Nat \ {0}
ASSUME MaxRunsAssumption     == MaxRuns \in Nat

Sessions == 1..MaxSessions
Sample   == Sessions \X (1..Iterations)

Nothing  == [kind |-> "nothing", of |-> << >>]   \* empty file; no row yet
NoData   == [kind |-> "nodata",  of |-> << >>]   \* a text without a number; 0 or -1
Garbage  == [kind |-> "garbage", of |-> << >>]   \* a variable nobody assigned
Error    == [kind |-> "error",   of |-> << >>]   \* the row of SkipWithError
Mean(s)  == [kind |-> "mean",    of |-> s]
Figure   == [kind : {"nothing", "nodata", "garbage", "error", "mean"}, of : Seq(Sample)]
===============================================================================
