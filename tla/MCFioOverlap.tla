----------------------------- MODULE MCFioOverlap -----------------------------
(* Two jobs for FioOverlap: the first has two workers, the second has one. *)
EXTENDS FioOverlap
CONSTANTS w1, w2, w3
MCJobOf == [w \in {w1, w2, w3} |-> IF w = w3 THEN 2 ELSE 1]
===============================================================================
