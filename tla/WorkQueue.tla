------------------------------- MODULE WorkQueue -------------------------------
(***************************************************************************)
(* What fio's workqueue.c promises to the thread that owns a queue, which  *)
(* workers there are and which of them does what being left out: a work    *)
(* that was enqueued is carried out once, workqueue_flush() returns only   *)
(* when nothing is left, and so does workqueue_exit().                     *)
(***************************************************************************)
EXTENDS Naturals

VARIABLES
    phase,      \* what the owner is doing
    enqueued,   \* how many works were enqueued; they are numbered from 1
    finished    \* those that were carried out and accounted

vars == <<phase, enqueued, finished>>

Init == phase = "initialising" /\ enqueued = 0 /\ finished = {}

(* workqueue_init() returns, or gives up and tears the queue down.         *)
Initialised ==
    /\ phase = "initialising"
    /\ phase' \in {"open", "exiting"}
    /\ UNCHANGED <<enqueued, finished>>

Enqueue ==
    /\ phase = "open"
    /\ enqueued' = enqueued + 1
    /\ UNCHANGED <<phase, finished>>

(* Workers finish some of the works they have not finished yet.            *)
Finish ==
    /\ finished' \in SUBSET (1..enqueued)
    /\ finished \subseteq finished'
    /\ UNCHANGED <<phase, enqueued>>

Call ==
    /\ phase = "open"
    /\ phase' \in {"flushing", "exiting"}
    /\ UNCHANGED <<enqueued, finished>>

(* workqueue_flush() or workqueue_exit() returns.                          *)
Return ==
    /\ phase \in {"flushing", "exiting"}
    /\ finished = 1..enqueued
    /\ phase' = IF phase = "flushing" THEN "open" ELSE "gone"
    /\ UNCHANGED <<enqueued, finished>>

Next == Initialised \/ Enqueue \/ Finish \/ Call \/ Return

Spec == Init /\ [][Next]_vars
===============================================================================
