----------------------------- MODULE FioWorkqueue -----------------------------
(***************************************************************************)
(* fio's workqueue.c, the thread pool behind io_submit_mode=offload and    *)
(* log compression: the thread that owns the queue and its workers.  What  *)
(* happens between a lock and its unlock is one step, except where the     *)
(* owner looks at one worker after the other; what the code reads without  *)
(* a lock is a step of its own.  A work is known by its number.            *)
(***************************************************************************)
EXTENDS Naturals, Sequences, FiniteSets

CONSTANTS
    MaxWorkers,     \* the number of workers asked for (iodepth)
    MaxWorks        \* bound on the works enqueued

ASSUME WorkersAssumption == MaxWorkers \in Nat \ {0}
ASSUME WorksAssumption == MaxWorks \in Nat

Workers == 0..(MaxWorkers - 1)

VARIABLES
    pc,             \* where the owner is
    idx,            \* the worker its loop is at
    target,         \* the worker chosen by get_submit_worker()
    running, error, \* the counts of workqueue_init()
    maxWorkers,     \* wq->max_workers: those that could be started
    workSeq,        \* wq->work_seq: works enqueued
    nextFree,       \* wq->next_free_worker
    wakeIdle,       \* wq->wake_idle
    wpc,            \* where each worker is
    flags,          \* sw->flags without SW_F_
    seq,            \* sw->seq
    workList,       \* sw->work_list
    local,          \* local_list of worker_thread()
    done,           \* works carried out and not yet accounted
    accounted       \* works accounted with the owner's totals

ownerVars == <<idx, target, running, error, maxWorkers>>
queueVars == <<workSeq, nextFree, wakeIdle>>
workVars == <<workList, local, done, accounted>>
vars == <<pc, ownerVars, queueVars, wpc, flags, seq, workVars>>

Init ==
    /\ pc = "start" /\ idx = 0 /\ target = 0
    /\ running = 0 /\ error = 0
    /\ maxWorkers = MaxWorkers
    /\ workSeq = 0 /\ nextFree = 0 /\ wakeIdle = FALSE
    /\ wpc = [w \in Workers |-> "none"]
    /\ flags = [w \in Workers |-> {}]
    /\ seq = [w \in Workers |-> 0]
    /\ workList = [w \in Workers |-> << >>]
    /\ local = [w \in Workers |-> << >>]
    /\ done = [w \in Workers |-> {}]
    /\ accounted = {}

-----------------------------------------------------------------------------
(* workqueue_init()                                                        *)

(* start_worker() creates the thread, or something in it fails: then the   *)
(* queue has the workers that were started before.                         *)
StartWorker ==
    /\ pc = "start"
    /\ \/ /\ pc' = "setIdle"
          /\ wpc' = [wpc EXCEPT ![idx] = "start"]
          /\ UNCHANGED <<idx, maxWorkers>>
       \/ /\ pc' = IF idx = 0 THEN "exitSet" ELSE "initCheck"
          /\ maxWorkers' = idx
          /\ idx' = 0
          /\ UNCHANGED wpc
    /\ UNCHANGED <<target, running, error, queueVars, flags, seq, workVars>>

(* start_worker() goes on after pthread_create(): the flags are assigned,  *)
(* whatever the new thread has put there by then.                          *)
SetIdle ==
    /\ pc = "setIdle"
    /\ flags' = [flags EXCEPT ![idx] = {"IDLE"}]
    /\ IF idx + 1 < MaxWorkers
       THEN pc' = "start" /\ idx' = idx + 1
       ELSE pc' = "initCheck" /\ idx' = 0
    /\ UNCHANGED <<target, running, error, maxWorkers, queueVars, wpc, seq, workVars>>

(* "Wait for them all to be started and initialized": one worker after the *)
(* other under its own lock, all under flush_lock.                         *)
InitCheck ==
    /\ pc = "initCheck"
    /\ idx < maxWorkers
    /\ running' = running + (IF "RUNNING" \in flags[idx] THEN 1 ELSE 0)
    /\ error' = error + (IF "ERROR" \in flags[idx] THEN 1 ELSE 0)
    /\ idx' = idx + 1
    /\ UNCHANGED <<pc, target, maxWorkers, queueVars, wpc, flags, seq, workVars>>

InitDecide ==
    /\ pc = "initCheck"
    /\ idx = maxWorkers
    /\ pc' = IF error > 0 THEN "exitSet"
             ELSE IF running = maxWorkers THEN "ready" ELSE "initWait"
    /\ idx' = 0 /\ running' = 0
    /\ UNCHANGED <<target, error, maxWorkers, queueVars, wpc, flags, seq, workVars>>

-----------------------------------------------------------------------------
(* workqueue_enqueue()                                                     *)

(* get_submit_worker() reads flags without a lock: it ends up with a worker*)
(* that is idle, or with the one whose last work is the oldest if each of  *)
(* them was busy when it was looked at.                                    *)
Candidates ==
    {w \in 0..(maxWorkers - 1) :
        "IDLE" \in flags[w] \/ \A v \in 0..(maxWorkers - 1) : seq[w] <= seq[v]}

GetSubmitWorker ==
    /\ pc = "ready"
    /\ workSeq < MaxWorks
    /\ \E w \in Candidates :
          /\ target' = w
          /\ nextFree' = IF w = nextFree THEN (IF w + 1 < maxWorkers THEN w + 1 ELSE 0)
                         ELSE nextFree
    /\ pc' = "enqueue"
    /\ UNCHANGED <<idx, running, error, maxWorkers, workSeq, wakeIdle, wpc, flags, seq, workVars>>

(* pthread_cond_signal(&sw->cond): nothing unless the worker is waiting.   *)
Signalled(w) == [wpc EXCEPT ![w] = IF @ = "wait" THEN "handle" ELSE @]

(* Mutant: the flag is left as it is.                                      *)
EnqueueLeavesIdle ==
    /\ pc = "enqueue"
    /\ workList' = [workList EXCEPT ![target] = Append(@, workSeq + 1)]
    /\ workSeq' = workSeq + 1
    /\ seq' = [seq EXCEPT ![target] = workSeq + 1]
    /\ wpc' = Signalled(target)
    /\ pc' = "ready"
    /\ UNCHANGED <<ownerVars, nextFree, wakeIdle, flags, local, done, accounted>>

(* Mutant: an idle worker is taken to be awake.                            *)
EnqueueWithoutSignal ==
    /\ pc = "enqueue"
    /\ workList' = [workList EXCEPT ![target] = Append(@, workSeq + 1)]
    /\ workSeq' = workSeq + 1
    /\ seq' = [seq EXCEPT ![target] = workSeq + 1]
    /\ flags' = [flags EXCEPT ![target] = @ \ {"IDLE"}]
    /\ pc' = "ready"
    /\ UNCHANGED <<ownerVars, nextFree, wakeIdle, wpc, local, done, accounted>>

Enqueue ==
    /\ pc = "enqueue"
    /\ workList' = [workList EXCEPT ![target] = Append(@, workSeq + 1)]
    /\ workSeq' = workSeq + 1
    /\ seq' = [seq EXCEPT ![target] = workSeq + 1]
    /\ flags' = [flags EXCEPT ![target] = @ \ {"IDLE"}]
    /\ wpc' = Signalled(target)
    /\ pc' = "ready"
    /\ UNCHANGED <<ownerVars, nextFree, wakeIdle, local, done, accounted>>

-----------------------------------------------------------------------------
(* workqueue_flush(), under flush_lock except while it waits               *)

Flush ==
    /\ pc = "ready"
    /\ pc' = "flushCheck" /\ idx' = 0
    /\ wakeIdle' = TRUE
    /\ UNCHANGED <<target, running, error, maxWorkers, workSeq, nextFree, wpc, flags, seq, workVars>>

(* all_sw_idle() looks at the flags one by one, without the worker's lock. *)
FlushCheck ==
    /\ pc = "flushCheck"
    /\ idx < maxWorkers
    /\ IF "IDLE" \in flags[idx]
       THEN idx' = idx + 1 /\ UNCHANGED pc
       ELSE idx' = 0 /\ pc' = "flushWait"
    /\ UNCHANGED <<target, running, error, maxWorkers, queueVars, wpc, flags, seq, workVars>>

FlushReturn ==
    /\ pc = "flushCheck"
    /\ idx = maxWorkers
    /\ pc' = "ready" /\ idx' = 0
    /\ wakeIdle' = FALSE
    /\ UNCHANGED <<target, running, error, maxWorkers, workSeq, nextFree, wpc, flags, seq, workVars>>

-----------------------------------------------------------------------------
(* workqueue_exit()                                                        *)

Exit ==
    /\ pc = "ready"
    /\ pc' = "exitSet" /\ idx' = 0
    /\ UNCHANGED <<target, running, error, maxWorkers, queueVars, wpc, flags, seq, workVars>>

(* Mutant: the workers that wait are not told.                             *)
ExitSetWithoutSignal ==
    /\ pc = "exitSet"
    /\ IF idx < maxWorkers
       THEN /\ flags' = [flags EXCEPT ![idx] = @ \cup {"EXIT"}]
            /\ idx' = idx + 1
            /\ UNCHANGED pc
       ELSE pc' = "exitJoin" /\ idx' = 0 /\ UNCHANGED flags
    /\ UNCHANGED <<target, running, error, maxWorkers, queueVars, wpc, seq, workVars>>

ExitSet ==
    /\ pc = "exitSet"
    /\ IF idx < maxWorkers
       THEN /\ flags' = [flags EXCEPT ![idx] = @ \cup {"EXIT"}]
            /\ wpc' = Signalled(idx)
            /\ idx' = idx + 1
            /\ UNCHANGED pc
       ELSE pc' = "exitJoin" /\ idx' = 0 /\ UNCHANGED <<flags, wpc>>
    /\ UNCHANGED <<target, running, error, maxWorkers, queueVars, seq, workVars>>

(* SW_F_ACCOUNTED, shutdown_worker(): pthread_join() and free_worker().    *)
ExitJoin ==
    /\ pc = "exitJoin"
    /\ IF idx < maxWorkers
       THEN /\ wpc[idx] = "done"
            /\ flags' = [flags EXCEPT ![idx] = @ \cup {"ACCOUNTED"}]
            /\ idx' = idx + 1
            /\ UNCHANGED pc
       ELSE pc' = "gone" /\ idx' = 0 /\ UNCHANGED flags
    /\ UNCHANGED <<target, running, error, maxWorkers, queueVars, wpc, seq, workVars>>

-----------------------------------------------------------------------------
(* worker_thread()                                                         *)

(* flush_lock is only ever held for more than a step by the owner.         *)
FlushLockFree == pc \notin {"initCheck", "flushCheck"}

(* nice() and init_worker_fn() may fail.                                   *)
InitWorker(w) ==
    /\ wpc[w] = "start"
    /\ wpc' = [wpc EXCEPT ![w] = "initialised"]
    /\ \/ flags' = [flags EXCEPT ![w] = @ \cup {"RUNNING"}]
       \/ flags' = [flags EXCEPT ![w] = @ \cup {"RUNNING", "ERROR"}]
    /\ UNCHANGED <<pc, ownerVars, queueVars, seq, workVars>>

Announce(w) ==
    /\ wpc[w] = "initialised"
    /\ FlushLockFree
    /\ wpc' = [wpc EXCEPT ![w] = "checkError"]
    /\ pc' = IF pc = "initWait" THEN "initCheck" ELSE pc
    /\ UNCHANGED <<ownerVars, queueVars, flags, seq, workVars>>

(* SW_F_ERROR is read without the lock.                                    *)
CheckError(w) ==
    /\ wpc[w] = "checkError"
    /\ wpc' = [wpc EXCEPT ![w] = IF "ERROR" \in flags[w] THEN "done" ELSE "loop"]
    /\ UNCHANGED <<pc, ownerVars, queueVars, flags, seq, workVars>>

(* The loop holds sw->lock from its head on, drops it to sleep on pending  *)
(* I/O ("slept") and to tell the flusher ("told"), and looks at the list   *)
(* again each time it has it back.                                         *)
HasLock(w) == wpc[w] \in {"loop", "slept", "told"}

(* Mutant: the works stay in the list (flist_splice without _init).        *)
TakeWorkAgain(w) ==
    /\ HasLock(w)
    /\ workList[w] # << >>
    /\ local' = [local EXCEPT ![w] = workList[w]]
    /\ wpc' = [wpc EXCEPT ![w] = "handle"]
    /\ UNCHANGED <<pc, ownerVars, queueVars, flags, seq, workList, done, accounted>>

TakeWork(w) ==
    /\ HasLock(w)
    /\ workList[w] # << >>
    /\ local' = [local EXCEPT ![w] = workList[w]]
    /\ workList' = [workList EXCEPT ![w] = << >>]
    /\ wpc' = [wpc EXCEPT ![w] = "handle"]
    /\ UNCHANGED <<pc, ownerVars, queueVars, flags, seq, done, accounted>>

Leave(w) ==
    /\ HasLock(w)
    /\ workList[w] = << >> /\ "EXIT" \in flags[w]
    /\ wpc' = [wpc EXCEPT ![w] = "done"]
    /\ UNCHANGED <<pc, ownerVars, queueVars, flags, seq, workVars>>

Idle(w) == workList[w] = << >> /\ "EXIT" \notin flags[w]

(* workqueue_pre_sleep_check(): I/O is pending; io_u_quiesce() reaps it.   *)
PreSleep(w) ==
    /\ wpc[w] = "loop"
    /\ Idle(w)
    /\ wpc' = [wpc EXCEPT ![w] = "slept"]
    /\ UNCHANGED <<pc, ownerVars, queueVars, flags, seq, workVars>>

GoIdle(w) ==
    /\ wpc[w] \in {"loop", "slept"}
    /\ Idle(w)
    /\ "IDLE" \notin flags[w]
    /\ flags' = [flags EXCEPT ![w] = @ \cup {"IDLE"}]
    /\ nextFree' = w
    /\ wpc' = [wpc EXCEPT ![w] = "tell"]
    /\ UNCHANGED <<pc, ownerVars, workSeq, wakeIdle, seq, workVars>>

(* Mutant: the flusher is told only of the next time it asks.              *)
TellFlusherLate(w) ==
    /\ wpc[w] = "tell"
    /\ FlushLockFree
    /\ wpc' = [wpc EXCEPT ![w] = "told"]
    /\ UNCHANGED <<pc, ownerVars, queueVars, flags, seq, workVars>>

TellFlusher(w) ==
    /\ wpc[w] = "tell"
    /\ FlushLockFree
    /\ wpc' = [wpc EXCEPT ![w] = "told"]
    /\ pc' = IF wakeIdle /\ pc = "flushWait" THEN "flushCheck" ELSE pc
    /\ UNCHANGED <<ownerVars, queueVars, flags, seq, workVars>>

Sleep(w) ==
    /\ \/ wpc[w] \in {"loop", "slept"} /\ "IDLE" \in flags[w]
       \/ wpc[w] = "told"
    /\ Idle(w)
    /\ wpc' = [wpc EXCEPT ![w] = "wait"]
    /\ UNCHANGED <<pc, ownerVars, queueVars, flags, seq, workVars>>

(* handle_list() and update_acct_fn()                                      *)
Handle(w) ==
    /\ wpc[w] = "handle"
    /\ local[w] # << >>
    /\ done' = [done EXCEPT ![w] = @ \cup {Head(local[w])}]
    /\ local' = [local EXCEPT ![w] = Tail(@)]
    /\ UNCHANGED <<pc, ownerVars, queueVars, wpc, flags, seq, workList, accounted>>

UpdateAcct(w) ==
    /\ wpc[w] = "handle"
    /\ local[w] = << >>
    /\ accounted' = accounted \cup done[w]
    /\ done' = [done EXCEPT ![w] = {}]
    /\ wpc' = [wpc EXCEPT ![w] = "loop"]
    /\ UNCHANGED <<pc, ownerVars, queueVars, flags, seq, workList, local>>

(* pthread_cond_wait() may return without a signal, in a worker or in the  *)
(* owner.                                                                  *)
SpuriousWakeup ==
    /\ \/ /\ \E w \in Workers : wpc[w] = "wait" /\ wpc' = [wpc EXCEPT ![w] = "handle"]
          /\ UNCHANGED pc
       \/ /\ pc = "initWait" /\ pc' = "initCheck"
          /\ UNCHANGED wpc
       \/ /\ pc = "flushWait" /\ pc' = "flushCheck"
          /\ UNCHANGED wpc
    /\ UNCHANGED <<ownerVars, queueVars, flags, seq, workVars>>

-----------------------------------------------------------------------------
(* What the owner does once it is in a call, and what it may call.         *)
OwnerStep ==
    \/ StartWorker \/ SetIdle \/ InitCheck \/ InitDecide
    \/ Enqueue \/ FlushCheck \/ FlushReturn \/ ExitSet \/ ExitJoin
OwnerCall == GetSubmitWorker \/ Flush \/ Exit
WorkerStep(w) ==
    \/ InitWorker(w) \/ Announce(w) \/ CheckError(w)
    \/ TakeWork(w) \/ Leave(w) \/ PreSleep(w) \/ GoIdle(w) \/ TellFlusher(w) \/ Sleep(w)
    \/ Handle(w) \/ UpdateAcct(w)

Next == OwnerStep \/ OwnerCall \/ SpuriousWakeup \/ \E w \in Workers : WorkerStep(w)

Spec == Init /\ [][Next]_vars
(* Threads run on, and a mutex that is free again and again is obtained.   *)
FairSpec ==
    /\ Spec
    /\ WF_vars(OwnerStep)
    /\ \A w \in Workers : WF_vars(WorkerStep(w)) /\ SF_vars(Announce(w) \/ TellFlusher(w))


(***************************************************************************)
(* Properties                                                              *)
(***************************************************************************)
Flags == {"IDLE", "RUNNING", "EXIT", "ACCOUNTED", "ERROR"}
Initialising == {"start", "setIdle", "initCheck", "initWait"}
Flushing == {"flushCheck", "flushWait"}
Exiting == {"exitSet", "exitJoin"}

OwnerPlaces == Initialising \cup Flushing \cup Exiting \cup {"ready", "enqueue", "gone"}
WorkerPlaces == {"none", "start", "initialised", "checkError", "loop", "slept",
                 "tell", "told", "wait", "handle", "done"}
Types ==
    /\ pc \in OwnerPlaces
    /\ idx \in 0..MaxWorkers /\ target \in Workers
    /\ running \in Nat /\ error \in Nat
    /\ maxWorkers \in 0..MaxWorkers
    /\ workSeq \in Nat /\ nextFree \in Workers /\ wakeIdle \in BOOLEAN
    /\ wpc \in [Workers -> WorkerPlaces]
    /\ flags \in [Workers -> SUBSET Flags]
    /\ seq \in [Workers -> Nat]
    /\ workList \in [Workers -> Seq(Nat)] /\ local \in [Workers -> Seq(Nat)]
    /\ done \in [Workers -> SUBSET Nat] /\ accounted \in SUBSET Nat

(* Type invariant, with the assertions of get_submit_worker() and          *)
(* workqueue_enqueue(): there is a worker at next_free_worker, and one is  *)
(* found.                                                                  *)
TypeOK ==
    /\ Types
    /\ pc \in {"ready", "enqueue"} => nextFree < maxWorkers /\ target < maxWorkers

Elements(s) == {s[i] : i \in 1..Len(s)}

(* Each work is in exactly one place: in a worker's list, taken by a       *)
(* worker, carried out, or accounted; none is carried out twice.           *)
Copies(n) ==
    LET in(f) == Cardinality({p \in Workers \X (1..MaxWorks) :
                                p[2] <= Len(f[p[1]]) /\ f[p[1]][p[2]] = n})
    IN  in(workList) + in(local) + Cardinality({w \in Workers : n \in done[w]})
          + (IF n \in accounted THEN 1 ELSE 0)
CarriedOutOnce == \A n \in 1..MaxWorks : Copies(n) = IF n <= workSeq THEN 1 ELSE 0

(* workqueue_flush() trusts a flag it reads without a lock: a worker whose *)
(* flag is up has nothing to do and nothing left to account.               *)
IdleMeansNothingToDo ==
    \A w \in Workers : "IDLE" \in flags[w] =>
        workList[w] = << >> /\ local[w] = << >> /\ done[w] = {}

(* Nobody sleeps through what it waits for: a worker in its                *)
(* pthread_cond_wait() has neither works nor SW_F_EXIT, and while the      *)
(* flusher waits, a worker is still busy or on its way to tell it.         *)
NoWakeupLost ==
    /\ \A w \in Workers : wpc[w] = "wait" => Idle(w)
    /\ pc = "flushWait" =>
          \E w \in 0..(maxWorkers - 1) : "IDLE" \notin flags[w] \/ wpc[w] = "tell"

(* The queue does what WorkQueue says: flush and exit return only when     *)
(* every work enqueued before is carried out and in the owner's totals.    *)
Phase ==
    CASE pc \in Initialising -> "initialising"
      [] pc \in {"ready", "enqueue"} -> "open"
      [] pc \in Flushing -> "flushing"
      [] pc \in Exiting -> "exiting"
      [] pc = "gone" -> "gone"
Abstract == INSTANCE WorkQueue WITH phase <- Phase, enqueued <- workSeq, finished <- accounted
ImplementsWorkQueue == Abstract!Spec

(* The calls that wait return: a flush, no wakeup of the flusher being     *)
(* lost between its look at a worker's flag and its wait; and              *)
(* workqueue_exit(), every worker seeing SW_F_EXIT, also one that was      *)
(* about to wait or whose initialisation failed.                           *)
CallsReturn ==
    /\ pc \in Flushing ~> pc = "ready"
    /\ pc \in Exiting ~> pc = "gone"

(* A work is carried out also if the owner never flushes.                  *)
WorksAreHandled == \A n \in 1..MaxWorks : workSeq >= n ~> n \in accounted

(* "Wait for them all to be started and initialized": workqueue_init()     *)
(* returns, successful or not.                                             *)
InitReturns == <>(pc \notin Initialising)
===============================================================================
