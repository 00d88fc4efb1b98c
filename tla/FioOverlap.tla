------------------------------ MODULE FioOverlap ------------------------------
(***************************************************************************)
(* serialize_overlap of fio with io_submit_mode=offload and jobs that are  *)
(* threads of one process: before a worker submits an I/O it looks for one *)
(* in flight that overlaps it, job after job, under the mutex              *)
(* overlap_check.  td_io_queue() gives the mutex back once the I/O carries *)
(* IO_U_F_FLIGHT; the flag is taken off without it.  A job takes the mutex *)
(* before it frees its I/Os, but not where it gives up waiting for the     *)
(* semaphore of the statistics.  A failed assertion, and an access to      *)
(* memory that is gone, end the process.                                   *)
(***************************************************************************)
EXTENDS Naturals

CONSTANTS
    NumJobs,        \* the jobs, in the order of for_each_td
    Workers,        \* the workers of all jobs: each has one I/O at a time
    JobOf,          \* the job of a worker
    RampJobs,       \* the jobs with a ramp_time
    Size,           \* the I/Os lie between 0 and this offset
    MaxIos,         \* bound on the I/Os
    Free            \* the mutex is not held

ASSUME JobsAssumption == NumJobs \in Nat /\ JobOf \in [Workers -> 1..NumJobs]
ASSUME RampAssumption == RampJobs \subseteq 1..NumJobs
ASSUME SizeAssumption == Size \in Nat
ASSUME IosAssumption == MaxIos \in Nat
ASSUME MutexAssumption == Workers \cap (1..NumJobs) = {} /\ Free \notin Workers \cup (1..NumJobs)

Jobs == 1..NumJobs
(* An I/O goes from its offset to offset + buflen.                         *)
Ranges == {r \in (0..Size) \X (0..Size) : r[1] < r[2]}

VARIABLES
    runstate,       \* of a job, as far as check_overlap() tells its states apart
    freed,          \* the jobs that have freed their I/Os
    forced,         \* the jobs that were "forcibly exiting"
    wpc,            \* where a worker is in io_workqueue_fn()
    at,             \* the job for_each_td is at
    range,          \* the I/O a worker has, or had last
    flight,         \* the workers whose I/O carries IO_U_F_FLIGHT
    inRamp,         \* those whose I/O got the flag while their job was in its ramp time
    ios,            \* I/Os enqueued
    mutex,          \* who holds overlap_check
    aborted         \* the process has died

jobVars == <<runstate, freed, forced>>
workerVars == <<wpc, at, range, flight, inRamp, ios>>
vars == <<jobVars, workerVars, mutex, aborted>>

Init ==
    /\ runstate = [j \in Jobs |-> "settingUp"]
    /\ freed = {} /\ forced = {}
    /\ wpc = [w \in Workers |-> "idle"]
    /\ at = [w \in Workers |-> 1]
    /\ range = [w \in Workers |-> <<0, 0>>]
    /\ flight = {} /\ inRamp = {}
    /\ ios = 0
    /\ mutex = Free
    /\ aborted = FALSE

Goto(w, place) == wpc' = [wpc EXCEPT ![w] = place]

-----------------------------------------------------------------------------
(* check_overlap()                                                         *)

(* do_io() has enqueued an I/O of the job and the worker takes it up.      *)
TakeIo(w) ==
    /\ wpc[w] = "idle"
    /\ runstate[JobOf[w]] \in {"ramp", "running"} /\ JobOf[w] \notin freed
    /\ ios < MaxIos
    /\ ios' = ios + 1
    /\ \E r \in Ranges : range' = [range EXCEPT ![w] = r]
    /\ Goto(w, "lock")
    /\ UNCHANGED <<jobVars, at, flight, inRamp, mutex, aborted>>

(* Mutant: the loop goes on where it found the overlap.                    *)
LockKeepsPlace(w) ==
    /\ wpc[w] = "lock"
    /\ mutex = Free
    /\ mutex' = w
    /\ Goto(w, "next")
    /\ UNCHANGED <<jobVars, at, range, flight, inRamp, ios, aborted>>

Lock(w) ==
    /\ wpc[w] = "lock"
    /\ mutex = Free
    /\ mutex' = w
    /\ at' = [at EXCEPT ![w] = 1]
    /\ Goto(w, "next")
    /\ UNCHANGED <<jobVars, range, flight, inRamp, ios, aborted>>

(* TD_RAMP comes before TD_SETTING_UP in the enumeration, and              *)
(* runstate <= TD_SETTING_UP || runstate >= TD_FINISHING is passed over.   *)
PassedOver(j) == runstate[j] # "running"

NextJob(w) ==
    /\ wpc[w] = "next"
    /\ at[w] <= NumJobs
    /\ IF PassedOver(at[w])
       THEN at' = [at EXCEPT ![w] = @ + 1] /\ UNCHANGED wpc
       ELSE Goto(w, "scan") /\ UNCHANGED at
    /\ UNCHANGED <<jobVars, range, flight, inRamp, ios, mutex, aborted>>

Overlap(r, s) == r[1] < s[2] /\ s[1] < r[2]

(* in_flight_overlap() reads the flags of the job's I/Os.                  *)
InFlightOverlap(w) == \E v \in flight : JobOf[v] = at[w] /\ Overlap(range[v], range[w])

(* Where they are freed it may see anything, or be the end of the process. *)
Scan(w) ==
    /\ wpc[w] = "scan"
    /\ \/ /\ InFlightOverlap(w) \/ at[w] \in freed
          /\ mutex' = Free /\ Goto(w, "lock")
          /\ UNCHANGED <<at, aborted>>
       \/ /\ ~InFlightOverlap(w)
          /\ at' = [at EXCEPT ![w] = @ + 1] /\ Goto(w, "next")
          /\ UNCHANGED <<mutex, aborted>>
       \/ /\ at[w] \in freed
          /\ aborted' = TRUE
          /\ UNCHANGED <<wpc, at, mutex>>
    /\ UNCHANGED <<jobVars, range, flight, inRamp, ios>>

-----------------------------------------------------------------------------
(* td_io_queue() and the loop around it                                    *)

SetFlight(w) ==
    /\ flight' = flight \cup {w}
    /\ inRamp' = IF runstate[JobOf[w]] = "ramp" THEN inRamp \cup {w} ELSE inRamp \ {w}
    /\ Goto(w, "unlock")
    /\ UNCHANGED <<jobVars, at, range, ios, mutex, aborted>>

Queue(w) ==
    /\ wpc[w] = "next"
    /\ at[w] > NumJobs
    /\ SetFlight(w)

(* Mutant: td_offload_overlap() is false of a worker.                      *)
UnlockNever(w) ==
    /\ wpc[w] = "unlock"
    /\ Goto(w, "submit")
    /\ UNCHANGED <<jobVars, at, range, flight, inRamp, ios, mutex, aborted>>

(* The mutex checks its owner: assert(res == 0).                           *)
Unlock(w) ==
    /\ wpc[w] = "unlock"
    /\ IF mutex = w
       THEN mutex' = Free /\ Goto(w, "submit") /\ UNCHANGED aborted
       ELSE aborted' = TRUE /\ UNCHANGED <<mutex, wpc>>
    /\ UNCHANGED <<jobVars, at, range, flight, inRamp, ios>>

(* io_ops->queue(): the device has the I/O, or FIO_Q_BUSY.                 *)
Submit(w) ==
    /\ wpc[w] = "submit"
    /\ Goto(w, "device")
    /\ UNCHANGED <<jobVars, at, range, flight, inRamp, ios, mutex, aborted>>

(* Mutant: the flag stays on over FIO_Q_BUSY.                              *)
SubmitBusyFlagged(w) ==
    /\ wpc[w] = "submit"
    /\ Goto(w, "busy")
    /\ UNCHANGED <<jobVars, at, range, flight, inRamp, ios, mutex, aborted>>

SubmitBusy(w) ==
    /\ wpc[w] = "submit"
    /\ flight' = flight \ {w}
    /\ Goto(w, "busy")
    /\ UNCHANGED <<jobVars, at, range, inRamp, ios, mutex, aborted>>

(* After FIO_Q_BUSY: another td_io_queue(), without another check, or      *)
(* io_u_queued_complete() fails and the I/O is given up.                   *)
QueueAgain(w) ==
    /\ wpc[w] = "busy"
    /\ SetFlight(w)

GiveUp(w) ==
    /\ wpc[w] = "busy"
    /\ Goto(w, "idle")
    /\ UNCHANGED <<jobVars, at, range, flight, inRamp, ios, mutex, aborted>>

(* The device is done; io_completed() takes the flag off afterwards.       *)
DeviceDone(w) ==
    /\ wpc[w] = "device"
    /\ Goto(w, "reaped")
    /\ UNCHANGED <<jobVars, at, range, flight, inRamp, ios, mutex, aborted>>

Completed(w) ==
    /\ wpc[w] = "reaped"
    /\ flight' = flight \ {w}
    /\ Goto(w, "idle")
    /\ UNCHANGED <<jobVars, at, range, inRamp, ios, mutex, aborted>>

-----------------------------------------------------------------------------
(* thread_main() of a job                                                  *)

StartJob(j) ==
    /\ runstate[j] = "settingUp"
    /\ runstate' = [runstate EXCEPT ![j] = IF j \in RampJobs THEN "ramp" ELSE "running"]
    /\ UNCHANGED <<freed, forced, workerVars, mutex, aborted>>

RampIsOver(j) ==
    /\ runstate[j] = "ramp" /\ j \notin freed
    /\ runstate' = [runstate EXCEPT ![j] = "running"]
    /\ UNCHANGED <<freed, forced, workerVars, mutex, aborted>>

(* workqueue_flush() at the end of do_io() has returned.                   *)
Flushed(j) ==
    /\ runstate[j] \in {"ramp", "running"} /\ j \notin freed
    /\ \A w \in Workers : JobOf[w] = j => wpc[w] = "idle"

(* end_fsync, fsync_on_close: fio_io_sync() calls td_io_queue() too.       *)
EndFsync(j) ==
    /\ Flushed(j)
    /\ mutex # j
    /\ aborted' = TRUE
    /\ UNCHANGED <<jobVars, workerVars, mutex>>

(* "fio seems to be stuck grabbing stat_sem, forcibly exiting": goto err,  *)
(* where cleanup_io_u() frees the I/Os, without the mutex and with the     *)
(* runstate as it is.                                                      *)
ForcedExit(j) ==
    /\ Flushed(j)
    /\ freed' = freed \cup {j}
    /\ forced' = forced \cup {j}
    /\ UNCHANGED <<runstate, workerVars, mutex, aborted>>

(* Mutant: the job finishes without the mutex.                             *)
LockToFinishNot(j) ==
    /\ Flushed(j)
    /\ runstate' = [runstate EXCEPT ![j] = "finishing"]
    /\ UNCHANGED <<freed, forced, workerVars, mutex, aborted>>

LockToFinish(j) ==
    /\ Flushed(j)
    /\ mutex = Free
    /\ mutex' = j
    /\ runstate' = [runstate EXCEPT ![j] = "finishing"]
    /\ UNCHANGED <<freed, forced, workerVars, aborted>>

UnlockFinished(j) ==
    /\ mutex = j
    /\ mutex' = Free
    /\ UNCHANGED <<jobVars, workerVars, aborted>>

(* cleanup_io_u() on the way everybody else takes.                         *)
Cleanup(j) ==
    /\ runstate[j] = "finishing"
    /\ mutex # j
    /\ j \notin freed
    /\ freed' = freed \cup {j}
    /\ UNCHANGED <<runstate, forced, workerVars, mutex, aborted>>

(* td_set_runstate(td, TD_EXITED).                                         *)
Exit(j) ==
    /\ j \in freed /\ runstate[j] # "exited"
    /\ runstate' = [runstate EXCEPT ![j] = "exited"]
    /\ UNCHANGED <<freed, forced, workerVars, mutex, aborted>>

-----------------------------------------------------------------------------
CheckStep(w) == Lock(w) \/ NextJob(w) \/ Scan(w) \/ Queue(w) \/ Unlock(w)
IoStep(w) ==
    Submit(w) \/ SubmitBusy(w) \/ QueueAgain(w) \/ GiveUp(w) \/ DeviceDone(w) \/ Completed(w)
JobStep(j) ==
    \/ StartJob(j) \/ RampIsOver(j) \/ EndFsync(j)
    \/ LockToFinish(j) \/ UnlockFinished(j) \/ Cleanup(j) \/ ForcedExit(j) \/ Exit(j)

Next ==
    /\ ~aborted
    /\ \/ \E w \in Workers : TakeIo(w) \/ CheckStep(w) \/ IoStep(w)
       \/ \E j \in Jobs : JobStep(j)

Spec == Init /\ [][Next]_vars
(* Threads run on and devices finish what they have.  The mutex needs no   *)
(* fairness of its own, the I/Os being finite.  A job that exits does so:  *)
(* until then its freed I/Os may look like overlapping ones for ever.      *)
FairSpec ==
    /\ Spec
    /\ \A w \in Workers : WF_vars(~aborted /\ CheckStep(w)) /\ WF_vars(~aborted /\ IoStep(w))
    /\ \A j \in Jobs : WF_vars(~aborted /\ UnlockFinished(j)) /\ WF_vars(~aborted /\ Exit(j))

(***************************************************************************)
(* Properties                                                              *)
(***************************************************************************)
WorkerPlaces == {"idle", "lock", "next", "scan", "unlock", "submit", "busy", "device", "reaped"}

(* Type invariant: in particular for_each_td stays among the jobs.         *)
TypeOK ==
    /\ runstate \in [Jobs -> {"settingUp", "ramp", "running", "finishing", "exited"}]
    /\ freed \subseteq Jobs /\ forced \subseteq Jobs
    /\ wpc \in [Workers -> WorkerPlaces]
    /\ at \in [Workers -> 1..(NumJobs + 1)]
    /\ range \in [Workers -> (0..Size) \X (0..Size)]
    /\ flight \subseteq Workers /\ inRamp \subseteq Workers
    /\ ios \in 0..MaxIos
    /\ mutex \in Workers \cup Jobs \cup {Free}
    /\ aborted \in BOOLEAN

OverlapAtDevice(v, w) ==
    v # w /\ wpc[v] = "device" /\ wpc[w] = "device" /\ Overlap(range[v], range[w])

(* "Allow only one thread to check for overlap at a time to prevent two    *)
(* threads from thinking the coast is clear": the device never has two     *)
(* overlapping I/Os, unless one of them was issued in a ramp time.         *)
SerializedAfterRamp ==
    \A v, w \in Workers : OverlapAtDevice(v, w) => v \in inRamp \/ w \in inRamp

(* "fio will check for overlap among all I/Os submitted by offload jobs    *)
(* with serialize_overlap enabled": the device never has two of them that  *)
(* overlap, whatever their jobs are at.                                    *)
Serialized == \A v, w \in Workers : ~OverlapAtDevice(v, w)

(* "so that we don't clean up this job while another thread is checking    *)
(* its io_u's for overlap": the I/Os that are looked at still exist.       *)
NothingFreedIsChecked == \A w \in Workers : wpc[w] = "scan" => at[w] \notin freed

(* What the mutex, taken only to change the runstate and given back before *)
(* the I/Os are freed, does achieve: the I/Os that are looked at exist,    *)
(* unless their job was forcibly exited.                                   *)
OnlyForcedIsCheckedFreed ==
    \A w \in Workers : wpc[w] = "scan" /\ at[w] \in freed => at[w] \in forced

(* An I/O that waits for the check, or is in it, is never one that a check *)
(* waits for, its own included: so no circle of I/Os, each waiting for the *)
(* next one, can come about, however many jobs look for each other's.      *)
NoWaiterIsWaitedFor ==
    \A w \in Workers : wpc[w] \in {"lock", "next", "scan"} => w \notin flight

(* An I/O that has to wait for others is submitted in the end: workers     *)
(* that look for each other's I/Os do not wait for each other.             *)
IosAreSubmitted == \A w \in Workers : wpc[w] = "lock" ~> wpc[w] = "submit" \/ aborted
===============================================================================
