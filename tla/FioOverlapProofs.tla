--------------------------- MODULE FioOverlapProofs ---------------------------
(***************************************************************************)
(* serialize_overlap in offload mode, for every number of jobs, workers    *)
(* and I/Os and every size: no two overlapping I/Os are at the device      *)
(* after ramp_time, no worker looks at I/Os that were freed by a job that  *)
(* was not forcibly exited, and no I/O that has to wait is waited for.     *)
(***************************************************************************)
EXTENDS FioOverlap, TLAPS

(* Who holds the mutex and where it is.                                    *)
MutexInv ==
    /\ \A w \in Workers : wpc[w] \in {"next", "scan"} => mutex = w
    /\ \A w \in Workers : mutex = w => wpc[w] \in {"next", "scan", "unlock"}
    /\ \A j \in Jobs : mutex = j => runstate[j] = "finishing" /\ j \notin freed

FlightInv ==
    \A w \in Workers : w \in flight => wpc[w] \in {"unlock", "submit", "device", "reaped"}
OutIsFlagged ==
    \A w \in Workers : wpc[w] \in {"unlock", "submit", "device", "reaped"} => w \in flight

(* A job that has not begun or has ended has no I/O, and the I/Os of one   *)
(* that is in its ramp time were issued in it.                             *)
JobInv ==
    \A w \in Workers :
        /\ runstate[JobOf[w]] \notin {"ramp", "running"} \/ JobOf[w] \in freed => wpc[w] = "idle"
        /\ runstate[JobOf[w]] = "ramp" /\ w \in flight => w \in inRamp

(* A job that the check looks at while it is not running was forcibly      *)
(* exited, and one that has freed its I/Os was so or is finishing.         *)
ScanInv ==
    \A w \in Workers :
        wpc[w] = "scan" => at[w] \in Jobs /\ (runstate[at[w]] = "running" \/ at[w] \in forced)
FreedInv == \A j \in freed : j \in forced \/ runstate[j] \in {"finishing", "exited"}

(* The I/Os that went through the check, from the flag to the device.      *)
Out(w) == wpc[w] \in {"submit", "device"} \/ (wpc[w] = "unlock" /\ mutex = w)

(* What the holder of the mutex has already found out stays true.          *)
CheckedInv ==
    \A v, w \in Workers :
        wpc[w] \in {"next", "scan"} /\ Out(v) /\ JobOf[v] < at[w] /\ Overlap(range[v], range[w])
            => v \in inRamp

PairInv ==
    \A v, w \in Workers :
        v # w /\ Out(v) /\ Out(w) /\ Overlap(range[v], range[w]) => v \in inRamp \/ w \in inRamp

IInv ==
    /\ TypeOK /\ MutexInv /\ FlightInv /\ OutIsFlagged /\ JobInv /\ ScanInv /\ FreedInv
    /\ CheckedInv /\ PairInv

-----------------------------------------------------------------------------
LEMMA Constants ==
    /\ NumJobs \in Nat /\ \A w \in Workers : JobOf[w] \in Jobs /\ JobOf[w] \in Nat /\ JobOf[w] <= NumJobs
    /\ \A w \in Workers : w \notin Jobs /\ w # Free
    /\ Free \notin Jobs
BY JobsAssumption, MutexAssumption DEF Jobs

LEMMA OverlapIsSymmetric == \A r, s : Overlap(r, s) <=> Overlap(s, r)
BY DEF Overlap

LEMMA InitIInv == Init => IInv
<1>. SUFFICES ASSUME Init
              PROVE  IInv
  OBVIOUS
<1>1. TypeOK
  <2>1. 1 \in 1..(NumJobs + 1) /\ 0 \in 0..MaxIos /\ 0 \in 0..Size
    BY Constants, SizeAssumption, IosAssumption
  <2>2. range \in [Workers -> (0..Size) \X (0..Size)]
    BY <2>1 DEF Init
  <2>3. at \in [Workers -> 1..(NumJobs + 1)]
    BY <2>1 DEF Init
  <2>. QED  BY <2>1, <2>2, <2>3 DEF Init, TypeOK, WorkerPlaces
<1>2. MutexInv /\ FlightInv /\ OutIsFlagged /\ JobInv /\ ScanInv /\ FreedInv /\ CheckedInv /\ PairInv
  BY Constants DEF Init, MutexInv, FlightInv, OutIsFlagged, JobInv, ScanInv, FreedInv, CheckedInv,
     PairInv, Out
<1>. QED  BY <1>1, <1>2 DEF IInv

(* A step of a worker changes only what is its own.                        *)
LEMMA WorkerTypes ==
  ASSUME TypeOK, NEW w \in Workers, NEW p \in WorkerPlaces, Goto(w, p)
  PROVE  /\ wpc' \in [Workers -> WorkerPlaces] /\ wpc'[w] = p
         /\ \A v \in Workers : v # w => wpc'[v] = wpc[v]
BY DEF TypeOK, Goto

LEMMA WorkerStepKeepsIInv ==
  ASSUME IInv, NEW w \in Workers, TakeIo(w) \/ CheckStep(w) \/ IoStep(w)
  PROVE  IInv'
<1>. USE DEF WorkerPlaces
<1>a. /\ TypeOK /\ MutexInv /\ FlightInv /\ OutIsFlagged /\ JobInv /\ ScanInv /\ FreedInv
      /\ CheckedInv /\ PairInv
  BY DEF IInv
<1>1. CASE TakeIo(w)
  <2>1. wpc[w] = "idle" /\ wpc'[w] = "lock" /\ \A v \in Workers : v # w => wpc'[v] = wpc[v]
    BY <1>1, <1>a, WorkerTypes DEF TakeIo, jobVars
  <2>2. /\ UNCHANGED <<runstate, freed, forced, at, flight, inRamp, mutex, aborted>>
        /\ runstate[JobOf[w]] \in {"ramp", "running"} /\ JobOf[w] \notin freed
    BY <1>1 DEF TakeIo, jobVars
  <2>3. \A v \in Workers : v # w => range'[v] = range[v]
    BY <1>1, <1>a DEF TakeIo, TypeOK
  <2>4. TypeOK'
    <3>1. range' \in [Workers -> (0..Size) \X (0..Size)] /\ ios' \in 0..MaxIos
      BY <1>1, <1>a, IosAssumption DEF TakeIo, TypeOK, Ranges
    <3>2. wpc' \in [Workers -> WorkerPlaces]
      BY <1>1, <1>a, WorkerTypes DEF TakeIo, jobVars
    <3>. QED  BY <2>2, <3>1, <3>2, <1>a DEF TypeOK
  <2>5. MutexInv' /\ FlightInv' /\ OutIsFlagged'
    BY <2>1, <2>2, <1>a DEF MutexInv, FlightInv, OutIsFlagged
  <2>6. JobInv' /\ ScanInv' /\ FreedInv'
    BY <2>1, <2>2, <1>a DEF JobInv, ScanInv, FreedInv
  <2>7. ~Out(w)' /\ \A v \in Workers : v # w => (Out(v)' <=> Out(v))
    BY <2>1, <2>2 DEF Out
  <2>8. CheckedInv' /\ PairInv'
    BY <2>1, <2>2, <2>3, <2>7, <1>a DEF CheckedInv, PairInv
  <2>. QED  BY <2>4, <2>5, <2>6, <2>8 DEF IInv
<1>2. CASE Lock(w)
  <2>1. wpc[w] = "lock" /\ wpc'[w] = "next" /\ \A v \in Workers : v # w => wpc'[v] = wpc[v]
    BY <1>2, <1>a, WorkerTypes DEF Lock, jobVars
  <2>2. /\ UNCHANGED <<runstate, freed, forced, range, flight, inRamp, ios, aborted>>
        /\ mutex = Free /\ mutex' = w /\ at' = [at EXCEPT ![w] = 1]
    BY <1>2 DEF Lock, jobVars
  <2>3. at'[w] = 1 /\ \A v \in Workers : v # w => at'[v] = at[v]
    BY <2>2, <1>a DEF TypeOK
  <2>4. TypeOK'
    <3>1. at' \in [Workers -> 1..(NumJobs + 1)]
      BY <2>2, <1>a, Constants DEF TypeOK
    <3>2. wpc' \in [Workers -> WorkerPlaces]
      BY <1>2, <1>a, WorkerTypes DEF Lock, jobVars
    <3>. QED  BY <2>2, <3>1, <3>2, <1>a DEF TypeOK
  <2>5. MutexInv' /\ FlightInv' /\ OutIsFlagged'
    BY <2>1, <2>2, <1>a, Constants DEF MutexInv, FlightInv, OutIsFlagged
  <2>6. JobInv' /\ ScanInv' /\ FreedInv'
    BY <2>1, <2>2, <2>3, <1>a DEF JobInv, ScanInv, FreedInv
  <2>7. \A v \in Workers : Out(v)' <=> Out(v)
    BY <2>1, <2>2, Constants DEF Out
  <2>8. CheckedInv'
    <3>1. \A v \in Workers : ~(JobOf[v] < 1)
      BY Constants DEF Jobs
    <3>2. \A v \in Workers : v # w => wpc[v] \notin {"next", "scan"}
      BY <2>2, <1>a, Constants DEF MutexInv
    <3>. QED  BY <2>1, <2>2, <2>3, <2>7, <3>1, <3>2, <1>a DEF CheckedInv
  <2>9. PairInv'
    BY <2>2, <2>7, <1>a DEF PairInv
  <2>. QED  BY <2>4, <2>5, <2>6, <2>8, <2>9 DEF IInv
<1>3. CASE NextJob(w)
  <2>1. /\ UNCHANGED <<runstate, freed, forced, range, flight, inRamp, ios, mutex, aborted>>
        /\ wpc[w] = "next" /\ at[w] \in Jobs
    BY <1>3, <1>a, Constants DEF NextJob, TypeOK, Jobs, jobVars
  <2>2. CASE PassedOver(at[w])
    <3>1. at' = [at EXCEPT ![w] = at[w] + 1] /\ wpc' = wpc
      BY <1>3, <2>2 DEF NextJob, jobVars
    <3>2. at'[w] = at[w] + 1 /\ \A v \in Workers : v # w => at'[v] = at[v]
      BY <3>1, <1>a DEF TypeOK
    <3>3. TypeOK'
      <4>1. at[w] + 1 \in 1..(NumJobs + 1)
        BY <2>1, Constants DEF Jobs
      <4>2. at' \in [Workers -> 1..(NumJobs + 1)]
        BY <3>1, <4>1, <1>a DEF TypeOK
      <4>. QED  BY <2>1, <3>1, <4>2, <1>a DEF TypeOK
    <3>4. MutexInv' /\ FlightInv' /\ OutIsFlagged' /\ JobInv'
      BY <2>1, <3>1, <1>a DEF MutexInv, FlightInv, OutIsFlagged, JobInv
    <3>5. ScanInv' /\ FreedInv'
      BY <2>1, <3>1, <3>2, <1>a DEF ScanInv, FreedInv
    <3>6. \A v \in Workers : Out(v)' <=> Out(v)
      BY <2>1, <3>1 DEF Out
    <3>7. \A v \in Workers : JobOf[v] = at[w] /\ Out(v) => v \in inRamp
      BY <2>2, <1>a, Constants DEF PassedOver, JobInv, OutIsFlagged, Out, TypeOK
    <3>8. \A v \in Workers : JobOf[v] < at[w] + 1 => JobOf[v] < at[w] \/ JobOf[v] = at[w]
      BY <2>1, Constants DEF Jobs
    <3>9. CheckedInv'
      <4>. SUFFICES ASSUME NEW v \in Workers, NEW u \in Workers,
                           (wpc[u] \in {"next", "scan"})', Out(v)', (JobOf[v] < at[u])',
                           Overlap(range[v], range[u])'
                    PROVE  (v \in inRamp)'
        BY DEF CheckedInv
      <4>1. CASE u = w
        BY <4>1, <2>1, <3>1, <3>2, <3>6, <3>7, <3>8, <1>a DEF CheckedInv
      <4>2. CASE u # w
        BY <4>2, <2>1, <3>1, <3>2, <3>6, <1>a DEF CheckedInv
      <4>. QED  BY <4>1, <4>2
    <3>10. PairInv'
      BY <2>1, <3>6, <1>a DEF PairInv
    <3>. QED  BY <3>3, <3>4, <3>5, <3>9, <3>10 DEF IInv
  <2>3. CASE ~PassedOver(at[w])
    <3>1. at' = at /\ Goto(w, "scan")
      BY <1>3, <2>3 DEF NextJob, jobVars
    <3>2. wpc'[w] = "scan" /\ (\A v \in Workers : v # w => wpc'[v] = wpc[v])
          /\ wpc' \in [Workers -> WorkerPlaces]
      BY <3>1, <1>a, WorkerTypes
    <3>3. TypeOK'
      BY <2>1, <3>1, <3>2, <1>a DEF TypeOK
    <3>4. MutexInv' /\ FlightInv' /\ OutIsFlagged' /\ JobInv'
      BY <2>1, <3>2, <1>a DEF MutexInv, FlightInv, OutIsFlagged, JobInv
    <3>5. ScanInv' /\ FreedInv'
      BY <2>1, <2>3, <3>1, <3>2, <1>a DEF ScanInv, FreedInv, PassedOver
    <3>6. \A v \in Workers : Out(v)' <=> Out(v)
      BY <2>1, <3>2 DEF Out
    <3>7. \A v \in Workers : wpc'[v] \in {"next", "scan"} => wpc[v] \in {"next", "scan"}
      BY <2>1, <3>2
    <3>8. CheckedInv' /\ PairInv'
      BY <2>1, <3>1, <3>6, <3>7, <1>a DEF CheckedInv, PairInv
    <3>. QED  BY <3>3, <3>4, <3>5, <3>8 DEF IInv
  <2>. QED  BY <2>2, <2>3
<1>4. CASE Scan(w)
  <2>1. UNCHANGED <<runstate, freed, forced, range, flight, inRamp, ios>> /\ wpc[w] = "scan"
    BY <1>4 DEF Scan, jobVars
  <2>2. mutex = w /\ \A v \in Workers : v # w => wpc[v] \notin {"next", "scan"} /\ mutex # v
    BY <2>1, <1>a DEF MutexInv
  <2>3. CASE mutex' = Free /\ Goto(w, "lock") /\ UNCHANGED <<at, aborted>>
    <3>1. mutex' = Free /\ Goto(w, "lock") /\ at' = at /\ aborted' = aborted
      BY <2>3
    <3>2. wpc'[w] = "lock" /\ (\A v \in Workers : v # w => wpc'[v] = wpc[v])
          /\ wpc' \in [Workers -> WorkerPlaces]
      BY <3>1, <1>a, WorkerTypes
    <3>3. TypeOK'
      BY <2>1, <3>1, <3>2, <1>a DEF TypeOK
    <3>4. MutexInv' /\ FlightInv' /\ OutIsFlagged' /\ JobInv' /\ ScanInv' /\ FreedInv'
      BY <2>1, <2>2, <3>1, <3>2, <1>a, Constants
         DEF MutexInv, FlightInv, OutIsFlagged, JobInv, ScanInv, FreedInv
    <3>5. \A v \in Workers : Out(v)' <=> Out(v)
      BY <2>1, <2>2, <3>1, <3>2, Constants DEF Out
    <3>6. CheckedInv' /\ PairInv'
      BY <2>1, <2>2, <3>1, <3>2, <3>5, <1>a DEF CheckedInv, PairInv
    <3>. QED  BY <3>3, <3>4, <3>6 DEF IInv
  <2>4. CASE /\ ~InFlightOverlap(w)
             /\ at' = [at EXCEPT ![w] = @ + 1] /\ Goto(w, "next") /\ UNCHANGED <<mutex, aborted>>
    <3>1. /\ at' = [at EXCEPT ![w] = at[w] + 1] /\ Goto(w, "next")
          /\ mutex' = mutex /\ aborted' = aborted
      BY <2>4
    <3>2. wpc'[w] = "next" /\ (\A v \in Workers : v # w => wpc'[v] = wpc[v])
          /\ wpc' \in [Workers -> WorkerPlaces]
      BY <3>1, <1>a, WorkerTypes
    <3>3. at'[w] = at[w] + 1 /\ at[w] \in Jobs
      BY <2>1, <3>1, <1>a DEF TypeOK, ScanInv
    <3>4. TypeOK'
      <4>1. at[w] + 1 \in 1..(NumJobs + 1)
        BY <3>3, Constants DEF Jobs
      <4>2. at' \in [Workers -> 1..(NumJobs + 1)]
        BY <3>1, <4>1, <1>a DEF TypeOK
      <4>. QED  BY <2>1, <3>1, <3>2, <4>2, <1>a DEF TypeOK
    <3>5. MutexInv' /\ FlightInv' /\ OutIsFlagged' /\ JobInv' /\ ScanInv' /\ FreedInv'
      BY <2>1, <2>2, <3>1, <3>2, <1>a DEF MutexInv, FlightInv, OutIsFlagged, JobInv, ScanInv, FreedInv
    <3>6. \A v \in Workers : Out(v)' <=> Out(v)
      BY <2>1, <3>1, <3>2 DEF Out
    <3>7. \A v \in Workers : JobOf[v] = at[w] /\ Out(v) => ~Overlap(range[v], range[w])
      BY <2>4, <1>a DEF OutIsFlagged, Out, InFlightOverlap
    <3>8. \A v \in Workers : JobOf[v] < at[w] + 1 => JobOf[v] < at[w] \/ JobOf[v] = at[w]
      BY <3>3, Constants DEF Jobs
    <3>9. CheckedInv'
      BY <2>1, <2>2, <3>2, <3>3, <3>6, <3>7, <3>8, <1>a DEF CheckedInv
    <3>10. PairInv'
      BY <2>1, <3>6, <1>a DEF PairInv
    <3>. QED  BY <3>4, <3>5, <3>9, <3>10 DEF IInv
  <2>5. CASE aborted' = TRUE /\ UNCHANGED <<wpc, at, mutex>>
    BY <2>1, <2>5, <1>a DEF IInv, TypeOK, MutexInv, FlightInv, OutIsFlagged, JobInv,
       ScanInv, FreedInv, CheckedInv, PairInv, Out
  <2>. QED  BY <1>4, <2>3, <2>4, <2>5 DEF Scan
<1>5. CASE Queue(w) \/ QueueAgain(w)
  <2>1. /\ UNCHANGED <<runstate, freed, forced, at, range, ios, mutex, aborted>> /\ flight' = flight \cup {w}
        /\ wpc[w] \in {"next", "busy"}
    BY <1>5 DEF Queue, QueueAgain, SetFlight, jobVars
  <2>2. wpc'[w] = "unlock" /\ (\A v \in Workers : v # w => wpc'[v] = wpc[v])
        /\ wpc' \in [Workers -> WorkerPlaces]
    BY <1>5, <1>a, WorkerTypes DEF Queue, QueueAgain, SetFlight, jobVars
  <2>3. /\ inRamp' \subseteq Workers
        /\ \A v \in Workers : v # w => (v \in inRamp' <=> v \in inRamp)
        /\ runstate[JobOf[w]] = "ramp" => w \in inRamp'
    BY <1>5, <1>a DEF Queue, QueueAgain, SetFlight, TypeOK
  <2>4. TypeOK'
    BY <2>1, <2>2, <2>3, <1>a DEF TypeOK
  <2>5. MutexInv' /\ FlightInv' /\ OutIsFlagged' /\ JobInv' /\ ScanInv' /\ FreedInv'
    BY <2>1, <2>2, <2>3, <1>a DEF MutexInv, FlightInv, OutIsFlagged, JobInv, ScanInv, FreedInv
  <2>6. \A v \in Workers : v # w => (Out(v)' <=> Out(v))
    BY <2>1, <2>2 DEF Out
  <2>7. ~Out(w) /\ (Out(w)' => wpc[w] = "next" /\ mutex = w)
    BY <2>1, <2>2, <1>a DEF Out, MutexInv
  <2>8. wpc[w] = "next" => at[w] > NumJobs
    BY <1>5 DEF Queue, QueueAgain
  <2>9. CheckedInv'
    <3>. SUFFICES ASSUME NEW v \in Workers, NEW u \in Workers, wpc'[u] \in {"next", "scan"},
                         Out(v)', JobOf[v] < at[u], Overlap(range[v], range[u])
                  PROVE  v \in inRamp'
      BY <2>1 DEF CheckedInv
    <3>1. u # w /\ wpc[u] \in {"next", "scan"} /\ mutex = u
      BY <2>2, <1>a DEF MutexInv
    <3>2. v # w
      BY <3>1, <2>7
    <3>. QED  BY <3>1, <3>2, <2>3, <2>6, <1>a DEF CheckedInv
  <2>10. ASSUME NEW v \in Workers, v # w, Out(v)', Out(w)', Overlap(range[v], range[w])
         PROVE  v \in inRamp'
    <3>1. JobOf[v] < at[w]
      BY <2>7, <2>8, <2>10, <1>a, Constants DEF TypeOK
    <3>. QED  BY <3>1, <2>3, <2>6, <2>7, <2>10, <1>a DEF CheckedInv
  <2>11. PairInv'
    <3>. SUFFICES ASSUME NEW v \in Workers, NEW u \in Workers, v # u, Out(v)', Out(u)',
                         Overlap(range[v], range[u])
                  PROVE  v \in inRamp' \/ u \in inRamp'
      BY <2>1 DEF PairInv
    <3>1. CASE u = w
      BY <3>1, <2>10
    <3>2. CASE v = w
      BY <3>2, <2>10, OverlapIsSymmetric
    <3>3. CASE u # w /\ v # w
      BY <3>3, <2>3, <2>6, <1>a DEF PairInv
    <3>. QED  BY <3>1, <3>2, <3>3
  <2>. QED  BY <2>4, <2>5, <2>9, <2>11 DEF IInv
<1>6. CASE Unlock(w)
  <2>1. UNCHANGED <<runstate, freed, forced, at, range, flight, inRamp, ios>> /\ wpc[w] = "unlock"
    BY <1>6 DEF Unlock, jobVars
  <2>2. CASE mutex = w
    <3>1. mutex' = Free /\ aborted' = aborted
      BY <1>6, <2>2 DEF Unlock, jobVars
    <3>2. wpc'[w] = "submit" /\ (\A v \in Workers : v # w => wpc'[v] = wpc[v])
          /\ wpc' \in [Workers -> WorkerPlaces]
      BY <1>6, <2>2, <1>a, WorkerTypes DEF Unlock, jobVars
    <3>3. TypeOK'
      BY <2>1, <3>1, <3>2, <1>a DEF TypeOK
    <3>4. MutexInv' /\ FlightInv' /\ OutIsFlagged' /\ JobInv' /\ ScanInv' /\ FreedInv'
      BY <2>1, <2>2, <3>1, <3>2, <1>a, Constants
         DEF MutexInv, FlightInv, OutIsFlagged, JobInv, ScanInv, FreedInv
    <3>5. \A v \in Workers : Out(v)' <=> Out(v)
      BY <2>1, <2>2, <3>1, <3>2, Constants DEF Out
    <3>6. CheckedInv' /\ PairInv'
      BY <2>1, <3>2, <3>5, <1>a DEF CheckedInv, PairInv
    <3>. QED  BY <3>3, <3>4, <3>6 DEF IInv
  <2>3. CASE mutex # w
    <3>1. UNCHANGED <<mutex, wpc>> /\ aborted' = TRUE
      BY <1>6, <2>3 DEF Unlock, jobVars
    <3>. QED  BY <2>1, <3>1, <1>a DEF IInv, TypeOK, MutexInv, FlightInv, OutIsFlagged, JobInv,
              ScanInv, FreedInv, CheckedInv, PairInv, Out
  <2>. QED  BY <2>2, <2>3
<1>7. CASE IoStep(w) /\ ~QueueAgain(w)
  <2>1. UNCHANGED <<runstate, freed, forced, at, range, inRamp, ios, mutex, aborted>>
        /\ wpc[w] \in {"submit", "busy", "device", "reaped"}
    BY <1>7 DEF IoStep, Submit, SubmitBusy, GiveUp, DeviceDone, Completed, jobVars
  <2>2. /\ wpc'[w] \in {"device", "busy", "idle", "reaped"}
        /\ \A v \in Workers : v # w => wpc'[v] = wpc[v]
        /\ wpc' \in [Workers -> WorkerPlaces]
    BY <1>7, <1>a, WorkerTypes DEF IoStep, Submit, SubmitBusy, GiveUp, DeviceDone, Completed, jobVars
  <2>3. wpc'[w] = "device" => wpc[w] = "submit"
    BY <1>7, <1>a, WorkerTypes DEF IoStep, Submit, SubmitBusy, GiveUp, DeviceDone, Completed, jobVars
  <2>4. /\ flight' \subseteq flight /\ \A v \in Workers : v # w => (v \in flight' <=> v \in flight)
        /\ w \in flight' <=> wpc'[w] \in {"device", "reaped"}
    BY <1>7, <1>a, <2>2, WorkerTypes DEF IoStep, Submit, SubmitBusy, GiveUp, DeviceDone, Completed,
       FlightInv, OutIsFlagged
  <2>5. TypeOK'
    BY <2>1, <2>2, <2>4, <1>a DEF TypeOK
  <2>6. MutexInv' /\ FlightInv' /\ OutIsFlagged' /\ ScanInv' /\ FreedInv'
    BY <2>1, <2>2, <2>4, <1>a DEF MutexInv, FlightInv, OutIsFlagged, ScanInv, FreedInv
  <2>7. JobInv'
    BY <2>1, <2>2, <2>4, <1>a DEF JobInv
  <2>8. \A v \in Workers : Out(v)' => Out(v)
    BY <2>1, <2>2, <2>3 DEF Out
  <2>9. \A v \in Workers : wpc'[v] \in {"next", "scan"} => wpc[v] \in {"next", "scan"}
    BY <2>2
  <2>10. CheckedInv' /\ PairInv'
    BY <2>1, <2>8, <2>9, <1>a DEF CheckedInv, PairInv
  <2>. QED  BY <2>5, <2>6, <2>7, <2>10 DEF IInv
<1>. QED  BY <1>1, <1>2, <1>3, <1>4, <1>5, <1>6, <1>7 DEF CheckStep, IoStep

LEMMA JobStepKeepsIInv ==
  ASSUME IInv, NEW j \in Jobs, JobStep(j)
  PROVE  IInv'
<1>a. /\ TypeOK /\ MutexInv /\ FlightInv /\ OutIsFlagged /\ JobInv /\ ScanInv /\ FreedInv
      /\ CheckedInv /\ PairInv
  BY DEF IInv
<1>b. UNCHANGED workerVars
  BY DEF JobStep, StartJob, RampIsOver, EndFsync, LockToFinish, UnlockFinished, Cleanup,
     ForcedExit, Exit
<1>c. FlightInv' /\ OutIsFlagged'
  BY <1>a, <1>b DEF FlightInv, OutIsFlagged, workerVars
(* The mutex goes from no one to a job or back.                            *)
<1>d. \A v \in Workers : mutex' = v <=> mutex = v
  BY Constants DEF JobStep, StartJob, RampIsOver, EndFsync, LockToFinish, UnlockFinished, Cleanup,
     ForcedExit, Exit
<1>e. CheckedInv' /\ PairInv'
  <2>1. \A v \in Workers : Out(v)' <=> Out(v)
    BY <1>b, <1>d DEF Out, workerVars
  <2>. QED  BY <1>a, <1>b, <2>1 DEF CheckedInv, PairInv, workerVars
<1>f. ASSUME NEW s \in {"ramp", "running", "finishing", "exited"}, runstate' = [runstate EXCEPT ![j] = s]
      PROVE  /\ runstate' \in [Jobs -> {"settingUp", "ramp", "running", "finishing", "exited"}]
             /\ runstate'[j] = s /\ \A i \in Jobs : i # j => runstate'[i] = runstate[i]
  BY <1>f, <1>a DEF TypeOK
<1>1. CASE StartJob(j) \/ RampIsOver(j)
  <2>1. PICK s \in {"ramp", "running"} : runstate' = [runstate EXCEPT ![j] = s]
    BY <1>1 DEF StartJob, RampIsOver
  <2>2. /\ mutex' = mutex /\ aborted' = aborted /\ freed' = freed /\ forced' = forced
        /\ runstate[j] \in {"settingUp", "ramp"}
        /\ runstate[j] = "ramp" => runstate'[j] = "running"
    BY <1>1, <1>f DEF StartJob, RampIsOver
  <2>3. TypeOK'
    BY <1>a, <1>b, <1>f, <2>1, <2>2 DEF TypeOK, workerVars
  <2>4. MutexInv'
    BY <1>a, <1>b, <1>f, <2>1, <2>2 DEF MutexInv, workerVars
  <2>5. JobInv'
    <3>1. \A w \in Workers : JobOf[w] = j /\ runstate[j] = "settingUp" => w \notin flight
      BY <1>a DEF JobInv, FlightInv
    <3>2. \A w \in Workers : JobOf[w] # j => runstate'[JobOf[w]] = runstate[JobOf[w]]
      BY <1>f, <2>1, Constants
    <3>3. runstate'[j] = "running" \/ (runstate'[j] = "ramp" /\ runstate[j] = "settingUp")
      BY <1>f, <2>1, <2>2
    <3>. QED  BY <1>a, <1>b, <2>2, <3>1, <3>2, <3>3 DEF JobInv, workerVars
  <2>6. ScanInv' /\ FreedInv'
    BY <1>a, <1>b, <1>f, <2>1, <2>2 DEF TypeOK, ScanInv, FreedInv, workerVars
  <2>. QED  BY <1>c, <1>e, <2>3, <2>4, <2>5, <2>6 DEF IInv
<1>2. CASE LockToFinish(j)
  <2>1. /\ runstate' = [runstate EXCEPT ![j] = "finishing"] /\ mutex = Free /\ mutex' = j
        /\ aborted' = aborted /\ freed' = freed /\ forced' = forced /\ j \notin freed
    BY <1>2 DEF LockToFinish, Flushed
  <2>2. \A w \in Workers : JobOf[w] = j => wpc[w] = "idle"
    BY <1>2 DEF LockToFinish, Flushed
  <2>3. \A w \in Workers : wpc[w] # "scan"
    BY <1>a, <2>1, Constants DEF MutexInv
  <2>4. TypeOK' /\ MutexInv'
    BY <1>a, <1>b, <1>f, <2>1, Constants DEF TypeOK, MutexInv, workerVars
  <2>5. JobInv'
    BY <1>a, <1>b, <1>f, <2>1, <2>2, Constants DEF JobInv, workerVars
  <2>6. ScanInv' /\ FreedInv'
    BY <1>a, <1>b, <1>f, <2>1, <2>3 DEF TypeOK, ScanInv, FreedInv, workerVars
  <2>. QED  BY <1>c, <1>e, <2>4, <2>5, <2>6 DEF IInv
<1>3. CASE Cleanup(j) \/ ForcedExit(j)
  <2>1. /\ UNCHANGED <<runstate, mutex, aborted>> /\ mutex # j
        /\ freed' = freed \cup {j} /\ forced \subseteq forced' /\ forced' \subseteq Jobs
        /\ j \in forced' \/ runstate[j] = "finishing"
    <3>1. CASE Cleanup(j)
      BY <3>1, <1>a DEF Cleanup, TypeOK
    <3>2. CASE ForcedExit(j)
      <4>1. mutex # j
        BY <3>2, <1>a DEF ForcedExit, Flushed, MutexInv
      <4>. QED  BY <3>2, <4>1, <1>a DEF ForcedExit, TypeOK
    <3>. QED  BY <1>3, <3>1, <3>2
  <2>2. \A w \in Workers : JobOf[w] = j => wpc[w] = "idle"
    BY <1>3, <1>a DEF Cleanup, ForcedExit, Flushed, JobInv
  <2>3. TypeOK' /\ MutexInv'
    BY <1>a, <1>b, <2>1 DEF TypeOK, MutexInv, workerVars
  <2>4. JobInv' /\ ScanInv' /\ FreedInv'
    BY <1>a, <1>b, <2>1, <2>2 DEF JobInv, ScanInv, FreedInv, workerVars
  <2>. QED  BY <1>c, <1>e, <2>3, <2>4 DEF IInv
<1>4. CASE EndFsync(j) \/ UnlockFinished(j)
  <2>1. /\ runstate' = runstate /\ freed' = freed /\ forced' = forced
        /\ aborted' \in BOOLEAN /\ mutex' \in {mutex, Free}
    BY <1>4, <1>a DEF EndFsync, UnlockFinished, TypeOK, jobVars
  <2>2. TypeOK'
    BY <1>a, <1>b, <2>1 DEF TypeOK, workerVars
  <2>3. MutexInv'
    BY <1>a, <1>b, <1>d, <2>1, Constants DEF MutexInv, workerVars
  <2>4. JobInv' /\ ScanInv' /\ FreedInv'
    BY <1>a, <1>b, <2>1 DEF JobInv, ScanInv, FreedInv, workerVars
  <2>. QED  BY <1>c, <1>e, <2>2, <2>3, <2>4 DEF IInv
<1>5. CASE Exit(j)
  <2>1. /\ runstate' = [runstate EXCEPT ![j] = "exited"] /\ j \in freed
        /\ UNCHANGED <<freed, forced, mutex, aborted>>
    BY <1>5 DEF Exit
  <2>2. \A w \in Workers : JobOf[w] = j => wpc[w] = "idle"
    BY <2>1, <1>a DEF JobInv
  <2>3. TypeOK' /\ MutexInv'
    BY <1>a, <1>b, <1>f, <2>1 DEF TypeOK, MutexInv, workerVars
  <2>4. JobInv'
    BY <1>a, <1>b, <1>f, <2>1, <2>2, Constants DEF JobInv, workerVars
  <2>5. ScanInv' /\ FreedInv'
    BY <1>a, <1>b, <1>f, <2>1 DEF TypeOK, ScanInv, FreedInv, workerVars
  <2>. QED  BY <1>c, <1>e, <2>3, <2>4, <2>5 DEF IInv
<1>. QED  BY <1>1, <1>2, <1>3, <1>4, <1>5 DEF JobStep

LEMMA Invariant == Spec => []IInv
<1>1. IInv /\ [Next]_vars => IInv'
  <2>. SUFFICES ASSUME IInv, [Next]_vars
                PROVE  IInv'
    OBVIOUS
  <2>1. CASE Next
    BY <2>1, WorkerStepKeepsIInv, JobStepKeepsIInv DEF Next
  <2>2. CASE UNCHANGED vars
    BY <2>2 DEF vars, jobVars, workerVars, IInv, TypeOK, MutexInv, FlightInv, OutIsFlagged, JobInv,
       ScanInv, FreedInv, CheckedInv, PairInv, Out
  <2>. QED  BY <2>1, <2>2
<1>. QED  BY <1>1, InitIInv, PTL DEF Spec

(* Every variable keeps its type: for_each_td stays among the jobs.        *)
THEOREM TypeCorrect == Spec => []TypeOK
<1>1. IInv => TypeOK
  BY DEF IInv
<1>. QED  BY <1>1, Invariant, PTL

(* Two overlapping I/Os are never at the device together, unless one of    *)
(* them was issued in a ramp time.                                         *)
THEOREM SerializedAfterRampAlways == Spec => []SerializedAfterRamp
<1>1. IInv => SerializedAfterRamp
  BY DEF IInv, PairInv, Out, SerializedAfterRamp, OverlapAtDevice
<1>. QED  BY <1>1, Invariant, PTL

(* No worker looks at I/Os that were freed, unless their job was forcibly  *)
(* exited.                                                                 *)
THEOREM OnlyForcedIsCheckedFreedAlways == Spec => []OnlyForcedIsCheckedFreed
<1>1. IInv => OnlyForcedIsCheckedFreed
  BY DEF IInv, ScanInv, FreedInv, OnlyForcedIsCheckedFreed
<1>. QED  BY <1>1, Invariant, PTL

(* Only I/Os beyond the check are waited for.                              *)
THEOREM NoWaiterIsWaitedForAlways == Spec => []NoWaiterIsWaitedFor
<1>1. IInv => NoWaiterIsWaitedFor
  BY DEF IInv, FlightInv, NoWaiterIsWaitedFor
<1>. QED  BY <1>1, Invariant, PTL
===============================================================================
