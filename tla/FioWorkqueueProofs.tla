-------------------------- MODULE FioWorkqueueProofs --------------------------
(***************************************************************************)
(* fio's work queue, for every number of workers and works: a worker whose *)
(* SW_F_IDLE is up has nothing to do, the queue implements WorkQueue,      *)
(* every work is in exactly one place, and no wakeup is lost.              *)
(***************************************************************************)
EXTENDS FioWorkqueue, SequenceTheorems, FiniteSetTheorems, TLAPS

Up(w) == "RUNNING" \in flags[w] /\ "ERROR" \notin flags[w]

(* Which workers have been created, and where the owner's loops are.       *)
Started ==
    /\ pc = "start" => \A w \in Workers : wpc[w] # "none" <=> w < idx
    /\ pc = "setIdle" => \A w \in Workers : wpc[w] # "none" <=> w <= idx
    /\ pc \notin {"start", "setIdle"} =>
          idx <= maxWorkers /\ \A w \in Workers : wpc[w] # "none" <=> w < maxWorkers
    /\ pc \in {"start", "setIdle"} => idx < MaxWorkers /\ maxWorkers = MaxWorkers
    /\ pc \notin Exiting \cup {"gone"} => maxWorkers > 0
    /\ pc \in {"initWait", "flushWait"} => idx = 0
    /\ nextFree = 0 \/ wpc[nextFree] # "none"
    /\ target = 0 \/ wpc[target] # "none"

(* The count of running workers, and what it means when it is complete.    *)
Counting ==
    /\ pc = "initCheck" => running <= idx
    /\ pc \in {"start", "setIdle", "initWait"} => running = 0
    /\ pc = "initCheck" /\ error = 0 /\ running = idx => \A w \in Workers : w < idx => Up(w)
    /\ pc \in {"ready", "enqueue"} \cup Flushing => \A w \in Workers : w < maxWorkers => Up(w)

(* A worker that is not carrying out works has taken none, and one that    *)
(* will not look at its list again has an empty one.                       *)
Quiet ==
    \A w \in Workers :
        /\ wpc[w] # "handle" => local[w] = << >> /\ done[w] = {}
        /\ wpc[w] = "done" => workList[w] = << >> /\ (Up(w) => "EXIT" \in flags[w])
        /\ wpc[w] \in {"none", "start"} => "RUNNING" \notin flags[w]
        /\ ~Up(w) => workList[w] = << >>

(* How far the owner's loops have come.                                    *)
Progress ==
    /\ pc \in Initialising =>
          workSeq = 0 /\ \A w \in Workers : workList[w] = << >> /\ local[w] = << >> /\ done[w] = {}
    /\ pc = "flushCheck" => \A w \in Workers : w < idx => "IDLE" \in flags[w]
    /\ pc = "exitJoin" => \A w \in Workers : w < idx => wpc[w] = "done"
    /\ pc \notin Exiting \cup {"gone"} => \A w \in Workers : "EXIT" \notin flags[w]

(* Every work enqueued is with a worker or accounted.                      *)
Holdings(w) == done[w] \cup Elements(local[w]) \cup Elements(workList[w])
Conserved ==
    /\ accounted \subseteq 1..workSeq
    /\ \A w \in Workers : Holdings(w) \subseteq 1..workSeq
    /\ \A n \in 1..workSeq : n \in accounted \/ \E w \in Workers : n \in Holdings(w)

IInv ==
    /\ TypeOK /\ Started /\ Counting /\ Quiet /\ Progress
    /\ IdleMeansNothingToDo /\ Conserved

-----------------------------------------------------------------------------
LEMMA WorkersAre == \A w : w \in Workers <=> w \in Nat /\ w < MaxWorkers
BY WorkersAssumption DEF Workers

LEMMA ZeroIsWorker == 0 \in Workers /\ MaxWorkers \in Nat
BY WorkersAssumption DEF Workers

(* get_submit_worker() ends up with a worker that was started.             *)
LEMMA CandidatesAre == Types => \A w \in Candidates : w \in Workers /\ w < maxWorkers
<1>. SUFFICES ASSUME Types, NEW w \in Candidates
              PROVE  w \in Workers /\ w < maxWorkers
  OBVIOUS
<1>1. maxWorkers \in Nat /\ maxWorkers <= MaxWorkers /\ MaxWorkers \in Nat
  BY ZeroIsWorker DEF Types
<1>2. w \in 0..(maxWorkers - 1)
  BY DEF Candidates
<1>. QED  BY <1>1, <1>2, WorkersAre

LEMMA NotBelowZero == \A w \in Workers : ~(w < 0)
BY WorkersAre

LEMMA AtMost == \A i, j \in Nat : i <= j <=> i < j \/ i = j
OBVIOUS

LEMMA TypesStep == IInv /\ [Next]_vars => Types'
<1>. SUFFICES ASSUME IInv, [Next]_vars
              PROVE  Types'
  OBVIOUS
<1>a. Types
  BY DEF IInv, TypeOK
<1>b. /\ idx \in Nat /\ maxWorkers \in Nat /\ 0 \in 0..MaxWorkers
      /\ pc \notin {"start", "setIdle"} => idx <= maxWorkers
      /\ pc \in {"start", "setIdle"} => idx < MaxWorkers /\ maxWorkers = MaxWorkers
      /\ \A i \in Nat : i < maxWorkers \/ i < MaxWorkers =>
            i \in Workers /\ i \in 0..MaxWorkers /\ i + 1 \in 0..MaxWorkers
  <2>1. idx \in Nat /\ maxWorkers \in Nat /\ maxWorkers <= MaxWorkers /\ MaxWorkers \in Nat
    BY <1>a, ZeroIsWorker DEF Types
  <2>2. \A i \in Nat : i < maxWorkers \/ i < MaxWorkers =>
            i \in Workers /\ i \in 0..MaxWorkers /\ i + 1 \in 0..MaxWorkers
    BY <2>1, WorkersAre
  <2>. QED  BY <2>1, <2>2 DEF IInv, Started
<1>c. \A w \in Workers, p \in WorkerPlaces : [wpc EXCEPT ![w] = p] \in [Workers -> WorkerPlaces]
  BY <1>a DEF Types
<1>d. \A w \in Workers, x \in Flags :
          /\ [flags EXCEPT ![w] = flags[w] \cup {x}] \in [Workers -> SUBSET Flags]
          /\ [flags EXCEPT ![w] = flags[w] \ {x}] \in [Workers -> SUBSET Flags]
          /\ [flags EXCEPT ![w] = {x}] \in [Workers -> SUBSET Flags]
  BY <1>a DEF Types
<1>e. \A w \in Workers : Signalled(w) \in [Workers -> WorkerPlaces]
  BY <1>a DEF Types, Signalled, WorkerPlaces
<1>. USE DEF ownerVars, queueVars, workVars
<1>1. CASE StartWorker
  <2>1. idx' \in 0..MaxWorkers /\ maxWorkers' \in 0..MaxWorkers /\ pc' \in OwnerPlaces
    BY <1>1, <1>a, <1>b DEF StartWorker, Types, OwnerPlaces, Initialising, Exiting
  <2>2. wpc' \in [Workers -> WorkerPlaces]
    BY <1>1, <1>a, <1>b, <1>c DEF StartWorker, Types, WorkerPlaces
  <2>. QED  BY <2>1, <2>2, <1>1, <1>a DEF StartWorker, Types
<1>2. CASE SetIdle
  <2>1. idx' \in 0..MaxWorkers /\ pc' \in OwnerPlaces
    BY <1>2, <1>a, <1>b DEF SetIdle, Types, OwnerPlaces, Initialising
  <2>2. flags' \in [Workers -> SUBSET Flags]
    BY <1>2, <1>a, <1>b, <1>d DEF SetIdle, Flags
  <2>. QED  BY <2>1, <2>2, <1>2, <1>a DEF SetIdle, Types
<1>3. CASE InitCheck
  <2>1. idx' \in 0..MaxWorkers
    BY <1>3, <1>b DEF InitCheck
  <2>2. running' \in Nat /\ error' \in Nat
    BY <1>3, <1>a DEF InitCheck, Types
  <2>. QED  BY <2>1, <2>2, <1>3, <1>a DEF InitCheck, Types
<1>4. CASE InitDecide
  BY <1>4, <1>a, <1>b DEF InitDecide, Types, OwnerPlaces, Initialising, Exiting
<1>5. CASE GetSubmitWorker
  <2>1. target' \in Workers /\ nextFree' \in Workers
    BY <1>5, <1>a, <1>b, WorkersAre, ZeroIsWorker DEF GetSubmitWorker, Types, Candidates
  <2>. QED  BY <2>1, <1>5, <1>a DEF GetSubmitWorker, Types, OwnerPlaces
<1>6. CASE Enqueue
  <2>1. workList' \in [Workers -> Seq(Nat)] /\ seq' \in [Workers -> Nat] /\ workSeq' \in Nat
    BY <1>6, <1>a DEF Enqueue, Types
  <2>2. flags' \in [Workers -> SUBSET Flags] /\ wpc' \in [Workers -> WorkerPlaces]
    BY <1>6, <1>a, <1>d, <1>e DEF Enqueue, Types, Flags
  <2>. QED  BY <2>1, <2>2, <1>6, <1>a DEF Enqueue, Types, OwnerPlaces
<1>7. CASE Flush
  BY <1>7, <1>a, <1>b DEF Flush, Types, OwnerPlaces, Flushing
<1>8. CASE FlushCheck
  <2>1. idx' \in 0..MaxWorkers /\ pc' \in OwnerPlaces
    BY <1>8, <1>a, <1>b DEF FlushCheck, Types, OwnerPlaces, Flushing
  <2>. QED  BY <2>1, <1>8, <1>a DEF FlushCheck, Types
<1>9. CASE FlushReturn
  BY <1>9, <1>a, <1>b DEF FlushReturn, Types, OwnerPlaces
<1>10. CASE Exit
  BY <1>10, <1>a, <1>b DEF Exit, Types, OwnerPlaces, Exiting
<1>11. CASE ExitSet
  <2>1. idx' \in 0..MaxWorkers /\ pc' \in OwnerPlaces
    BY <1>11, <1>a, <1>b DEF ExitSet, Types, OwnerPlaces, Exiting
  <2>2. flags' \in [Workers -> SUBSET Flags] /\ wpc' \in [Workers -> WorkerPlaces]
    <3>1. CASE idx < maxWorkers
      BY <3>1, <1>11, <1>b, <1>d, <1>e DEF ExitSet, Flags
    <3>2. CASE ~(idx < maxWorkers)
      BY <3>2, <1>11, <1>a DEF ExitSet, Types
    <3>. QED  BY <3>1, <3>2
  <2>. QED  BY <2>1, <2>2, <1>11, <1>a DEF ExitSet, Types
<1>12. CASE ExitJoin
  <2>1. idx' \in 0..MaxWorkers /\ pc' \in OwnerPlaces
    BY <1>12, <1>a, <1>b DEF ExitJoin, Types, OwnerPlaces, Exiting
  <2>2. flags' \in [Workers -> SUBSET Flags]
    <3>1. CASE idx < maxWorkers
      BY <3>1, <1>12, <1>b, <1>d DEF ExitJoin, Flags
    <3>2. CASE ~(idx < maxWorkers)
      BY <3>2, <1>12, <1>a DEF ExitJoin, Types
    <3>. QED  BY <3>1, <3>2
  <2>. QED  BY <2>1, <2>2, <1>12, <1>a DEF ExitJoin, Types
<1>13. CASE SpuriousWakeup
  BY <1>13, <1>a, <1>c DEF SpuriousWakeup, Types, OwnerPlaces, WorkerPlaces, Initialising, Flushing
<1>14. ASSUME NEW w \in Workers, InitWorker(w)
       PROVE  Types'
  <2>1. /\ flags[w] \cup {"RUNNING"} \in SUBSET Flags
        /\ flags[w] \cup {"RUNNING", "ERROR"} \in SUBSET Flags
    BY <1>a DEF Types, Flags
  <2>2. flags' \in [Workers -> SUBSET Flags]
    BY <2>1, <1>14, <1>a DEF InitWorker, Types
  <2>. QED  BY <2>2, <1>14, <1>a, <1>c DEF InitWorker, Types, WorkerPlaces
<1>15. ASSUME NEW w \in Workers, Announce(w) \/ CheckError(w) \/ Leave(w) \/ PreSleep(w)
                                 \/ TellFlusher(w) \/ Sleep(w)
       PROVE  Types'
  <2>1. pc' \in OwnerPlaces
    BY <1>15, <1>a DEF Announce, CheckError, Leave, PreSleep, TellFlusher, Sleep, Types,
        OwnerPlaces, Initialising, Flushing
  <2>2. wpc' \in [Workers -> WorkerPlaces]
    BY <1>15, <1>a, <1>c DEF Announce, CheckError, Leave, PreSleep, TellFlusher, Sleep, Types,
        WorkerPlaces
  <2>. QED  BY <2>1, <2>2, <1>15, <1>a DEF Announce, CheckError, Leave, PreSleep, TellFlusher,
            Sleep, Types
<1>16. ASSUME NEW w \in Workers, TakeWork(w)
       PROVE  Types'
  <2>1. local' \in [Workers -> Seq(Nat)] /\ workList' \in [Workers -> Seq(Nat)]
    BY <1>16, <1>a DEF TakeWork, Types
  <2>. QED  BY <2>1, <1>16, <1>a, <1>c DEF TakeWork, Types, WorkerPlaces
<1>17. ASSUME NEW w \in Workers, GoIdle(w)
       PROVE  Types'
  BY <1>17, <1>a, <1>c, <1>d DEF GoIdle, Types, WorkerPlaces, Flags
<1>18. ASSUME NEW w \in Workers, Handle(w)
       PROVE  Types'
  <2>1. local[w] \in Seq(Nat) /\ local[w] # << >>
    BY <1>18, <1>a DEF Handle, Types
  <2>2. Head(local[w]) \in Nat /\ Tail(local[w]) \in Seq(Nat)
    BY <2>1
  <2>3. local' \in [Workers -> Seq(Nat)] /\ done' \in [Workers -> SUBSET Nat]
    BY <2>2, <1>18, <1>a DEF Handle, Types
  <2>. QED  BY <2>3, <1>18, <1>a DEF Handle, Types
<1>19. ASSUME NEW w \in Workers, UpdateAcct(w)
       PROVE  Types'
  <2>1. done' \in [Workers -> SUBSET Nat] /\ accounted' \in SUBSET Nat
    BY <1>19, <1>a DEF UpdateAcct, Types
  <2>. QED  BY <2>1, <1>19, <1>a, <1>c DEF UpdateAcct, Types, WorkerPlaces
<1>20. CASE UNCHANGED vars
  BY <1>20, <1>a DEF vars, Types
<1>. QED
  BY <1>1, <1>2, <1>3, <1>4, <1>5, <1>6, <1>7, <1>8, <1>9, <1>10, <1>11, <1>12, <1>13, <1>14,
     <1>15, <1>16, <1>17, <1>18, <1>19, <1>20 DEF Next, OwnerStep, OwnerCall, WorkerStep

LEMMA StartedStep == IInv /\ [Next]_vars => Started'
<1>. SUFFICES ASSUME IInv, [Next]_vars
              PROVE  Started'
  OBVIOUS
<1>. idx \in Nat /\ maxWorkers \in Nat /\ idx <= MaxWorkers /\ maxWorkers <= MaxWorkers
  BY ZeroIsWorker DEF IInv, TypeOK, Types
<1>. USE WorkersAre, ZeroIsWorker DEF IInv, TypeOK, Types, Started, Initialising, Flushing,
          Exiting, ownerVars, queueVars, workVars
<1>1. CASE StartWorker
  <2>1. idx \in Workers
    BY <1>1 DEF StartWorker
  <2>2. CASE pc' = "setIdle"
    <3>1. wpc' = [wpc EXCEPT ![idx] = "start"] /\ UNCHANGED <<idx, maxWorkers, target, nextFree>>
      BY <2>2, <1>1 DEF StartWorker
    <3>2. \A w \in Workers : wpc'[w] = IF w = idx THEN "start" ELSE wpc[w]
      BY <3>1
    <3>3. \A w \in Workers : wpc[w] # "none" <=> w < idx
      BY <1>1 DEF StartWorker
    <3>4. \A w \in Workers : w <= idx <=> w < idx \/ w = idx
      BY <2>1, AtMost
    <3>5. \A w \in Workers : wpc'[w] # "none" <=> w <= idx
      BY <3>2, <3>3, <3>4
    <3>. QED  BY <3>1, <3>5, <2>1, <2>2, <1>1 DEF StartWorker
  <2>3. CASE pc' # "setIdle"
    <3>1. UNCHANGED <<wpc, target, nextFree>> /\ maxWorkers' = idx /\ idx' = 0
      BY <2>3, <1>1 DEF StartWorker
    <3>2. pc' = IF idx = 0 THEN "exitSet" ELSE "initCheck"
      BY <2>3, <1>1 DEF StartWorker
    <3>. QED  BY <3>1, <3>2, <2>1, <1>1 DEF StartWorker
  <2>. QED  BY <2>2, <2>3
<1>2. CASE SetIdle
  <2>1. \A w \in Workers : wpc'[w] # "none" <=> w < idx + 1
    BY SMTT(30), <1>2 DEF SetIdle
  <2>2. pc' = "start" => idx' = idx + 1 /\ idx' < MaxWorkers
    BY <1>2 DEF SetIdle
  <2>3. pc' # "start" => pc' = "initCheck" /\ idx' = 0 /\ idx + 1 = MaxWorkers
    BY <1>2 DEF SetIdle
  <2>4. pc' \in {"start", "initCheck"} /\ UNCHANGED <<maxWorkers, target, nextFree, wpc>>
    BY <1>2 DEF SetIdle
  <2>. QED  BY SMTT(30), <2>1, <2>2, <2>3, <2>4, <1>2 DEF SetIdle
<1>3. CASE InitCheck
  BY <1>3 DEF InitCheck
<1>4. CASE InitDecide
  BY <1>4 DEF InitDecide
<1>5. CASE GetSubmitWorker
  <2>1. \A w \in Candidates : w \in Workers /\ w < maxWorkers
    BY CandidatesAre
  <2>2. PICK w \in Candidates :
            /\ target' = w
            /\ nextFree' = IF w = nextFree THEN (IF w + 1 < maxWorkers THEN w + 1 ELSE 0) ELSE nextFree
    BY <1>5 DEF GetSubmitWorker
  <2>3. target' \in Workers /\ target' < maxWorkers
    BY <2>1, <2>2
  <2>4. nextFree' \in {0, nextFree} \/ (nextFree' \in Workers /\ nextFree' < maxWorkers)
    <3>1. CASE w = nextFree /\ w + 1 < maxWorkers
      <4>1. w + 1 \in Workers
        <5>1. w \in Nat /\ w + 1 \in Nat /\ w + 1 < MaxWorkers
          BY <2>1, <3>1, ZeroIsWorker
        <5>. QED  BY <5>1, WorkersAre
      <4>. QED  BY <2>2, <3>1, <4>1
    <3>2. CASE ~(w = nextFree /\ w + 1 < maxWorkers)
      BY <2>2, <3>2
    <3>. QED  BY <3>1, <3>2
  <2>5. UNCHANGED <<idx, maxWorkers, wpc>> /\ pc = "ready" /\ pc' = "enqueue"
    BY <1>5 DEF GetSubmitWorker
  <2>. QED  BY <2>3, <2>4, <2>5
<1>6. CASE Enqueue
  <2>1. \A w \in Workers : wpc'[w] # "none" <=> wpc[w] # "none"
    BY <1>6 DEF Enqueue, Signalled
  <2>. QED  BY <2>1, <1>6 DEF Enqueue
<1>7. CASE Flush
  BY <1>7 DEF Flush
<1>8. CASE FlushCheck
  BY SMTT(30), <1>8 DEF FlushCheck
<1>9. CASE FlushReturn
  BY <1>9 DEF FlushReturn
<1>10. CASE Exit
  BY <1>10 DEF Exit
<1>11. CASE ExitSet
  <2>1. wpc' = wpc \/ wpc' = Signalled(idx)
    BY <1>11 DEF ExitSet
  <2>2. \A w \in Workers : wpc'[w] # "none" <=> wpc[w] # "none"
    BY <2>1 DEF Signalled
  <2>3. idx' \in Nat /\ idx' <= maxWorkers' /\ pc' \in Exiting
    BY SMTT(30), <1>11 DEF ExitSet
  <2>4. UNCHANGED <<maxWorkers, nextFree, target>> /\ pc \in Exiting
    BY <1>11 DEF ExitSet
  <2>. QED  BY <2>2, <2>3, <2>4
<1>12. CASE ExitJoin
  BY SMTT(30), <1>12 DEF ExitJoin
<1>13. CASE SpuriousWakeup
  BY <1>13 DEF SpuriousWakeup
<1>14. ASSUME NEW w \in Workers, InitWorker(w)
      PROVE  Started'
  BY <1>14 DEF InitWorker
<1>15. ASSUME NEW w \in Workers, Announce(w)
      PROVE  Started'
  BY <1>15 DEF Announce
<1>16. ASSUME NEW w \in Workers, CheckError(w)
      PROVE  Started'
  BY <1>16 DEF CheckError
<1>17. ASSUME NEW w \in Workers, TakeWork(w)
      PROVE  Started'
  BY <1>17 DEF TakeWork, HasLock
<1>18. ASSUME NEW w \in Workers, Leave(w)
      PROVE  Started'
  BY <1>18 DEF Leave, HasLock
<1>19. ASSUME NEW w \in Workers, PreSleep(w)
      PROVE  Started'
  BY <1>19 DEF PreSleep
<1>20. ASSUME NEW w \in Workers, GoIdle(w)
      PROVE  Started'
  BY <1>20 DEF GoIdle
<1>21. ASSUME NEW w \in Workers, TellFlusher(w)
      PROVE  Started'
  BY <1>21 DEF TellFlusher
<1>22. ASSUME NEW w \in Workers, Sleep(w)
      PROVE  Started'
  BY <1>22 DEF Sleep
<1>23. ASSUME NEW w \in Workers, Handle(w)
      PROVE  Started'
  BY <1>23 DEF Handle
<1>24. ASSUME NEW w \in Workers, UpdateAcct(w)
      PROVE  Started'
  BY <1>24 DEF UpdateAcct
<1>25. CASE UNCHANGED vars
  BY <1>25 DEF vars
<1>. QED  BY <1>1, <1>2, <1>3, <1>4, <1>5, <1>6, <1>7, <1>8, <1>9, <1>10, <1>11, <1>12, <1>13,
          <1>14, <1>15, <1>16, <1>17, <1>18, <1>19, <1>20, <1>21, <1>22, <1>23, <1>24, <1>25
          DEF Next, OwnerStep, OwnerCall, WorkerStep

LEMMA CountingStep == IInv /\ [Next]_vars => Counting'
<1>. SUFFICES ASSUME IInv, [Next]_vars
              PROVE  Counting'
  OBVIOUS
<1>. idx \in Nat /\ maxWorkers \in Nat /\ idx <= MaxWorkers /\ maxWorkers <= MaxWorkers
  BY ZeroIsWorker DEF IInv, TypeOK, Types
<1>. USE WorkersAre, ZeroIsWorker DEF IInv, TypeOK, Types, Started, Counting, Quiet, Up,
          Initialising, Flushing, Exiting, ownerVars, queueVars, workVars
<1>1. CASE StartWorker
  <2>1. running' = 0 /\ pc' \in {"setIdle", "exitSet", "initCheck"} /\ idx' \in Nat
    BY <1>1 DEF StartWorker
  <2>2. pc' = "initCheck" => idx' = 0
    BY <1>1 DEF StartWorker
  <2>. QED  BY SMTT(30), <2>1, <2>2
<1>2. CASE SetIdle
  <2>1. running' = 0 /\ pc' \in {"start", "initCheck"} /\ idx' \in Nat
    BY <1>2 DEF SetIdle
  <2>2. pc' = "initCheck" => idx' = 0
    BY <1>2 DEF SetIdle
  <2>. QED  BY SMTT(30), <2>1, <2>2
<1>3. CASE InitCheck
  BY SMTT(30), <1>3 DEF InitCheck
<1>4. CASE InitDecide
  BY <1>4 DEF InitDecide
<1>5. CASE GetSubmitWorker
  BY <1>5 DEF GetSubmitWorker
<1>6. CASE Enqueue
  BY <1>6 DEF Enqueue
<1>7. CASE Flush
  BY <1>7 DEF Flush
<1>8. CASE FlushCheck
  BY <1>8 DEF FlushCheck
<1>9. CASE FlushReturn
  BY <1>9 DEF FlushReturn
<1>10. CASE Exit
  BY <1>10 DEF Exit
<1>11. CASE ExitSet
  BY <1>11 DEF ExitSet
<1>12. CASE ExitJoin
  BY <1>12 DEF ExitJoin
<1>13. CASE SpuriousWakeup
  <2>1. UNCHANGED <<idx, running, error, maxWorkers, flags>>
    BY <1>13 DEF SpuriousWakeup
  <2>2. CASE pc = "initWait"
    <3>1. idx = 0 /\ running = 0 /\ pc' \in {"initWait", "initCheck"}
      BY <2>2, <1>13 DEF SpuriousWakeup
    <3>. QED  BY SMTT(30), <2>1, <3>1
  <2>3. CASE pc # "initWait"
    <3>1. pc' = "initCheck" => pc = "initCheck"
      BY <2>3, <1>13 DEF SpuriousWakeup
    <3>2. pc' = pc \/ (pc = "flushWait" /\ pc' = "flushCheck")
      BY <2>3, <1>13 DEF SpuriousWakeup
    <3>. QED  BY <2>1, <3>1, <3>2
  <2>. QED  BY <2>2, <2>3
<1>14. ASSUME NEW w \in Workers, InitWorker(w)
      PROVE  Counting'
  BY <1>14 DEF InitWorker
<1>15. ASSUME NEW w \in Workers, Announce(w)
      PROVE  Counting'
  <2>1. UNCHANGED <<idx, running, error, maxWorkers, flags>>
    BY <1>15 DEF Announce
  <2>2. CASE pc = "initWait"
    BY <2>1, <2>2, <1>15 DEF Announce
  <2>3. CASE pc # "initWait"
    BY <2>1, <2>3, <1>15 DEF Announce
  <2>. QED  BY <2>2, <2>3
<1>16. ASSUME NEW w \in Workers, CheckError(w)
      PROVE  Counting'
  BY <1>16 DEF CheckError
<1>17. ASSUME NEW w \in Workers, TakeWork(w)
      PROVE  Counting'
  BY <1>17 DEF TakeWork
<1>18. ASSUME NEW w \in Workers, Leave(w)
      PROVE  Counting'
  BY <1>18 DEF Leave
<1>19. ASSUME NEW w \in Workers, PreSleep(w)
      PROVE  Counting'
  BY <1>19 DEF PreSleep
<1>20. ASSUME NEW w \in Workers, GoIdle(w)
      PROVE  Counting'
  BY <1>20 DEF GoIdle
<1>21. ASSUME NEW w \in Workers, TellFlusher(w)
      PROVE  Counting'
  BY <1>21 DEF TellFlusher
<1>22. ASSUME NEW w \in Workers, Sleep(w)
      PROVE  Counting'
  BY <1>22 DEF Sleep
<1>23. ASSUME NEW w \in Workers, Handle(w)
      PROVE  Counting'
  BY <1>23 DEF Handle
<1>24. ASSUME NEW w \in Workers, UpdateAcct(w)
      PROVE  Counting'
  BY <1>24 DEF UpdateAcct
<1>25. CASE UNCHANGED vars
  BY <1>25 DEF vars
<1>. QED  BY <1>1, <1>2, <1>3, <1>4, <1>5, <1>6, <1>7, <1>8, <1>9, <1>10, <1>11, <1>12, <1>13,
          <1>14, <1>15, <1>16, <1>17, <1>18, <1>19, <1>20, <1>21, <1>22, <1>23, <1>24, <1>25
          DEF Next, OwnerStep, OwnerCall, WorkerStep

LEMMA QuietStep == IInv /\ [Next]_vars => Quiet'
<1>. SUFFICES ASSUME IInv, [Next]_vars
              PROVE  Quiet'
  OBVIOUS
<1>. idx \in Nat /\ maxWorkers \in Nat /\ idx <= MaxWorkers /\ maxWorkers <= MaxWorkers
  BY ZeroIsWorker DEF IInv, TypeOK, Types
<1>. USE WorkersAre, ZeroIsWorker DEF IInv, TypeOK, Types, Started, Counting, Quiet, Progress,
          Up, Initialising, Flushing, Exiting, HasLock, Idle, Signalled, ownerVars, queueVars,
          workVars
<1>1. CASE StartWorker
  <2>1. UNCHANGED <<flags, workList, local, done>>
    BY <1>1 DEF StartWorker
  <2>2. \A w \in Workers : wpc'[w] = wpc[w] \/ (wpc[w] = "none" /\ wpc'[w] = "start")
    BY <1>1 DEF StartWorker
  <2>. QED  BY <2>1, <2>2
<1>2. CASE SetIdle
  BY <1>2 DEF SetIdle
<1>3. CASE InitCheck
  BY <1>3 DEF InitCheck
<1>4. CASE InitDecide
  BY <1>4 DEF InitDecide
<1>5. CASE GetSubmitWorker
  BY <1>5 DEF GetSubmitWorker
<1>6. CASE Enqueue
  BY SMTT(30), <1>6 DEF Enqueue
<1>7. CASE Flush
  BY <1>7 DEF Flush
<1>8. CASE FlushCheck
  BY <1>8 DEF FlushCheck
<1>9. CASE FlushReturn
  BY <1>9 DEF FlushReturn
<1>10. CASE Exit
  BY <1>10 DEF Exit
<1>11. CASE ExitSet
  <2>1. UNCHANGED <<workList, local, done>>
    BY <1>11 DEF ExitSet
  <2>2. wpc' = wpc \/ wpc' = Signalled(idx)
    BY <1>11 DEF ExitSet
  <2>3. \A w \in Workers : wpc'[w] = wpc[w] \/ (wpc[w] = "wait" /\ wpc'[w] = "handle")
    BY SMTT(30), <2>2
  <2>4. \A w \in Workers : flags'[w] = flags[w] \/ flags'[w] = flags[w] \cup {"EXIT"}
    BY SMTT(30), <1>11 DEF ExitSet
  <2>. HIDE DEF IInv, TypeOK, Types, Started, Counting, Quiet, Progress
  <2>5. \A w \in Workers : \A x \in {"RUNNING", "ERROR"} : x \in flags'[w] <=> x \in flags[w]
    BY <2>4
  <2>6. \A w \in Workers : "EXIT" \in flags[w] => "EXIT" \in flags'[w]
    BY <2>4
  <2>. QED  BY <2>1, <2>3, <2>5, <2>6 DEF IInv, TypeOK, Types, Quiet, Up
<1>12. CASE ExitJoin
  <2>1. UNCHANGED <<wpc, workList, local, done>>
    BY <1>12 DEF ExitJoin
  <2>0. flags' = flags \/ flags' = [flags EXCEPT ![idx] = flags[idx] \cup {"ACCOUNTED"}]
    BY <1>12 DEF ExitJoin
  <2>2. \A w \in Workers : flags'[w] = flags[w] \/ flags'[w] = flags[w] \cup {"ACCOUNTED"}
    BY SMTT(30), <2>0
  <2>. HIDE DEF IInv, TypeOK, Types, Started, Counting, Quiet, Progress
  <2>3. \A w \in Workers : \A x \in {"RUNNING", "ERROR", "EXIT"} : x \in flags'[w] <=> x \in flags[w]
    BY <2>2
  <2>. QED  BY <2>1, <2>3 DEF IInv, TypeOK, Types, Quiet, Up
<1>13. CASE SpuriousWakeup
  BY SMTT(30), <1>13 DEF SpuriousWakeup
<1>14. ASSUME NEW w \in Workers, InitWorker(w)
      PROVE  Quiet'
  <2>1. UNCHANGED <<workList, local, done>>
    BY <1>14 DEF InitWorker
  <2>2. \A v \in Workers \ {w} : wpc'[v] = wpc[v] /\ flags'[v] = flags[v]
    BY <1>14 DEF InitWorker
  <2>3. wpc[w] = "start" /\ wpc'[w] = "initialised"
    BY <1>14 DEF InitWorker
  <2>4. local[w] = << >> /\ done[w] = {} /\ workList[w] = << >>
    BY <2>3
  <2>. QED  BY <2>1, <2>2, <2>3, <2>4
<1>15. ASSUME NEW w \in Workers, Announce(w)
      PROVE  Quiet'
  BY <1>15 DEF Announce
<1>16. ASSUME NEW w \in Workers, CheckError(w)
      PROVE  Quiet'
  BY <1>16 DEF CheckError
<1>17. ASSUME NEW w \in Workers, TakeWork(w)
      PROVE  Quiet'
  BY <1>17 DEF TakeWork
<1>18. ASSUME NEW w \in Workers, Leave(w)
      PROVE  Quiet'
  BY <1>18 DEF Leave
<1>19. ASSUME NEW w \in Workers, PreSleep(w)
      PROVE  Quiet'
  BY <1>19 DEF PreSleep
<1>20. ASSUME NEW w \in Workers, GoIdle(w)
      PROVE  Quiet'
  BY <1>20 DEF GoIdle
<1>21. ASSUME NEW w \in Workers, TellFlusher(w)
      PROVE  Quiet'
  BY <1>21 DEF TellFlusher
<1>22. ASSUME NEW w \in Workers, Sleep(w)
      PROVE  Quiet'
  BY <1>22 DEF Sleep
<1>23. ASSUME NEW w \in Workers, Handle(w)
      PROVE  Quiet'
  BY <1>23 DEF Handle
<1>24. ASSUME NEW w \in Workers, UpdateAcct(w)
      PROVE  Quiet'
  BY <1>24 DEF UpdateAcct
<1>25. CASE UNCHANGED vars
  BY <1>25 DEF vars
<1>. QED  BY <1>1, <1>2, <1>3, <1>4, <1>5, <1>6, <1>7, <1>8, <1>9, <1>10, <1>11, <1>12, <1>13,
          <1>14, <1>15, <1>16, <1>17, <1>18, <1>19, <1>20, <1>21, <1>22, <1>23, <1>24, <1>25
          DEF Next, OwnerStep, OwnerCall, WorkerStep

LEMMA ProgressStep == IInv /\ [Next]_vars => Progress'
<1>. SUFFICES ASSUME IInv, [Next]_vars
              PROVE  Progress'
  OBVIOUS
<1>. idx \in Nat /\ maxWorkers \in Nat /\ idx <= MaxWorkers /\ maxWorkers <= MaxWorkers
  BY ZeroIsWorker DEF IInv, TypeOK, Types
<1>. USE WorkersAre, ZeroIsWorker DEF IInv, TypeOK, Types, Started, Counting, Progress,
          Initialising, Flushing, Exiting, HasLock, Idle, Signalled, ownerVars, queueVars, workVars
<1>1. CASE StartWorker
  BY <1>1 DEF StartWorker
<1>2. CASE SetIdle
  BY <1>2 DEF SetIdle
<1>3. CASE InitCheck
  BY <1>3 DEF InitCheck
<1>4. CASE InitDecide
  BY <1>4 DEF InitDecide
<1>5. CASE GetSubmitWorker
  BY <1>5 DEF GetSubmitWorker
<1>6. CASE Enqueue
  BY <1>6 DEF Enqueue
<1>7. CASE Flush
  BY <1>7 DEF Flush
<1>8. CASE FlushCheck
  <2>1. pc' \in Flushing /\ UNCHANGED <<flags, maxWorkers>>
    BY <1>8 DEF FlushCheck
  <2>2. pc' = "flushCheck" => idx' = idx + 1 /\ "IDLE" \in flags[idx]
    BY <1>8 DEF FlushCheck
  <2>3. pc' = "flushCheck" => \A w \in Workers : w < idx' => "IDLE" \in flags[w]
    <3>1. \A w \in Workers : w < idx + 1 => w < idx \/ w = idx
      BY SMTT(30)
    <3>. QED  BY <2>2, <3>1, <1>8 DEF FlushCheck
  <2>. QED  BY <2>1, <2>3, <1>8 DEF FlushCheck
<1>9. CASE FlushReturn
  BY <1>9 DEF FlushReturn
<1>10. CASE Exit
  BY <1>10 DEF Exit
<1>11. CASE ExitSet
  <2>1. pc \in Exiting /\ pc' \in Exiting
    BY <1>11 DEF ExitSet
  <2>2. pc' = "exitJoin" => idx' = 0
    BY <1>11 DEF ExitSet
  <2>. QED  BY <2>1, <2>2, NotBelowZero
<1>12. CASE ExitJoin
  <2>1. pc = "exitJoin" /\ pc' \in {"exitJoin", "gone"} /\ UNCHANGED wpc
    BY <1>12 DEF ExitJoin
  <2>2. pc' = "exitJoin" => idx' = idx + 1 /\ wpc[idx] = "done"
    BY <1>12 DEF ExitJoin
  <2>3. \A w \in Workers : w < idx + 1 => w < idx \/ w = idx
    BY SMTT(30)
  <2>. QED  BY <2>1, <2>2, <2>3
<1>13. CASE SpuriousWakeup
  <2>1. UNCHANGED <<idx, workSeq, workList, local, done, flags, maxWorkers>>
    BY <1>13 DEF SpuriousWakeup
  <2>2. pc' = "exitJoin" => \A w \in Workers : w < idx => wpc'[w] = "done"
    BY <1>13 DEF SpuriousWakeup
  <2>3. pc' = pc \/ (pc = "initWait" /\ pc' = "initCheck") \/ (pc = "flushWait" /\ pc' = "flushCheck")
    BY <1>13 DEF SpuriousWakeup
  <2>4. \A v \in Workers : pc' = "flushCheck" /\ v < idx => "IDLE" \in flags[v]
    BY SMTT(30), <2>3
  <2>5. pc' \in Initialising => pc \in Initialising
    BY <2>3
  <2>6. pc' \notin Exiting \cup {"gone"} => pc \notin Exiting \cup {"gone"}
    BY <2>3
  <2>. QED  BY <2>1, <2>2, <2>4, <2>5, <2>6
<1>14. ASSUME NEW w \in Workers, InitWorker(w)
      PROVE  Progress'
  <2>1. UNCHANGED <<pc, idx, workSeq, workList, local, done>>
    BY <1>14 DEF InitWorker
  <2>2. \A v \in Workers : \/ flags'[v] \in {flags[v], flags[v] \cup {"RUNNING"}}
                           \/ flags'[v] = flags[v] \cup {"RUNNING", "ERROR"}
    BY SMTT(30), <1>14 DEF InitWorker
  <2>3. \A v \in Workers : wpc[v] = "done" => wpc'[v] = "done"
    BY <1>14 DEF InitWorker
  <2>4. \A v \in Workers : \A x \in {"IDLE", "EXIT"} : x \in flags[v] <=> x \in flags'[v]
    <3>. HIDE DEF IInv, TypeOK, Types, Started, Counting, Progress
    <3>. QED  BY <2>2
  <2>. QED  BY <2>1, <2>3, <2>4
<1>15. ASSUME NEW w \in Workers, Announce(w)
      PROVE  Progress'
  BY <1>15 DEF Announce
<1>16. ASSUME NEW w \in Workers, CheckError(w)
      PROVE  Progress'
  BY <1>16 DEF CheckError
<1>17. ASSUME NEW w \in Workers, TakeWork(w)
      PROVE  Progress'
  BY <1>17 DEF TakeWork
<1>18. ASSUME NEW w \in Workers, Leave(w)
      PROVE  Progress'
  BY <1>18 DEF Leave
<1>19. ASSUME NEW w \in Workers, PreSleep(w)
      PROVE  Progress'
  BY <1>19 DEF PreSleep
<1>20. ASSUME NEW w \in Workers, GoIdle(w)
      PROVE  Progress'
  BY <1>20 DEF GoIdle
<1>21. ASSUME NEW w \in Workers, TellFlusher(w)
      PROVE  Progress'
  <2>1. UNCHANGED <<idx, workSeq, workList, local, done, flags, maxWorkers>>
    BY <1>21 DEF TellFlusher
  <2>2. pc' = "exitJoin" => \A v \in Workers : v < idx => wpc'[v] = "done"
    BY <1>21 DEF TellFlusher
  <2>3. pc' = pc \/ (pc = "flushWait" /\ pc' = "flushCheck")
    BY <1>21 DEF TellFlusher
  <2>4. \A v \in Workers : pc' = "flushCheck" /\ v < idx => "IDLE" \in flags[v]
    <3>1. CASE pc = "flushWait"
      <4>1. idx = 0
        BY <3>1
      <4>. QED  BY <4>1, NotBelowZero
    <3>2. CASE pc # "flushWait"
      BY <2>3, <3>2
    <3>. QED  BY <3>1, <3>2
  <2>5. pc' \in Initialising => pc \in Initialising
    BY <2>3
  <2>6. pc' \notin Exiting \cup {"gone"} => pc \notin Exiting \cup {"gone"}
    BY <2>3
  <2>. QED  BY <2>1, <2>2, <2>4, <2>5, <2>6
<1>22. ASSUME NEW w \in Workers, Sleep(w)
      PROVE  Progress'
  BY <1>22 DEF Sleep
<1>23. ASSUME NEW w \in Workers, Handle(w)
      PROVE  Progress'
  BY <1>23 DEF Handle
<1>24. ASSUME NEW w \in Workers, UpdateAcct(w)
      PROVE  Progress'
  BY <1>24 DEF UpdateAcct
<1>25. CASE UNCHANGED vars
  BY <1>25 DEF vars
<1>. QED  BY <1>1, <1>2, <1>3, <1>4, <1>5, <1>6, <1>7, <1>8, <1>9, <1>10, <1>11, <1>12, <1>13,
          <1>14, <1>15, <1>16, <1>17, <1>18, <1>19, <1>20, <1>21, <1>22, <1>23, <1>24, <1>25
          DEF Next, OwnerStep, OwnerCall, WorkerStep

LEMMA IdleStep == IInv /\ [Next]_vars => IdleMeansNothingToDo'
<1>. SUFFICES ASSUME IInv, [Next]_vars
              PROVE  IdleMeansNothingToDo'
  OBVIOUS
<1>a. Types /\ IdleMeansNothingToDo
  BY DEF IInv, TypeOK
<1>b. \A w \in Workers : wpc[w] # "handle" => local[w] = << >> /\ done[w] = {}
  BY DEF IInv, Quiet
<1>. USE DEF Types, IdleMeansNothingToDo, ownerVars, queueVars, workVars
<1>1. CASE SetIdle
  <2>1. \A w \in Workers : workList[w] = << >> /\ local[w] = << >> /\ done[w] = {}
    BY <1>1 DEF SetIdle, IInv, Progress, Initialising
  <2>. QED  BY <1>1, <2>1 DEF SetIdle
<1>2. CASE Enqueue
  BY <1>2, <1>a DEF Enqueue
<1>3. CASE ExitSet \/ ExitJoin
  <2>1. UNCHANGED workVars
    BY <1>3 DEF ExitSet, ExitJoin
  <2>2. flags' = flags \/ \E x \in {"EXIT", "ACCOUNTED"} : flags' = [flags EXCEPT ![idx] = flags[idx] \cup {x}]
    BY <1>3 DEF ExitSet, ExitJoin
  <2>3. \A w \in Workers : "IDLE" \in flags'[w] => "IDLE" \in flags[w]
    <3>1. \A w \in Workers : flags'[w] = flags[w] \/ \E x \in {"EXIT", "ACCOUNTED"} : flags'[w] = flags[w] \cup {x}
      BY <2>2, <1>a
    <3>. HIDE DEF IdleMeansNothingToDo, Types
    <3>. QED  BY <3>1
  <2>. QED  BY <2>1, <2>3, <1>a
<1>4. CASE StartWorker \/ InitCheck \/ InitDecide \/ GetSubmitWorker \/ Flush \/ FlushCheck
           \/ FlushReturn \/ Exit \/ SpuriousWakeup
  <2>1. UNCHANGED <<flags, workVars>>
    BY <1>4 DEF StartWorker, InitCheck, InitDecide, GetSubmitWorker, Flush, FlushCheck, FlushReturn,
        Exit, SpuriousWakeup
  <2>. QED  BY <2>1, <1>a
<1>5. ASSUME NEW w \in Workers, InitWorker(w)
      PROVE  IdleMeansNothingToDo'
  <2>1. UNCHANGED workVars
    BY <1>5 DEF InitWorker
  <2>2. \A v \in Workers : \/ flags'[v] \in {flags[v], flags[v] \cup {"RUNNING"}}
                           \/ flags'[v] = flags[v] \cup {"RUNNING", "ERROR"}
    BY <1>5, <1>a DEF InitWorker
  <2>3. \A v \in Workers : "IDLE" \in flags'[v] => "IDLE" \in flags[v]
    BY <2>2
  <2>. QED  BY <2>1, <2>3, <1>a
<1>6. ASSUME NEW w \in Workers, Announce(w) \/ CheckError(w) \/ Leave(w) \/ PreSleep(w)
                                \/ TellFlusher(w) \/ Sleep(w)
      PROVE  IdleMeansNothingToDo'
  <2>1. UNCHANGED <<flags, workVars>>
    BY <1>6 DEF Announce, CheckError, Leave, PreSleep, TellFlusher, Sleep
  <2>. QED  BY <2>1, <1>a
<1>7. ASSUME NEW w \in Workers, TakeWork(w)
      PROVE  IdleMeansNothingToDo'
  BY <1>7, <1>a DEF TakeWork
<1>8. ASSUME NEW w \in Workers, GoIdle(w)
      PROVE  IdleMeansNothingToDo'
  BY <1>8, <1>a, <1>b DEF GoIdle, Idle
<1>9. ASSUME NEW w \in Workers, Handle(w)
      PROVE  IdleMeansNothingToDo'
  BY <1>9, <1>a DEF Handle
<1>10. ASSUME NEW w \in Workers, UpdateAcct(w)
       PROVE  IdleMeansNothingToDo'
  BY <1>10, <1>a DEF UpdateAcct
<1>11. CASE UNCHANGED vars
  BY <1>11, <1>a DEF vars
<1>. QED  BY <1>1, <1>2, <1>3, <1>4, <1>5, <1>6, <1>7, <1>8, <1>9, <1>10, <1>11
          DEF Next, OwnerStep, OwnerCall, WorkerStep

-----------------------------------------------------------------------------
(* No work is lost on its way from the list to the totals.                 *)
LEMMA ElementsOfEmpty == Elements(<< >>) = {}
BY DEF Elements

LEMMA ElementsOfAppend ==
  ASSUME NEW s \in Seq(Nat), NEW n \in Nat
  PROVE  Elements(Append(s, n)) = Elements(s) \cup {n}
<1>1. /\ Len(Append(s, n)) = Len(s) + 1 /\ Len(s) \in Nat
      /\ \A i \in 1..Len(s) : Append(s, n)[i] = s[i]
      /\ Append(s, n)[Len(s) + 1] = n
  OBVIOUS
<1>2. \A x : x \in Elements(Append(s, n)) => x \in Elements(s) \/ x = n
  <2>. TAKE x
  <2>. HAVE x \in Elements(Append(s, n))
  <2>1. PICK i \in 1..(Len(s) + 1) : x = Append(s, n)[i]
    BY <1>1 DEF Elements
  <2>2. i \in 1..Len(s) \/ i = Len(s) + 1
    BY <1>1
  <2>. QED  BY <1>1, <2>1, <2>2 DEF Elements
<1>3. \A x : x \in Elements(s) \/ x = n => x \in Elements(Append(s, n))
  <2>1. \A i \in 1..Len(s) : i \in 1..(Len(s) + 1)
    BY <1>1
  <2>2. Len(s) + 1 \in 1..(Len(s) + 1)
    BY <1>1
  <2>. QED  BY <1>1, <2>1, <2>2 DEF Elements
<1>. QED  BY <1>2, <1>3

LEMMA ElementsOfTail ==
  ASSUME NEW s \in Seq(Nat), s # << >>
  PROVE  Elements(s) = {Head(s)} \cup Elements(Tail(s))
<1>1. /\ Len(Tail(s)) = Len(s) - 1 /\ Len(s) \in Nat \ {0}
      /\ \A i \in 1..(Len(s) - 1) : Tail(s)[i] = s[i + 1]
      /\ Head(s) = s[1]
  OBVIOUS
<1>2. \A x : x \in Elements(s) => x = Head(s) \/ x \in Elements(Tail(s))
  <2>. TAKE x
  <2>. HAVE x \in Elements(s)
  <2>1. PICK i \in 1..Len(s) : x = s[i]
    BY DEF Elements
  <2>2. i = 1 \/ (i - 1 \in 1..(Len(s) - 1) /\ (i - 1) + 1 = i)
    BY <1>1
  <2>3. i # 1 => x = Tail(s)[i - 1]
    BY <1>1, <2>1, <2>2
  <2>. QED  BY <1>1, <2>1, <2>2, <2>3 DEF Elements
<1>3. \A x : x = Head(s) \/ x \in Elements(Tail(s)) => x \in Elements(s)
  <2>1. 1 \in 1..Len(s) /\ \A i \in 1..(Len(s) - 1) : i + 1 \in 1..Len(s)
    BY <1>1
  <2>. QED  BY <1>1, <2>1 DEF Elements
<1>. QED  BY <1>2, <1>3

LEMMA ConservedStep == IInv /\ [Next]_vars => Conserved'
<1>. SUFFICES ASSUME IInv, [Next]_vars
              PROVE  Conserved'
  OBVIOUS
<1>a. Types /\ Conserved
  BY DEF IInv, TypeOK
<1>b. \A w \in Workers : wpc[w] # "handle" => local[w] = << >> /\ done[w] = {}
  BY DEF IInv, Quiet
(* A step that moves works around within one worker keeps Conserved.       *)
<1>c. ASSUME NEW w \in Workers, workSeq' = workSeq,
             accounted \subseteq accounted', accounted' \subseteq accounted \cup Holdings(w),
             Holdings(w)' \subseteq Holdings(w), Holdings(w) \subseteq Holdings(w)' \cup accounted',
             \A v \in Workers \ {w} : Holdings(v)' = Holdings(v)
      PROVE  Conserved'
  <2>1. accounted' \subseteq 1..workSeq
    BY <1>a, <1>c DEF Conserved
  <2>2. \A v \in Workers : Holdings(v)' \subseteq 1..workSeq
    BY <1>a, <1>c DEF Conserved
  <2>3. ASSUME NEW n \in 1..workSeq
        PROVE  n \in accounted' \/ \E v \in Workers : n \in Holdings(v)'
    BY <1>a, <1>c DEF Conserved
  <2>. QED  BY <2>1, <2>2, <2>3, <1>c DEF Conserved
<1>d. ASSUME UNCHANGED <<workSeq, workVars>>
      PROVE  Conserved'
  BY <1>a, <1>d DEF Conserved, Holdings, workVars
<1>. USE DEF ownerVars, queueVars
<1>1. CASE Enqueue
  <2>. DEFINE n == workSeq + 1
  <2>0. PICK t \in Workers : t = target
    BY <1>a DEF Types
  <2>1. workList[t] \in Seq(Nat) /\ n \in Nat /\ workSeq \in Nat
    BY <1>a DEF Types
  <2>2. workSeq' = n /\ UNCHANGED <<local, done, accounted>>
    BY <1>1 DEF Enqueue
  <2>3. workList'[t] = Append(workList[t], n)
    BY <2>0, <1>1, <1>a DEF Enqueue, Types
  <2>4. \A v \in Workers \ {t} : workList'[v] = workList[v]
    BY <2>0, <1>1, <1>a DEF Enqueue, Types
  <2>5. Elements(workList'[t]) = Elements(workList[t]) \cup {n}
    BY <2>1, <2>3, ElementsOfAppend
  <2>6. Holdings(t)' = Holdings(t) \cup {n}
    BY <2>2, <2>5 DEF Holdings
  <2>7. \A v \in Workers \ {t} : Holdings(v)' = Holdings(v)
    BY <2>2, <2>4 DEF Holdings
  <2>8. n \in 1..n /\ \A m : m \in 1..n <=> m \in 1..workSeq \/ m = n
    BY <2>1
  <2>. HIDE DEF n
  <2>9. accounted' \subseteq 1..n
    BY <2>2, <2>8, <1>a DEF Conserved
  <2>10. \A v \in Workers : Holdings(v)' \subseteq 1..n
    BY <2>6, <2>7, <2>8, <1>a DEF Conserved
  <2>11. \A m \in 1..n : m \in accounted' \/ \E v \in Workers : m \in Holdings(v)'
    <3>1. \A v \in Workers : Holdings(v) \subseteq Holdings(v)'
      BY <2>6, <2>7
    <3>. QED  BY <3>1, <2>1, <2>2, <2>6, <2>8, <1>a DEF Conserved
  <2>. QED  BY <2>2, <2>9, <2>10, <2>11 DEF Conserved
<1>2. ASSUME NEW w \in Workers, TakeWork(w)
      PROVE  Conserved'
  <2>1. local[w] = << >>
    BY <1>b, <1>2 DEF TakeWork, HasLock
  <2>2. local'[w] = workList[w] /\ workList'[w] = << >> /\ UNCHANGED <<workSeq, done, accounted>>
    BY <1>2, <1>a DEF TakeWork, Types
  <2>3. \A v \in Workers \ {w} : local'[v] = local[v] /\ workList'[v] = workList[v]
    BY <1>2, <1>a DEF TakeWork, Types
  <2>4. Holdings(w)' = Holdings(w)
    BY <2>1, <2>2, ElementsOfEmpty DEF Holdings
  <2>5. \A v \in Workers \ {w} : Holdings(v)' = Holdings(v)
    BY <2>2, <2>3 DEF Holdings
  <2>. QED  BY <1>c, <2>2, <2>4, <2>5
<1>3. ASSUME NEW w \in Workers, Handle(w)
      PROVE  Conserved'
  <2>1. local[w] \in Seq(Nat) /\ local[w] # << >>
    BY <1>3, <1>a DEF Handle, Types
  <2>2. /\ done'[w] = done[w] \cup {Head(local[w])} /\ local'[w] = Tail(local[w])
        /\ UNCHANGED <<workSeq, workList, accounted>>
    BY <1>3, <1>a DEF Handle, Types
  <2>3. \A v \in Workers \ {w} : done'[v] = done[v] /\ local'[v] = local[v]
    BY <1>3, <1>a DEF Handle, Types
  <2>4. Elements(local[w]) = {Head(local[w])} \cup Elements(Tail(local[w]))
    BY <2>1, ElementsOfTail
  <2>5. Holdings(w)' = Holdings(w)
    BY <2>2, <2>4 DEF Holdings
  <2>6. \A v \in Workers \ {w} : Holdings(v)' = Holdings(v)
    BY <2>2, <2>3 DEF Holdings
  <2>. QED  BY <1>c, <2>2, <2>5, <2>6
<1>4. ASSUME NEW w \in Workers, UpdateAcct(w)
      PROVE  Conserved'
  <2>1. /\ local[w] = << >> /\ accounted' = accounted \cup done[w] /\ done'[w] = {}
        /\ UNCHANGED <<workSeq, workList, local>>
    BY <1>4, <1>a DEF UpdateAcct, Types
  <2>2. \A v \in Workers \ {w} : done'[v] = done[v]
    BY <1>4, <1>a DEF UpdateAcct, Types
  <2>3. Holdings(w)' = Elements(workList[w])
    BY <2>1, ElementsOfEmpty DEF Holdings
  <2>4. Holdings(w) = done[w] \cup Elements(workList[w])
    BY <2>1, ElementsOfEmpty DEF Holdings
  <2>5. \A v \in Workers \ {w} : Holdings(v)' = Holdings(v)
    BY <2>1, <2>2 DEF Holdings
  <2>. QED  BY <1>c, <2>1, <2>3, <2>4, <2>5
<1>5. CASE StartWorker \/ SetIdle \/ InitCheck \/ InitDecide \/ GetSubmitWorker \/ Flush
           \/ FlushCheck \/ FlushReturn \/ Exit \/ ExitSet \/ ExitJoin \/ SpuriousWakeup
  BY <1>5, <1>d DEF StartWorker, SetIdle, InitCheck, InitDecide, GetSubmitWorker, Flush, FlushCheck,
     FlushReturn, Exit, ExitSet, ExitJoin, SpuriousWakeup
<1>6. ASSUME NEW w \in Workers, InitWorker(w) \/ Announce(w) \/ CheckError(w) \/ Leave(w)
                                \/ PreSleep(w) \/ GoIdle(w) \/ TellFlusher(w) \/ Sleep(w)
      PROVE  Conserved'
  BY <1>6, <1>d DEF InitWorker, Announce, CheckError, Leave, PreSleep, GoIdle, TellFlusher, Sleep
<1>7. CASE UNCHANGED vars
  BY <1>7, <1>d DEF vars
<1>. QED  BY <1>1, <1>2, <1>3, <1>4, <1>5, <1>6, <1>7
          DEF Next, OwnerStep, OwnerCall, WorkerStep

-----------------------------------------------------------------------------
LEMMA InitIInv == Init => IInv
<1>. SUFFICES ASSUME Init
              PROVE  IInv
  OBVIOUS
<1>1. TypeOK
  BY ZeroIsWorker DEF Init, TypeOK, Types, OwnerPlaces, WorkerPlaces, Initialising
<1>2. Started /\ Counting /\ Quiet /\ Progress /\ IdleMeansNothingToDo
  BY ZeroIsWorker, NotBelowZero, WorkersAssumption DEF Init, Started, Counting, Quiet, Progress, Up,
     IdleMeansNothingToDo, Initialising, Flushing, Exiting
<1>3. Conserved
  <2>1. \A w \in Workers : Holdings(w) = {}
    BY ElementsOfEmpty DEF Init, Holdings
  <2>. QED  BY <2>1 DEF Init, Conserved
<1>. QED  BY <1>1, <1>2, <1>3 DEF IInv

(* next_free_worker and the target are among the workers that were started. *)
LEMMA InRange == Types /\ Started => TypeOK
<1>. SUFFICES ASSUME Types, Started, pc \in {"ready", "enqueue"}
              PROVE  nextFree < maxWorkers /\ target < maxWorkers
  BY DEF TypeOK
<1>1. 0 < maxWorkers /\ \A w \in Workers : wpc[w] # "none" <=> w < maxWorkers
  BY DEF Types, Started, Exiting
<1>. QED  BY <1>1 DEF Types, Started

LEMMA InvariantStep == IInv /\ [Next]_vars => IInv'
<1>. SUFFICES ASSUME IInv, [Next]_vars
              PROVE  IInv'
  OBVIOUS
<1>1. TypeOK'
  <2>1. Types' /\ Started'
    BY TypesStep, StartedStep
  <2>2. (Types /\ Started => TypeOK)'
    BY InRange, PTL
  <2>. QED  BY <2>1, <2>2
<1>. QED  BY <1>1, StartedStep, CountingStep, QuietStep, ProgressStep, IdleStep,
          ConservedStep DEF IInv

LEMMA Invariant == Spec => []IInv
BY InitIInv, InvariantStep, PTL DEF Spec

(* Every field keeps its type, and get_submit_worker() and                 *)
(* workqueue_enqueue() always find a worker.                               *)
THEOREM TypeCorrect == Spec => []TypeOK
<1>1. IInv => TypeOK
  BY DEF IInv
<1>. QED  BY <1>1, Invariant, PTL

(* A worker whose flag workqueue_flush() reads as idle has nothing left to *)
(* do or to account, although the flag is read without its lock.           *)
THEOREM IdleMeansNothingToDoAlways == Spec => []IdleMeansNothingToDo
<1>1. IInv => IdleMeansNothingToDo
  BY DEF IInv
<1>. QED  BY <1>1, Invariant, PTL

-----------------------------------------------------------------------------
(* When no worker holds a work, all of them are accounted.                 *)
LEMMA AllAccounted ==
  ASSUME Conserved, \A w \in Workers : workList[w] = << >> /\ local[w] = << >> /\ done[w] = {}
  PROVE  accounted = 1..workSeq
<1>1. \A w \in Workers : Holdings(w) = {}
  BY ElementsOfEmpty DEF Holdings
<1>. QED  BY <1>1 DEF Conserved

(* A worker that was never started has no work.                            *)
LEMMA NotStarted ==
  ASSUME IInv, NEW w \in Workers, wpc[w] = "none"
  PROVE  workList[w] = << >> /\ local[w] = << >> /\ done[w] = {}
BY DEF IInv, Quiet, Up

LEMMA FlushedIsDone == IInv /\ FlushReturn => accounted = 1..workSeq
<1>. SUFFICES ASSUME IInv, FlushReturn
              PROVE  accounted = 1..workSeq
  OBVIOUS
<1>1. ASSUME NEW w \in Workers
      PROVE  workList[w] = << >> /\ local[w] = << >> /\ done[w] = {}
  <2>1. CASE w < maxWorkers
    <3>1. "IDLE" \in flags[w]
      BY <2>1 DEF IInv, Progress, FlushReturn
    <3>. QED  BY <3>1 DEF IInv, IdleMeansNothingToDo
  <2>2. CASE ~(w < maxWorkers)
    <3>1. wpc[w] = "none"
      BY <2>2 DEF IInv, Started, FlushReturn
    <3>. QED  BY <3>1, NotStarted
  <2>. QED  BY <2>1, <2>2
<1>. QED  BY <1>1, AllAccounted DEF IInv

LEMMA JoinedIsDone == IInv /\ ExitJoin /\ ~(idx < maxWorkers) => accounted = 1..workSeq
<1>. SUFFICES ASSUME IInv, ExitJoin, ~(idx < maxWorkers)
              PROVE  accounted = 1..workSeq
  OBVIOUS
<1>1. ASSUME NEW w \in Workers
      PROVE  workList[w] = << >> /\ local[w] = << >> /\ done[w] = {}
  <2>1. CASE wpc[w] = "none"
    BY <2>1, NotStarted
  <2>2. CASE wpc[w] # "none"
    <3>1. idx = maxWorkers /\ pc = "exitJoin"
      BY DEF IInv, TypeOK, Types, Started, ExitJoin
    <3>2. w < idx
      BY <2>2, <3>1 DEF IInv, Started
    <3>3. wpc[w] = "done"
      BY <3>1, <3>2 DEF IInv, Progress
    <3>. QED  BY <3>3 DEF IInv, Quiet
  <2>. QED  BY <2>1, <2>2
<1>. QED  BY <1>1, AllAccounted DEF IInv

LEMMA StepRefines == IInv /\ IInv' /\ [Next]_vars => [Abstract!Next]_(Abstract!vars)
<1>. SUFFICES ASSUME IInv, IInv', [Next]_vars
              PROVE  Abstract!Next \/ UNCHANGED <<Phase, workSeq, accounted>>
  BY DEF Abstract!vars
<1>. USE DEF Phase, Initialising, Flushing, Exiting, ownerVars, queueVars, workVars
<1>1. CASE StartWorker \/ InitDecide
  <2>1. UNCHANGED <<workSeq, accounted>> /\ Phase = "initialising"
    BY <1>1 DEF StartWorker, InitDecide
  <2>2. Phase' \in {"initialising", "open", "exiting"}
    BY <1>1 DEF StartWorker, InitDecide
  <2>. QED  BY <2>1, <2>2 DEF Abstract!Next, Abstract!Initialised
<1>2. CASE Enqueue
  BY <1>2 DEF Enqueue, Abstract!Next, Abstract!Enqueue
<1>3. CASE Flush \/ Exit
  BY <1>3 DEF Flush, Exit, Abstract!Next, Abstract!Call
<1>4. CASE FlushReturn
  BY <1>4, FlushedIsDone DEF FlushReturn, Abstract!Next, Abstract!Return
<1>5. CASE ExitJoin
  <2>1. CASE idx < maxWorkers
    BY <1>5, <2>1 DEF ExitJoin
  <2>2. CASE ~(idx < maxWorkers)
    BY <1>5, <2>2, JoinedIsDone DEF ExitJoin, Abstract!Next, Abstract!Return
  <2>. QED  BY <2>1, <2>2
<1>6. CASE SetIdle \/ InitCheck \/ GetSubmitWorker \/ FlushCheck \/ ExitSet \/ SpuriousWakeup
  <2>1. UNCHANGED <<workSeq, accounted>>
    BY <1>6 DEF SetIdle, InitCheck, GetSubmitWorker, FlushCheck, ExitSet, SpuriousWakeup
  <2>2. Phase' = Phase
    BY <1>6 DEF SetIdle, InitCheck, GetSubmitWorker, FlushCheck, ExitSet, SpuriousWakeup
  <2>. QED  BY <2>1, <2>2
<1>7. ASSUME NEW w \in Workers, InitWorker(w) \/ Announce(w) \/ CheckError(w) \/ TakeWork(w)
                                \/ Leave(w) \/ PreSleep(w) \/ GoIdle(w) \/ TellFlusher(w)
                                \/ Sleep(w) \/ Handle(w)
      PROVE  UNCHANGED <<Phase, workSeq, accounted>>
  <2>1. UNCHANGED <<workSeq, accounted>>
    BY <1>7 DEF InitWorker, Announce, CheckError, TakeWork, Leave, PreSleep, GoIdle, TellFlusher,
        Sleep, Handle
  <2>2. Phase' = Phase
    BY <1>7 DEF InitWorker, Announce, CheckError, TakeWork, Leave, PreSleep, GoIdle, TellFlusher,
        Sleep, Handle
  <2>. QED  BY <2>1, <2>2
<1>8. ASSUME NEW w \in Workers, UpdateAcct(w)
      PROVE  Abstract!Next
  <2>1. UNCHANGED <<pc, workSeq>> /\ accounted \subseteq accounted'
    BY <1>8 DEF UpdateAcct
  <2>2. accounted' \subseteq 1..workSeq
    BY <2>1 DEF IInv, Conserved
  <2>. QED  BY <2>1, <2>2 DEF Abstract!Next, Abstract!Finish
<1>9. CASE UNCHANGED vars
  BY <1>9 DEF vars
<1>. QED  BY <1>1, <1>2, <1>3, <1>4, <1>5, <1>6, <1>7, <1>8, <1>9
          DEF Next, OwnerStep, OwnerCall, WorkerStep

(* workqueue.c implements WorkQueue: a flush or an exit returns only when  *)
(* every work enqueued before is carried out and accounted.                *)
THEOREM ImplementsAlways == Spec => ImplementsWorkQueue
<1>1. Init => Abstract!Init
  BY DEF Init, Abstract!Init, Phase, Initialising, Flushing, Exiting
<1>2. IInv /\ IInv' /\ [Next]_vars => [Abstract!Next]_(Abstract!vars)
  BY StepRefines
<1>. QED  BY <1>1, <1>2, Invariant, PTL DEF Spec, ImplementsWorkQueue, Abstract!Spec

-----------------------------------------------------------------------------
(* Each work in exactly one place.  The numbers in a list grow, so that a  *)
(* work is there once and no further back than its number; and the places  *)
(* of different workers, or of different kinds, share no work.             *)
Growing(s) ==
    /\ \A i \in 1..Len(s) : i <= s[i]
    /\ \A i, j \in 1..Len(s) : i < j => s[i] < s[j]
Kinds == {"listed", "taken", "done"}
Place(w, k) ==
    CASE k = "listed" -> Elements(workList[w])
      [] k = "taken" -> Elements(local[w])
      [] k = "done" -> done[w]
Apart ==
    \A v, w \in Workers : \A j, k \in Kinds : \A n \in Place(v, j) :
        /\ n \in Place(w, k) => v = w /\ j = k
        /\ n \notin accounted
Numbered ==
    /\ workSeq <= MaxWorks
    /\ pc = "enqueue" => workSeq < MaxWorks
    /\ \A w \in Workers : Growing(workList[w]) /\ Growing(local[w])
OnceInv == IInv /\ Numbered /\ Apart

LEMMA NumberedStep == OnceInv /\ [Next]_vars => Numbered'
<1>. SUFFICES ASSUME OnceInv, [Next]_vars
              PROVE  Numbered'
  OBVIOUS
<1>a. Types /\ Conserved /\ Numbered /\ MaxWorks \in Nat
  BY WorksAssumption DEF OnceInv, IInv, TypeOK
<1>b. Growing(<< >>)
  BY DEF Growing
<1>c. ASSUME NEW s \in Seq(Nat), s # << >>, Growing(s)  PROVE Growing(Tail(s))
  <2>1. /\ Len(s) \in Nat \ {0} /\ Len(Tail(s)) = Len(s) - 1
        /\ \A i \in 1..Len(Tail(s)) : Tail(s)[i] = s[i + 1] /\ i + 1 \in 1..Len(s) /\ Tail(s)[i] \in Nat
    BY <1>c
  <2>2. \A i \in 1..Len(Tail(s)) : i <= Tail(s)[i]
    <3>1. \A i \in 1..Len(Tail(s)) : i + 1 <= s[i + 1]
      BY <1>c, <2>1 DEF Growing
    <3>. QED  BY <2>1, <3>1
  <2>3. \A i, j \in 1..Len(Tail(s)) : i < j => Tail(s)[i] < Tail(s)[j]
    <3>1. \A i, j \in 1..Len(Tail(s)) : i < j => s[i + 1] < s[j + 1]
      BY <1>c, <2>1 DEF Growing
    <3>. QED  BY <2>1, <3>1
  <2>. QED  BY <2>2, <2>3 DEF Growing
<1>d. ASSUME UNCHANGED <<workSeq, workList, local>>, pc' = "enqueue" => pc = "enqueue"
      PROVE  Numbered'
  BY <1>a, <1>d DEF Numbered
<1>. USE DEF ownerVars, queueVars, workVars
<1>1. CASE GetSubmitWorker
  BY <1>1, <1>a DEF GetSubmitWorker, Numbered
<1>2. CASE Enqueue
  <2>. DEFINE n == workSeq + 1
  <2>0. PICK t \in Workers : t = target
    BY <1>a DEF Types
  <2>1. /\ workList[t] \in Seq(Nat) /\ workSeq \in Nat /\ workSeq < MaxWorks
        /\ workSeq' = n /\ local' = local /\ pc' = "ready"
        /\ workList'[t] = Append(workList[t], n)
        /\ \A v \in Workers \ {t} : workList'[v] = workList[v]
    BY <2>0, <1>2, <1>a DEF Enqueue, Types, Numbered
  <2>2. \A x \in Elements(workList[t]) : x \in 1..workSeq
    BY <1>a DEF Conserved, Holdings
  <2>3. Growing(Append(workList[t], n))
    <3>. DEFINE s == workList[t]  u == Append(s, n)
    <3>1. /\ Len(u) = Len(s) + 1 /\ Len(s) \in Nat /\ u[Len(s) + 1] = n
          /\ \A i \in 1..Len(s) : u[i] = s[i] /\ s[i] \in Nat /\ s[i] <= workSeq
      BY <2>1, <2>2 DEF Elements
    <3>2. Len(s) <= workSeq
      <4>1. CASE Len(s) = 0
        BY <2>1, <4>1
      <4>2. CASE Len(s) # 0
        <5>1. Len(s) \in 1..Len(s)
          BY <3>1, <4>2
        <5>2. Len(s) <= s[Len(s)]
          BY <5>1, <1>a DEF Numbered, Growing
        <5>. QED  BY <2>1, <3>1, <5>1, <5>2
      <4>. QED  BY <4>1, <4>2
    <3>3. Growing(s)
      BY <1>a DEF Numbered
    <3>4. \A i \in 1..Len(u) : i \in 1..Len(s) \/ i = Len(s) + 1
      BY <3>1
    <3>. HIDE DEF s, u
    <3>5. \A i \in 1..Len(u) : i <= u[i]
      BY <2>1, <3>1, <3>2, <3>3, <3>4 DEF Growing
    <3>6. ASSUME NEW i \in 1..Len(u), NEW j \in 1..Len(u), i < j  PROVE u[i] < u[j]
      <4>1. i \in 1..Len(s)
        BY <3>1, <3>6
      <4>2. CASE j \in 1..Len(s)
        BY <3>1, <3>3, <3>6, <4>1, <4>2 DEF Growing
      <4>3. CASE j = Len(s) + 1
        BY <2>1, <3>1, <4>1, <4>3
      <4>. QED  BY <3>4, <4>2, <4>3
    <3>7. Growing(u)
      BY <3>5, <3>6 DEF Growing
    <3>. QED  BY <3>7 DEF s, u
  <2>4. n <= MaxWorks
    BY <2>1, <1>a
  <2>. QED  BY <2>1, <2>3, <2>4, <1>a DEF Numbered
<1>3. ASSUME NEW w \in Workers, TakeWork(w)
      PROVE  Numbered'
  <2>1. /\ local'[w] = workList[w] /\ workList'[w] = << >> /\ UNCHANGED <<workSeq, pc>>
        /\ \A v \in Workers \ {w} : local'[v] = local[v] /\ workList'[v] = workList[v]
    BY <1>3, <1>a DEF TakeWork, Types
  <2>. QED  BY <2>1, <1>a, <1>b DEF Numbered
<1>4. ASSUME NEW w \in Workers, Handle(w)
      PROVE  Numbered'
  <2>1. /\ local[w] \in Seq(Nat) /\ local[w] # << >> /\ local'[w] = Tail(local[w])
        /\ UNCHANGED <<workSeq, workList, pc>>
        /\ \A v \in Workers \ {w} : local'[v] = local[v]
    BY <1>4, <1>a DEF Handle, Types
  <2>. QED  BY <2>1, <1>a, <1>c DEF Numbered
<1>5. CASE StartWorker \/ SetIdle \/ InitCheck \/ InitDecide \/ Flush \/ FlushCheck
           \/ FlushReturn \/ Exit \/ ExitSet \/ ExitJoin \/ SpuriousWakeup
  BY <1>5, <1>d DEF StartWorker, SetIdle, InitCheck, InitDecide, Flush, FlushCheck,
     FlushReturn, Exit, ExitSet, ExitJoin, SpuriousWakeup
<1>6. ASSUME NEW w \in Workers, InitWorker(w) \/ Announce(w) \/ CheckError(w) \/ Leave(w)
                                \/ PreSleep(w) \/ GoIdle(w) \/ TellFlusher(w) \/ Sleep(w)
                                \/ UpdateAcct(w)
      PROVE  Numbered'
  BY <1>6, <1>d DEF InitWorker, Announce, CheckError, Leave, PreSleep, GoIdle, TellFlusher, Sleep,
     UpdateAcct
<1>7. CASE UNCHANGED vars
  BY <1>7, <1>d DEF vars
<1>. QED  BY <1>1, <1>2, <1>3, <1>4, <1>5, <1>6, <1>7
          DEF Next, OwnerStep, OwnerCall, WorkerStep

LEMMA ApartStep == OnceInv /\ [Next]_vars => Apart'
<1>. SUFFICES ASSUME OnceInv, [Next]_vars
              PROVE  Apart'
  OBVIOUS
<1>a. Types /\ Conserved /\ Numbered /\ Apart /\ Quiet
  BY DEF OnceInv, IInv, TypeOK
<1>b. \A w \in Workers : /\ Place(w, "listed") = Elements(workList[w])
                         /\ Place(w, "taken") = Elements(local[w])
                         /\ Place(w, "done") = done[w]
                         /\ Place(w, "listed")' = Elements(workList'[w])
                         /\ Place(w, "taken")' = Elements(local'[w])
                         /\ Place(w, "done")' = done'[w]
  BY DEF Place
<1>c. ASSUME UNCHANGED workVars  PROVE Apart'
  <2>1. \A w \in Workers : \A k \in Kinds : Place(w, k)' = Place(w, k)
    BY <1>b, <1>c DEF Kinds, workVars
  <2>. QED  BY <1>a, <1>c, <2>1 DEF Apart, workVars
(* A set of works moves from one place of a worker to another, or joins.   *)
<1>d. ASSUME NEW w \in Workers, NEW from \in Kinds \cup {"new"}, NEW to \in Kinds \cup {"accounted"},
             NEW S, from # to,
             from # "new" => S \subseteq Place(w, from) /\ Place(w, from)' = Place(w, from) \ S,
             from = "new" => \A v \in Workers : \A k \in Kinds : S \cap (Place(v, k) \cup accounted) = {},
             to # "accounted" => Place(w, to)' = Place(w, to) \cup S /\ accounted' = accounted,
             to = "accounted" => accounted' = accounted \cup S,
             \A v \in Workers : \A k \in Kinds :
                v # w \/ (k # from /\ k # to) => Place(v, k)' = Place(v, k)
      PROVE  Apart'
  <2>1. ASSUME NEW v \in Workers, NEW k \in Kinds, NEW n \in Place(v, k)'
        PROVE  \/ v = w /\ k = to /\ n \in S
               \/ n \in Place(v, k) /\ n \notin S
    <3>1. k # "new" /\ k # "accounted"
      BY DEF Kinds
    <3>2. CASE v = w /\ k = from
      BY <1>d, <2>1, <3>1, <3>2
    <3>3. CASE v = w /\ k = to
      <4>1. n \in Place(v, k) \/ n \in S
        BY <1>d, <2>1, <3>1, <3>3
      <4>. QED  BY <3>3, <4>1
    <3>4. CASE v # w \/ (k # from /\ k # to)
      <4>1. n \in Place(v, k)
        BY <1>d, <2>1, <3>4
      <4>2. CASE from = "new"
        BY <1>d, <4>1, <4>2
      <4>3. CASE from # "new"
        <5>1. from \in Kinds /\ (n \in S => n \in Place(w, from))
          BY <1>d, <4>3
        <5>. QED  BY <1>a, <3>4, <4>1, <5>1 DEF Apart
      <4>. QED  BY <4>2, <4>3
    <3>. QED  BY <3>2, <3>3, <3>4
  <2>2. ASSUME NEW v \in Workers, NEW k \in Kinds, NEW n \in Place(v, k)'
        PROVE  n \notin accounted'
    <3>1. k # "accounted"
      BY DEF Kinds
    <3>2. CASE k = to /\ n \in S
      <4>1. accounted' = accounted
        BY <1>d, <3>1, <3>2
      <4>2. CASE from = "new"
        BY <1>d, <3>2, <4>1, <4>2
      <4>3. CASE from # "new"
        <5>1. from \in Kinds /\ n \in Place(w, from)
          BY <1>d, <3>2, <4>3
        <5>. QED  BY <1>a, <4>1, <5>1 DEF Apart
      <4>. QED  BY <4>2, <4>3
    <3>3. CASE n \in Place(v, k) /\ n \notin S
      <4>1. accounted' \subseteq accounted \cup S
        BY <1>d
      <4>. QED  BY <1>a, <3>3, <4>1 DEF Apart
    <3>. QED  BY <2>1, <3>2, <3>3
  <2>3. ASSUME NEW v \in Workers, NEW u \in Workers, NEW j \in Kinds, NEW k \in Kinds,
               NEW n \in Place(v, j)', n \in Place(u, k)'
        PROVE  v = u /\ j = k
    BY <1>a, <2>1, <2>3 DEF Apart
  <2>4. Apart' = \A v, u \in Workers : \A j, k \in Kinds : \A n \in Place(v, j)' :
                    /\ n \in Place(u, k)' => v = u /\ j = k
                    /\ n \notin accounted'
    BY DEF Apart
  <2>. QED  BY <2>2, <2>3, <2>4
<1>. USE DEF ownerVars, queueVars
<1>1. CASE Enqueue
  <2>. DEFINE n == workSeq + 1  S == {n}
  <2>0. PICK t \in Workers : t = target
    BY <1>a DEF Types
  <2>1. /\ workList[t] \in Seq(Nat) /\ workSeq \in Nat /\ n \in Nat
        /\ UNCHANGED <<local, done, accounted>>
        /\ workList'[t] = Append(workList[t], n)
        /\ \A v \in Workers \ {t} : workList'[v] = workList[v]
    BY <2>0, <1>1, <1>a DEF Enqueue, Types
  <2>2. \A v \in Workers : \A k \in Kinds : S \cap (Place(v, k) \cup accounted) = {}
    <3>1. n \notin 1..workSeq
      BY <2>1
    <3>2. \A v \in Workers : \A k \in Kinds : Place(v, k) \subseteq 1..workSeq
      BY <1>a, <1>b DEF Conserved, Holdings, Kinds
    <3>. HIDE DEF n
    <3>. QED  BY <3>1, <3>2, <1>a DEF Conserved
  <2>3. Place(t, "listed")' = Place(t, "listed") \cup S
    BY <1>b, <2>1, ElementsOfAppend
  <2>4. \A v \in Workers : \A k \in Kinds :
            v # t \/ (k # "new" /\ k # "listed") => Place(v, k)' = Place(v, k)
    BY <1>b, <2>1 DEF Kinds
  <2>5. "listed" \in Kinds /\ "new" # "listed"
    BY DEF Kinds
  <2>. HIDE DEF n, S
  <2>6. accounted' = accounted
    BY <2>1
  <2>. QED  BY <1>d, <2>2, <2>3, <2>4, <2>5, <2>6
<1>2. ASSUME NEW w \in Workers, TakeWork(w)
      PROVE  Apart'
  <2>1. /\ local[w] = << >> /\ local'[w] = workList[w] /\ workList'[w] = << >>
        /\ UNCHANGED <<done, accounted>>
        /\ \A v \in Workers \ {w} : local'[v] = local[v] /\ workList'[v] = workList[v]
    BY <1>2, <1>a DEF TakeWork, Types, Quiet, HasLock
  <2>. DEFINE S == Elements(workList[w])
  <2>2. /\ S \subseteq Place(w, "listed") /\ Place(w, "listed")' = Place(w, "listed") \ S
        /\ Place(w, "taken")' = Place(w, "taken") \cup S
    BY <1>b, <2>1, ElementsOfEmpty
  <2>3. \A v \in Workers : \A k \in Kinds :
            v # w \/ (k # "listed" /\ k # "taken") => Place(v, k)' = Place(v, k)
    BY <1>b, <2>1 DEF Kinds
  <2>4. "listed" \in Kinds /\ "taken" \in Kinds /\ "listed" # "taken"
    BY DEF Kinds
  <2>. HIDE DEF S
  <2>. QED  BY <1>d, <2>1, <2>2, <2>3, <2>4
<1>3. ASSUME NEW w \in Workers, Handle(w)
      PROVE  Apart'
  <2>1. /\ local[w] \in Seq(Nat) /\ local[w] # << >>
        /\ done'[w] = done[w] \cup {Head(local[w])} /\ local'[w] = Tail(local[w])
        /\ UNCHANGED <<workList, accounted>>
        /\ \A v \in Workers \ {w} : done'[v] = done[v] /\ local'[v] = local[v]
    BY <1>3, <1>a DEF Handle, Types
  <2>. DEFINE s == local[w]  S == {Head(s)}
  <2>2. Elements(s) = S \cup Elements(Tail(s))
    BY <2>1, ElementsOfTail
  <2>3. Head(s) \notin Elements(Tail(s))
    <3>1. /\ Len(s) \in Nat \ {0} /\ Len(Tail(s)) = Len(s) - 1 /\ Head(s) = s[1] /\ s[1] \in Nat
          /\ \A i \in 1..Len(Tail(s)) : Tail(s)[i] = s[i + 1] /\ i + 1 \in 1..Len(s) /\ 1 < i + 1
      BY <2>1
    <3>2. \A i \in 1..Len(Tail(s)) : s[1] < s[i + 1]
      BY <3>1, <1>a DEF Numbered, Growing
    <3>. QED  BY <3>1, <3>2 DEF Elements
  <2>4. /\ S \subseteq Place(w, "taken") /\ Place(w, "taken")' = Place(w, "taken") \ S
        /\ Place(w, "done")' = Place(w, "done") \cup S
    BY <1>b, <2>1, <2>2, <2>3
  <2>5. \A v \in Workers : \A k \in Kinds :
            v # w \/ (k # "taken" /\ k # "done") => Place(v, k)' = Place(v, k)
    BY <1>b, <2>1 DEF Kinds
  <2>6. "taken" \in Kinds /\ "done" \in Kinds /\ "taken" # "done"
    BY DEF Kinds
  <2>7. accounted' = accounted
    BY <2>1
  <2>. HIDE DEF s, S
  <2>. QED  BY <1>d, <2>4, <2>5, <2>6, <2>7
<1>4. ASSUME NEW w \in Workers, UpdateAcct(w)
      PROVE  Apart'
  <2>1. /\ accounted' = accounted \cup done[w] /\ done'[w] = {}
        /\ UNCHANGED <<workList, local>>
        /\ \A v \in Workers \ {w} : done'[v] = done[v]
    BY <1>4, <1>a DEF UpdateAcct, Types
  <2>2. done[w] \subseteq Place(w, "done") /\ Place(w, "done")' = Place(w, "done") \ done[w]
    BY <1>b, <2>1
  <2>3. \A v \in Workers : \A k \in Kinds :
            v # w \/ (k # "done" /\ k # "accounted") => Place(v, k)' = Place(v, k)
    BY <1>b, <2>1 DEF Kinds
  <2>4. "done" \in Kinds /\ "done" # "accounted" /\ "done" # "new"
    BY DEF Kinds
  <2>. QED  BY <1>d, <2>1, <2>2, <2>3, <2>4
<1>5. CASE StartWorker \/ SetIdle \/ InitCheck \/ InitDecide \/ GetSubmitWorker \/ Flush
           \/ FlushCheck \/ FlushReturn \/ Exit \/ ExitSet \/ ExitJoin \/ SpuriousWakeup
  BY <1>5, <1>c DEF StartWorker, SetIdle, InitCheck, InitDecide, GetSubmitWorker, Flush, FlushCheck,
     FlushReturn, Exit, ExitSet, ExitJoin, SpuriousWakeup
<1>6. ASSUME NEW w \in Workers, InitWorker(w) \/ Announce(w) \/ CheckError(w) \/ Leave(w)
                                \/ PreSleep(w) \/ GoIdle(w) \/ TellFlusher(w) \/ Sleep(w)
      PROVE  Apart'
  BY <1>6, <1>c DEF InitWorker, Announce, CheckError, Leave, PreSleep, GoIdle, TellFlusher, Sleep
<1>7. CASE UNCHANGED vars
  BY <1>7, <1>c DEF vars
<1>. QED  BY <1>1, <1>2, <1>3, <1>4, <1>5, <1>6, <1>7
          DEF Next, OwnerStep, OwnerCall, WorkerStep

LEMMA OnceInit == Init => OnceInv
<1>. SUFFICES ASSUME Init
              PROVE  OnceInv
  OBVIOUS
<1>1. IInv
  BY InitIInv
<1>2. Numbered
  BY WorksAssumption DEF Init, Numbered, Growing
<1>3. Apart
  <2>1. \A w \in Workers : \A k \in Kinds : Place(w, k) = {}
    BY ElementsOfEmpty DEF Init, Kinds, Place
  <2>. QED  BY <2>1 DEF Apart
<1>. QED  BY <1>1, <1>2, <1>3 DEF OnceInv

LEMMA OnceInvariant == Spec => []OnceInv
<1>1. OnceInv /\ [Next]_vars => OnceInv'
  BY InvariantStep, NumberedStep, ApartStep DEF OnceInv
<1>. QED  BY <1>1, OnceInit, PTL DEF Spec

(* How often a work is in the lists f: once in all, if only one list has   *)
(* it.                                                                     *)
Positions(f, n) ==
    {p \in Workers \X (1..MaxWorks) : p[2] <= Len(f[p[1]]) /\ f[p[1]][p[2]] = n}

LEMMA CountInLists ==
    ASSUME NEW f \in [Workers -> Seq(Nat)], NEW n \in 1..MaxWorks,
           \A w \in Workers : Growing(f[w]),
           \A v, w \in Workers : n \in Elements(f[v]) /\ n \in Elements(f[w]) => v = w
    PROVE  Cardinality(Positions(f, n)) = IF \E w \in Workers : n \in Elements(f[w]) THEN 1 ELSE 0
<1>1. ASSUME NEW p \in Positions(f, n)
      PROVE  p[1] \in Workers /\ p[2] \in 1..Len(f[p[1]]) /\ n \in Elements(f[p[1]])
  <2>1. p[1] \in Workers /\ p[2] \in 1..MaxWorks /\ p[2] <= Len(f[p[1]]) /\ f[p[1]][p[2]] = n
    BY DEF Positions
  <2>2. Len(f[p[1]]) \in Nat
    BY <2>1
  <2>3. p[2] \in 1..Len(f[p[1]])
    BY <2>1, <2>2, WorksAssumption
  <2>. QED  BY <2>1, <2>3 DEF Elements
<1>2. CASE \A w \in Workers : n \notin Elements(f[w])
  <2>1. Positions(f, n) = {}
    BY <1>1, <1>2
  <2>. QED  BY <1>2, <2>1, FS_EmptySet
<1>3. ASSUME NEW w \in Workers, n \in Elements(f[w])
      PROVE  Cardinality(Positions(f, n)) = 1
  <2>1. PICK i \in 1..Len(f[w]) : f[w][i] = n
    BY <1>3 DEF Elements
  <2>2. Len(f[w]) \in Nat /\ i <= n
    BY <2>1 DEF Growing
  <2>3. i \in 1..MaxWorks
    BY <2>1, <2>2, WorksAssumption
  <2>4. <<w, i>> \in Positions(f, n)
    BY <2>1, <2>2, <2>3 DEF Positions
  <2>5. ASSUME NEW p \in Positions(f, n)  PROVE p = <<w, i>>
    <3>1. p[1] = w /\ p[2] \in 1..Len(f[w]) /\ f[w][p[2]] = n /\ p = <<p[1], p[2]>>
      BY <1>1, <1>3, <2>5 DEF Positions
    <3>2. p[2] = i
      <4>1. f[w][i] \in Nat /\ ~(p[2] < i) /\ ~(i < p[2])
        BY <2>1, <3>1 DEF Growing
      <4>. QED  BY <2>1, <2>2, <3>1, <4>1
    <3>. QED  BY <3>1, <3>2
  <2>6. Positions(f, n) = {<<w, i>>}
    BY <2>4, <2>5
  <2>. QED  BY <2>6, FS_Singleton
<1>. QED  BY <1>2, <1>3

LEMMA CountInSets ==
    ASSUME NEW n, \A v, w \in Workers : n \in done[v] /\ n \in done[w] => v = w
    PROVE  Cardinality({w \in Workers : n \in done[w]}) =
               IF \E w \in Workers : n \in done[w] THEN 1 ELSE 0
<1>1. CASE \A w \in Workers : n \notin done[w]
  <2>1. {w \in Workers : n \in done[w]} = {}
    BY <1>1
  <2>. QED  BY <1>1, <2>1, FS_EmptySet
<1>2. ASSUME NEW w \in Workers, n \in done[w]
      PROVE  Cardinality({v \in Workers : n \in done[v]}) = 1
  <2>1. {v \in Workers : n \in done[v]} = {w}
    BY <1>2
  <2>. QED  BY <2>1, FS_Singleton
<1>. QED  BY <1>1, <1>2

(* No work is lost, none is handed out or accounted twice: at any time one *)
(* enqueued is in exactly one place, and one not yet enqueued is nowhere   *)
(* (workqueue_enqueue(), worker_thread(), handle_list()).                  *)
THEOREM CarriedOutOnceAlways == Spec => []CarriedOutOnce
<1>1. OnceInv => CarriedOutOnce
  <2>. SUFFICES ASSUME OnceInv, NEW n \in 1..MaxWorks
                PROVE  Copies(n) = IF n <= workSeq THEN 1 ELSE 0
    BY DEF CarriedOutOnce
  <2>. DEFINE In(k) == \E w \in Workers : n \in Place(w, k)
              One(P) == IF P THEN 1 ELSE 0
  <2>1. Types /\ Conserved /\ Numbered /\ Apart /\ workSeq \in Nat /\ n \in Nat /\ 1 <= n
    BY WorksAssumption DEF OnceInv, IInv, TypeOK, Types
  <2>2. \A w \in Workers : /\ Place(w, "listed") = Elements(workList[w])
                           /\ Place(w, "taken") = Elements(local[w])
                           /\ Place(w, "done") = done[w]
    BY DEF Place
  <2>20. /\ In("listed") <=> \E w \in Workers : n \in Elements(workList[w])
         /\ In("taken") <=> \E w \in Workers : n \in Elements(local[w])
         /\ In("done") <=> \E w \in Workers : n \in done[w]
    BY <2>2
  <2>. HIDE DEF In
  <2>3. /\ Cardinality(Positions(workList, n)) = One(In("listed"))
        /\ Cardinality(Positions(local, n)) = One(In("taken"))
        /\ Cardinality({w \in Workers : n \in done[w]}) = One(In("done"))
    <3>1. \A v, w \in Workers : \A k \in Kinds : n \in Place(v, k) /\ n \in Place(w, k) => v = w
      BY <2>1 DEF Apart
    <3>2. \A v, w \in Workers : /\ n \in Elements(workList[v]) /\ n \in Elements(workList[w]) => v = w
                                /\ n \in Elements(local[v]) /\ n \in Elements(local[w]) => v = w
                                /\ n \in done[v] /\ n \in done[w] => v = w
      BY <2>2, <3>1 DEF Kinds
    <3>3. Cardinality(Positions(workList, n)) = One(In("listed"))
      BY <2>1, <2>20, <3>2, CountInLists DEF Types, Numbered
    <3>4. Cardinality(Positions(local, n)) = One(In("taken"))
      BY <2>1, <2>20, <3>2, CountInLists DEF Types, Numbered
    <3>5. Cardinality({w \in Workers : n \in done[w]}) = One(In("done"))
      BY <2>20, <3>2, CountInSets
    <3>. QED  BY <3>3, <3>4, <3>5
  <2>4. Copies(n) = One(In("listed")) + One(In("taken")) + One(In("done")) + One(n \in accounted)
    BY <2>3 DEF Copies, Positions
  <2>5. \A j, k \in Kinds : /\ In(j) /\ In(k) => j = k
                            /\ In(j) => n \notin accounted
    BY <2>1 DEF Apart, In
  <2>6. n <= workSeq <=> n \in accounted \/ In("listed") \/ In("taken") \/ In("done")
    <3>1. n <= workSeq <=> n \in 1..workSeq
      BY <2>1
    <3>2. n \in 1..workSeq <=> n \in accounted \/ \E w \in Workers : n \in Holdings(w)
      BY <2>1 DEF Conserved
    <3>. QED  BY <2>20, <3>1, <3>2 DEF Holdings
  <2>7. /\ ~(In("listed") /\ In("taken")) /\ ~(In("listed") /\ In("done"))
        /\ ~(In("taken") /\ In("done"))
        /\ ~(n \in accounted /\ (In("listed") \/ In("taken") \/ In("done")))
    BY <2>5 DEF Kinds
  <2>. QED  BY <2>4, <2>6, <2>7
<1>. QED  BY <1>1, OnceInvariant, PTL

-----------------------------------------------------------------------------
(* No wakeup is lost.  Of the flusher's call the invariant has to say that *)
(* wake_idle is up, or the worker that goes idle would not tell it.        *)
WakeInv == IInv /\ NoWakeupLost /\ (pc \in Flushing => wakeIdle)

LEMMA WakeStep == WakeInv /\ [Next]_vars => WakeInv'
<1>. SUFFICES ASSUME WakeInv, [Next]_vars
              PROVE  NoWakeupLost' /\ (pc' \in Flushing => wakeIdle')
  BY InvariantStep DEF WakeInv
<1>a. /\ Types /\ maxWorkers \in Nat /\ idx \in Nat
      /\ \A w \in 0..(maxWorkers - 1) : w \in Workers
      /\ pc \in Flushing => wakeIdle
      /\ \A w \in Workers : wpc[w] = "wait" => Idle(w)
  <2>1. Types /\ maxWorkers \in Nat /\ maxWorkers <= MaxWorkers /\ MaxWorkers \in Nat /\ idx \in Nat
    BY ZeroIsWorker DEF WakeInv, IInv, TypeOK, Types
  <2>. QED  BY <2>1, WorkersAre DEF WakeInv, NoWakeupLost
<1>. USE DEF Flushing, Initialising, Exiting, ownerVars, queueVars, workVars
(* The worker the flusher waits for is still that one, or another is.      *)
<1>b. ASSUME maxWorkers' = maxWorkers, pc' = "flushWait" => pc = "flushWait",
             \A w \in Workers : /\ "IDLE" \in flags'[w] => "IDLE" \in flags[w] \/ wpc'[w] = "tell"
                                /\ wpc[w] = "tell" => wpc'[w] = "tell" \/ pc' # "flushWait",
             \A w \in Workers : wpc'[w] = "wait" => Idle(w)',
             pc' \in Flushing => wakeIdle'
      PROVE  NoWakeupLost' /\ (pc' \in Flushing => wakeIdle')
  <2>1. ASSUME pc' = "flushWait"
        PROVE  \E w \in 0..(maxWorkers - 1) : "IDLE" \notin flags'[w] \/ wpc'[w] = "tell"
    <3>1. PICK w \in 0..(maxWorkers - 1) : "IDLE" \notin flags[w] \/ wpc[w] = "tell"
      BY <1>b, <2>1 DEF WakeInv, NoWakeupLost
    <3>2. w \in Workers /\ w \in 0..(maxWorkers' - 1)
      BY <1>a, <1>b, <3>1
    <3>3. "IDLE" \notin flags'[w] \/ wpc'[w] = "tell"
      BY <1>b, <2>1, <3>1, <3>2
    <3>. QED  BY <3>2, <3>3
  <2>. QED  BY <1>b, <2>1 DEF NoWakeupLost
<1>1. CASE StartWorker
  BY <1>1, <1>a, <1>b DEF StartWorker, Idle, Types, NoWakeupLost
<1>2. CASE SetIdle
  BY <1>2, <1>a DEF SetIdle, Idle, Types, NoWakeupLost
<1>3. CASE InitCheck \/ InitDecide \/ GetSubmitWorker \/ Flush \/ FlushReturn \/ Exit
  BY <1>3, <1>a, <1>b DEF InitCheck, InitDecide, GetSubmitWorker, Flush, FlushReturn, Exit, Idle
<1>4. CASE Enqueue
  <2>1. /\ target \in Workers /\ pc' = "ready" /\ wpc' = Signalled(target)
        /\ workList' = [workList EXCEPT ![target] = Append(@, workSeq + 1)]
        /\ flags' = [flags EXCEPT ![target] = @ \ {"IDLE"}]
    BY <1>4, <1>a DEF Enqueue, Types
  <2>2. \A w \in Workers : wpc'[w] = "wait" => w # target /\ wpc[w] = "wait"
    BY <2>1, <1>a DEF Signalled, Types
  <2>. QED  BY <2>1, <2>2, <1>a DEF Idle, Types, NoWakeupLost
<1>5. CASE FlushCheck
  <2>1. /\ UNCHANGED <<maxWorkers, wakeIdle, wpc, flags, workList>> /\ pc = "flushCheck"
        /\ idx < maxWorkers
    BY <1>5 DEF FlushCheck
  <2>2. idx \in 0..(maxWorkers - 1)
    BY <2>1, <1>a
  <2>3. pc' = "flushWait" => "IDLE" \notin flags[idx]
    BY <1>5 DEF FlushCheck
  <2>4. \A w \in Workers : wpc'[w] = "wait" => Idle(w)'
    BY <2>1, <1>a DEF Idle
  <2>. QED  BY <2>1, <2>2, <2>3, <2>4, <1>a DEF NoWakeupLost
<1>6. CASE ExitSet
  <2>1. pc' \in Exiting /\ workList' = workList
    BY <1>6 DEF ExitSet
  <2>2. CASE idx < maxWorkers
    <3>1. /\ wpc' = Signalled(idx) /\ idx \in Workers
          /\ flags' = [flags EXCEPT ![idx] = @ \cup {"EXIT"}]
      BY <1>6, <2>2, <1>a DEF ExitSet
    <3>2. \A w \in Workers : wpc'[w] = "wait" => w # idx /\ wpc[w] = "wait"
      BY <3>1, <1>a DEF Signalled, Types
    <3>. QED  BY <2>1, <3>1, <3>2, <1>a DEF Idle, Types, NoWakeupLost
  <2>3. CASE ~(idx < maxWorkers)
    BY <1>6, <2>1, <2>3, <1>a DEF ExitSet, Idle, NoWakeupLost
  <2>. QED  BY <2>2, <2>3
<1>7. CASE ExitJoin
  BY <1>7, <1>a DEF ExitJoin, Idle, Types, NoWakeupLost
<1>8. CASE SpuriousWakeup
  <2>1. /\ UNCHANGED <<maxWorkers, wakeIdle, flags, workList>>
        /\ pc' = "flushWait" => pc = "flushWait"
        /\ pc' \in Flushing => pc \in Flushing
        /\ \A w \in Workers : wpc'[w] = wpc[w] \/ (wpc[w] = "wait" /\ wpc'[w] = "handle")
    BY <1>8, <1>a DEF SpuriousWakeup, Types
  <2>. QED  BY <2>1, <1>a, <1>b DEF Idle
<1>9. ASSUME NEW w \in Workers, InitWorker(w)
      PROVE  NoWakeupLost' /\ (pc' \in Flushing => wakeIdle')
  <2>1. /\ UNCHANGED <<pc, maxWorkers, wakeIdle, workList>> /\ wpc[w] = "start"
        /\ wpc' = [wpc EXCEPT ![w] = "initialised"]
    BY <1>9 DEF InitWorker
  <2>2. \A v \in Workers : flags'[v] \in {flags[v], flags[v] \cup {"RUNNING"},
                                          flags[v] \cup {"RUNNING", "ERROR"}}
    BY <1>9, <1>a DEF InitWorker, Types
  <2>3. \A v \in Workers : /\ "IDLE" \in flags'[v] <=> "IDLE" \in flags[v]
                           /\ "EXIT" \in flags'[v] <=> "EXIT" \in flags[v]
    BY <2>2
  <2>. QED  BY <2>1, <2>3, <1>a, <1>b DEF Idle, Types
<1>10. ASSUME NEW w \in Workers, Announce(w) \/ CheckError(w) \/ Leave(w) \/ PreSleep(w)
       PROVE  NoWakeupLost' /\ (pc' \in Flushing => wakeIdle')
  <2>1. /\ UNCHANGED <<maxWorkers, wakeIdle, flags, workList>> /\ wpc[w] # "tell"
        /\ pc' = pc \/ pc' = "initCheck"
        /\ \A v \in Workers : wpc'[v] = wpc[v] \/ (v = w /\ wpc'[v] # "wait")
    BY <1>10, <1>a DEF Announce, CheckError, Leave, PreSleep, HasLock, Types
  <2>. QED  BY <2>1, <1>a, <1>b DEF Idle
<1>11. ASSUME NEW w \in Workers, TakeWork(w)
       PROVE  NoWakeupLost' /\ (pc' \in Flushing => wakeIdle')
  <2>1. /\ UNCHANGED <<pc, maxWorkers, wakeIdle, flags>> /\ wpc[w] # "tell"
        /\ \A v \in Workers : IF v = w THEN wpc'[v] = "handle"
                              ELSE wpc'[v] = wpc[v] /\ workList'[v] = workList[v]
    BY <1>11, <1>a DEF TakeWork, HasLock, Types
  <2>. QED  BY <2>1, <1>a, <1>b DEF Idle
<1>12. ASSUME NEW w \in Workers, GoIdle(w)
       PROVE  NoWakeupLost' /\ (pc' \in Flushing => wakeIdle')
  <2>1. /\ UNCHANGED <<pc, maxWorkers, wakeIdle, workList>>
        /\ \A v \in Workers : IF v = w THEN wpc'[v] = "tell"
                              ELSE wpc'[v] = wpc[v] /\ flags'[v] = flags[v]
    BY <1>12, <1>a DEF GoIdle, Types
  <2>. QED  BY <2>1, <1>a, <1>b DEF Idle
<1>13. ASSUME NEW w \in Workers, TellFlusher(w)
       PROVE  NoWakeupLost' /\ (pc' \in Flushing => wakeIdle')
  <2>1. /\ UNCHANGED <<maxWorkers, wakeIdle, flags, workList>>
        /\ pc' # "flushWait" /\ (pc' \in Flushing => pc \in Flushing)
        /\ \A v \in Workers : wpc'[v] = wpc[v] \/ wpc'[v] = "told"
    BY <1>13, <1>a DEF TellFlusher, Types
  <2>. QED  BY <2>1, <1>a, <1>b DEF Idle
<1>14. ASSUME NEW w \in Workers, Sleep(w)
       PROVE  NoWakeupLost' /\ (pc' \in Flushing => wakeIdle')
  <2>1. /\ UNCHANGED <<pc, maxWorkers, wakeIdle, flags, workList>> /\ wpc[w] # "tell" /\ Idle(w)
        /\ \A v \in Workers : v = w \/ wpc'[v] = wpc[v]
    BY <1>14, <1>a DEF Sleep, Types
  <2>. QED  BY <2>1, <1>a, <1>b DEF Idle
<1>15. ASSUME NEW w \in Workers, Handle(w)
       PROVE  NoWakeupLost' /\ (pc' \in Flushing => wakeIdle')
  BY <1>15, <1>a, <1>b DEF Handle, Idle
<1>16. ASSUME NEW w \in Workers, UpdateAcct(w)
       PROVE  NoWakeupLost' /\ (pc' \in Flushing => wakeIdle')
  <2>1. /\ UNCHANGED <<pc, maxWorkers, wakeIdle, flags, workList>> /\ wpc[w] # "tell"
        /\ \A v \in Workers : wpc'[v] = wpc[v] \/ (v = w /\ wpc'[v] = "loop")
    BY <1>16, <1>a DEF UpdateAcct, Types
  <2>. QED  BY <2>1, <1>a, <1>b DEF Idle
<1>17. CASE UNCHANGED vars
  BY <1>17, <1>a, <1>b DEF vars, Idle
<1>. QED
  BY <1>1, <1>2, <1>3, <1>4, <1>5, <1>6, <1>7, <1>8, <1>9, <1>10, <1>11, <1>12, <1>13, <1>14,
     <1>15, <1>16, <1>17 DEF Next, OwnerStep, OwnerCall, WorkerStep

(* A worker that waits for sw->cond has nothing to do, and the flusher     *)
(* waits for flush_cond only while a worker is busy or about to signal it: *)
(* what CallsReturn and WorksAreHandled need besides fairness, for any     *)
(* number of workers.                                                      *)
THEOREM NoWakeupLostAlways == Spec => []NoWakeupLost
<1>1. Init => WakeInv
  <2>1. Init => NoWakeupLost /\ (pc \in Flushing => wakeIdle)
    BY DEF Init, NoWakeupLost, Flushing
  <2>. QED  BY <2>1, InitIInv DEF WakeInv
<1>2. WakeInv => NoWakeupLost
  BY DEF WakeInv
<1>. QED  BY <1>1, <1>2, WakeStep, PTL DEF Spec
===============================================================================
