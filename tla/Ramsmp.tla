------------------------------- MODULE Ramsmp --------------------------------
(***************************************************************************)
(* How ramsmp (ramsmp-3.5.0/ramsmp.c) makes its processes measure the      *)
(* memory together.  The master forks NProc - 1 clones, which find a slot  *)
(* in a shared-memory segment of zeros, and then they all do the same      *)
(* rounds: compute, leave the elapsed time in the slot, raise the slot's   *)
(* flag, and wait until the master lowers it; the master waits for all the *)
(* flags, averages the times, and lowers the flags.  There is no lock and  *)
(* no atomic operation; the loops poll with usleep(100).                   *)
(*                                                                         *)
(* shm[cnt] is pids, shm[cnt+256] is flag, shm[cnt+512], shm[cnt+768], ... *)
(* are delta, one area for each operation of a round (Copy, Scale, Add,    *)
(* Triad).  A time is identified by the process and the round it is from.  *)
(***************************************************************************)
EXTENDS Integers

CONSTANTS
    NProc,      \* nproc, the option -p: a power of two, 2 by default
    FProc,      \* fproc: how often every process forks
    Rounds,     \* rounds until a process is through with its switch case
    Areas       \* operations with a delta area of their own: 4 for -b 3, 6

ASSUME NProcAssumption  == NProc \in Nat \ {0}
ASSUME FProcAssumption  == FProc \in Nat /\ NProc = 2^FProc
ASSUME RoundsAssumption == Rounds \in Nat \ {0}
ASSUME AreasAssumption  == Areas \in Nat \ {0}

Procs  == 0..(NProc - 1)        \* 0 is the master
Clones == 1..(NProc - 1)
Slots  == 1..(NProc - 1)
Area(round) == round % Areas

VARIABLES
    pc,         \* where each process is
    forks,      \* forks each process still has to make
    round,      \* the round each process is in; 0: getting ready
    cnt,        \* each process's loop index cnt
    myptr,      \* each clone's slot; 0: none
    counter,    \* the master's sum of flags
    pids, flag, delta,
    average     \* the times the master averaged last

vars == <<pc, forks, round, cnt, myptr, counter, pids, flag, delta, average>>

Time == Procs \X (0..Rounds)
Zero == <<0, 0>>

Init ==
    /\ pc = [p \in Procs |-> IF p = 0 THEN "fork" ELSE "unborn"]
    /\ forks = [p \in Procs |-> FProc]
    /\ round = [p \in Procs |-> 0]
    /\ cnt = [p \in Procs |-> 1]
    /\ myptr = [p \in Procs |-> 0]
    /\ counter = 0
    /\ pids = [s \in Procs |-> 0]
    /\ flag = [s \in Procs |-> 0]
    /\ delta = [a \in 0..(Areas - 1) |-> [s \in Procs |-> Zero]]
    /\ average = [s \in Procs |-> Zero]

(* Type invariant: every index into the segment stays within its area, and *)
(* no process is past the last round.                                      *)
TypeOK ==
    /\ pc \in [Procs -> {"unborn", "fork", "seek", "claim", "report", "wait", "work",
                         "count", "average", "clear", "done"}]
    /\ forks \in [Procs -> 0..FProc]
    /\ round \in [Procs -> 0..Rounds]
    /\ cnt \in [Procs -> 1..NProc]
    /\ myptr \in [Procs -> Procs]
    /\ counter \in Nat
    /\ pids \in [Procs -> Procs]
    /\ flag \in [Procs -> {0, 1}]
    /\ delta \in [0..(Areas - 1) -> [Procs -> Time]]
    /\ average \in [Procs -> Time]

(***************************************************************************)
(* for(cnt = 0; cnt < fproc; cnt++) fork();                                *)
(***************************************************************************)
(* A child makes the forks its parent still has to make.                   *)
Fork(p) ==
    /\ pc[p] = "fork"
    /\ forks[p] > 0
    /\ \E c \in Clones :
          /\ pc[c] = "unborn"
          /\ pc' = [pc EXCEPT ![c] = "fork"]
          /\ forks' = [forks EXCEPT ![p] = forks[p] - 1, ![c] = forks[p] - 1]
    /\ UNCHANGED <<round, cnt, myptr, counter, pids, flag, delta, average>>

(* Both the search for a slot and the master's count begin at 1.           *)
Forked(p) ==
    /\ pc[p] = "fork"
    /\ forks[p] = 0
    /\ pc' = [pc EXCEPT ![p] = IF p = 0 THEN "count" ELSE "seek"]
    /\ UNCHANGED <<forks, round, cnt, myptr, counter, pids, flag, delta, average>>

(***************************************************************************)
(* A clone                                                                 *)
(***************************************************************************)
(* if(shm[cnt] == 0): a free slot has been SEEN.                           *)
SeeFreeSlot(p) ==
    /\ pc[p] = "seek"
    /\ cnt[p] < NProc
    /\ pids[cnt[p]] = 0
    /\ pc' = [pc EXCEPT ![p] = "claim"]
    /\ UNCHANGED <<forks, round, cnt, myptr, counter, pids, flag, delta, average>>

(* A faulty variant of SeeTakenSlot, to validate EveryCloneFindsASlot:     *)
(* `for(cnt = 1; cnt < nproc - 1; cnt++)`.                                 *)
SeeTakenSlotToTheLastButOne(p) ==
    /\ pc[p] = "seek"
    /\ cnt[p] < NProc
    /\ pids[cnt[p]] # 0
    /\ cnt' = [cnt EXCEPT ![p] = @ + 1]
    /\ pc' = [pc EXCEPT ![p] = IF cnt'[p] < NProc - 1 THEN "seek" ELSE "report"]
    /\ UNCHANGED <<forks, round, myptr, counter, pids, flag, delta, average>>

(* The next slot; after the last one the loop ends and myptr is still 0.   *)
SeeTakenSlot(p) ==
    /\ pc[p] = "seek"
    /\ cnt[p] < NProc
    /\ pids[cnt[p]] # 0
    /\ cnt' = [cnt EXCEPT ![p] = @ + 1]
    /\ pc' = [pc EXCEPT ![p] = IF cnt'[p] < NProc THEN "seek" ELSE "report"]
    /\ UNCHANGED <<forks, round, myptr, counter, pids, flag, delta, average>>

(* shm[cnt] = mypid; myptr = cnt; another clone may have done so since.    *)
Claim(p) ==
    /\ pc[p] = "claim"
    /\ pids' = [pids EXCEPT ![cnt[p]] = p]
    /\ myptr' = [myptr EXCEPT ![p] = cnt[p]]
    /\ pc' = [pc EXCEPT ![p] = "report"]
    /\ UNCHANGED <<forks, round, cnt, counter, flag, delta, average>>

(* shm[myptr+256] = 1.                                                     *)
Report(p) ==
    /\ pc[p] = "report"
    /\ flag' = [flag EXCEPT ![myptr[p]] = 1]
    /\ pc' = [pc EXCEPT ![p] = "wait"]
    /\ UNCHANGED <<forks, round, cnt, myptr, counter, pids, delta, average>>

(* The end of while(shm[myptr+256]) usleep(100).                           *)
Ride(p) ==
    /\ pc[p] = "wait"
    /\ flag[myptr[p]] = 0
    /\ IF round[p] < Rounds
       THEN /\ round' = [round EXCEPT ![p] = @ + 1]
            /\ pc' = [pc EXCEPT ![p] = "work"]
       ELSE /\ pc' = [pc EXCEPT ![p] = "done"]
            /\ UNCHANGED round
    /\ UNCHANGED <<forks, cnt, myptr, counter, pids, flag, delta, average>>

(* time = intcp(...); shm[myptr+512] = time.                               *)
Record(p) ==
    /\ pc[p] = "work"
    /\ delta' = [delta EXCEPT ![Area(round[p])][myptr[p]] = <<p, round[p]>>]
    /\ pc' = [pc EXCEPT ![p] = "report"]
    /\ UNCHANGED <<forks, round, cnt, myptr, counter, pids, flag, average>>

(***************************************************************************)
(* The master                                                              *)
(***************************************************************************)
(* time = intcp(...); then it begins to wait for reports.                  *)
MasterWorks ==
    /\ pc[0] = "work"
    /\ pc' = [pc EXCEPT ![0] = "count"]
    /\ cnt' = [cnt EXCEPT ![0] = 1]
    /\ counter' = 0
    /\ UNCHANGED <<forks, round, myptr, pids, flag, delta, average>>

(* counter += shm[cnt+256].                                                *)
Count ==
    /\ pc[0] = "count"
    /\ cnt[0] < NProc
    /\ counter' = counter + flag[cnt[0]]
    /\ cnt' = [cnt EXCEPT ![0] = @ + 1]
    /\ UNCHANGED <<pc, forks, round, myptr, pids, flag, delta, average>>

(* if(counter != (nproc - 1)) usleep(100); counter = 0.                    *)
CountAgain ==
    /\ pc[0] = "count"
    /\ cnt[0] = NProc
    /\ counter # NProc - 1
    /\ counter' = 0
    /\ cnt' = [cnt EXCEPT ![0] = 1]
    /\ UNCHANGED <<pc, forks, round, myptr, pids, flag, delta, average>>

(* A faulty variant of AllReported, to validate AverageOverThisRound and   *)
(* WorkInStep: `while(counter < nproc - 2)`.                               *)
AlmostAllReported ==
    /\ pc[0] = "count"
    /\ cnt[0] = NProc
    /\ counter + 2 >= NProc
    /\ pc' = [pc EXCEPT ![0] = IF round[0] = 0 THEN "clear" ELSE "average"]
    /\ cnt' = [cnt EXCEPT ![0] = 1]
    /\ UNCHANGED <<forks, round, myptr, counter, pids, flag, delta, average>>

(* All the clones are ready: there is nothing to average in round 0.       *)
AllReported ==
    /\ pc[0] = "count"
    /\ cnt[0] = NProc
    /\ counter = NProc - 1
    /\ pc' = [pc EXCEPT ![0] = IF round[0] = 0 THEN "clear" ELSE "average"]
    /\ cnt' = [cnt EXCEPT ![0] = 1]
    /\ UNCHANGED <<forks, round, myptr, counter, pids, flag, delta, average>>

(* shm[512] = time; then the mean of shm[512] ... shm[512+nproc-1].        *)
Average ==
    /\ pc[0] = "average"
    /\ delta' = [delta EXCEPT ![Area(round[0])][0] = <<0, round[0]>>]
    /\ average' = delta'[Area(round[0])]
    /\ pc' = [pc EXCEPT ![0] = "clear"]
    /\ UNCHANGED <<forks, round, cnt, myptr, counter, pids, flag>>

(* shm[cnt+256] = 0, one after the other.                                  *)
Clear ==
    /\ pc[0] = "clear"
    /\ cnt[0] < NProc
    /\ flag' = [flag EXCEPT ![cnt[0]] = 0]
    /\ cnt' = [cnt EXCEPT ![0] = @ + 1]
    /\ UNCHANGED <<pc, forks, round, myptr, counter, pids, delta, average>>

(* A faulty variant of Cleared, to validate Terminates and NeverStuck:     *)
(* `for(cnt = 1; cnt < nproc - 1; cnt++)`.                                 *)
ClearedTooEarly ==
    /\ pc[0] = "clear"
    /\ cnt[0] = NProc - 1
    /\ IF round[0] < Rounds
       THEN /\ round' = [round EXCEPT ![0] = @ + 1]
            /\ pc' = [pc EXCEPT ![0] = "work"]
       ELSE /\ pc' = [pc EXCEPT ![0] = "done"]
            /\ UNCHANGED round
    /\ UNCHANGED <<forks, cnt, myptr, counter, pids, flag, delta, average>>

(* All flags are down: the next round, or the end.                         *)
Cleared ==
    /\ pc[0] = "clear"
    /\ cnt[0] = NProc
    /\ IF round[0] < Rounds
       THEN /\ round' = [round EXCEPT ![0] = @ + 1]
            /\ pc' = [pc EXCEPT ![0] = "work"]
       ELSE /\ pc' = [pc EXCEPT ![0] = "done"]
            /\ UNCHANGED round
    /\ UNCHANGED <<forks, cnt, myptr, counter, pids, flag, delta, average>>

CloneStep(p) ==
    \/ SeeFreeSlot(p)
    \/ SeeTakenSlot(p)
    \/ Claim(p)
    \/ Report(p)
    \/ Ride(p)
    \/ Record(p)

MasterStep ==
    \/ MasterWorks
    \/ Count
    \/ CountAgain
    \/ AllReported
    \/ Average
    \/ Clear
    \/ Cleared

ForkStep(p) == Fork(p) \/ Forked(p)

Next ==
    \/ \E p \in Procs : ForkStep(p)
    \/ \E p \in Clones : CloneStep(p)
    \/ MasterStep

Spec == Init /\ [][Next]_vars

(* The operating system runs every process again and again.                *)
FairSpec ==
    /\ Spec
    /\ \A p \in Procs : WF_vars(ForkStep(p))
    /\ \A p \in Clones : WF_vars(CloneStep(p))
    /\ WF_vars(MasterStep)

(***************************************************************************)
(* Properties                                                              *)
(***************************************************************************)
(* The average the master prints after a round is over exactly one time of *)
(* every process, all of this round: no time is missing, stale, early or   *)
(* counted twice.                                                          *)
AverageOverThisRound ==
    (pc[0] = "clear" /\ round[0] > 0) =>
        /\ \A s \in Procs : average[s][2] = round[0]
        /\ \A p \in Procs : \E s \in Procs : average[s][1] = p

(* What is measured is the memory under the load of all the processes:     *)
(* those that compute at the same time compute the same round.             *)
WorkInStep ==
    \A p, q \in Procs : (pc[p] = "work" /\ pc[q] = "work") => round[p] = round[q]

(* Every clone finds a slot, even when two clones take the same one.       *)
EveryCloneFindsASlot ==
    \A p \in Clones : pc[p] \in {"report", "wait", "work", "done"} => myptr[p] \in Slots

(* ramsmp.c:361-362: every process except the master "obtains a local      *)
(* number used to identify the process further".                           *)
LocalNumbers ==
    \A p, q \in Clones : (p # q /\ myptr[p] # 0) => myptr[p] # myptr[q]

(* Every run comes to its end, clones included, unless two of them have    *)
(* taken the same number: no barrier is ever left with a flag standing.    *)
Terminates == <>((\A p \in Procs : pc[p] = "done") \/ ~LocalNumbers)

(* What a process does next does not depend on anybody else, or a poll of  *)
(* its that begins now ends its waiting.                                   *)
CanGoOn(p) ==
    \/ pc[p] \in {"fork", "seek", "claim", "report", "work", "average", "clear"}
    \/ p # 0 /\ pc[p] = "wait" /\ flag[myptr[p]] = 0
    \/ p = 0 /\ pc[p] = "count" /\ \A s \in Slots : flag[s] = 1

(* The processes never all wait for each other: once they have been forked *)
(* somebody can go on until everybody is done, unless two clones have      *)
(* taken the same number, whose second flag the master waits for forever.  *)
NeverStuck ==
    (LocalNumbers /\ \A p \in Procs : pc[p] # "unborn") =>
        (\A p \in Procs : pc[p] = "done") \/ (\E p \in Procs : CanGoOn(p))

(***************************************************************************)
(* The inductive invariant of RamsmpProofs                                 *)
(***************************************************************************)
(* The master has passed its first barrier.                                *)
Started == round[0] > 0 \/ pc[0] = "clear"

(* Until then nobody computes; a raised flag has a clone behind it that    *)
(* waits for it to be lowered.                                             *)
GettingReady ==
    ~Started =>
        /\ pc[0] \in {"fork", "count"}
        /\ \A p \in Clones :
              /\ round[p] = 0
              /\ pc[p] \in {"unborn", "fork", "seek", "claim", "report", "wait"}
              /\ pc[p] = "wait" => flag[myptr[p]] = 1
        /\ \A s \in Slots : flag[s] = 1 => \E p \in Clones : pc[p] = "wait" /\ myptr[p] = s

(* A slot is taken only by a clone that has it as its own; those a clone   *)
(* has passed by were taken, and the one it claims is one of the           *)
(* segment's.  So there are never more slots taken than clones with one.   *)
Seeking ==
    /\ \A s \in Slots : pids[s] # 0 => myptr[pids[s]] = s
    /\ \A p \in Clones :
          /\ pc[p] \in {"unborn", "fork"} => cnt[p] = 1
          /\ pc[p] \in {"unborn", "fork", "seek", "claim"} => myptr[p] = 0
          /\ pc[p] \in {"seek", "claim"} => \A s \in 1..(cnt[p] - 1) : pids[s] # 0
          /\ pc[p] = "claim" => cnt[p] \in Slots

(* The partial sum is complete only if every flag it covers is raised.     *)
Counting ==
    pc[0] = "count" =>
        /\ counter <= cnt[0] - 1
        /\ counter = cnt[0] - 1 => \A s \in 1..(cnt[0] - 1) : flag[s] = 1

(* From then on slots and clones correspond one to one.                    *)
OneToOne ==
    Started =>
        /\ \A p \in Clones : myptr[p] \in Slots
        /\ \A p, q \in Clones : myptr[p] = myptr[q] => p = q
        /\ \A s \in Slots : \E p \in Clones : myptr[p] = s

(* The last round a clone has been let out of.                             *)
Released(p) ==
    IF pc[0] = "done" \/ (pc[0] = "clear" /\ myptr[p] < cnt[0]) THEN round[0] ELSE round[0] - 1

InStep(p) ==
    \/ round[p] = Released(p) /\ pc[p] \in {"wait", "done"} /\ flag[myptr[p]] = 0
    \/ round[p] = Released(p) + 1 /\ pc[p] \in {"work", "report"} /\ flag[myptr[p]] = 0
    \/ round[p] = Released(p) + 1 /\ pc[p] = "wait" /\ flag[myptr[p]] = 1

(* A clone is at most one barrier ahead of the flag the master lowered,    *)
(* and its time is in place when its flag is up.                           *)
ClonesInStep ==
    Started =>
        \A p \in Clones :
            /\ InStep(p)
            /\ (round[p] > 0 /\ pc[p] # "work") =>
                   delta[Area(round[p])][myptr[p]] = <<p, round[p]>>

(* While the master averages and lowers the flags, those it has not come   *)
(* to are up.                                                              *)
FlagsUp ==
    pc[0] \in {"average", "clear"} =>
        \A p \in Clones : (pc[0] = "average" \/ myptr[p] >= cnt[0]) => flag[myptr[p]] = 1

(* The master starts counting at 1 with nothing counted, and it averages   *)
(* only once it has computed.                                              *)
MasterPlaces ==
    /\ pc[0] \in {"fork", "count", "average", "clear", "work", "done"}
    /\ pc[0] = "average" => cnt[0] = 1
    /\ pc[0] = "fork" => cnt[0] = 1 /\ counter = 0 /\ round[0] = 0
    /\ pc[0] \in {"average", "work", "done"} => round[0] > 0

(* All of it together: type correctness, the places the master can be in,  *)
(* and the protocol's two phases.  Rounds of ramsmp.c cannot fall out of   *)
(* step in any state this allows.                                          *)
IInv ==
    /\ TypeOK
    /\ MasterPlaces
    /\ Seeking
    /\ EveryCloneFindsASlot
    /\ GettingReady
    /\ Counting
    /\ OneToOne
    /\ ClonesInStep
    /\ FlagsUp
    /\ AverageOverThisRound

(* Beside it, for NeverStuck: nobody is through before the last round.     *)
DoneAfterLastRound == \A p \in Procs : pc[p] = "done" => round[p] = Rounds
==============================================================================
