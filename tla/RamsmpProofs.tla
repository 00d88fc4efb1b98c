----------------------------- MODULE RamsmpProofs -----------------------------
(***************************************************************************)
(* Proofs about Ramsmp for every number of processes, rounds and areas:    *)
(* whatever clones do to each other while they look for their slots, the   *)
(* master never averages over anything but one time of every process, all  *)
(* of the same round, and once all are forked they never all wait for each *)
(* other, unless two clones took the same slot.                            *)
(***************************************************************************)
EXTENDS Ramsmp, FunctionTheorems, FiniteSetTheorems, TLAPS

(* The sets the proofs speak of.                                           *)
LEMMA ProcFacts ==
    /\ NProc \in Nat /\ 0 < NProc /\ Rounds \in Nat /\ 0 < Rounds
    /\ Slots = Clones
    /\ 0 \in Procs /\ 0 \notin Clones
    /\ \A p \in Clones : p \in Procs /\ p # 0 /\ p \in Nat /\ p < NProc
    /\ \A p \in Procs : p = 0 \/ p \in Clones
    /\ Zero \in Time
BY NProcAssumption, RoundsAssumption DEF Procs, Clones, Slots, Time, Zero

(* The area of a round is one the segment has.                             *)
LEMMA AreaType ==
    ASSUME NEW r \in Nat
    PROVE  Area(r) \in 0..(Areas - 1)
BY AreasAssumption, SMT DEF Area

(* As many clones as slots: if every slot is some clone's, no two clones   *)
(* share one and none is without.                                          *)
LEMMA SlotsShared ==
    ASSUME NEW W \in SUBSET Clones, NEW f \in [W -> Slots],
           \A s \in Slots : \E p \in W : f[p] = s
    PROVE  W = Clones /\ \A p, q \in W : f[p] = f[q] => p = q
<1>1. IsFiniteSet(Clones)
  BY ProcFacts, FS_Interval DEF Clones
<1>2. IsFiniteSet(W) /\ Cardinality(W) <= Cardinality(Clones)
  BY <1>1, FS_Subset
<1>3. f \in Surjection(W, Slots)
  BY Fun_IsSurj
<1>4. Cardinality(Slots) <= Cardinality(W)
  BY <1>2, <1>3, FS_Surjection
<1>5. Cardinality(W) = Cardinality(Clones)
  BY <1>1, <1>2, <1>4, ProcFacts, FS_CardinalityType
<1>6. W = Clones
  BY <1>1, <1>5, FS_Subset
<1>7. f \in Injection(W, Slots)
  BY <1>2, <1>3, <1>5, ProcFacts, FS_SurjSameCardinalityImpliesInj
<1>. QED  BY <1>6, <1>7, Fun_InjectionProperties

LEMMA RamsmpInit == Init => IInv
<1>. SUFFICES ASSUME Init PROVE IInv
  OBVIOUS
<1>. USE ProcFacts
<1>1. TypeOK
  <2>1. /\ pc \in [Procs -> {"unborn", "fork", "seek", "claim", "report", "wait", "work",
                         "count", "average", "clear", "done"}]
        /\ forks \in [Procs -> 0..FProc]
        /\ round \in [Procs -> 0..Rounds]
        /\ cnt \in [Procs -> 1..NProc]
        /\ myptr \in [Procs -> Procs]
    BY FProcAssumption DEF Init
  <2>2. /\ counter \in Nat
        /\ pids \in [Procs -> Procs]
        /\ flag \in [Procs -> {0, 1}]
        /\ average \in [Procs -> Time]
        /\ delta \in [0..(Areas - 1) -> [Procs -> Time]]
    BY DEF Init
  <2>. QED  BY <2>1, <2>2 DEF TypeOK
<1>2. ~Started /\ pc[0] = "fork"
  BY DEF Init, Started
<1>3. MasterPlaces
  BY DEF Init, MasterPlaces
<1>4. Seeking /\ EveryCloneFindsASlot
  BY DEF Init, Seeking, EveryCloneFindsASlot
<1>5. GettingReady
  BY <1>2 DEF Init, GettingReady
<1>. QED  BY <1>1, <1>2, <1>3, <1>4, <1>5
          DEF IInv, Counting, OneToOne, ClonesInStep, FlagsUp, AverageOverThisRound

(***************************************************************************)
(* The steps of a clone                                                    *)
(***************************************************************************)
(* Once the master has passed its first barrier, clones are in their       *)
(* rounds.                                                                 *)
LEMMA RidingClones ==
    ASSUME IInv, Started, NEW p \in Clones
    PROVE  pc[p] \in {"wait", "done", "work", "report"}
BY DEF IInv, ClonesInStep, InStep

(* What is left to show when a clone (or a fork) changes neither the       *)
(* master's state nor a slot, a flag or a time.                            *)
LEMMA BeforeTheBarrier ==
    ASSUME IInv, ~Started, TypeOK', MasterPlaces', Seeking', EveryCloneFindsASlot',
           pc'[0] \in {"fork", "count"},
           pc'[0] = "count" => \/ pc[0] = "count" /\ cnt'[0] = cnt[0] /\ counter' = counter
                               \/ cnt'[0] = 1 /\ counter' = 0,
           round' = round, flag' = flag,
           \A p \in Clones : /\ pc'[p] \in {"unborn", "fork", "seek", "claim", "report", "wait"}
                             /\ pc[p] = "wait" <=> pc'[p] = "wait"
                             /\ pc[p] = "wait" => myptr'[p] = myptr[p]
    PROVE  IInv'
<1>. USE ProcFacts
<1>1. GettingReady /\ Counting
  BY DEF IInv
<1>2. ~Started'
  BY <1>1 DEF Started, GettingReady
<1>3. GettingReady'
  BY <1>1, <1>2 DEF GettingReady
<1>4. Counting'
  BY <1>1 DEF Counting, GettingReady
<1>. QED  BY <1>2, <1>3, <1>4
          DEF IInv, OneToOne, ClonesInStep, FlagsUp, AverageOverThisRound

LEMMA ForkKeepsIInv ==
    ASSUME IInv, NEW p \in Procs, Fork(p)
    PROVE  IInv'
<1>. USE ProcFacts
<1>1. TypeOK /\ MasterPlaces /\ Seeking /\ EveryCloneFindsASlot /\ GettingReady
  BY DEF IInv
<1>2. PICK c \in Clones :
          /\ pc[c] = "unborn"
          /\ pc' = [pc EXCEPT ![c] = "fork"]
          /\ forks' = [forks EXCEPT ![p] = forks[p] - 1, ![c] = forks[p] - 1]
  BY DEF Fork
<1>3. /\ pc[p] = "fork" /\ forks[p] > 0
      /\ UNCHANGED <<round, cnt, myptr, counter, pids, flag, delta, average>>
  BY DEF Fork
<1>4. ~Started
  BY <1>2, RidingClones
<1>5. /\ pc'[c] = "fork" /\ \A q \in Procs : q # c => pc'[q] = pc[q]
      /\ pc'[0] = pc[0]
  BY <1>1, <1>2 DEF TypeOK
<1>6. TypeOK'
  <2>1. forks' \in [Procs -> 0..FProc]
    <3>1. forks \in [Procs -> 0..FProc] /\ forks[p] - 1 \in 0..FProc
      BY <1>1, <1>3, FProcAssumption DEF TypeOK
    <3>. QED  BY <1>2, <3>1
  <2>2. pc' \in [Procs -> {"unborn", "fork", "seek", "claim", "report", "wait", "work",
                           "count", "average", "clear", "done"}]
    BY <1>1, <1>2 DEF TypeOK
  <2>. QED  BY <1>1, <1>3, <2>1, <2>2 DEF TypeOK
<1>7. MasterPlaces'
  BY <1>1, <1>3, <1>5 DEF MasterPlaces
<1>8. Seeking' /\ EveryCloneFindsASlot'
  BY <1>1, <1>2, <1>3, <1>5 DEF Seeking, EveryCloneFindsASlot
<1>9. \A q \in Clones : /\ pc'[q] \in {"unborn", "fork", "seek", "claim", "report", "wait"}
                        /\ pc[q] = "wait" <=> pc'[q] = "wait"
  BY <1>1, <1>2, <1>4, <1>5 DEF GettingReady
<1>10. /\ round' = round /\ flag' = flag /\ myptr' = myptr
       /\ pc'[0] \in {"fork", "count"}
       /\ pc'[0] = "count" => pc[0] = "count" /\ cnt'[0] = cnt[0] /\ counter' = counter
  BY <1>1, <1>3, <1>4, <1>5 DEF GettingReady
<1>. QED  BY <1>4, <1>5, <1>6, <1>7, <1>8, <1>9, <1>10, BeforeTheBarrier

LEMMA ForkedKeepsIInv ==
    ASSUME IInv, NEW p \in Procs, Forked(p)
    PROVE  IInv'
<1>. USE ProcFacts
<1>1. TypeOK /\ MasterPlaces /\ Seeking /\ EveryCloneFindsASlot /\ GettingReady
  BY DEF IInv
<1>2. /\ pc[p] = "fork"
      /\ pc' = [pc EXCEPT ![p] = IF p = 0 THEN "count" ELSE "seek"]
      /\ UNCHANGED <<forks, round, cnt, myptr, counter, pids, flag, delta, average>>
  BY DEF Forked
<1>3. ~Started
  BY <1>1, <1>2, RidingClones DEF Started, MasterPlaces
<1>4. /\ pc'[p] = IF p = 0 THEN "count" ELSE "seek"
      /\ \A q \in Procs : q # p => pc'[q] = pc[q]
  BY <1>1, <1>2 DEF TypeOK
<1>5. pc'[0] = pc[0] \/ (pc[0] = "fork" /\ pc'[0] = "count" /\ cnt'[0] = 1 /\ counter' = 0)
  BY <1>1, <1>2, <1>4 DEF MasterPlaces
<1>6. TypeOK'
  BY <1>1, <1>2 DEF TypeOK
<1>7. MasterPlaces'
  BY <1>1, <1>2, <1>5 DEF MasterPlaces
<1>8. Seeking' /\ EveryCloneFindsASlot'
  <2>1. Seeking'
    BY <1>1, <1>2, <1>4 DEF Seeking, TypeOK
  <2>2. EveryCloneFindsASlot'
    BY <1>1, <1>2, <1>4 DEF EveryCloneFindsASlot
  <2>. QED  BY <2>1, <2>2
<1>9. \A q \in Clones : /\ pc'[q] \in {"unborn", "fork", "seek", "claim", "report", "wait"}
                        /\ pc[q] = "wait" <=> pc'[q] = "wait"
  BY <1>1, <1>2, <1>3, <1>4 DEF GettingReady
<1>10. /\ round' = round /\ flag' = flag /\ myptr' = myptr
       /\ pc'[0] \in {"fork", "count"}
       /\ pc'[0] = "count" => \/ pc[0] = "count" /\ cnt'[0] = cnt[0] /\ counter' = counter
                              \/ cnt'[0] = 1 /\ counter' = 0
  BY <1>1, <1>2, <1>3, <1>5 DEF GettingReady
<1>. QED  BY <1>3, <1>5, <1>6, <1>7, <1>8, <1>9, <1>10, BeforeTheBarrier

(* A clone that finds the last slot taken as well would leave one clone    *)
(* fewer than there are slots, and yet every slot is some other clone's.   *)
LEMMA AlwaysASlot ==
    ASSUME IInv, NEW p \in Clones, SeeTakenSlot(p)
    PROVE  cnt[p] + 1 < NProc
<1>. USE ProcFacts
<1>1. TypeOK /\ Seeking /\ cnt[p] \in 1..NProc
  BY DEF IInv, TypeOK
<1>. SUFFICES ASSUME cnt[p] + 1 >= NProc PROVE FALSE
  BY <1>1
<1>2. pc[p] = "seek" /\ cnt[p] = NProc - 1 /\ pids[cnt[p]] # 0
  BY <1>1 DEF SeeTakenSlot
<1>3. myptr[p] = 0 /\ \A s \in Slots : pids[s] # 0
  <2>1. \A s \in Slots : s \in 1..(cnt[p] - 1) \/ s = cnt[p]
    BY <1>2 DEF Slots
  <2>. QED  BY <1>1, <1>2, <2>1 DEF Seeking
<1>4. \A s \in Slots : pids[s] \in Clones \ {p} /\ myptr[pids[s]] = s
  BY <1>1, <1>3 DEF Seeking, TypeOK
<1> DEFINE owner == [s \in Slots |-> pids[s]]
<1>5. owner \in [Slots -> Clones \ {p}]
  BY <1>4
<1>6. IsFiniteSet(Clones)
  BY FS_Interval DEF Clones
<1>7. /\ IsFiniteSet(Clones \ {p})
      /\ Cardinality(Clones \ {p}) = Cardinality(Clones) - 1
      /\ Cardinality(Clones) \in Nat
  BY <1>6, FS_RemoveElement, FS_CardinalityType
<1>8. IsFiniteSet(Slots) /\ Cardinality(Clones \ {p}) < Cardinality(Slots)
  BY <1>6, <1>7
<1>. HIDE DEF owner
<1>9. PICK s \in Slots, t \in Slots : s # t /\ owner[s] = owner[t]
  BY <1>5, <1>7, <1>8, FS_PigeonHole
<1>. QED  BY <1>4, <1>9 DEF owner

LEMMA SeekKeepsIInv ==
    ASSUME IInv, NEW p \in Clones, SeeFreeSlot(p) \/ SeeTakenSlot(p)
    PROVE  IInv'
<1>. USE ProcFacts
<1>1. TypeOK /\ MasterPlaces /\ Seeking /\ EveryCloneFindsASlot /\ GettingReady
  BY DEF IInv
<1>2. /\ pc[p] = "seek" /\ cnt[p] < NProc
      /\ UNCHANGED <<forks, round, myptr, counter, pids, flag, delta, average>>
  BY DEF SeeFreeSlot, SeeTakenSlot
<1>3. ~Started
  BY <1>2, RidingClones
<1>4. /\ pc'[p] \in {"seek", "claim"}
      /\ \A q \in Procs : q # p => pc'[q] = pc[q] /\ cnt'[q] = cnt[q]
  <2>1. CASE SeeFreeSlot(p)
    BY <1>1, <2>1 DEF SeeFreeSlot, TypeOK
  <2>2. CASE SeeTakenSlot(p)
    <3>1. cnt'[p] = cnt[p] + 1 /\ cnt[p] + 1 < NProc
      BY <1>1, <2>2, AlwaysASlot DEF SeeTakenSlot, TypeOK
    <3>. QED  BY <1>1, <2>2, <3>1 DEF SeeTakenSlot, TypeOK
  <2>. QED  BY <2>1, <2>2
<1>5. cnt[p] \in 1..NProc /\ cnt[p] \in Slots
  BY <1>1, <1>2 DEF TypeOK, Slots
<1>6. TypeOK'
  <2>1. CASE SeeFreeSlot(p)
    BY <1>1, <2>1 DEF SeeFreeSlot, TypeOK
  <2>2. CASE SeeTakenSlot(p)
    <3>1. cnt' \in [Procs -> 1..NProc]
      BY <1>1, <1>2, <2>2 DEF SeeTakenSlot, TypeOK
    <3>. QED  BY <1>1, <2>2, <3>1 DEF SeeTakenSlot, TypeOK
  <2>. QED  BY <2>1, <2>2
<1>7. MasterPlaces'
  BY <1>1, <1>2, <1>4 DEF MasterPlaces
<1>8. Seeking'
  <2>1. CASE SeeFreeSlot(p)
    <3>1. pc'[p] = "claim" /\ cnt' = cnt
      BY <1>1, <2>1 DEF SeeFreeSlot, TypeOK
    <3>. QED  BY <1>1, <1>2, <1>4, <1>5, <3>1 DEF Seeking
  <2>2. CASE SeeTakenSlot(p)
    <3>1. /\ pc'[p] = "seek" /\ cnt'[p] = cnt[p] + 1 /\ pids[cnt[p]] # 0
      BY <1>1, <2>2, AlwaysASlot DEF SeeTakenSlot, TypeOK
    <3>2. \A s \in 1..(cnt'[p] - 1) : pids[s] # 0
      <4>1. \A s \in 1..(cnt'[p] - 1) : s \in 1..(cnt[p] - 1) \/ s = cnt[p]
        BY <1>5, <3>1
      <4>. QED  BY <1>1, <1>2, <3>1, <4>1 DEF Seeking
    <3>. QED  BY <1>1, <1>2, <1>4, <3>1, <3>2 DEF Seeking
  <2>. QED  BY <2>1, <2>2
<1>9. EveryCloneFindsASlot'
  BY <1>1, <1>2, <1>4 DEF EveryCloneFindsASlot
<1>10. /\ round' = round /\ flag' = flag /\ myptr' = myptr
       /\ pc'[0] \in {"fork", "count"}
       /\ pc'[0] = "count" => pc[0] = "count" /\ cnt'[0] = cnt[0] /\ counter' = counter
  BY <1>1, <1>2, <1>3, <1>4 DEF GettingReady
<1>11. \A q \in Clones : /\ pc'[q] \in {"unborn", "fork", "seek", "claim", "report", "wait"}
                         /\ pc[q] = "wait" <=> pc'[q] = "wait"
  BY <1>1, <1>2, <1>3, <1>4 DEF GettingReady
<1>. QED  BY <1>3, <1>6, <1>7, <1>8, <1>9, <1>10, <1>11, BeforeTheBarrier

LEMMA ClaimKeepsIInv ==
    ASSUME IInv, NEW p \in Clones, Claim(p)
    PROVE  IInv'
<1>. USE ProcFacts
<1>1. TypeOK /\ MasterPlaces /\ Seeking /\ EveryCloneFindsASlot /\ GettingReady
  BY DEF IInv
<1>2. /\ pc[p] = "claim"
      /\ pids' = [pids EXCEPT ![cnt[p]] = p]
      /\ myptr' = [myptr EXCEPT ![p] = cnt[p]]
      /\ pc' = [pc EXCEPT ![p] = "report"]
      /\ UNCHANGED <<forks, round, cnt, counter, flag, delta, average>>
  BY DEF Claim
<1>3. ~Started
  BY <1>2, RidingClones
<1>4. cnt[p] \in Slots /\ cnt[p] \in Procs /\ myptr[p] = 0
  BY <1>1, <1>2 DEF Seeking
<1>5. /\ pc'[p] = "report" /\ myptr'[p] = cnt[p]
      /\ \A q \in Procs : q # p => pc'[q] = pc[q] /\ myptr'[q] = myptr[q]
      /\ pids'[cnt[p]] = p
      /\ \A s \in Procs : s # cnt[p] => pids'[s] = pids[s]
  BY <1>1, <1>2, <1>4 DEF TypeOK
<1>6. TypeOK'
  <2>1. pids' \in [Procs -> Procs] /\ myptr' \in [Procs -> Procs]
    BY <1>1, <1>2, <1>4 DEF TypeOK
  <2>2. pc' \in [Procs -> {"unborn", "fork", "seek", "claim", "report", "wait", "work",
                           "count", "average", "clear", "done"}]
    BY <1>1, <1>2 DEF TypeOK
  <2>. QED  BY <1>1, <1>2, <2>1, <2>2 DEF TypeOK
<1>7. MasterPlaces'
  BY <1>1, <1>2, <1>5 DEF MasterPlaces
<1>8. Seeking'
  <2>1. ASSUME NEW s \in Slots, pids'[s] # 0
        PROVE  myptr'[pids'[s]] = s
    <3>1. CASE s = cnt[p]
      BY <1>5, <3>1
    <3>2. CASE s # cnt[p]
      <4>1. pids'[s] = pids[s] /\ myptr[pids[s]] = s /\ pids[s] \in Procs
        BY <1>1, <1>5, <2>1, <3>2 DEF Seeking, TypeOK
      <4>. QED  BY <1>4, <1>5, <4>1
    <3>. QED  BY <3>1, <3>2
  <2>2. \A s \in Procs : pids[s] # 0 => pids'[s] # 0
    BY <1>5
  <2>3. \A q \in Clones : \A s \in 1..(cnt[q] - 1) : s \in Procs
    <3>1. \A q \in Clones : cnt[q] \in 1..NProc
      BY <1>1 DEF TypeOK
    <3>. QED  BY <3>1 DEF Procs
  <2>4. ASSUME NEW q \in Clones
        PROVE  /\ pc'[q] \in {"unborn", "fork"} => cnt'[q] = 1
               /\ pc'[q] \in {"unborn", "fork", "seek", "claim"} => myptr'[q] = 0
               /\ pc'[q] \in {"seek", "claim"} => \A s \in 1..(cnt'[q] - 1) : pids'[s] # 0
               /\ pc'[q] = "claim" => cnt'[q] \in Slots
    BY <1>1, <1>2, <1>5, <2>2, <2>3 DEF Seeking
  <2>. QED  BY <2>1, <2>4 DEF Seeking
<1>9. EveryCloneFindsASlot'
  BY <1>1, <1>4, <1>5 DEF EveryCloneFindsASlot
<1>10. /\ round' = round /\ flag' = flag
       /\ pc'[0] \in {"fork", "count"}
       /\ pc'[0] = "count" => pc[0] = "count" /\ cnt'[0] = cnt[0] /\ counter' = counter
  BY <1>1, <1>2, <1>3, <1>5 DEF GettingReady
<1>11. \A q \in Clones : /\ pc'[q] \in {"unborn", "fork", "seek", "claim", "report", "wait"}
                         /\ pc[q] = "wait" <=> pc'[q] = "wait"
                         /\ pc[q] = "wait" => myptr'[q] = myptr[q]
  BY <1>1, <1>2, <1>3, <1>5 DEF GettingReady
<1>. QED  BY <1>3, <1>6, <1>7, <1>8, <1>9, <1>10, <1>11, BeforeTheBarrier

(* A clone that reports raises its own flag and no other one's, so that no *)
(* sum of flags the master has begun is spoilt.                            *)
LEMMA ReportKeepsIInv ==
    ASSUME IInv, NEW p \in Clones, Report(p)
    PROVE  IInv'
<1>. USE ProcFacts
<1>1. /\ TypeOK /\ MasterPlaces /\ Seeking /\ EveryCloneFindsASlot /\ GettingReady
      /\ Counting /\ OneToOne /\ ClonesInStep /\ FlagsUp /\ AverageOverThisRound
  BY DEF IInv
<1>2. /\ pc[p] = "report"
      /\ flag' = [flag EXCEPT ![myptr[p]] = 1]
      /\ pc' = [pc EXCEPT ![p] = "wait"]
      /\ UNCHANGED <<forks, round, cnt, myptr, counter, pids, delta, average>>
  BY DEF Report
<1>3. myptr[p] \in Slots /\ myptr[p] \in Procs
  BY <1>1, <1>2 DEF EveryCloneFindsASlot
<1>4. /\ pc'[p] = "wait" /\ \A q \in Procs : q # p => pc'[q] = pc[q]
      /\ flag'[myptr[p]] = 1
      /\ \A s \in Procs : s # myptr[p] => flag'[s] = flag[s]
      /\ \A s \in Procs : flag[s] \in {0, 1} /\ (flag[s] = 1 => flag'[s] = 1)
  BY <1>1, <1>2, <1>3 DEF TypeOK
<1>5. TypeOK'
  <2>1. flag' \in [Procs -> {0, 1}]
    BY <1>1, <1>2 DEF TypeOK
  <2>2. pc' \in [Procs -> {"unborn", "fork", "seek", "claim", "report", "wait", "work",
                           "count", "average", "clear", "done"}]
    BY <1>1, <1>2 DEF TypeOK
  <2>. QED  BY <1>1, <1>2, <2>1, <2>2 DEF TypeOK
<1>6. MasterPlaces'
  BY <1>1, <1>2, <1>4 DEF MasterPlaces
<1>7. Seeking' /\ EveryCloneFindsASlot'
  <2>1. Seeking'
    BY <1>1, <1>2, <1>4 DEF Seeking
  <2>2. EveryCloneFindsASlot'
    BY <1>1, <1>2, <1>3, <1>4 DEF EveryCloneFindsASlot
  <2>. QED  BY <2>1, <2>2
<1>8. Counting'
  <2>1. \A s \in 1..(cnt[0] - 1) : s \in Procs
    <3>1. cnt[0] \in 1..NProc
      BY <1>1 DEF TypeOK
    <3>. QED  BY <3>1 DEF Procs
  <2>. QED  BY <1>1, <1>2, <1>4, <2>1 DEF Counting
<1>9. Started' <=> Started
  BY <1>2, <1>4 DEF Started
<1>10. GettingReady'
  <2>. SUFFICES ASSUME ~Started PROVE GettingReady'
    BY <1>9 DEF GettingReady
  <2>1. \A q \in Clones : myptr[q] \in Procs
    BY <1>1 DEF TypeOK
  <2>2. \A q \in Clones : /\ round'[q] = 0
                          /\ pc'[q] \in {"unborn", "fork", "seek", "claim", "report", "wait"}
                          /\ pc'[q] = "wait" => flag'[myptr'[q]] = 1
    BY <1>1, <1>2, <1>4, <2>1 DEF GettingReady
  <2>3. ASSUME NEW s \in Slots, flag'[s] = 1
        PROVE  \E q \in Clones : pc'[q] = "wait" /\ myptr'[q] = s
    <3>1. CASE s = myptr[p]
      BY <1>2, <1>4, <3>1
    <3>2. CASE s # myptr[p]
      <4>1. PICK q \in Clones : pc[q] = "wait" /\ myptr[q] = s
        BY <1>1, <1>4, <2>3, <3>2 DEF GettingReady
      <4>. QED  BY <1>2, <1>4, <4>1
    <3>. QED  BY <3>1, <3>2
  <2>. QED  BY <1>1, <1>4, <2>2, <2>3 DEF GettingReady
<1>11. OneToOne'
  BY <1>1, <1>2, <1>9 DEF OneToOne
<1>12. ClonesInStep'
  <2>. SUFFICES ASSUME Started, NEW q \in Clones
                PROVE  /\ InStep(q)'
                       /\ (round'[q] > 0 /\ pc'[q] # "work") =>
                             delta'[Area(round'[q])][myptr'[q]] = <<q, round'[q]>>
    BY <1>9 DEF ClonesInStep
  <2>1. Released(q)' = Released(q)
    BY <1>2, <1>4 DEF Released
  <2>2. myptr[q] \in Procs /\ (q # p => myptr[q] # myptr[p])
    BY <1>1 DEF OneToOne
  <2>3. InStep(q) /\ ((round[q] > 0 /\ pc[q] # "work") => delta[Area(round[q])][myptr[q]] = <<q, round[q]>>)
    BY <1>1 DEF ClonesInStep
  <2>4. CASE q = p
    <3>1. round[p] = Released(p) + 1
      BY <1>2, <2>3, <2>4 DEF InStep
    <3>2. InStep(q)'
      BY <1>2, <1>4, <2>1, <2>4, <3>1 DEF InStep
    <3>. QED  BY <1>2, <1>4, <2>3, <2>4, <3>2 DEF Area
  <2>5. CASE q # p
    <3>1. pc'[q] = pc[q] /\ flag'[myptr'[q]] = flag[myptr[q]]
      BY <1>2, <1>4, <2>2, <2>5
    <3>2. InStep(q)'
      BY <1>2, <2>1, <2>3, <3>1 DEF InStep
    <3>. QED  BY <1>2, <2>3, <3>1, <3>2 DEF Area
  <2>. QED  BY <2>4, <2>5
<1>13. FlagsUp'
  <2>1. \A q \in Clones : myptr[q] \in Procs
    BY <1>1 DEF TypeOK
  <2>. QED  BY <1>1, <1>2, <1>4, <2>1 DEF FlagsUp
<1>14. AverageOverThisRound'
  BY <1>1, <1>2, <1>4 DEF AverageOverThisRound
<1>. QED  BY <1>5, <1>6, <1>7, <1>8, <1>10, <1>11, <1>12, <1>13, <1>14 DEF IInv

(* A clone rides on only when the master has lowered its flag, which it    *)
(* has not done before its first barrier.                                  *)
LEMMA RideKeepsIInv ==
    ASSUME IInv, NEW p \in Clones, Ride(p)
    PROVE  IInv'
<1>. USE ProcFacts
<1>1. /\ TypeOK /\ MasterPlaces /\ Seeking /\ EveryCloneFindsASlot /\ GettingReady
      /\ Counting /\ OneToOne /\ ClonesInStep /\ FlagsUp /\ AverageOverThisRound
  BY DEF IInv
<1>2. /\ pc[p] = "wait" /\ flag[myptr[p]] = 0
      /\ UNCHANGED <<forks, cnt, myptr, counter, pids, flag, delta, average>>
  BY DEF Ride
<1>3. Started
  BY <1>1, <1>2 DEF GettingReady
<1>4. /\ \A q \in Procs : q # p => pc'[q] = pc[q] /\ round'[q] = round[q]
      /\ \/ round'[p] = round[p] + 1 /\ pc'[p] = "work"
         \/ round'[p] = round[p] /\ pc'[p] = "done"
  BY <1>1 DEF Ride, TypeOK
<1>5. TypeOK'
  <2>1. round' \in [Procs -> 0..Rounds]
    <3>1. \/ round' = round
          \/ round' = [round EXCEPT ![p] = round[p] + 1] /\ round[p] < Rounds
      BY DEF Ride
    <3>2. round \in [Procs -> 0..Rounds]
      BY <1>1 DEF TypeOK
    <3>3. CASE round' = round
      BY <3>2, <3>3
    <3>4. CASE round' = [round EXCEPT ![p] = round[p] + 1] /\ round[p] < Rounds
      <4>1. round[p] + 1 \in 0..Rounds
        BY <3>2, <3>4
      <4>. QED  BY <3>2, <3>4, <4>1
    <3>. QED  BY <3>1, <3>3, <3>4
  <2>2. pc' \in [Procs -> {"unborn", "fork", "seek", "claim", "report", "wait", "work",
                           "count", "average", "clear", "done"}]
    <3>1. \/ pc' = [pc EXCEPT ![p] = "work"]
          \/ pc' = [pc EXCEPT ![p] = "done"]
      BY DEF Ride
    <3>. QED  BY <1>1, <3>1 DEF TypeOK
  <2>. QED  BY <1>1, <1>2, <2>1, <2>2 DEF TypeOK
<1>6. Started' /\ pc'[0] = pc[0] /\ round'[0] = round[0]
  BY <1>3, <1>4 DEF Started
<1>7. MasterPlaces' /\ Seeking' /\ EveryCloneFindsASlot'
  <2>1. MasterPlaces'
    BY <1>1, <1>2, <1>6 DEF MasterPlaces
  <2>2. Seeking'
    BY <1>1, <1>2, <1>4 DEF Seeking
  <2>3. EveryCloneFindsASlot'
    BY <1>1, <1>2, <1>4 DEF EveryCloneFindsASlot
  <2>. QED  BY <2>1, <2>2, <2>3
<1>8. GettingReady' /\ Counting' /\ OneToOne' /\ FlagsUp' /\ AverageOverThisRound'
  BY <1>1, <1>2, <1>3, <1>6
     DEF GettingReady, Counting, OneToOne, FlagsUp, AverageOverThisRound
<1>9. ClonesInStep'
  <2>. SUFFICES ASSUME NEW q \in Clones
                PROVE  /\ InStep(q)'
                       /\ (round'[q] > 0 /\ pc'[q] # "work") =>
                             delta'[Area(round'[q])][myptr'[q]] = <<q, round'[q]>>
    BY DEF ClonesInStep
  <2>1. Released(q)' = Released(q)
    BY <1>2, <1>6 DEF Released
  <2>2. InStep(q) /\ ((round[q] > 0 /\ pc[q] # "work") => delta[Area(round[q])][myptr[q]] = <<q, round[q]>>)
    BY <1>1, <1>3 DEF ClonesInStep
  <2>3. CASE q = p
    <3>1. round[p] = Released(p)
      BY <1>2, <2>2, <2>3 DEF InStep
    <3>2. InStep(q)'
      BY <1>2, <1>4, <2>1, <2>3, <3>1 DEF InStep
    <3>3. pc'[p] # "work" => round'[p] = round[p]
      BY <1>4
    <3>. QED  BY <1>2, <2>2, <2>3, <3>2, <3>3 DEF Area
  <2>4. CASE q # p
    <3>1. InStep(q)'
      BY <1>2, <1>4, <2>1, <2>2, <2>4 DEF InStep
    <3>. QED  BY <1>2, <1>4, <2>2, <2>4, <3>1 DEF Area
  <2>. QED  BY <2>3, <2>4
<1>. QED  BY <1>5, <1>7, <1>8, <1>9 DEF IInv

(* A clone leaves its time where only it writes.                           *)
LEMMA RecordKeepsIInv ==
    ASSUME IInv, NEW p \in Clones, Record(p)
    PROVE  IInv'
<1>. USE ProcFacts
<1>1. /\ TypeOK /\ MasterPlaces /\ Seeking /\ EveryCloneFindsASlot /\ GettingReady
      /\ Counting /\ OneToOne /\ ClonesInStep /\ FlagsUp /\ AverageOverThisRound
  BY DEF IInv
<1>2. /\ pc[p] = "work"
      /\ delta' = [delta EXCEPT ![Area(round[p])][myptr[p]] = <<p, round[p]>>]
      /\ pc' = [pc EXCEPT ![p] = "report"]
      /\ UNCHANGED <<forks, round, cnt, myptr, counter, pids, flag, average>>
  BY DEF Record
<1>3. Started
  BY <1>1, <1>2 DEF GettingReady
<1>4. pc'[p] = "report" /\ \A q \in Procs : q # p => pc'[q] = pc[q]
  BY <1>1, <1>2 DEF TypeOK
<1>5. \A q \in Clones : round[q] \in Nat /\ Area(round[q]) \in 0..(Areas - 1)
  <2>1. \A q \in Clones : round[q] \in Nat
    BY <1>1 DEF TypeOK
  <2>. QED  BY <2>1, AreaType
<1>6. TypeOK'
  <2>1. <<p, round[p]>> \in Time
    BY <1>1 DEF TypeOK, Time
  <2>2. delta' \in [0..(Areas - 1) -> [Procs -> Time]]
    BY <1>1, <1>2, <2>1 DEF TypeOK
  <2>3. pc' \in [Procs -> {"unborn", "fork", "seek", "claim", "report", "wait", "work",
                           "count", "average", "clear", "done"}]
    BY <1>1, <1>2 DEF TypeOK
  <2>. QED  BY <1>1, <1>2, <2>2, <2>3 DEF TypeOK
<1>7. Started' /\ pc'[0] = pc[0]
  BY <1>2, <1>3, <1>4 DEF Started
<1>8. MasterPlaces' /\ Seeking' /\ EveryCloneFindsASlot'
  <2>1. MasterPlaces'
    BY <1>1, <1>2, <1>7 DEF MasterPlaces
  <2>2. Seeking'
    BY <1>1, <1>2, <1>4 DEF Seeking
  <2>3. EveryCloneFindsASlot'
    BY <1>1, <1>2, <1>4 DEF EveryCloneFindsASlot
  <2>. QED  BY <2>1, <2>2, <2>3
<1>9. GettingReady' /\ Counting' /\ OneToOne' /\ FlagsUp' /\ AverageOverThisRound'
  BY <1>1, <1>2, <1>3, <1>7
     DEF GettingReady, Counting, OneToOne, FlagsUp, AverageOverThisRound
<1>10. ClonesInStep'
  <2>. SUFFICES ASSUME NEW q \in Clones
                PROVE  /\ InStep(q)'
                       /\ (round'[q] > 0 /\ pc'[q] # "work") =>
                             delta'[Area(round'[q])][myptr'[q]] = <<q, round'[q]>>
    BY DEF ClonesInStep
  <2>1. Released(q)' = Released(q)
    BY <1>2, <1>7 DEF Released
  <2>2. InStep(q) /\ ((round[q] > 0 /\ pc[q] # "work") => delta[Area(round[q])][myptr[q]] = <<q, round[q]>>)
    BY <1>1, <1>3 DEF ClonesInStep
  <2>3. /\ myptr[q] \in Procs /\ (q # p => myptr[q] # myptr[p])
        /\ delta \in [0..(Areas - 1) -> [Procs -> Time]]
    BY <1>1, <1>3 DEF OneToOne, TypeOK
  <2>4. CASE q = p
    <3>1. InStep(q)'
      BY <1>2, <1>4, <2>1, <2>2, <2>4 DEF InStep
    <3>2. delta'[Area(round[p])][myptr[p]] = <<p, round[p]>>
      BY <1>2, <1>5, <2>3, <2>4
    <3>. QED  BY <1>2, <2>4, <3>1, <3>2 DEF Area
  <2>5. CASE q # p
    <3>1. InStep(q)'
      BY <1>2, <1>4, <2>1, <2>2, <2>5 DEF InStep
    <3>2. delta'[Area(round[q])][myptr[q]] = delta[Area(round[q])][myptr[q]]
      BY <1>2, <1>5, <2>3, <2>5
    <3>. QED  BY <1>2, <1>4, <2>2, <2>5, <3>1, <3>2 DEF Area
  <2>. QED  BY <2>4, <2>5
<1>. QED  BY <1>6, <1>8, <1>9, <1>10 DEF IInv

(***************************************************************************)
(* The steps of the master                                                 *)
(***************************************************************************)
LEMMA MasterWorksKeepsIInv == IInv /\ MasterWorks => IInv'
<1>. SUFFICES ASSUME IInv, MasterWorks PROVE IInv'
  OBVIOUS
<1>. USE ProcFacts
<1>1. /\ TypeOK /\ MasterPlaces /\ Seeking /\ EveryCloneFindsASlot /\ GettingReady
      /\ Counting /\ OneToOne /\ ClonesInStep /\ FlagsUp /\ AverageOverThisRound
  BY DEF IInv
<1>2. /\ pc[0] = "work"
      /\ pc' = [pc EXCEPT ![0] = "count"]
      /\ cnt' = [cnt EXCEPT ![0] = 1]
      /\ counter' = 0
      /\ UNCHANGED <<forks, round, myptr, pids, flag, delta, average>>
  BY DEF MasterWorks
<1>3. /\ pc'[0] = "count" /\ cnt'[0] = 1
      /\ \A q \in Clones : pc'[q] = pc[q] /\ cnt'[q] = cnt[q]
  BY <1>1, <1>2 DEF TypeOK
<1>4. TypeOK'
  BY <1>1, <1>2 DEF TypeOK
<1>5. Started /\ Started'
  BY <1>1, <1>2 DEF Started, MasterPlaces
<1>6. MasterPlaces' /\ Counting'
  BY <1>1, <1>2, <1>3 DEF MasterPlaces, Counting
<1>7. Seeking' /\ EveryCloneFindsASlot'
  <2>1. Seeking'
    BY <1>1, <1>2, <1>3 DEF Seeking
  <2>2. EveryCloneFindsASlot'
    BY <1>1, <1>2, <1>3 DEF EveryCloneFindsASlot
  <2>. QED  BY <2>1, <2>2
<1>8. GettingReady' /\ OneToOne' /\ FlagsUp' /\ AverageOverThisRound'
  BY <1>1, <1>2, <1>3, <1>5 DEF GettingReady, OneToOne, FlagsUp, AverageOverThisRound
<1>9. ClonesInStep'
  BY <1>1, <1>2, <1>3, <1>5 DEF ClonesInStep, InStep, Released, Area
<1>. QED  BY <1>4, <1>6, <1>7, <1>8, <1>9 DEF IInv

(* One more flag counted, or, if one was missing, all of them anew.        *)
LEMMA CountKeepsIInv == IInv /\ (Count \/ CountAgain) => IInv'
<1>. SUFFICES ASSUME IInv, Count \/ CountAgain PROVE IInv'
  OBVIOUS
<1>. USE ProcFacts
<1>1. /\ TypeOK /\ MasterPlaces /\ Seeking /\ EveryCloneFindsASlot /\ GettingReady
      /\ Counting /\ OneToOne /\ ClonesInStep /\ FlagsUp /\ AverageOverThisRound
  BY DEF IInv
<1>2. /\ pc[0] = "count"
      /\ UNCHANGED <<pc, forks, round, myptr, pids, flag, delta, average>>
  BY DEF Count, CountAgain
<1>3. cnt \in [Procs -> 1..NProc] /\ cnt[0] \in 1..NProc /\ counter \in Nat
  BY <1>1 DEF TypeOK
<1>4. \A q \in Clones : cnt'[q] = cnt[q]
  BY <1>3 DEF Count, CountAgain
<1>5. /\ cnt' \in [Procs -> 1..NProc]
      /\ counter' \in Nat
      /\ counter' <= cnt'[0] - 1
      /\ counter' = cnt'[0] - 1 => \A s \in 1..(cnt'[0] - 1) : flag[s] = 1
  <2>1. CASE Count
    <3>1. /\ cnt[0] < NProc /\ counter' = counter + flag[cnt[0]] /\ cnt' = [cnt EXCEPT ![0] = @ + 1]
      BY <2>1 DEF Count
    <3>2. cnt' \in [Procs -> 1..NProc] /\ cnt'[0] = cnt[0] + 1
      BY <1>3, <3>1
    <3>3. flag[cnt[0]] \in {0, 1}
      <4>1. cnt[0] \in Procs
        BY <1>3, <3>1 DEF Procs
      <4>. QED  BY <1>1, <4>1 DEF TypeOK
    <3>4. counter <= cnt[0] - 1 /\ (counter = cnt[0] - 1 => \A s \in 1..(cnt[0] - 1) : flag[s] = 1)
      BY <1>1, <1>2 DEF Counting
    <3>5. counter' \in Nat /\ counter' <= cnt'[0] - 1
      BY <1>3, <3>1, <3>2, <3>3, <3>4
    <3>6. ASSUME counter' = cnt'[0] - 1, NEW s \in 1..(cnt'[0] - 1)
          PROVE  flag[s] = 1
      <4>1. flag[cnt[0]] = 1 /\ counter = cnt[0] - 1
        BY <1>3, <3>1, <3>2, <3>3, <3>4, <3>6
      <4>2. s = cnt[0] \/ s \in 1..(cnt[0] - 1)
        BY <1>3, <3>2
      <4>. QED  BY <3>4, <4>1, <4>2
    <3>. QED  BY <3>2, <3>5, <3>6
  <2>2. CASE CountAgain
    <3>1. counter' = 0 /\ cnt' = [cnt EXCEPT ![0] = 1] /\ cnt'[0] = 1
      BY <1>3, <2>2 DEF CountAgain
    <3>. QED  BY <1>3, <3>1
  <2>. QED  BY <2>1, <2>2
<1>6. TypeOK'
  BY <1>1, <1>2, <1>5 DEF TypeOK
<1>7. Started' <=> Started
  BY <1>2 DEF Started
<1>8. MasterPlaces' /\ Counting'
  BY <1>1, <1>2, <1>5 DEF MasterPlaces, Counting
<1>9. Seeking' /\ EveryCloneFindsASlot'
  <2>1. Seeking'
    BY <1>1, <1>2, <1>4 DEF Seeking
  <2>2. EveryCloneFindsASlot'
    BY <1>1, <1>2 DEF EveryCloneFindsASlot
  <2>. QED  BY <2>1, <2>2
<1>10. GettingReady' /\ OneToOne' /\ FlagsUp' /\ AverageOverThisRound'
  BY <1>1, <1>2, <1>7 DEF GettingReady, OneToOne, FlagsUp, AverageOverThisRound
<1>11. ClonesInStep'
  BY <1>1, <1>2, <1>7 DEF ClonesInStep, InStep, Released, Area
<1>. QED  BY <1>6, <1>8, <1>9, <1>10, <1>11 DEF IInv

(* When all flags are counted they are up, at the first barrier because    *)
(* every slot must then be a different clone's.                            *)
LEMMA AllReportedKeepsIInv == IInv /\ AllReported => IInv'
<1>. SUFFICES ASSUME IInv, AllReported PROVE IInv'
  OBVIOUS
<1>. USE ProcFacts
<1>1. /\ TypeOK /\ MasterPlaces /\ Seeking /\ EveryCloneFindsASlot /\ GettingReady
      /\ Counting /\ OneToOne /\ ClonesInStep /\ FlagsUp /\ AverageOverThisRound
  BY DEF IInv
<1>2. /\ pc[0] = "count" /\ cnt[0] = NProc /\ counter = NProc - 1
      /\ pc' = [pc EXCEPT ![0] = IF round[0] = 0 THEN "clear" ELSE "average"]
      /\ cnt' = [cnt EXCEPT ![0] = 1]
      /\ UNCHANGED <<forks, round, myptr, counter, pids, flag, delta, average>>
  BY DEF AllReported
<1>3. /\ pc'[0] = IF round[0] = 0 THEN "clear" ELSE "average"
      /\ cnt'[0] = 1
      /\ \A q \in Clones : pc'[q] = pc[q] /\ cnt'[q] = cnt[q]
      /\ round[0] \in Nat
  BY <1>1, <1>2 DEF TypeOK
<1>4. \A s \in Slots : flag[s] = 1
  BY <1>1, <1>2 DEF Counting, Slots
<1>5. OneToOne' /\ ClonesInStep' /\ (\A q \in Clones : myptr[q] \in Slots)
  <2>1. CASE round[0] = 0
    <3>1. ~Started
      BY <1>2, <2>1 DEF Started
    <3> DEFINE W == {q \in Clones : pc[q] = "wait"}
               own == [q \in W |-> myptr[q]]
    <3>2. \A q \in W : own[q] = myptr[q] /\ myptr[q] \in Slots
      BY <1>1 DEF EveryCloneFindsASlot
    <3>3. W \in SUBSET Clones /\ own \in [W -> Slots]
      BY <3>2
    <3>4. \A s \in Slots : \E q \in W : own[q] = s
      BY <1>1, <1>4, <3>1 DEF GettingReady
    <3>. HIDE DEF W, own
    <3>5. W = Clones /\ \A q, r \in W : own[q] = own[r] => q = r
      BY <3>3, <3>4, SlotsShared
    <3>6. OneToOne'
      BY <1>2, <3>2, <3>4, <3>5 DEF OneToOne
    <3>. USE DEF W
    <3>7. ASSUME NEW q \in Clones PROVE InStep(q)' /\ round'[q] = 0
      <4>1. /\ pc'[q] = "wait" /\ flag'[myptr'[q]] = 1 /\ round'[q] = 0 /\ round'[0] = 0
            /\ myptr'[q] \in Slots
        BY <1>1, <1>2, <1>3, <1>4, <2>1, <3>1, <3>2, <3>5 DEF GettingReady
      <4>2. Released(q)' = -1
        BY <1>3, <2>1, <4>1 DEF Released, Slots
      <4>. QED  BY <4>1, <4>2 DEF InStep
    <3>8. ClonesInStep'
      BY <3>7 DEF ClonesInStep
    <3>. QED  BY <3>2, <3>5, <3>6, <3>8
  <2>2. CASE round[0] # 0
    <3>1. Started
      BY <1>3, <2>2 DEF Started
    <3>2. pc'[0] = "average"
      BY <1>3, <2>2
    <3>3. \A q \in Clones : Released(q)' = Released(q)
      BY <1>2, <3>2 DEF Released
    <3>4. ClonesInStep'
      BY <1>1, <1>2, <1>3, <3>1, <3>3 DEF ClonesInStep, InStep, Area
    <3>. QED  BY <1>1, <1>2, <3>1, <3>4 DEF OneToOne
  <2>. QED  BY <2>1, <2>2
<1>6. TypeOK'
  BY <1>1, <1>2 DEF TypeOK
<1>7. MasterPlaces' /\ Counting' /\ GettingReady' /\ AverageOverThisRound'
  <2>1. Started' /\ round'[0] = round[0]
    BY <1>2, <1>3 DEF Started
  <2>2. MasterPlaces'
    BY <1>3, <2>1 DEF MasterPlaces
  <2>. QED  BY <1>3, <2>1, <2>2 DEF Counting, GettingReady, AverageOverThisRound
<1>8. Seeking' /\ EveryCloneFindsASlot'
  <2>1. Seeking'
    BY <1>1, <1>2, <1>3 DEF Seeking
  <2>2. EveryCloneFindsASlot'
    BY <1>1, <1>2, <1>3 DEF EveryCloneFindsASlot
  <2>. QED  BY <2>1, <2>2
<1>9. FlagsUp'
  BY <1>2, <1>4, <1>5 DEF FlagsUp
<1>. QED  BY <1>5, <1>6, <1>7, <1>8, <1>9 DEF IInv

(* With all flags up every clone waits with its time of this round in its  *)
(* slot, so that is what the master averages.                              *)
LEMMA AverageKeepsIInv == IInv /\ Average => IInv'
<1>. SUFFICES ASSUME IInv, Average PROVE IInv'
  OBVIOUS
<1>. USE ProcFacts
<1>1. /\ TypeOK /\ MasterPlaces /\ Seeking /\ EveryCloneFindsASlot /\ GettingReady
      /\ Counting /\ OneToOne /\ ClonesInStep /\ FlagsUp /\ AverageOverThisRound
  BY DEF IInv
<1>2. /\ pc[0] = "average"
      /\ delta' = [delta EXCEPT ![Area(round[0])][0] = <<0, round[0]>>]
      /\ average' = delta'[Area(round[0])]
      /\ pc' = [pc EXCEPT ![0] = "clear"]
      /\ UNCHANGED <<forks, round, cnt, myptr, counter, pids, flag>>
  BY DEF Average
<1>3. pc'[0] = "clear" /\ \A q \in Clones : pc'[q] = pc[q]
  BY <1>1, <1>2 DEF TypeOK
<1>4. Started /\ Started' /\ round[0] > 0 /\ cnt[0] = 1
  BY <1>1, <1>2, <1>3 DEF Started, MasterPlaces
<1>5. round \in [Procs -> 0..Rounds] /\ \A q \in Procs : Area(round[q]) \in 0..(Areas - 1)
  <2>1. round \in [Procs -> 0..Rounds] /\ \A q \in Procs : round[q] \in Nat
    BY <1>1 DEF TypeOK
  <2>. QED  BY <2>1, AreaType
<1>6. TypeOK'
  <2>1. delta \in [0..(Areas - 1) -> [Procs -> Time]] /\ <<0, round[0]>> \in Time
    BY <1>1, <1>5 DEF TypeOK, Time
  <2>2. delta' \in [0..(Areas - 1) -> [Procs -> Time]]
    BY <1>2, <2>1
  <2>3. average' \in [Procs -> Time]
    BY <1>2, <1>5, <2>2
  <2>4. pc' \in [Procs -> {"unborn", "fork", "seek", "claim", "report", "wait", "work",
                           "count", "average", "clear", "done"}]
    BY <1>1, <1>2 DEF TypeOK
  <2>. QED  BY <1>1, <1>2, <2>2, <2>3, <2>4 DEF TypeOK
<1>7. MasterPlaces' /\ Counting' /\ GettingReady'
  BY <1>2, <1>3, <1>4 DEF MasterPlaces, Counting, GettingReady
<1>8. Seeking' /\ EveryCloneFindsASlot'
  <2>1. Seeking'
    BY <1>1, <1>2, <1>3 DEF Seeking
  <2>2. EveryCloneFindsASlot'
    BY <1>1, <1>2, <1>3 DEF EveryCloneFindsASlot
  <2>. QED  BY <2>1, <2>2
<1>9. OneToOne'
  BY <1>1, <1>2, <1>4 DEF OneToOne
<1>10. FlagsUp'
  BY <1>1, <1>2 DEF FlagsUp
<1>11. \A q \in Clones : myptr[q] \in Slots /\ myptr[q] # 0 /\ myptr[q] \in Procs /\ ~(myptr[q] < 1)
  BY <1>1, <1>4 DEF OneToOne, Slots
<1>12. \A q \in Clones : delta'[Area(round[q])][myptr[q]] = delta[Area(round[q])][myptr[q]]
  <2>1. delta \in [0..(Areas - 1) -> [Procs -> Time]]
    BY <1>1 DEF TypeOK
  <2>. QED  BY <1>2, <1>5, <1>11, <2>1
<1>13. ClonesInStep'
  <2>1. \A q \in Clones : Released(q)' = Released(q)
    BY <1>2, <1>3, <1>4, <1>11 DEF Released
  <2>. QED  BY <1>1, <1>2, <1>3, <1>4, <1>12, <2>1 DEF ClonesInStep, InStep, Area
<1>14. AverageOverThisRound'
  <2>1. ASSUME NEW q \in Clones
        PROVE  average'[myptr[q]] = <<q, round[0]>>
    <3>1. flag[myptr[q]] = 1 /\ Released(q) = round[0] - 1
      BY <1>1, <1>2 DEF FlagsUp, Released
    <3>2. InStep(q) /\ ((round[q] > 0 /\ pc[q] # "work") => delta[Area(round[q])][myptr[q]] = <<q, round[q]>>)
      BY <1>1, <1>4 DEF ClonesInStep
    <3>3. round[q] = round[0] /\ pc[q] = "wait"
      BY <1>5, <3>1, <3>2 DEF InStep
    <3>. QED  BY <1>2, <1>4, <1>12, <3>2, <3>3
  <2>2. average'[0] = <<0, round[0]>>
    <3>1. delta \in [0..(Areas - 1) -> [Procs -> Time]]
      BY <1>1 DEF TypeOK
    <3>. QED  BY <1>2, <1>5, <3>1
  <2>3. ASSUME NEW s \in Procs PROVE average'[s][2] = round'[0]
    <3>1. CASE s = 0
      BY <1>2, <2>2, <3>1
    <3>2. CASE s # 0
      <4>1. PICK q \in Clones : myptr[q] = s
        BY <1>1, <1>4, <3>2 DEF OneToOne
      <4>. QED  BY <1>2, <2>1, <4>1
    <3>. QED  BY <3>1, <3>2
  <2>4. ASSUME NEW q \in Procs PROVE \E s \in Procs : average'[s][1] = q
    <3>1. CASE q = 0
      <4>1. average'[0][1] = q
        BY <2>2, <3>1
      <4>. QED  BY <4>1
    <3>2. CASE q \in Clones
      <4>1. average'[myptr[q]][1] = q
        BY <2>1, <3>2
      <4>. QED  BY <1>11, <3>2, <4>1
    <3>. QED  BY <3>1, <3>2
  <2>. QED  BY <2>3, <2>4 DEF AverageOverThisRound
<1>. QED  BY <1>6, <1>7, <1>8, <1>9, <1>10, <1>13, <1>14 DEF IInv

(* Lowering a flag lets one clone, and only that one, out of the barrier.  *)
LEMMA ClearKeepsIInv == IInv /\ Clear => IInv'
<1>. SUFFICES ASSUME IInv, Clear PROVE IInv'
  OBVIOUS
<1>. USE ProcFacts
<1>1. /\ TypeOK /\ MasterPlaces /\ Seeking /\ EveryCloneFindsASlot /\ GettingReady
      /\ Counting /\ OneToOne /\ ClonesInStep /\ FlagsUp /\ AverageOverThisRound
  BY DEF IInv
<1>2. /\ pc[0] = "clear" /\ cnt[0] < NProc
      /\ flag' = [flag EXCEPT ![cnt[0]] = 0]
      /\ cnt' = [cnt EXCEPT ![0] = @ + 1]
      /\ UNCHANGED <<pc, forks, round, myptr, counter, pids, delta, average>>
  BY DEF Clear
<1>3. cnt \in [Procs -> 1..NProc] /\ cnt[0] \in 1..NProc /\ cnt[0] \in Procs /\ round[0] \in Nat
  <2>1. cnt \in [Procs -> 1..NProc] /\ cnt[0] \in 1..NProc /\ round[0] \in Nat
    BY <1>1 DEF TypeOK
  <2>. QED  BY <1>2, <2>1 DEF Procs
<1>4. /\ cnt'[0] = cnt[0] + 1 /\ \A q \in Clones : cnt'[q] = cnt[q]
      /\ flag'[cnt[0]] = 0
      /\ \A s \in Procs : s # cnt[0] => flag'[s] = flag[s]
  BY <1>1, <1>2, <1>3 DEF TypeOK
<1>5. TypeOK'
  <2>1. cnt' \in [Procs -> 1..NProc]
    <3>1. cnt[0] + 1 \in 1..NProc
      BY <1>2, <1>3
    <3>. QED  BY <1>2, <1>3, <3>1
  <2>2. flag' \in [Procs -> {0, 1}]
    BY <1>1, <1>2 DEF TypeOK
  <2>. QED  BY <1>1, <1>2, <2>1, <2>2 DEF TypeOK
<1>6. Started /\ Started'
  BY <1>2 DEF Started
<1>7. MasterPlaces' /\ Counting' /\ GettingReady' /\ OneToOne' /\ AverageOverThisRound'
  BY <1>1, <1>2, <1>6
     DEF MasterPlaces, Counting, GettingReady, OneToOne, AverageOverThisRound
<1>8. Seeking' /\ EveryCloneFindsASlot'
  <2>1. Seeking'
    BY <1>1, <1>2, <1>4 DEF Seeking
  <2>2. EveryCloneFindsASlot'
    BY <1>1, <1>2 DEF EveryCloneFindsASlot
  <2>. QED  BY <2>1, <2>2
<1>9. \A q \in Clones : myptr[q] \in Slots /\ myptr[q] \in Procs /\ myptr[q] \in Nat
  BY <1>1, <1>6 DEF OneToOne
<1>10. FlagsUp'
  <2>. SUFFICES ASSUME NEW q \in Clones, myptr[q] >= cnt[0] + 1 PROVE flag'[myptr[q]] = 1
    BY <1>2, <1>4 DEF FlagsUp
  <2>1. myptr[q] # cnt[0] /\ myptr[q] >= cnt[0]
    BY <1>3, <1>9
  <2>. QED  BY <1>1, <1>2, <1>4, <1>9, <2>1 DEF FlagsUp
<1>11. ClonesInStep'
  <2>. SUFFICES ASSUME NEW q \in Clones PROVE InStep(q)'
    BY <1>1, <1>2, <1>6 DEF ClonesInStep, Area
  <2>1. InStep(q)
    BY <1>1, <1>6 DEF ClonesInStep
  <2>2. CASE myptr[q] = cnt[0]
    <3>1. flag[myptr[q]] = 1
      BY <1>1, <1>2, <1>3, <2>2 DEF FlagsUp
    <3>2. Released(q) = round[0] - 1 /\ Released(q)' = round[0]
      BY <1>2, <1>3, <1>4, <2>2 DEF Released
    <3>3. round[q] = round[0] /\ pc[q] = "wait"
      BY <1>3, <2>1, <3>1, <3>2 DEF InStep
    <3>. QED  BY <1>2, <1>4, <2>2, <3>2, <3>3 DEF InStep
  <2>3. CASE myptr[q] # cnt[0]
    <3>1. Released(q)' = Released(q)
      <4>1. myptr[q] < cnt[0] + 1 <=> myptr[q] < cnt[0]
        BY <1>3, <1>9, <2>3
      <4>. QED  BY <1>2, <1>4, <4>1 DEF Released
    <3>. QED  BY <1>2, <1>4, <1>9, <2>1, <2>3, <3>1 DEF InStep
  <2>. QED  BY <2>2, <2>3
<1>. QED  BY <1>5, <1>7, <1>8, <1>10, <1>11 DEF IInv

LEMMA ClearedKeepsIInv == IInv /\ Cleared => IInv'
<1>. SUFFICES ASSUME IInv, Cleared PROVE IInv'
  OBVIOUS
<1>. USE ProcFacts
<1>1. /\ TypeOK /\ MasterPlaces /\ Seeking /\ EveryCloneFindsASlot /\ GettingReady
      /\ Counting /\ OneToOne /\ ClonesInStep /\ FlagsUp /\ AverageOverThisRound
  BY DEF IInv
<1>2. /\ pc[0] = "clear" /\ cnt[0] = NProc
      /\ UNCHANGED <<forks, cnt, myptr, counter, pids, flag, delta, average>>
      /\ \/ /\ round[0] < Rounds
            /\ round' = [round EXCEPT ![0] = round[0] + 1]
            /\ pc' = [pc EXCEPT ![0] = "work"]
         \/ /\ ~(round[0] < Rounds)
            /\ round' = round
            /\ pc' = [pc EXCEPT ![0] = "done"]
  BY DEF Cleared
<1>3. round \in [Procs -> 0..Rounds] /\ round[0] \in 0..Rounds
  BY <1>1 DEF TypeOK
<1>4. /\ \A q \in Clones : pc'[q] = pc[q] /\ round'[q] = round[q]
      /\ \/ pc'[0] = "work" /\ round'[0] = round[0] + 1
         \/ pc'[0] = "done" /\ round'[0] = round[0]
      /\ round'[0] > 0
  BY <1>1, <1>2, <1>3 DEF TypeOK
<1>5. TypeOK'
  <2>1. round' \in [Procs -> 0..Rounds]
    <3>1. round[0] < Rounds => round[0] + 1 \in 0..Rounds
      BY <1>3
    <3>. QED  BY <1>2, <1>3, <3>1
  <2>2. pc' \in [Procs -> {"unborn", "fork", "seek", "claim", "report", "wait", "work",
                           "count", "average", "clear", "done"}]
    BY <1>1, <1>2 DEF TypeOK
  <2>. QED  BY <1>1, <1>2, <2>1, <2>2 DEF TypeOK
<1>6. Started /\ Started'
  BY <1>2, <1>4 DEF Started
<1>7. MasterPlaces' /\ Counting' /\ GettingReady' /\ OneToOne' /\ FlagsUp' /\ AverageOverThisRound'
  BY <1>1, <1>2, <1>4, <1>6
     DEF MasterPlaces, Counting, GettingReady, OneToOne, FlagsUp, AverageOverThisRound
<1>8. Seeking' /\ EveryCloneFindsASlot'
  <2>1. Seeking'
    BY <1>1, <1>2, <1>4 DEF Seeking
  <2>2. EveryCloneFindsASlot'
    BY <1>1, <1>2, <1>4 DEF EveryCloneFindsASlot
  <2>. QED  BY <2>1, <2>2
<1>9. \A q \in Clones : Released(q)' = Released(q)
  <2>1. \A q \in Clones : myptr[q] < cnt[0]
    BY <1>1, <1>2, <1>6 DEF OneToOne
  <2>. QED  BY <1>2, <1>3, <1>4, <2>1 DEF Released
<1>10. ClonesInStep'
  BY <1>1, <1>2, <1>4, <1>6, <1>9 DEF ClonesInStep, InStep, Area
<1>. QED  BY <1>5, <1>7, <1>8, <1>10 DEF IInv

LEMMA RamsmpNext == IInv /\ [Next]_vars => IInv'
<1>. SUFFICES ASSUME IInv, [Next]_vars PROVE IInv'
  OBVIOUS
<1>1. ASSUME NEW p \in Procs, ForkStep(p) PROVE IInv'
  BY <1>1, ForkKeepsIInv, ForkedKeepsIInv DEF ForkStep
<1>2. ASSUME NEW p \in Clones, CloneStep(p) PROVE IInv'
  BY <1>2, SeekKeepsIInv, ClaimKeepsIInv, ReportKeepsIInv, RideKeepsIInv,
     RecordKeepsIInv DEF CloneStep
<1>3. CASE MasterStep
  BY <1>3, MasterWorksKeepsIInv, CountKeepsIInv, AllReportedKeepsIInv, AverageKeepsIInv,
     ClearKeepsIInv, ClearedKeepsIInv DEF MasterStep
<1>4. CASE UNCHANGED vars
  BY <1>4 DEF vars, IInv, TypeOK, MasterPlaces, Seeking, EveryCloneFindsASlot, GettingReady,
     Started, Counting, OneToOne, ClonesInStep, InStep, Released, Area, FlagsUp,
     AverageOverThisRound
<1>. QED  BY <1>1, <1>2, <1>3, <1>4 DEF Next

(***************************************************************************)
(* Somebody can always go on                                               *)
(***************************************************************************)
(* As many slots as clones: if no two clones share one, each is some       *)
(* clone's.                                                                *)
LEMMA EverySlotHasAClone ==
    ASSUME NEW f \in [Clones -> Slots],
           \A p, q \in Clones : p # q => f[p] # f[q]
    PROVE  \A s \in Slots : \E p \in Clones : f[p] = s
<1>1. IsFiniteSet(Clones)
  BY ProcFacts, FS_Interval DEF Clones
<1>2. f \in Injection(Clones, Slots)
  BY Fun_IsInj
<1>3. f \in Surjection(Clones, Slots)
  BY <1>1, <1>2, ProcFacts, FS_Injection
<1>. QED  BY <1>3, Fun_SurjectionProperties

(* Where a process is that cannot go on.                                   *)
LEMMA WhereTheyWait ==
    ASSUME TypeOK, NEW p \in Procs, ~CanGoOn(p), pc[p] # "unborn"
    PROVE  \/ pc[p] = "done"
           \/ pc[p] = "wait" /\ (p # 0 => flag[myptr[p]] = 1)
           \/ pc[p] = "count" /\ (p = 0 => \E s \in Slots : flag[s] # 1)
<1>1. pc[p] \in {"unborn", "fork", "seek", "claim", "report", "wait", "work",
                "count", "average", "clear", "done"}
  BY DEF TypeOK
<1>2. myptr[p] \in Procs /\ (flag[myptr[p]] = 0 \/ flag[myptr[p]] = 1)
  BY DEF TypeOK
<1>. QED  BY <1>1, <1>2 DEF CanGoOn

(* Until the first barrier is passed, every clone waits at it when nobody  *)
(* can go on: the master has then all the reports it waits for.            *)
LEMMA NotStuckGettingReady ==
    ASSUME IInv, ~Started, LocalNumbers, \A p \in Procs : pc[p] # "unborn"
    PROVE  \E p \in Procs : CanGoOn(p)
<1>. SUFFICES ASSUME \A p \in Procs : ~CanGoOn(p) PROVE FALSE
  OBVIOUS
<1>. USE ProcFacts
<1>1. TypeOK /\ GettingReady /\ EveryCloneFindsASlot
  BY DEF IInv
<1>2. \A p \in Clones : pc[p] = "wait" /\ flag[myptr[p]] = 1 /\ myptr[p] \in Slots
  BY <1>1, WhereTheyWait DEF GettingReady, EveryCloneFindsASlot
<1> DEFINE own == [p \in Clones |-> myptr[p]]
<1>3. own \in [Clones -> Slots]
  BY <1>2
<1>4. \A p, q \in Clones : p # q => own[p] # own[q]
  BY <1>2 DEF LocalNumbers
<1>5. \A p \in Clones : own[p] = myptr[p]
  OBVIOUS
<1>. HIDE DEF own
<1>6. \A s \in Slots : flag[s] = 1
  BY <1>2, <1>3, <1>4, <1>5, EverySlotHasAClone
<1>7. pc[0] = "count"
  BY <1>1, WhereTheyWait DEF GettingReady
<1>. QED  BY <1>6, <1>7, WhereTheyWait, <1>1

(* A process leaves after its last round, and then it is in no other.      *)
LEMMA DoneNext ==
    ASSUME TypeOK, DoneAfterLastRound, [Next]_vars
    PROVE  DoneAfterLastRound'
<1>. USE ProcFacts DEF DoneAfterLastRound
<1>1. ASSUME NEW p \in Procs, ForkStep(p) PROVE DoneAfterLastRound'
  BY <1>1 DEF ForkStep, Fork, Forked, TypeOK
<1>2. ASSUME NEW p \in Clones, CloneStep(p) PROVE DoneAfterLastRound'
  <2>1. CASE Ride(p)
    <3>1. /\ pc[p] = "wait" /\ round[p] \in 0..Rounds
          /\ \/ round' = [round EXCEPT ![p] = round[p] + 1] /\ pc' = [pc EXCEPT ![p] = "work"]
             \/ round[p] = Rounds /\ round' = round /\ pc' = [pc EXCEPT ![p] = "done"]
      BY <2>1 DEF Ride, TypeOK
    <3>. QED  BY <3>1 DEF TypeOK
  <2>2. CASE ~Ride(p)
    BY <1>2, <2>2
       DEF CloneStep, SeeFreeSlot, SeeTakenSlot, Claim, Report, Record, TypeOK
  <2>. QED  BY <2>1, <2>2
<1>3. CASE MasterStep
  <2>1. CASE Cleared
    <3>1. /\ pc[0] = "clear" /\ round[0] \in 0..Rounds
          /\ \/ round' = [round EXCEPT ![0] = round[0] + 1] /\ pc' = [pc EXCEPT ![0] = "work"]
             \/ round[0] = Rounds /\ round' = round /\ pc' = [pc EXCEPT ![0] = "done"]
      BY <2>1 DEF Cleared, TypeOK
    <3>. QED  BY <3>1 DEF TypeOK
  <2>2. CASE ~Cleared
    BY <1>3, <2>2
       DEF MasterStep, MasterWorks, Count, CountAgain, AllReported, Average, Clear, TypeOK
  <2>. QED  BY <2>1, <2>2
<1>4. CASE UNCHANGED vars
  BY <1>4 DEF vars
<1>. QED  BY <1>1, <1>2, <1>3, <1>4 DEF Next

(* In its rounds, a clone that waits with its flag up has reported for the *)
(* round the master counts, and the master that has left has lowered all.  *)
LEMMA NotStuckRiding ==
    ASSUME IInv, DoneAfterLastRound, Started
    PROVE  (\A p \in Procs : pc[p] = "done") \/ (\E p \in Procs : CanGoOn(p))
<1>. SUFFICES ASSUME \A p \in Procs : ~CanGoOn(p) PROVE \A p \in Procs : pc[p] = "done"
  OBVIOUS
<1>. USE ProcFacts
<1>1. /\ TypeOK /\ MasterPlaces /\ OneToOne /\ ClonesInStep
      /\ \A p \in Procs : round[p] \in 0..Rounds
  BY DEF IInv, TypeOK
<1>2. \A p \in Clones :
          /\ InStep(p)
          /\ pc[p] = "done" \/ (pc[p] = "wait" /\ flag[myptr[p]] = 1)
  <2>1. \A p \in Clones : pc[p] \in {"wait", "done", "work", "report"} /\ InStep(p)
    BY <1>1, RidingClones DEF ClonesInStep
  <2>. QED  BY <1>1, <2>1, WhereTheyWait
<1>3. pc[0] = "done" \/ (pc[0] = "count" /\ \E s \in Slots : flag[s] # 1)
  <2>1. pc[0] \in {"fork", "count", "average", "clear", "work", "done"}
    BY <1>1 DEF MasterPlaces
  <2>. QED  BY <1>1, <2>1, WhereTheyWait
<1>4. CASE pc[0] = "done"
  <2>1. round[0] = Rounds /\ \A p \in Clones : Released(p) = Rounds
    BY <1>1, <1>4 DEF DoneAfterLastRound, Released
  <2>2. \A p \in Clones : ~(pc[p] = "wait" /\ flag[myptr[p]] = 1)
    BY <1>1, <1>2, <2>1 DEF InStep
  <2>. QED  BY <1>2, <1>4, <2>2
<1>5. CASE pc[0] = "count" /\ \E s \in Slots : flag[s] # 1
  <2>1. PICK p \in Clones : flag[myptr[p]] # 1
    BY <1>1, <1>5 DEF OneToOne
  <2>2. pc[p] = "done" /\ round[p] = Released(p) /\ Released(p) = round[0] - 1
    BY <1>2, <1>5, <2>1 DEF InStep, Released
  <2>3. round[p] = Rounds
    BY <1>1, <2>2 DEF DoneAfterLastRound
  <2>. QED  BY <1>1, <2>2, <2>3
<1>. QED  BY <1>3, <1>4, <1>5

(***************************************************************************)
(* Theorems                                                                *)
(***************************************************************************)
(* The invariant holds in every state of every run.                        *)
THEOREM RamsmpInvariant == Spec => []IInv
<1>. QED  BY RamsmpInit, RamsmpNext, PTL DEF Spec

(* Type correctness: every access to the segment is within its area.       *)
THEOREM RamsmpTypeOK == Spec => []TypeOK
<1>1. IInv => TypeOK
  BY DEF IInv
<1>. QED  BY RamsmpInvariant, <1>1, PTL

(* An average is over exactly one time of every process, all of its round. *)
THEOREM RamsmpAverageOverThisRound == Spec => []AverageOverThisRound
<1>1. IInv => AverageOverThisRound
  BY DEF IInv
<1>. QED  BY RamsmpInvariant, <1>1, PTL

(* No clone is ever left without a slot, however many find the same one.   *)
THEOREM RamsmpEveryCloneFindsASlot == Spec => []EveryCloneFindsASlot
<1>1. IInv => EveryCloneFindsASlot
  BY DEF IInv
<1>. QED  BY RamsmpInvariant, <1>1, PTL

(* Processes that compute at the same time compute the same round.         *)
THEOREM RamsmpWorkInStep == Spec => []WorkInStep
<1>1. IInv => WorkInStep
  <2>. SUFFICES ASSUME IInv PROVE WorkInStep
    OBVIOUS
  <2>. USE ProcFacts
  <2> DEFINE now == IF pc[0] \in {"clear", "done"} THEN round[0] + 1 ELSE round[0]
  <2>1. TypeOK /\ MasterPlaces /\ GettingReady /\ OneToOne /\ ClonesInStep /\ FlagsUp
    BY DEF IInv
  <2>2. ASSUME NEW p \in Clones, pc[p] = "work"
        PROVE  round[p] = now
    <3>1. Started
      BY <2>1, <2>2 DEF GettingReady
    <3>2. round[p] = Released(p) + 1 /\ flag[myptr[p]] = 0
      BY <2>1, <2>2, <3>1 DEF ClonesInStep, InStep
    <3>3. pc[0] = "clear" => myptr[p] < cnt[0]
      <4>1. myptr[p] \in Nat /\ cnt[0] \in Nat
        BY <2>1 DEF TypeOK
      <4>. QED  BY <2>1, <3>2, <4>1 DEF FlagsUp
    <3>4. round[0] \in Nat
      BY <2>1 DEF TypeOK
    <3>. QED  BY <3>2, <3>3, <3>4 DEF Released
  <2>3. pc[0] = "work" => round[0] = now
    OBVIOUS
  <2>. QED  BY <2>2, <2>3 DEF WorkInStep
<1>. QED  BY RamsmpInvariant, <1>1, PTL

(* The processes are never all waiting for each other: from the forks on,  *)
(* if the clones' numbers differ, somebody can go on until all are done.   *)
THEOREM RamsmpNeverStuck == Spec => []NeverStuck
<1>1. IInv /\ DoneAfterLastRound => NeverStuck
  BY NotStuckGettingReady, NotStuckRiding DEF NeverStuck
<1>2. Init => DoneAfterLastRound
  BY DEF Init, DoneAfterLastRound
<1>3. IInv /\ DoneAfterLastRound /\ [Next]_vars => DoneAfterLastRound'
  BY DoneNext DEF IInv
<1>. QED  BY RamsmpInvariant, <1>1, <1>2, <1>3, PTL DEF Spec
===============================================================================
