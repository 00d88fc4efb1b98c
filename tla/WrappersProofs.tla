---------------------------- MODULE WrappersProofs ----------------------------
(***************************************************************************)
(* The wrapper executables, for every number of iterations, of sessions    *)
(* and of sessions at a time: which of them publish exactly what their     *)
(* session measured, and what the figure of the others still stands for.   *)
(*                                                                         *)
(* What carries the proof is the spell: whatever is busy is of the current *)
(* one (RunOK), so what a file holds after a session has emptied it, and   *)
(* while that session is busy, was written in its spell.  A session that   *)
(* has its spell to itself is the only busy one (AloneIsAlone), and then   *)
(* its files hold what it has put there itself.                            *)
(*                                                                         *)
(* A step does one of a few things to a session (Walks, Works, Iterates,   *)
(* Prints, Starts); what each means for RunOK and for Measurement is       *)
(* proved first.  The six wrappers that average with a script of their own *)
(* are then one abstract scripted wrapper, with one invariant; each of the *)
(* other five has an invariant of its own, about its files.                *)
(***************************************************************************)
EXTENDS Wrappers, SequenceTheorems, WellFoundedInduction, TLAPS

(* What Measurement says of the sessions, whatever their wrapper.          *)
M == INSTANCE Measurement

AllPlaces == {"idle", "start", "loop", "script", "parse", "open", "write", "read", "between",
              "render", "return", "run", "copy", "append", "teardown"}
Out   == {"idle", "between"}                  \* outside a benchmark function
Early == {"start", "loop", "render", "run"}   \* before the iteration's value

(* ->Iterations(n), and the values and figures there can be with it.       *)
N      == IF TwoFunctions THEN FnIterations ELSE IF wrapper = "cray" THEN 1 ELSE Iterations
Value  == Sessions \X (1..N)
Result == [kind : {"nothing", "nodata", "garbage", "error", "mean"}, of : Seq(Value)]

RunTypes ==
    /\ runs \in 0..MaxRuns
    /\ session \in 0..MaxSessions
    /\ pc \in [Sessions -> AllPlaces]
    /\ iter \in [Sessions -> 0..N]
    /\ samples \in [Sessions -> Seq(Value)]
    /\ row \in [Sessions -> Result]
    /\ spell \in [Sessions -> 0..MaxSessions]
    /\ undone \subseteq Sessions

Unborn(p) == /\ pc[p] = "idle" /\ iter[p] = 0 /\ samples[p] = << >>
             /\ row[p] = Nothing /\ spell[p] = 0 /\ p \notin undone

(* The last value of p is of an iteration up to n.                         *)
LastBy(p, n) == samples[p] # << >> => samples[p][Len(samples[p])][2] <= n

(* A session is unborn or of a spell, of the current one if it is busy;    *)
(* it has no row before its function returns; and the values are its own   *)
(* and in the order of the iterations.                                     *)
RunOK(p) ==
    /\ p > session => Unborn(p)
    /\ p <= session => spell[p] \in 1..p /\ (pc[p] # "idle" => spell[p] = spell[session])
    /\ pc[p] \notin Out => row[p] = Nothing /\ LastBy(p, iter[p] + 1)
    /\ pc[p] \in Early => LastBy(p, iter[p])
    /\ pc[p] = "start" => samples[p] = << >> /\ iter[p] = 0
    /\ \A i \in 1..Len(samples[p]) : samples[p][i][1] = p

RunInv == RunTypes /\ \A p \in Sessions : RunOK(p)

(***************************************************************************)
(* Figures and values                                                      *)
(***************************************************************************)
LEMMA Kinds ==
    /\ Nothing.kind = "nothing" /\ NoData.kind = "nodata" /\ Error.kind = "error"
    /\ Garbage.kind = "garbage"
    /\ \A s : Mean(s).kind = "mean" /\ Mean(s).of = s
    /\ \A s : Mean(s) # Nothing /\ Mean(s) # NoData /\ Mean(s) # Error /\ Mean(s) # Garbage
    /\ Nothing # NoData
BY DEF Nothing, NoData, Error, Garbage, Mean

LEMMA Results ==
    /\ Nothing \in Result /\ NoData \in Result /\ Error \in Result /\ Garbage \in Result
    /\ \A s \in Seq(Value) : Mean(s) \in Result
    /\ \A f \in Result : f.of \in Seq(Value) /\ (f.kind = "mean" => f = Mean(f.of))
    /\ << >> \in Seq(Value)
BY DEF Nothing, NoData, Error, Garbage, Mean, Result

LEMMA Bounds ==
    /\ N \in Nat \ {0} /\ N \in 1..Iterations
    /\ \A p \in Sessions : p \in Nat /\ p >= 1 /\ p <= MaxSessions
    /\ \A e \in Value : e[1] \in Sessions /\ e[2] \in 1..N /\ e[2] \in Nat
    /\ \A a \in Sessions, b \in 1..N : <<a, b>> \in Value
BY IterationsAssumption, FnIterationsAssumption, MaxSessionsAssumption DEF N, Sessions, Value

(* The same number, values and figures after a step.                       *)
LEMMA SameTypes == ASSUME wrapper' = wrapper PROVE N' = N /\ Value' = Value /\ Result' = Result
BY DEF N, TwoFunctions, Value, Result

(* A value appended to a sequence is its last, and the others stay.        *)
LEMMA Appended ==
    ASSUME NEW S, NEW s \in Seq(S), NEW e \in S
    PROVE  /\ Append(s, e) \in Seq(S) /\ Append(s, e) # << >>
           /\ Len(Append(s, e)) = Len(s) + 1 /\ Append(s, e)[Len(s) + 1] = e
           /\ \A i \in 1..Len(s) : Append(s, e)[i] = s[i]
           /\ Len(s) \in Nat
BY AppendProperties, LenProperties

(* The value of the iteration that is running.                             *)
LEMMA CurrentValue ==
    ASSUME RunInv, NEW p \in Sessions, iter[p] < N
    PROVE  /\ Current(p) \in Value /\ Current(p)[1] = p /\ Current(p)[2] = iter[p] + 1
           /\ iter[p] + 1 \in 1..N
<1>1. iter[p] \in 0..N  BY DEF RunInv, RunTypes
<1>2. iter[p] + 1 \in 1..N  BY <1>1, Bounds
<1>. QED  BY <1>2, Bounds DEF Current

(***************************************************************************)
(* What a step does to the sessions                                        *)
(***************************************************************************)
Moves(p) ==
    /\ pc[p] # "idle"
    /\ pc' = [pc EXCEPT ![p] = pc'[p]] /\ pc'[p] \in AllPlaces
    /\ UNCHANGED <<wrapper, runs, session, spell>>

(* Control moves, or the session is over; its script may be cut short.     *)
Walks(p) ==
    /\ Moves(p)
    /\ UNCHANGED <<iter, samples, row>>
    /\ undone' = undone \/ (pc[p] \notin Out /\ undone' = undone \cup {p})
    /\ \/ pc'[p] = "idle"
       \/ /\ pc[p] \notin Out /\ pc'[p] \notin {"start", "between"}
          /\ pc'[p] \in Early => pc[p] \in Early

(* Its tool produces a value, or does not; the iteration may end with it.  *)
Works(p) ==
    /\ Moves(p)
    /\ pc[p] \in {"loop", "render", "run"} /\ iter[p] < N
    /\ samples' = samples \/ samples' = [samples EXCEPT ![p] = Append(@, Current(p))]
    /\ \/ iter' = [iter EXCEPT ![p] = @ + 1] /\ pc'[p] \in {"loop", "idle"}
       \/ iter' = iter /\ pc'[p] \notin Early \cup {"between"}
    /\ UNCHANGED <<row, undone>>

Iterates(p) ==
    /\ Moves(p)
    /\ pc[p] \notin Out /\ iter[p] < N /\ pc'[p] = "loop"
    /\ iter' = [iter EXCEPT ![p] = @ + 1]
    /\ UNCHANGED <<samples, row, undone>>

Prints(p) ==
    /\ Moves(p)
    /\ pc[p] \notin Out /\ pc'[p] \in Out
    /\ row' = [row EXCEPT ![p] = row'[p]] /\ row'[p] \in Result
    /\ UNCHANGED <<iter, samples, undone>>

Starts(first) ==
    /\ first \in {"start", "loop"}
    /\ UNCHANGED wrapper
    /\ Launch(first) \/ \E p \in Sessions : StartSecond(p, first)

RunMove(p) == Walks(p) \/ Works(p) \/ Iterates(p) \/ Prints(p)

(* What Measurement allows a session to print.                             *)
RowKept(p) ==
    \/ row' = row \/ row'[p] = Error
    \/ samples[p] # << >> /\ row'[p] = Mean(samples[p])
    \/ samples[p] = << >> /\ row'[p] = NoData
    \/ (~Alone(p) \/ p \in undone) /\ (row'[p].kind = "mean" => OneSpell(row'[p].of))

LEMMA StartsRun ==
    ASSUME RunInv, NEW first, Starts(first)
    PROVE  RunInv'
<1>. DEFINE SpellOf(s) ==
        /\ spell' = [spell EXCEPT ![session'] = s]
        /\ \/ s = session' /\ \A q \in Sessions : q # session' => pc'[q] = "idle"
           \/ session > 0 /\ s = spell[session]
<1>1. /\ session \in 0..MaxSessions /\ session < MaxSessions /\ session' = session + 1
      /\ session' \in Sessions /\ session' \in 0..MaxSessions
      /\ runs' \in 0..MaxRuns /\ first \in AllPlaces /\ first # "idle" /\ first \notin Out
      /\ UNCHANGED <<wrapper, iter, samples, row, undone>>
  <2>1. /\ session \in 0..MaxSessions /\ session < MaxSessions /\ session' = session + 1
        /\ UNCHANGED <<wrapper, iter, samples, row, undone>>
        /\ runs' \in 0..MaxRuns
    BY MaxRunsAssumption DEF Starts, Launch, StartSecond, RunInv, RunTypes
  <2>. QED  BY <2>1, MaxSessionsAssumption DEF Starts, Sessions, AllPlaces, Out
<1>2. session > 0 => session \in Sessions
  BY <1>1, MaxSessionsAssumption DEF Sessions
<1>3. Unborn(session')
  BY <1>1 DEF RunInv, RunOK
<1>4. /\ pc' \in [Sessions -> AllPlaces]
      /\ pc'[session'] = first
      /\ \A q \in Sessions : q # session' => pc'[q] = pc[q] \/ pc'[q] = "idle"
  BY <1>1 DEF Starts, Launch, StartSecond, RunInv, RunTypes, AllPlaces
<1>5. PICK s \in 0..MaxSessions : SpellOf(s)
  <2>1. CASE Launch(first)
    <3>1. CASE Busy = {}
      <4>1. \A q \in Sessions : pc[q] = "idle"  BY <3>1 DEF Busy
      <4>2. \A q \in Sessions : q # session' => pc'[q] = pc[q]
        BY <1>1, <2>1 DEF Launch, RunInv, RunTypes
      <4>3. spell' = [spell EXCEPT ![session'] = session']
        BY <2>1, <3>1 DEF Launch
      <4>. QED  BY <1>1, <4>1, <4>2, <4>3
    <3>2. CASE Busy # {}
      <4>1. PICK q \in Sessions : pc[q] # "idle"  BY <3>2 DEF Busy
      <4>2. q <= session  BY <1>1, <4>1, Bounds DEF RunInv, RunOK, Unborn
      <4>3. session > 0  BY <1>1, <4>2, Bounds
      <4>4. spell' = [spell EXCEPT ![session'] = spell[session]]
        BY <2>1, <3>2 DEF Launch
      <4>5. spell[session] \in 0..MaxSessions
        BY <1>2, <4>3 DEF RunInv, RunTypes
      <4>. QED  BY <4>3, <4>4, <4>5
    <3>. QED  BY <3>1, <3>2
  <2>2. ASSUME NEW p \in Sessions, StartSecond(p, first) PROVE \E s \in 0..MaxSessions : SpellOf(s)
    <3>1. p <= session /\ session > 0
      BY <1>1, <2>2, Bounds DEF StartSecond, RunInv, RunOK, Unborn
    <3>2. CASE Busy = {p}
      <4>1. \A q \in Sessions : q # p => pc[q] = "idle"  BY <3>2 DEF Busy
      <4>2. \A q \in Sessions : q # session' => pc'[q] = "idle"
        BY <1>1, <2>2, <4>1 DEF StartSecond, RunInv, RunTypes
      <4>3. spell' = [spell EXCEPT ![session'] = session']
        BY <2>2, <3>2 DEF StartSecond
      <4>. QED  BY <1>1, <4>2, <4>3
    <3>3. CASE Busy # {p}
      <4>1. spell' = [spell EXCEPT ![session'] = spell[session]]
        BY <2>2, <3>3 DEF StartSecond
      <4>2. spell[session] \in 0..MaxSessions
        BY <1>2, <3>1 DEF RunInv, RunTypes
      <4>. QED  BY <1>1, <3>1, <4>1, <4>2
    <3>. QED  BY <3>2, <3>3
  <2>. QED  BY <2>1, <2>2 DEF Starts
<1>6. RunTypes'
  BY <1>1, <1>4, <1>5, SameTypes DEF RunInv, RunTypes
<1>7. ASSUME NEW q \in Sessions PROVE RunOK(q)'
  <2>1. CASE q = session'
    <3>1. spell'[q] \in 1..q
      BY <1>1, <1>2, <1>5, <2>1 DEF RunInv, RunTypes, RunOK
    <3>. QED  BY <1>1, <1>3, <1>4, <2>1, <3>1 DEF RunOK, Unborn, LastBy
  <2>2. CASE q # session'
    <3>1. q > session' <=> q > session  BY <1>1, <2>2, Bounds
    <3>2. spell'[q] = spell[q] /\ (pc'[q] = pc[q] \/ pc'[q] = "idle")
      BY <1>4, <1>5, <2>2 DEF RunInv, RunTypes
    <3>3. RunOK(q)  BY DEF RunInv
    <3>a. q <= session' => q <= session /\ session > 0  BY <1>1, <2>2, Bounds
    <3>4. ASSUME q <= session', pc'[q] # "idle" PROVE spell'[q] = spell'[session']
      <4>1. s = spell[session]  BY <1>5, <2>2, <3>4
      <4>2. spell'[session'] = s  BY <1>1, <1>5 DEF RunInv, RunTypes
      <4>3. pc[q] # "idle"  BY <3>2, <3>4
      <4>4. spell[q] = spell[session]  BY <3>3, <3>4, <3>a, <4>3 DEF RunOK
      <4>. QED  BY <3>2, <4>1, <4>2, <4>4
    <3>5. (q > session => Unborn(q)) => (q > session' => Unborn(q)')
      BY <1>1, <3>1, <3>2 DEF Unborn
    <3>6. q <= session' => spell'[q] \in 1..q
      BY <3>2, <3>3, <3>a DEF RunOK
    <3>7. LastBy(q, iter[q] + 1)' = LastBy(q, iter[q] + 1) /\ LastBy(q, iter[q])' = LastBy(q, iter[q])
      BY <1>1 DEF LastBy
    <3>. QED
      BY <1>1, <3>2, <3>3, <3>4, <3>5, <3>6, <3>7 DEF RunOK, Out, Early
  <2>. QED  BY <2>1, <2>2
<1>. QED  BY <1>6, <1>7 DEF RunInv

(* Only the session that moves is touched.                                 *)
LEMMA OthersStay ==
    ASSUME RunInv, NEW p \in Sessions, RunMove(p)
    PROVE  /\ pc[p] # "idle" /\ p <= session /\ spell[p] = spell[session]
           /\ UNCHANGED <<wrapper, runs, session, spell>>
           /\ pc' \in [Sessions -> AllPlaces]
           /\ \A q \in Sessions : q # p =>
                 /\ pc'[q] = pc[q] /\ iter'[q] = iter[q] /\ samples'[q] = samples[q]
                 /\ row'[q] = row[q] /\ (q \in undone' <=> q \in undone)
<1>1. /\ pc[p] # "idle" /\ UNCHANGED <<wrapper, runs, session, spell>>
      /\ pc' = [pc EXCEPT ![p] = pc'[p]] /\ pc'[p] \in AllPlaces
  BY DEF RunMove, Walks, Works, Iterates, Prints, Moves
<1>2. p <= session /\ spell[p] = spell[session]
  BY <1>1, Bounds DEF RunInv, RunTypes, RunOK, Unborn
<1>3. pc' \in [Sessions -> AllPlaces] /\ \A q \in Sessions : q # p => pc'[q] = pc[q]
  BY <1>1 DEF RunInv, RunTypes
<1>4. \A q \in Sessions : q # p => iter'[q] = iter[q] /\ samples'[q] = samples[q]
  BY DEF RunMove, Walks, Works, Iterates, Prints, RunInv, RunTypes
<1>5. \A q \in Sessions : q # p => row'[q] = row[q] /\ (q \in undone' <=> q \in undone)
  BY DEF RunMove, Walks, Works, Iterates, Prints, RunInv, RunTypes
<1>. QED  BY <1>1, <1>2, <1>3, <1>4, <1>5

(* RunOK is kept by a move if it is kept for the session that moves.       *)
LEMMA MoveKeepsRun ==
    ASSUME RunInv, NEW p \in Sessions, RunMove(p),
           iter' \in [Sessions -> 0..N], samples' \in [Sessions -> Seq(Value)],
           row' \in [Sessions -> Result], undone' \subseteq Sessions,
           pc'[p] \notin Out => row'[p] = Nothing /\ LastBy(p, iter[p] + 1)',
           pc'[p] \in Early => LastBy(p, iter[p])',
           pc'[p] # "start",
           \A i \in 1..Len(samples'[p]) : samples'[p][i][1] = p
    PROVE  RunInv'
<1>1. RunTypes'
  BY OthersStay, SameTypes DEF RunInv, RunTypes
<1>2. ASSUME NEW q \in Sessions, q # p PROVE RunOK(q)'
  <2>1. RunOK(q)  BY DEF RunInv
  <2>2. /\ pc'[q] = pc[q] /\ iter'[q] = iter[q] /\ samples'[q] = samples[q]
        /\ row'[q] = row[q] /\ (q \in undone' <=> q \in undone)
        /\ session' = session /\ spell' = spell
    BY <1>2, OthersStay
  <2>3. Unborn(q)' = Unborn(q) /\ \A n : LastBy(q, n)' = LastBy(q, n)
    BY <2>2 DEF Unborn, LastBy
  <2>. QED  BY <2>1, <2>2, <2>3 DEF RunOK
<1>3. RunOK(p)'
  <2>1. p <= session' /\ ~(p > session')  BY OthersStay, Bounds DEF RunInv, RunTypes
  <2>2. spell'[p] \in 1..p /\ spell'[p] = spell'[session']
    BY <2>1, OthersStay DEF RunInv, RunOK
  <2>. QED  BY <2>1, <2>2 DEF RunOK
<1>. QED  BY <1>1, <1>2, <1>3 DEF RunInv

LEMMA RunMoveRun ==
    ASSUME RunInv, NEW p \in Sessions, RunMove(p)
    PROVE  RunInv'
<1>1. RunOK(p) /\ RunTypes /\ iter[p] \in 0..N /\ samples[p] \in Seq(Value) /\ p <= session
  <2>1. iter[p] \in 0..N /\ samples[p] \in Seq(Value)  BY DEF RunInv, RunTypes
  <2>. QED  BY <2>1, OthersStay DEF RunInv
<1>. DEFINE LastIs(s, n) == s # << >> => s[Len(s)][2] <= n
<1>2. \A n : LastBy(p, n) = LastIs(samples[p], n)  BY DEF LastBy
<1>3. \A i \in 1..Len(samples[p]) : samples[p][i] \in Value /\ samples[p][i][2] \in 1..N
  BY <1>1, Bounds, ElementOfSeq
<1>. HIDE DEF LastIs
<1>4. CASE Walks(p)
  BY <1>1, <1>4, MoveKeepsRun DEF Walks, RunTypes, RunOK, LastBy, Out, Early
<1>5. CASE Works(p)
  <2>1. /\ pc[p] \notin Out /\ pc[p] \in Early /\ row[p] = Nothing /\ iter[p] < N
        /\ LastIs(samples[p], iter[p])
    BY <1>1, <1>2, <1>5 DEF Works, Out, Early, RunOK
  <2>2. Current(p) \in Value /\ Current(p)[1] = p /\ Current(p)[2] = iter[p] + 1 /\ iter[p] + 1 \in 1..N
    BY <2>1, CurrentValue
  <2>3. /\ samples' \in [Sessions -> Seq(Value)]
        /\ LastIs(samples'[p], iter[p] + 1)
        /\ \A i \in 1..Len(samples'[p]) : samples'[p][i][1] = p
    <3>1. CASE samples' = samples
      <4>1. LastIs(samples[p], iter[p] + 1)
        <5>1. CASE samples[p] = << >>  BY <5>1 DEF LastIs
        <5>2. CASE samples[p] # << >>
          <6>1. samples[p][Len(samples[p])][2] \in Nat
            BY <1>1, <1>3, <5>2, Bounds, LenProperties
          <6>. QED  BY <1>1, <2>1, <6>1, Bounds DEF LastIs
        <5>. QED  BY <5>1, <5>2
      <4>. QED  BY <1>1, <3>1, <4>1 DEF RunTypes, RunOK
    <3>2. CASE samples' = [samples EXCEPT ![p] = Append(@, Current(p))]
      <4>1. samples'[p] = Append(samples[p], Current(p))
        BY <3>2 DEF RunInv, RunTypes
      <4>2. /\ Append(samples[p], Current(p)) \in Seq(Value)
            /\ Len(samples'[p]) = Len(samples[p]) + 1 /\ samples'[p][Len(samples[p]) + 1] = Current(p)
            /\ \A i \in 1..Len(samples[p]) : samples'[p][i] = samples[p][i]
            /\ Len(samples[p]) \in Nat
        BY <1>1, <2>2, <4>1, Appended
      <4>3. samples' \in [Sessions -> Seq(Value)]
        BY <3>2, <4>2 DEF RunInv, RunTypes
      <4>4. LastIs(samples'[p], iter[p] + 1)
        BY <1>1, <2>2, <4>2 DEF LastIs
      <4>5. \A i \in 1..Len(samples'[p]) : samples'[p][i][1] = p
        <5>1. ASSUME NEW i \in 1..Len(samples'[p]) PROVE samples'[p][i][1] = p
          <6>1. i \in 1..Len(samples[p]) \/ i = Len(samples[p]) + 1  BY <4>2
          <6>. QED  BY <1>1, <2>2, <4>2, <6>1 DEF RunOK
        <5>. QED  BY <5>1
      <4>. QED  BY <4>3, <4>4, <4>5
    <3>. QED  BY <1>5, <3>1, <3>2 DEF Works
  <2>4. CASE iter' = [iter EXCEPT ![p] = @ + 1] /\ pc'[p] \in {"loop", "idle"}
    <3>1. iter'[p] = iter[p] + 1 /\ iter' \in [Sessions -> 0..N]
      BY <1>1, <2>2, <2>4, Bounds DEF RunTypes
    <3>2. LastIs(samples'[p], iter'[p]) /\ LastIs(samples'[p], iter'[p] + 1)
      <4>1. samples'[p] # << >> => samples'[p][Len(samples'[p])] \in Value
        BY <2>3, LenProperties, ElementOfSeq
      <4>. QED  BY <1>1, <2>3, <3>1, <4>1, Bounds DEF LastIs
    <3>3. LastBy(p, iter[p])' /\ LastBy(p, iter[p] + 1)'
      BY <3>2 DEF LastIs, LastBy
    <3>. QED  BY <1>1, <1>5, <2>1, <2>3, <2>4, <3>1, <3>3, MoveKeepsRun DEF Works, RunTypes, RunMove
  <2>5. CASE iter' = iter /\ pc'[p] \notin Early \cup {"between"}
    <3>1. LastBy(p, iter[p] + 1)'
      BY <2>3, <2>5 DEF LastIs, LastBy
    <3>. QED  BY <1>1, <1>5, <2>1, <2>3, <2>5, <3>1, MoveKeepsRun DEF Works, RunTypes, RunMove, Early
  <2>. QED  BY <1>5, <2>4, <2>5 DEF Works
<1>6. CASE Iterates(p)
  <2>1. iter[p] < N /\ iter' = [iter EXCEPT ![p] = @ + 1] /\ LastIs(samples[p], iter[p] + 1)
    BY <1>1, <1>2, <1>6 DEF Iterates, RunOK
  <2>2. iter'[p] = iter[p] + 1 /\ iter' \in [Sessions -> 0..N] /\ iter[p] + 1 \in Nat
    BY <1>1, <2>1, Bounds DEF RunTypes
  <2>3. LastIs(samples[p], iter[p] + 1 + 1)
    <3>1. samples[p] # << >> => samples[p][Len(samples[p])] \in Value
      BY <1>1, LenProperties, ElementOfSeq
    <3>. QED  BY <2>1, <2>2, <3>1, Bounds DEF LastIs
  <2>4. LastBy(p, iter[p])' /\ LastBy(p, iter[p] + 1)' /\ samples' = samples
    BY <1>6, <2>1, <2>2, <2>3 DEF LastIs, LastBy, Iterates
  <2>. QED  BY <1>1, <1>6, <2>2, <2>4, MoveKeepsRun DEF Iterates, RunTypes, RunMove, RunOK, Out
<1>7. CASE Prints(p)
  BY <1>1, <1>7, MoveKeepsRun DEF Prints, RunTypes, RunOK, RunMove, Out, Early
<1>. QED  BY <1>4, <1>5, <1>6, <1>7 DEF RunMove

(***************************************************************************)
(* What the moves are for Measurement                                      *)
(***************************************************************************)
LEMMA MoveMeasured ==
    ASSUME RunInv, NEW p \in Sessions, RunMove(p), Prints(p) => RowKept(p)
    PROVE  \/ UNCHANGED M!vars
           \/ M!Measure(p) \/ M!CutShort(p) \/ M!Report(p)
<1>1. p <= session /\ session' = session /\ spell' = spell
  BY OthersStay
<1>2. pc[p] \notin Out => row[p] = M!Nothing
  BY DEF RunInv, RunOK, Nothing, M!Nothing
<1>3. CASE Walks(p)
  BY <1>1, <1>2, <1>3 DEF Walks, M!vars, M!CutShort
<1>4. CASE Works(p)
  <2>1. /\ iter[p] < N /\ row[p] = M!Nothing /\ UNCHANGED <<row, undone>>
        /\ samples[p] # << >> => samples[p][Len(samples[p])][2] <= iter[p]
    BY <1>2, <1>4 DEF Works, RunInv, RunOK, LastBy, Early, Out
  <2>2. CASE samples' = samples
    BY <1>1, <2>1, <2>2 DEF M!vars
  <2>3. CASE samples' = [samples EXCEPT ![p] = Append(@, Current(p))]
    <3>1. /\ iter[p] \in Nat /\ iter[p] + 1 \in 1..N /\ iter[p] + 1 \in 1..Iterations
      <4>1. iter[p] \in 0..N  BY DEF RunInv, RunTypes
      <4>2. iter[p] + 1 \in 1..N  BY <2>1, CurrentValue
      <4>. QED  BY <4>1, <4>2, Bounds, IterationsAssumption
    <3>2. samples[p] # << >> => samples[p][Len(samples[p])] \in Value
      BY LenProperties, ElementOfSeq DEF RunInv, RunTypes
    <3>3. samples[p] # << >> => samples[p][Len(samples[p])][2] < iter[p] + 1
      BY <2>1, <3>1, <3>2, Bounds
    <3>4. samples' = [samples EXCEPT ![p] = Append(@, <<p, iter[p] + 1>>)]
      BY <2>3 DEF Current
    <3>. QED  BY <1>1, <2>1, <3>1, <3>3, <3>4 DEF M!Measure
  <2>. QED  BY <1>4, <2>2, <2>3 DEF Works
<1>5. CASE Iterates(p)
  BY <1>1, <1>5 DEF Iterates, M!vars
<1>6. CASE Prints(p)
  <2>1. row[p] = M!Nothing /\ row' = [row EXCEPT ![p] = row'[p]] /\ UNCHANGED <<samples, undone>>
    BY <1>2, <1>6 DEF Prints
  <2>2. row' = row \/ RowKept(p)  BY <1>6
  <2>3. CASE row' = row
    BY <1>1, <1>6, <2>3 DEF Prints, M!vars
  <2>. QED
    BY <1>1, <2>1, <2>2, <2>3
    DEF RowKept, M!Report, Mean, Error, NoData, M!Mean, M!Error, M!NoData, Alone, OneSpell,
        M!Alone, M!OneSpell, Sessions, M!Sessions
<1>. QED  BY <1>3, <1>4, <1>5, <1>6 DEF RunMove

LEMMA StartMeasured == ASSUME RunInv, NEW first, Starts(first) PROVE M!Begin
<1>1. /\ session \in 0..MaxSessions /\ session < MaxSessions /\ session' = session + 1
      /\ UNCHANGED <<undone, samples, row>>
      /\ \/ spell' = [spell EXCEPT ![session'] = session']
         \/ spell' = [spell EXCEPT ![session'] = spell[session]]
  <2>1. CASE Launch(first)
    BY <2>1 DEF RunInv, RunTypes, Launch
  <2>2. ASSUME NEW p \in Sessions, StartSecond(p, first) PROVE <1>1!1 /\ <1>1!2 /\ <1>1!3
    BY <2>2 DEF RunInv, RunTypes, StartSecond
  <2>. QED  BY <2>1, <2>2 DEF Starts
<1>2. CASE spell' = [spell EXCEPT ![session'] = session']
  <2>1. \E s \in {session'} \cup (IF session = 0 THEN {} ELSE {spell[session]}) :
            spell' = [spell EXCEPT ![session'] = s]
    BY <1>2, Zenon
  <2>. QED  BY <1>1, <2>1, Zenon DEF M!Begin
<1>3. CASE spell' = [spell EXCEPT ![session'] = spell[session]] /\ session > 0
  <2>1. session # 0  BY <1>1, <1>3
  <2>2. \E s \in {session'} \cup (IF session = 0 THEN {} ELSE {spell[session]}) :
            spell' = [spell EXCEPT ![session'] = s]
    BY <1>3, <2>1, Zenon
  <2>. QED  BY <1>1, <2>2, Zenon DEF M!Begin
<1>4. ASSUME session = 0 PROVE spell' = [spell EXCEPT ![session'] = session']
  <2>1. \A q \in Sessions : pc[q] = "idle"
    BY <1>4, Bounds DEF RunInv, RunOK, Unborn
  <2>2. Busy = {}  BY <2>1 DEF Busy
  <2>. QED  BY <2>1, <2>2 DEF Starts, Launch, StartSecond
<1>. QED  BY <1>1, <1>2, <1>3, <1>4

(***************************************************************************)
(* Spells                                                                  *)
(***************************************************************************)
(* A session that is busy and has its spell to itself is the only one.     *)
LEMMA AloneIsAlone ==
    ASSUME RunInv, NEW p \in Sessions, NEW q \in Sessions,
           pc[p] # "idle", pc[q] # "idle", Alone(p)
    PROVE  q = p
<1>1. p <= session /\ q <= session
  BY Bounds DEF RunInv, RunTypes, RunOK, Unborn
<1>. QED  BY <1>1 DEF RunInv, RunOK, Alone

(* The values of s are all of spell n (with the sessions up to ses and     *)
(* their spells sp as they are then).                                      *)
OfSpell(s, n, ses, sp) == \A i \in 1..Len(s) : s[i][1] \in 1..ses /\ sp[s[i][1]] = n
InSpell(s, n) == OfSpell(s, n, session, spell)

(* A figure that is the mean of one spell's values.                        *)
Sound(figure) == figure.kind = "mean" => \E n \in 1..MaxSessions : InSpell(figure.of, n)

(* None of the values is of session p or of a later one.                   *)
Before(p, s) == \A i \in 1..Len(s) : s[i][1] < p

LEMMA SoundIsOneSpell ==
    ASSUME NEW figure, figure.of \in Seq(Value), Sound(figure), figure.kind = "mean"
    PROVE  OneSpell(figure.of)
<1>1. DOMAIN figure.of = 1..Len(figure.of)  BY LenProperties
<1>. QED  BY <1>1 DEF Sound, InSpell, OfSpell, OneSpell

(* What was written in a spell stays of that spell.                        *)
LEMMA SpellsStay ==
    ASSUME RunInv, \/ \E p \in Sessions : RunMove(p)
                   \/ \E first : Starts(first)
    PROVE  /\ \A s, n : InSpell(s, n) => InSpell(s, n)'
           /\ \A figure : Sound(figure) => Sound(figure)'
<1>. DEFINE Grown == /\ session \in Nat /\ session' \in Nat /\ session <= session'
                     /\ \A q \in 1..session : spell'[q] = spell[q]
<1>1. session \in 0..MaxSessions /\ MaxSessions \in Nat
  BY MaxSessionsAssumption DEF RunInv, RunTypes
<1>2. ASSUME NEW p \in Sessions, RunMove(p) PROVE Grown
  BY <1>1, <1>2, OthersStay
<1>3. ASSUME NEW first, Starts(first) PROVE Grown
  <2>1. /\ session' = session + 1
        /\ \E s : spell' = [spell EXCEPT ![session'] = s]
    BY <1>3 DEF Starts, Launch, StartSecond
  <2>. QED  BY <1>1, <2>1 DEF RunInv, RunTypes, Sessions
<1>4. Grown  BY <1>2, <1>3
<1>5. \A s, n : InSpell(s, n) => InSpell(s, n)'
  <2>1. ASSUME NEW s, NEW n, InSpell(s, n), NEW i \in 1..Len(s)
        PROVE  s[i][1] \in 1..session' /\ spell'[s[i][1]] = n
    BY <1>4, <2>1 DEF InSpell, OfSpell
  <2>. QED  BY <2>1 DEF InSpell, OfSpell
<1>. QED  BY <1>5 DEF Sound

(***************************************************************************)
(* The wrappers with a script                                              *)
(*                                                                         *)
(* sockperf, cachebench, ethr, compilebench, fio and ramsmp empty a file,  *)
(* let their tool fill it, turn it into a second one and read that one     *)
(* back.  All use one file of each kind, except that ramsmp's functions    *)
(* each have their own.                                                    *)
(***************************************************************************)
Scripted == {"sock", "cache", "ethr", "compile", "fio", "ramsmp"}

Files == IF wrapper = "ramsmp" THEN Ram!Functions ELSE {"-"}
raws  == IF wrapper = "ramsmp" THEN raw ELSE [f \in {"-"} |-> raw]
ress  == IF wrapper = "ramsmp" THEN res ELSE [f \in {"-"} |-> res]
uses  == IF wrapper = "ramsmp" THEN fn  ELSE [p \in Sessions |-> "-"]

(* The script of p rewrites the second file whatever it has read.          *)
Rewrites(p) == wrapper \in {"sock", "cache"} \/ (wrapper = "ramsmp" /\ fn[p] = "INT")

Past == {"loop", "script", "parse", "open", "write", "read"}   \* has emptied its file
ScriptPlaces ==
    {"idle", "start", "loop", "open", "write", "read"}
        \cup (IF wrapper = "compile" THEN {"parse"} ELSE {"script"})
        \cup (IF wrapper = "ramsmp" THEN {"between"} ELSE {})

(* What the second file can hold: only compilebench's may be missing.      *)
FileResult == Result \cup (IF wrapper = "compile" THEN {Compile!Missing} ELSE {})

ScriptTypes ==
    /\ raws \in [Files -> Seq(Value)]
    /\ ress \in [Files -> FileResult]
    /\ local \in [Sessions -> Seq(Value)]
    /\ uses \in [Sessions -> Files \cup {"none"}]

(* The two files and what the script holds, for p in its spell; the second *)
(* one may still hold the mean of an earlier spell.  What follows Alone(p) *)
(* is what p can rely on when it has its spell to itself.                  *)
ScriptOK(p) ==
    /\ pc[p] \in ScriptPlaces
    /\ pc[p] # "idle" => uses[p] \in Files
    /\ pc[p] \in Past => InSpell(raws[uses[p]], spell[p])
    /\ pc[p] \in {"open", "write"} => InSpell(local[p], spell[p])
    /\ Alone(p) =>
          /\ pc[p] \in Past => raws[uses[p]] = samples[p]
          /\ pc[p] \in {"open", "write"} => local[p] = samples[p]
          /\ pc[p] \in Past \cup {"start"} /\ ress[uses[p]].kind = "mean" =>
                \/ pc[p] = "read" /\ ress[uses[p]].of = samples[p]
                \/ Before(p, ress[uses[p]].of)
          /\ pc[p] = "read" /\ p \notin undone =>
                /\ samples[p] # << >> => ress[uses[p]] = Mean(samples[p])
                /\ samples[p] = << >> /\ Rewrites(p) => ress[uses[p]] = NoData

(* What the row of p can be; WholeOrOld and Fresh follow.                  *)
RowOK(p) ==
    /\ Sound(row[p])
    /\ Alone(p) /\ row[p].kind = "mean" =>
          /\ row[p].of = samples[p] \/ Before(p, row[p].of)
          /\ p \notin undone /\ samples[p] # << >> => row[p].of = samples[p]

ScriptInv ==
    /\ ScriptTypes
    /\ \A f \in Files : Sound(ress[f])
    /\ \A p \in Sessions : ScriptOK(p) /\ RowOK(p)

ScriptStarts ==
    /\ Starts("start")
    /\ UNCHANGED <<raw, res, local>>
    /\ uses' \in [Sessions -> Files \cup {"none"}]
    /\ uses'[session'] \in Files
    /\ \A q \in Sessions : q # session' => uses'[q] = uses[q] /\ fn'[q] = fn[q]

(* It is over, or done with its loop, or its script is cut short.          *)
ScriptQuiet(p) ==
    /\ Walks(p)
    /\ UNCHANGED <<raw, res, local, fn>>
    /\ \/ pc'[p] = "idle" /\ undone' = undone
       \/ pc[p] = "loop" /\ pc'[p] \in {"script", "parse"} /\ undone' = undone
       \/ pc[p] \in {"script", "open", "write"} /\ pc'[p] \in {"read", "idle"}
          /\ undone' = undone \cup {p}

ScriptClears(p) ==
    /\ Walks(p) /\ undone' = undone
    /\ pc[p] = "start" /\ pc'[p] = "loop"
    /\ raws' = [raws EXCEPT ![uses[p]] = << >>]
    /\ UNCHANGED <<res, local, fn>>

ScriptRuns(p) ==
    /\ Works(p)
    /\ pc[p] = "loop" /\ pc'[p] \in {"loop", "idle"}
    /\ \/ samples' = samples /\ raws' = raws
       \/ /\ samples' = [samples EXCEPT ![p] = Append(@, Current(p))]
          /\ raws' = [raws EXCEPT ![uses[p]] = Append(@, Current(p))]
    /\ UNCHANGED <<res, local, fn>>

ScriptReads(p) ==
    /\ Walks(p) /\ undone' = undone
    /\ pc[p] \in {"script", "parse"}
    /\ \/ pc'[p] \in {"open", "idle"}
       \/ pc'[p] = "read" /\ raws[uses[p]] = << >> /\ ~Rewrites(p)
    /\ local' = [local EXCEPT ![p] = raws[uses[p]]]
    /\ UNCHANGED <<raw, res, fn>>

ScriptOpens(p) ==
    /\ Walks(p) /\ undone' = undone
    /\ pc[p] = "open" /\ pc'[p] = "write"
    /\ ress' = [ress EXCEPT ![uses[p]] = Nothing]
    /\ UNCHANGED <<raw, local, fn>>

ScriptWrites(p) ==
    /\ Walks(p) /\ undone' = undone
    /\ pc[p] = "write" /\ pc'[p] \in {"read", "idle"}
    /\ \E figure \in {NoData, Mean(local[p])} :
          /\ ress' = [ress EXCEPT ![uses[p]] = figure]
          /\ local[p] # << >> => figure = Mean(local[p])
          /\ local[p] = << >> /\ Rewrites(p) => figure = NoData
    /\ local' = [local EXCEPT ![p] = << >>]
    /\ UNCHANGED <<raw, fn>>

ScriptPrints(p) ==
    /\ Prints(p)
    /\ \/ /\ pc[p] = "read"
          /\ ress[uses[p]].kind = "mean" => row'[p] = ress[uses[p]]
          /\ ress[uses[p]].kind # "mean" => row'[p].kind # "mean"
          /\ Rewrites(p) /\ ress[uses[p]] = NoData => row'[p] = NoData
       \/ row'[p] = Error
    /\ UNCHANGED <<raw, res, local, fn>>

ScriptMove(p) ==
    \/ ScriptQuiet(p) \/ ScriptClears(p) \/ ScriptRuns(p) \/ ScriptReads(p)
    \/ ScriptOpens(p) \/ ScriptWrites(p) \/ ScriptPrints(p)

LEMMA ScriptMoveIsMove ==
    ASSUME NEW p \in Sessions, ScriptMove(p)
    PROVE  RunMove(p) /\ wrapper' = wrapper /\ uses' = uses /\ fn' = fn /\ Files' = Files
           /\ FileResult' = FileResult
           /\ (raw' = raw => raws' = raws) /\ (res' = res => ress' = ress)
<1>1. RunMove(p) /\ fn' = fn
  BY DEF ScriptMove, ScriptQuiet, ScriptClears, ScriptRuns, ScriptReads, ScriptOpens, ScriptWrites,
         ScriptPrints, RunMove
<1>2. wrapper' = wrapper
  BY <1>1 DEF RunMove, Walks, Works, Iterates, Prints, Moves
<1>. QED  BY <1>1, <1>2, SameTypes DEF uses, Files, raws, ress, FileResult

(* The effect of a move on the files and on the others.                    *)
LEMMA ScriptFiles ==
    ASSUME RunInv, ScriptInv, NEW p \in Sessions, ScriptMove(p), wrapper \in Scripted,
           pc'[p] \in ScriptPlaces
    PROVE  /\ ScriptTypes'
           /\ \A f \in Files : \A n : n = spell[p] /\ InSpell(raws[f], n) => InSpell(raws[f], n)'
           /\ \A f \in Files : Sound(ress[f])'
<1>. DEFINE u == uses[p]
<1>1. /\ u \in Files /\ raws[u] \in Seq(Value) /\ local[p] \in Seq(Value)
      /\ RunMove(p) /\ UNCHANGED <<wrapper, session, spell, uses, fn, Files, Value, FileResult>>
      /\ raw' = raw => raws' = raws
      /\ res' = res => ress' = ress
  <2>1. /\ RunMove(p) /\ UNCHANGED <<wrapper, uses, fn, Files, FileResult>>
        /\ (raw' = raw => raws' = raws) /\ (res' = res => ress' = ress)
    BY ScriptMoveIsMove
  <2>2. UNCHANGED <<session, spell, Value>> /\ pc[p] # "idle"
    BY <2>1, OthersStay, SameTypes
  <2>. QED  BY <2>1, <2>2 DEF ScriptInv, ScriptTypes, ScriptOK
<1>2. /\ raws' \in [Files -> Seq(Value)]
      /\ \A f \in Files : \A n : n = spell[p] /\ InSpell(raws[f], n) => InSpell(raws[f], n)'
  <2>1. CASE raws' = raws
    BY <1>1, <2>1, SpellsStay DEF ScriptInv, ScriptTypes
  <2>2. CASE ScriptClears(p)
    <3>1. raws' \in [Files -> Seq(Value)] /\ \A f \in Files : raws'[f] = raws[f] \/ raws'[f] = << >>
      BY <2>2, Results DEF ScriptClears, ScriptInv, ScriptTypes
    <3>2. \A n : InSpell(<< >>, n)'  BY DEF InSpell, OfSpell
    <3>. QED  BY <1>1, <3>1, <3>2, SpellsStay
  <2>3. CASE ScriptRuns(p) /\ raws' = [raws EXCEPT ![u] = Append(@, Current(p))]
    <3>1. Current(p) \in Value /\ Current(p)[1] = p
      BY <2>3, CurrentValue DEF ScriptRuns, Works
    <3>2. p \in 1..session  BY <1>1, OthersStay, Bounds DEF RunInv, RunTypes
    <3>3. /\ Append(raws[u], Current(p)) \in Seq(Value)
          /\ Len(Append(raws[u], Current(p))) = Len(raws[u]) + 1
          /\ Append(raws[u], Current(p))[Len(raws[u]) + 1] = Current(p)
          /\ \A i \in 1..Len(raws[u]) : Append(raws[u], Current(p))[i] = raws[u][i]
          /\ Len(raws[u]) \in Nat
      BY <1>1, <3>1, Appended
    <3>4. raws' \in [Files -> Seq(Value)] /\ raws'[u] = Append(raws[u], Current(p))
          /\ \A f \in Files : f # u => raws'[f] = raws[f]
      BY <1>1, <2>3, <3>3 DEF ScriptInv, ScriptTypes
    <3>5. InSpell(raws[u], spell[p]) => InSpell(Append(raws[u], Current(p)), spell[p])
      <4>1. ASSUME InSpell(raws[u], spell[p]), NEW i \in 1..(Len(raws[u]) + 1)
            PROVE  /\ Append(raws[u], Current(p))[i][1] \in 1..session
                   /\ spell[Append(raws[u], Current(p))[i][1]] = spell[p]
        <5>1. i \in 1..Len(raws[u]) \/ i = Len(raws[u]) + 1  BY <3>3
        <5>. QED  BY <3>1, <3>2, <3>3, <4>1, <5>1 DEF InSpell, OfSpell
      <4>. QED  BY <3>3, <4>1 DEF InSpell, OfSpell
    <3>6. InSpell(raws[u], spell[p]) => InSpell(raws[u], spell[p])'
      BY <1>1, <3>4, <3>5 DEF InSpell
    <3>7. ASSUME NEW f \in Files, NEW n, n = spell[p], InSpell(raws[f], n)
          PROVE  InSpell(raws[f], n)'
      <4>1. CASE f = u
        BY <1>1, <3>6, <3>7, <4>1
      <4>2. CASE f # u
        <5>1. InSpell(raws[f], n)' = OfSpell(raws[f], n, session, spell)
          BY <1>1, <3>4, <4>2 DEF InSpell
        <5>. QED  BY <3>7, <5>1 DEF InSpell
      <4>. QED  BY <4>1, <4>2
    <3>. QED  BY <3>4, <3>7
  <2>. QED
    BY <1>1, <2>1, <2>2, <2>3
    DEF ScriptMove, ScriptQuiet, ScriptRuns, ScriptReads, ScriptOpens, ScriptWrites, ScriptPrints
<1>3. /\ ress' \in [Files -> FileResult]
      /\ \A f \in Files : Sound(ress[f])'
  <2>1. CASE ress' = ress
    BY <1>1, <2>1, SpellsStay DEF ScriptInv, ScriptTypes
  <2>2. ASSUME NEW figure \in Result, Sound(figure), ress' = [ress EXCEPT ![u] = figure]
        PROVE  <1>3
    BY <1>1, <2>2, SpellsStay DEF ScriptInv, ScriptTypes, FileResult
  <2>3. Sound(Nothing) /\ Sound(NoData)
    BY Kinds DEF Sound
  <2>4. CASE ScriptWrites(p)
    <3>1. InSpell(local[p], spell[p]) /\ spell[p] \in 1..MaxSessions
      BY <1>1, <2>4, OthersStay, Bounds, MaxSessionsAssumption
      DEF ScriptWrites, ScriptInv, ScriptOK, RunInv, RunOK
    <3>2. Sound(Mean(local[p])) /\ Mean(local[p]) \in Result
      BY <1>1, <3>1, Kinds, Results DEF Sound
    <3>. QED  BY <2>2, <2>3, <2>4, <3>2, Results DEF ScriptWrites
  <2>5. CASE ScriptOpens(p)
    BY <2>2, <2>3, <2>5, Results DEF ScriptOpens
  <2>. QED
    BY <1>1, <2>1, <2>4, <2>5
    DEF ScriptMove, ScriptQuiet, ScriptClears, ScriptRuns, ScriptReads, ScriptPrints
<1>4. local' \in [Sessions -> Seq(Value)]
  BY <1>1, Results
  DEF ScriptMove, ScriptQuiet, ScriptClears, ScriptRuns, ScriptReads, ScriptOpens, ScriptWrites,
      ScriptPrints, ScriptInv, ScriptTypes
<1>. QED  BY <1>1, <1>2, <1>3, <1>4 DEF ScriptInv, ScriptTypes

LEMMA ScriptOthers ==
    ASSUME RunInv, ScriptInv, NEW p \in Sessions, ScriptMove(p), wrapper \in Scripted,
           pc'[p] \in ScriptPlaces, NEW q \in Sessions, q # p
    PROVE  ScriptOK(q)' /\ RowOK(q)'
<1>1. /\ pc[p] # "idle" /\ pc'[q] = pc[q] /\ samples'[q] = samples[q] /\ row'[q] = row[q]
      /\ (q \in undone' <=> q \in undone)
      /\ UNCHANGED <<wrapper, session, spell, uses, fn, Files>>
  BY ScriptMoveIsMove, OthersStay
<1>2. local'[q] = local[q]
  BY DEF ScriptMove, ScriptQuiet, ScriptClears, ScriptRuns, ScriptReads, ScriptOpens, ScriptWrites,
         ScriptPrints, ScriptInv, ScriptTypes
<1>3. ScriptOK(q) /\ RowOK(q)  BY DEF ScriptInv
<1>4. /\ \A s, n : InSpell(s, n) => InSpell(s, n)'
      /\ \A figure : Sound(figure) => Sound(figure)'
  BY ScriptMoveIsMove, SpellsStay
<1>5. Alone(q)' = Alone(q) /\ Rewrites(q)' = Rewrites(q) /\ ScriptPlaces' = ScriptPlaces
  BY <1>1 DEF Alone, Rewrites, ScriptPlaces
<1>6. RowOK(q)'
  BY <1>1, <1>3, <1>4, <1>5 DEF RowOK, Before
<1>7. pc[q] # "idle" => ~Alone(q)
  BY <1>1, AloneIsAlone
<1>8. pc[q] \in Past => pc[q] # "idle" /\ spell[q] = spell[p]
  BY <1>1, Bounds DEF RunInv, RunTypes, RunOK, Unborn, Past
<1>9. pc'[q] \in Past => InSpell(raws[uses[q]], spell[q])'
  BY <1>1, <1>3, <1>8, ScriptFiles DEF ScriptOK, Past
<1>10. pc'[q] \in {"open", "write"} => InSpell(local[q], spell[q])'
  BY <1>1, <1>2, <1>3, <1>4 DEF ScriptOK
<1>11. pc[q] = "idle" => pc[q] \notin Past \cup {"start"}
  BY DEF Past
<1>. QED  BY <1>1, <1>3, <1>5, <1>6, <1>7, <1>9, <1>10, <1>11 DEF ScriptOK, Past

(* For the session that moves.                                             *)
LEMMA ScriptOwn ==
    ASSUME RunInv, ScriptInv, NEW p \in Sessions, ScriptMove(p), wrapper \in Scripted,
           pc'[p] \in ScriptPlaces
    PROVE  ScriptOK(p)' /\ RowOK(p)' /\ (Prints(p) /\ Rewrites(p) => RowKept(p))
<1>. DEFINE u == uses[p]
            m == samples[p]
<1>1. /\ pc[p] # "idle" /\ u \in Files /\ m \in Seq(Value) /\ local[p] \in Seq(Value)
      /\ RunMove(p) /\ UNCHANGED <<wrapper, session, spell, uses, fn, Files>>
      /\ raw' = raw => raws' = raws
      /\ res' = res => ress' = ress
      /\ raws \in [Files -> Seq(Value)]
      /\ ress \in [Files -> FileResult]
  BY ScriptMoveIsMove, OthersStay DEF ScriptInv, ScriptTypes, ScriptOK, RunInv, RunTypes
<1>2. Alone(p)' = Alone(p) /\ Rewrites(p)' = Rewrites(p) /\ ScriptPlaces' = ScriptPlaces
  BY <1>1 DEF Alone, Rewrites, ScriptPlaces
<1>3. ScriptOK(p) /\ RowOK(p) /\ RunOK(p) /\ Sound(ress[u])
  BY <1>1 DEF ScriptInv, RunInv
<1>4. /\ \A s, n : InSpell(s, n) => InSpell(s, n)'
      /\ \A figure : Sound(figure) => Sound(figure)'
  BY <1>1, SpellsStay
<1>5. InSpell(raws[u], spell[p]) => InSpell(raws[u], spell[p])'
  BY <1>1, ScriptFiles
<1>6. Nothing.kind # "mean" /\ NoData.kind # "mean" /\ Error.kind # "mean"
  BY Kinds
<1>7. ASSUME ~ScriptPrints(p) PROVE RowOK(p)' /\ RowKept(p)
  <2>1. row' = row
    BY <1>7
    DEF ScriptMove, ScriptQuiet, ScriptClears, ScriptRuns, ScriptReads, ScriptOpens, ScriptWrites,
        Walks, Works
  <2>2. CASE pc[p] \notin Out
    <3>1. row'[p].kind # "mean"  BY <1>3, <1>6, <2>1, <2>2 DEF RunOK
    <3>. QED  BY <2>1, <3>1 DEF RowOK, Sound, RowKept
  <2>3. CASE pc[p] \in Out
    <3>1. samples' = samples /\ undone' = undone
      BY <1>1, <1>7, <2>3
      DEF ScriptMove, ScriptQuiet, ScriptClears, ScriptRuns, ScriptReads, ScriptOpens, ScriptWrites,
          Walks, Out
    <3>. QED  BY <1>1, <1>2, <1>3, <1>4, <2>1, <3>1 DEF RowOK, Before, RowKept
  <2>. QED  BY <2>2, <2>3
<1>8. ASSUME ScriptQuiet(p) PROVE ScriptOK(p)'
  <2>1. UNCHANGED <<samples, local, raws, ress>>
    BY <1>1, <1>8 DEF ScriptQuiet, Walks
  <2>2. CASE pc'[p] = "idle"
    <3>1. pc'[p] \notin Past \cup {"start"}  BY <2>2 DEF Past
    <3>. QED  BY <1>2, <2>2, <3>1 DEF ScriptOK
  <2>3. CASE pc[p] = "loop" /\ pc'[p] \in {"script", "parse"}
    BY <1>1, <1>2, <1>3, <1>5, <2>1, <2>3 DEF ScriptOK, InSpell, Past
  <2>4. CASE pc[p] \in {"script", "open", "write"} /\ pc'[p] = "read" /\ undone' = undone \cup {p}
    BY <1>1, <1>2, <1>3, <1>5, <2>1, <2>4 DEF ScriptOK, InSpell, Past
  <2>. QED  BY <1>8, <2>2, <2>3, <2>4 DEF ScriptQuiet
<1>9. ASSUME ScriptClears(p) PROVE ScriptOK(p)'
  <2>1. /\ pc[p] = "start" /\ pc'[p] = "loop" /\ ress' = ress
        /\ samples'[p] = << >> /\ raws'[u] = << >>
    BY <1>1, <1>3, <1>9 DEF ScriptClears, Walks, RunOK
  <2>2. \A n : InSpell(<< >>, n)'  BY DEF InSpell, OfSpell
  <2>. QED  BY <1>1, <1>2, <1>3, <2>1, <2>2 DEF ScriptOK, InSpell, Past
<1>10. ASSUME ScriptRuns(p) PROVE ScriptOK(p)'
  <2>1. /\ pc[p] = "loop" /\ pc'[p] \in {"loop", "idle"} /\ ress' = ress
        /\ \/ samples' = samples /\ raws' = raws
           \/ /\ samples'[p] = Append(m, Current(p))
              /\ raws'[u] = Append(raws[u], Current(p))
    BY <1>1, <1>10 DEF ScriptRuns, RunInv, RunTypes
  <2>2. raws[u] = m => raws'[u] = samples'[p]
    BY <2>1
  <2>. QED  BY <1>1, <1>2, <1>3, <1>5, <2>1, <2>2 DEF ScriptOK, InSpell, Past
<1>11. ASSUME ScriptReads(p) PROVE ScriptOK(p)'
  <2>1. /\ pc[p] \in {"script", "parse"} /\ UNCHANGED <<undone, samples, raws, ress>>
        /\ local'[p] = raws[u]
        /\ pc'[p] \in {"open", "idle"} \/ (pc'[p] = "read" /\ raws[u] = << >> /\ ~Rewrites(p))
    BY <1>1, <1>11 DEF ScriptReads, Walks, ScriptInv, ScriptTypes
  <2>2. InSpell(local[p], spell[p])' = InSpell(raws[u], spell[p])'
    BY <1>1, <2>1 DEF InSpell
  <2>. QED  BY <1>1, <1>2, <1>3, <1>5, <2>1, <2>2 DEF ScriptOK, InSpell, Past
<1>12. ASSUME ScriptOpens(p) PROVE ScriptOK(p)'
  <2>1. /\ pc[p] = "open" /\ pc'[p] = "write" /\ UNCHANGED <<samples, raws, local>>
        /\ ress'[u] = Nothing
    BY <1>1, <1>12 DEF ScriptOpens, Walks
  <2>2. InSpell(local[p], spell[p]) => InSpell(local[p], spell[p])'
    BY <1>1, <2>1 DEF InSpell
  <2>. QED  BY <1>1, <1>2, <1>3, <1>5, <1>6, <2>1, <2>2 DEF ScriptOK, InSpell, Past
<1>13. ASSUME ScriptWrites(p) PROVE ScriptOK(p)'
  <2>1. /\ pc[p] = "write" /\ pc'[p] \in {"read", "idle"} /\ UNCHANGED <<samples, raws>>
        /\ local[p] # << >> => ress'[u] = Mean(local[p])
        /\ local[p] = << >> /\ Rewrites(p) => ress'[u] = NoData
        /\ ress'[u] \in {NoData, Mean(local[p])}
    BY <1>1, <1>13 DEF ScriptWrites, Walks
  <2>2. ress'[u].kind = "mean" => ress'[u].of = local[p]
    BY <1>6, <2>1, Kinds
  <2>. QED  BY <1>1, <1>2, <1>3, <1>5, <2>1, <2>2 DEF ScriptOK, InSpell, Past
<1>14. CASE ScriptPrints(p)
  <2>1. /\ pc'[p] \notin Past \cup {"start"} /\ pc'[p] \notin {"read", "open", "write"}
        /\ pc'[p] = "idle" \/ uses'[p] \in Files
        /\ UNCHANGED <<samples, undone>>
    BY <1>1, <1>14 DEF ScriptPrints, Prints, Past, Out
  <2>2. ScriptOK(p)'
    BY <1>1, <1>2, <2>1 DEF ScriptOK
  <2>3. CASE row'[p] = Error
    BY <1>6, <2>2, <2>3 DEF RowOK, Sound, RowKept
  <2>4. CASE /\ pc[p] = "read"
             /\ ress[u].kind = "mean" => row'[p] = ress[u]
             /\ ress[u].kind # "mean" => row'[p].kind # "mean"
             /\ Rewrites(p) /\ ress[u] = NoData => row'[p] = NoData
    <3>1. CASE ress[u].kind = "mean"
      <4>1. row'[p] = ress[u] /\ Sound(ress[u])
        BY <1>3, <2>4, <3>1
      <4>2. Sound(row[p])'
        <5>1. Sound(ress[u])'  BY <1>1, ScriptFiles
        <5>2. ress'[u] = ress[u]  BY <1>1, <1>14 DEF ScriptPrints
        <5>. QED  BY <1>1, <4>1, <5>1, <5>2 DEF Sound
      <4>3. RowOK(p)'
        BY <1>1, <1>2, <1>3, <2>1, <2>4, <3>1, <4>1, <4>2, Kinds DEF RowOK, ScriptOK, Past, Before
      <4>4. OneSpell(row'[p].of)
        <5>1. ress[u].of \in Seq(Value)
          BY <1>1, <3>1, Results DEF FileResult, Compile!Missing
        <5>. QED  BY <3>1, <4>1, <5>1, SoundIsOneSpell
      <4>5. Rewrites(p) => RowKept(p)
        BY <1>1, <1>3, <2>4, <3>1, <4>1, <4>4, Kinds DEF RowKept, ScriptOK
      <4>. QED  BY <2>2, <4>3, <4>5
    <3>2. CASE ress[u].kind # "mean"
      <4>1. row'[p].kind # "mean"  BY <2>4, <3>2
      <4>2. RowOK(p)'  BY <4>1 DEF RowOK, Sound
      <4>3. Rewrites(p) => RowKept(p)
        BY <1>3, <2>4, <3>2, <4>1, Kinds DEF RowKept, ScriptOK
      <4>. QED  BY <2>2, <4>2, <4>3
    <3>. QED  BY <3>1, <3>2
  <2>. QED  BY <1>14, <2>3, <2>4 DEF ScriptPrints
<1>. QED
  BY <1>7, <1>8, <1>9, <1>10, <1>11, <1>12, <1>13, <1>14 DEF ScriptMove

LEMMA ScriptMoveInv ==
    ASSUME RunInv, ScriptInv, NEW p \in Sessions, ScriptMove(p), wrapper \in Scripted,
           pc'[p] \in ScriptPlaces
    PROVE  ScriptInv' /\ RunInv' /\ (Prints(p) /\ Rewrites(p) => RowKept(p))
<1>1. RunInv' /\ Files' = Files
  BY ScriptMoveIsMove, RunMoveRun
<1>2. ScriptTypes' /\ \A f \in Files : Sound(ress[f])'
  BY ScriptFiles
<1>3. \A q \in Sessions : ScriptOK(q)' /\ RowOK(q)'
  BY ScriptOthers, ScriptOwn
<1>4. Prints(p) /\ Rewrites(p) => RowKept(p)
  BY ScriptOwn
<1>. QED  BY <1>1, <1>2, <1>3, <1>4 DEF ScriptInv

(* A session that has begun and is alone after a start was so before it,   *)
(* and the new one is alone only if nothing was busy.                      *)
LEMMA StartsAlone ==
    ASSUME RunInv, NEW first, Starts(first), NEW q \in Sessions
    PROVE  /\ q <= session /\ Alone(q)' => Alone(q)
           /\ q # session' => /\ q > session' <=> q > session
                              /\ pc'[q] = pc[q] \/ pc'[q] = "idle"
                              /\ spell'[q] = spell[q]
           /\ q > session => Unborn(q)
           /\ session' \in Sessions /\ session' = session + 1 /\ session \in Nat
           /\ pc'[session'] = first
           /\ UNCHANGED <<wrapper, iter, samples, row, undone>>
<1>1. /\ session \in 0..MaxSessions /\ session < MaxSessions /\ session' = session + 1
      /\ UNCHANGED <<wrapper, iter, samples, row, undone>>
      /\ \E s : spell' = [spell EXCEPT ![session'] = s]
  BY DEF RunInv, RunTypes, Starts, Launch, StartSecond
<1>2. session' \in Sessions  BY <1>1, MaxSessionsAssumption DEF Sessions
<1>3. /\ pc'[session'] = first
      /\ q # session' => pc'[q] = pc[q] \/ pc'[q] = "idle"
  BY <1>1, <1>2 DEF RunInv, RunTypes, Starts, Launch, StartSecond
<1>4. \A r \in Sessions : r # session' => spell'[r] = spell[r]
  BY <1>1 DEF RunInv, RunTypes
<1>5. ASSUME NEW r \in Sessions, r > session PROVE Unborn(r)
  BY <1>5 DEF RunInv, RunOK
<1>6. ASSUME q <= session, Alone(q)' PROVE Alone(q)
  <2>1. q # session' /\ spell[q] \in 1..q
    BY <1>1, <1>6, Bounds DEF RunInv, RunOK
  <2>2. ASSUME NEW r \in Sessions, spell[r] = spell[q] PROVE r = q
    <3>1. CASE r = session'
      <4>1. spell[r] = 0  BY <1>1, <1>5, <3>1 DEF Unborn
      <4>. QED  BY <2>1, <2>2, <4>1, Bounds
    <3>2. CASE r # session'
      <4>1. spell'[r] = spell'[q]  BY <1>4, <2>1, <2>2, <3>2
      <4>. QED  BY <1>6, <4>1 DEF Alone
    <3>. QED  BY <3>1, <3>2
  <2>. QED  BY <2>2 DEF Alone
<1>7. q # session' => (q > session' <=> q > session)
  BY <1>1, Bounds
<1>. QED  BY <1>1, <1>2, <1>3, <1>4, <1>5, <1>6, <1>7

LEMMA ScriptStartsInv ==
    ASSUME RunInv, ScriptInv, ScriptStarts, wrapper \in Scripted
    PROVE  ScriptInv' /\ RunInv'
<1>1. /\ RunInv' /\ Starts("start") /\ wrapper' = wrapper
      /\ session' \in Sessions /\ session' = session + 1 /\ session \in Nat
      /\ UNCHANGED <<samples, row, undone, local>>
      /\ pc'[session'] = "start"
  <2>1. 1 \in Sessions  BY MaxSessionsAssumption DEF Sessions
  <2>. QED  BY <2>1, StartsRun, StartsAlone DEF ScriptStarts
<1>2. UNCHANGED <<Files, raws, ress, Value, FileResult, ScriptPlaces>>
  BY <1>1, SameTypes DEF ScriptStarts, Files, raws, ress, ScriptPlaces, FileResult
<1>3. ScriptTypes'
  BY <1>1, <1>2 DEF ScriptInv, ScriptTypes, ScriptStarts
<1>4. /\ \A s, n : InSpell(s, n) => InSpell(s, n)'
      /\ \A figure : Sound(figure) => Sound(figure)'
  BY <1>1, SpellsStay
<1>5. \A f \in Files : Sound(ress[f])'
  BY <1>2, <1>4 DEF ScriptInv
<1>6. ASSUME NEW q \in Sessions, q # session' PROVE ScriptOK(q)' /\ RowOK(q)'
  <2>1. /\ pc'[q] = pc[q] \/ pc'[q] = "idle"
        /\ spell'[q] = spell[q] /\ uses'[q] = uses[q] /\ Rewrites(q)' = Rewrites(q)
        /\ ScriptOK(q) /\ RowOK(q)
    BY <1>1, <1>6, StartsAlone DEF ScriptInv, ScriptStarts, Rewrites
  <2>2. CASE q <= session
    <3>1. Alone(q)' => Alone(q)  BY <1>1, <2>2, StartsAlone
    <3>2. RowOK(q)'
      BY <1>1, <1>4, <2>1, <3>1 DEF RowOK
    <3>3. CASE pc'[q] = pc[q]
      <4>1. /\ InSpell(raws[uses[q]], spell[q]) => InSpell(raws[uses[q]], spell[q])'
            /\ InSpell(local[q], spell[q]) => InSpell(local[q], spell[q])'
        BY <1>1, <1>2, <1>4, <2>1 DEF InSpell
      <4>. QED  BY <1>1, <1>2, <2>1, <3>1, <3>2, <3>3, <4>1 DEF ScriptOK, InSpell
    <3>4. CASE pc'[q] = "idle"
      <4>1. pc'[q] \notin Past' \cup {"start"} /\ pc'[q] \in ScriptPlaces'
        BY <3>4 DEF Past, ScriptPlaces
      <4>. QED  BY <3>2, <3>4, <4>1 DEF ScriptOK
    <3>. QED  BY <2>1, <3>3, <3>4
  <2>3. CASE q > session
    <3>1. pc'[q] = "idle" /\ row'[q].kind # "mean"
      BY <1>1, <1>6, <2>1, <2>3, StartsAlone, Kinds DEF Unborn
    <3>2. pc'[q] \notin Past' \cup {"start"} /\ pc'[q] \in ScriptPlaces'
      BY <3>1 DEF Past, ScriptPlaces
    <3>. QED  BY <3>1, <3>2 DEF ScriptOK, RowOK, Sound
  <2>. QED  BY <1>1, <2>2, <2>3, Bounds
<1>7. ASSUME NEW q, q = session' PROVE ScriptOK(q)' /\ RowOK(q)'
  <2>1. q \in Sessions /\ q > session /\ pc'[q] = "start" /\ uses'[q] \in Files' /\ row'[q].kind # "mean"
    BY <1>1, <1>2, <1>7, StartsAlone, Kinds DEF ScriptStarts, Unborn
  <2>2. ress'[uses'[q]].kind = "mean" => Before(q, ress'[uses'[q]].of)
    <3>1. Sound(ress[uses'[q]])
      BY <1>2, <2>1 DEF ScriptInv
    <3>2. ress'[uses'[q]] = ress[uses'[q]]  BY <1>2
    <3>. QED  BY <1>1, <1>7, <3>1, <3>2 DEF Sound, InSpell, OfSpell, Before
  <2>3. "start" \notin Past' /\ "start" \in ScriptPlaces'
    BY DEF Past, ScriptPlaces
  <2>. QED  BY <2>1, <2>2, <2>3 DEF ScriptOK, RowOK, Sound
<1>. QED  BY <1>1, <1>3, <1>5, <1>2, <1>6, <1>7 DEF ScriptInv

(***************************************************************************)
(* The actions of GBenchRun as moves                                       *)
(***************************************************************************)
LEMMA PcMoves ==
    ASSUME RunInv, NEW p \in Sessions, NEW to \in AllPlaces, pc' = [pc EXCEPT ![p] = to]
    PROVE  pc'[p] = to /\ pc' = [pc EXCEPT ![p] = pc'[p]]
BY DEF RunInv, RunTypes

LEMMA KillMoves ==
    ASSUME RunInv, NEW p \in Sessions, wrapper' = wrapper, Kill(p)
    PROVE  Walks(p) /\ pc'[p] = "idle" /\ undone' = undone
<1>1. pc'[p] = "idle" /\ pc' = [pc EXCEPT ![p] = pc'[p]] /\ pc'[p] \in AllPlaces
  BY PcMoves DEF Kill, AllPlaces
<1>. QED  BY <1>1 DEF Kill, Walks, Moves

LEMMA GotoMoves ==
    ASSUME RunInv, NEW p \in Sessions, wrapper' = wrapper,
           NEW from, NEW to \in AllPlaces \ {"start", "between"}, from \notin Out,
           to \in Early => from \in Early,
           Goto(p, from, to)
    PROVE  Walks(p) /\ pc[p] = from /\ pc'[p] = to /\ undone' = undone
<1>1. pc'[p] = to /\ pc' = [pc EXCEPT ![p] = pc'[p]] /\ pc'[p] \in AllPlaces
  BY PcMoves DEF Goto
<1>. QED  BY <1>1 DEF Goto, Walks, Moves, Out

LEMMA EndsMoves ==
    ASSUME RunInv, NEW p \in Sessions, wrapper' = wrapper,
           NEW from, from \notin Out, ScriptEnds(p, from)
    PROVE  Walks(p) /\ pc[p] = from /\ pc'[p] \in {"read", "idle"} /\ undone' = undone
<1>1. /\ pc'[p] \in {"read", "idle"} /\ pc' = [pc EXCEPT ![p] = pc'[p]]
      /\ pc'[p] \in AllPlaces /\ pc'[p] \notin Early \cup {"between"}
  BY PcMoves DEF ScriptEnds, Returns, AllPlaces, Early
<1>. QED  BY <1>1 DEF ScriptEnds, Walks, Moves, Out, Early

LEMMA CutShortMoves ==
    ASSUME RunInv, NEW p \in Sessions, wrapper' = wrapper, ScriptCutShort(p)
    PROVE  /\ Walks(p) /\ pc[p] \in {"script", "open", "write"}
           /\ pc'[p] \in {"read", "idle"} /\ undone' = undone \cup {p}
<1>1. /\ pc'[p] \in {"read", "idle"} /\ pc' = [pc EXCEPT ![p] = pc'[p]]
      /\ pc'[p] \in AllPlaces /\ pc'[p] \notin Early \cup {"between"}
  BY PcMoves DEF ScriptCutShort, Returns, AllPlaces, Early
<1>. QED  BY <1>1 DEF ScriptCutShort, Walks, Moves, Out, Early

LEMMA IterateMoves ==
    ASSUME RunInv, NEW p \in Sessions, wrapper' = wrapper, iter[p] < N,
           NEW ok \in BOOLEAN, Iterate(p, ok)
    PROVE  /\ Works(p) /\ pc[p] = "loop" /\ pc'[p] \in {"loop", "idle"}
           /\ samples' = IF ok THEN [samples EXCEPT ![p] = Append(@, Current(p))] ELSE samples
<1>1. pc'[p] \in {"loop", "idle"} /\ pc' = [pc EXCEPT ![p] = pc'[p]] /\ pc'[p] \in AllPlaces
  BY PcMoves DEF Iterate, Returns, AllPlaces
<1>2. samples' = IF ok THEN [samples EXCEPT ![p] = Append(@, Current(p))] ELSE samples
  BY DEF Iterate, Measures
<1>3. pc[p] = "loop" /\ Moves(p) /\ iter' = [iter EXCEPT ![p] = @ + 1] /\ UNCHANGED <<row, undone>>
  BY <1>1 DEF Iterate, Moves
<1>4. samples' = samples \/ samples' = [samples EXCEPT ![p] = Append(@, Current(p))]
  BY <1>2
<1>. QED  BY <1>1, <1>2, <1>3, <1>4 DEF Works

LEMMA ProduceMoves ==
    ASSUME RunInv, NEW p \in Sessions, wrapper' = wrapper, iter[p] < N, NEW ok \in BOOLEAN,
           NEW from \in {"loop", "render", "run"},
           NEW next \in AllPlaces \ (Early \cup {"between"}),
           Produce(p, from, ok, next)
    PROVE  /\ Works(p) /\ pc[p] = from /\ pc'[p] \in {next, "idle"} /\ iter' = iter
           /\ samples' = IF ok THEN [samples EXCEPT ![p] = Append(@, Current(p))] ELSE samples
<1>1. /\ pc'[p] \in {next, "idle"} /\ pc' = [pc EXCEPT ![p] = pc'[p]]
      /\ pc'[p] \in AllPlaces /\ pc'[p] \notin Early \cup {"between"}
  <2>1. PICK place \in {next, "idle"} : pc' = [pc EXCEPT ![p] = place]
    BY DEF Produce, Returns
  <2>2. place \in AllPlaces /\ place \notin Early \cup {"between"}
    BY DEF AllPlaces, Early
  <2>3. pc'[p] = place /\ pc' = [pc EXCEPT ![p] = pc'[p]]
    BY <2>1, <2>2, PcMoves
  <2>. QED  BY <2>2, <2>3
<1>2. samples' = IF ok THEN [samples EXCEPT ![p] = Append(@, Current(p))] ELSE samples
  BY DEF Produce, Measures
<1>3. /\ pc[p] = from /\ pc[p] \in {"loop", "render", "run"} /\ Moves(p)
      /\ UNCHANGED <<iter, row, undone>>
  BY <1>1 DEF Produce, Moves
<1>4. samples' = samples \/ samples' = [samples EXCEPT ![p] = Append(@, Current(p))]
  BY <1>2
<1>. QED  BY <1>1, <1>2, <1>3, <1>4 DEF Works

LEMMA NextMoves ==
    ASSUME RunInv, NEW p \in Sessions, wrapper' = wrapper, iter[p] < N,
           NEW from, from \notin Out, NextIteration(p, from)
    PROVE  Iterates(p) /\ pc[p] = from /\ pc'[p] = "loop"
<1>1. pc'[p] = "loop" /\ pc' = [pc EXCEPT ![p] = pc'[p]] /\ pc'[p] \in AllPlaces
  BY PcMoves DEF NextIteration, AllPlaces
<1>. QED  BY <1>1 DEF NextIteration, Iterates, Moves, Out

LEMMA PublishMoves ==
    ASSUME RunInv, NEW p \in Sessions, wrapper' = wrapper,
           NEW from, from \notin Out, NEW figure \in Result,
           Publish(p, from, figure) \/ PublishFirst(p, from, figure)
    PROVE  /\ Prints(p) /\ pc[p] = from /\ pc'[p] \in Out /\ row'[p] = figure
           /\ pc'[p] = IF Publish(p, from, figure) THEN "idle" ELSE "between"
<1>1. /\ pc'[p] \in Out /\ pc' = [pc EXCEPT ![p] = pc'[p]] /\ pc'[p] \in AllPlaces
      /\ pc'[p] = IF Publish(p, from, figure) THEN "idle" ELSE "between"
  BY PcMoves DEF Publish, PublishFirst, AllPlaces, Out
<1>2. row'[p] = figure /\ row' = [row EXCEPT ![p] = row'[p]]
  BY DEF RunInv, RunTypes, Publish, PublishFirst
<1>. QED  BY <1>1, <1>2 DEF Publish, PublishFirst, Prints, Moves, Out

(***************************************************************************)
(* The six wrappers are scripted wrappers                                  *)
(***************************************************************************)
(* All but ramsmp have one file of each kind.                              *)
LEMMA OneFile ==
    ASSUME wrapper # "ramsmp", wrapper' = wrapper, NEW p \in Sessions
    PROVE  /\ uses[p] = "-" /\ uses' = uses /\ "-" \in Files
           /\ raws["-"] = raw /\ ress["-"] = res
           /\ raws' = [raws EXCEPT !["-"] = raw'] /\ ress' = [ress EXCEPT !["-"] = res']
BY DEF uses, Files, raws, ress

LEMMA OneFileStarts ==
    ASSUME RunInv, wrapper # "ramsmp", wrapper' = wrapper, Launch("start"),
           UNCHANGED <<raw, res, local, fn>>
    PROVE  ScriptStarts
<1>1. session' \in Sessions  BY MaxSessionsAssumption DEF Launch, RunInv, RunTypes, Sessions
<1>. QED  BY <1>1 DEF Starts, ScriptStarts, uses, Files

ScriptMoves(p) == ScriptMove(p) /\ pc'[p] \in ScriptPlaces

(* What the actions of a scripted wrapper with one file of each kind do,   *)
(* in terms of GBenchRun.                                                  *)
OneFileWrapper == wrapper \in Scripted \ {"ramsmp"} /\ wrapper' = wrapper /\ fn' = fn

LEMMA OnePlaces ==
    ASSUME OneFileWrapper
    PROVE  /\ wrapper # "ramsmp" /\ wrapper' = wrapper /\ fn' = fn /\ N = Iterations
           /\ {"idle", "start", "loop", "open", "write", "read"} \subseteq ScriptPlaces
           /\ wrapper # "compile" => "script" \in ScriptPlaces
           /\ wrapper = "compile" => "parse" \in ScriptPlaces
BY DEF OneFileWrapper, Scripted, N, TwoFunctions, ScriptPlaces

LEMMA OneFileQuiet ==
    ASSUME RunInv, OneFileWrapper, NEW p \in Sessions, UNCHANGED <<raw, res, local>>,
           \/ Kill(p)
           \/ LoopEnds(p, "script") /\ wrapper # "compile"
           \/ LoopEnds(p, "parse") /\ wrapper = "compile"
           \/ ScriptCutShort(p)
    PROVE  ScriptMoves(p)
<1>1. CASE Kill(p)
  BY <1>1, OnePlaces, KillMoves DEF ScriptMoves, ScriptMove, ScriptQuiet
<1>2. ASSUME NEW to \in {"script", "parse"}, LoopEnds(p, to), to \in ScriptPlaces
      PROVE  ScriptMoves(p)
  <2>1. Walks(p) /\ pc[p] = "loop" /\ pc'[p] = to /\ undone' = undone
    BY <1>2, OnePlaces, GotoMoves DEF LoopEnds, AllPlaces, Out, Early
  <2>. QED  BY <1>2, <2>1, OnePlaces DEF ScriptMoves, ScriptMove, ScriptQuiet
<1>3. CASE ScriptCutShort(p)
  BY <1>3, OnePlaces, CutShortMoves DEF ScriptMoves, ScriptMove, ScriptQuiet
<1>. QED  BY <1>1, <1>2, <1>3, OnePlaces

LEMMA OneFileClears ==
    ASSUME RunInv, OneFileWrapper, NEW p \in Sessions,
           Goto(p, "start", "loop"), raw' = << >>, UNCHANGED <<res, local>>
    PROVE  ScriptMoves(p)
<1>1. Walks(p) /\ pc[p] = "start" /\ pc'[p] = "loop" /\ undone' = undone
  BY OnePlaces, GotoMoves DEF AllPlaces, Out, Early
<1>. QED  BY <1>1, OnePlaces, OneFile DEF ScriptMoves, ScriptMove, ScriptClears

LEMMA OneFileRuns ==
    ASSUME RunInv, OneFileWrapper, NEW p \in Sessions, NEW ok \in BOOLEAN, Iterate(p, ok),
           raw' = IF ok THEN Append(raw, Current(p)) ELSE raw, UNCHANGED <<res, local>>
    PROVE  ScriptMoves(p)
<1>1. iter[p] < N  BY OnePlaces DEF Iterate
<1>2. /\ Works(p) /\ pc[p] = "loop" /\ pc'[p] \in {"loop", "idle"}
      /\ samples' = IF ok THEN [samples EXCEPT ![p] = Append(@, Current(p))] ELSE samples
  BY <1>1, OnePlaces, IterateMoves
<1>3. \/ samples' = samples /\ raws' = raws
      \/ /\ samples' = [samples EXCEPT ![p] = Append(@, Current(p))]
         /\ raws' = [raws EXCEPT ![uses[p]] = Append(@, Current(p))]
  BY <1>2, OnePlaces, OneFile DEF raws
<1>. QED  BY <1>2, <1>3, OnePlaces DEF ScriptMoves, ScriptMove, ScriptRuns

LEMMA OneFileReads ==
    ASSUME RunInv, OneFileWrapper, NEW p \in Sessions,
           NEW from \in {"script", "parse"},
           \/ Goto(p, from, "open")
           \/ /\ Goto(p, from, "read") \/ ScriptEnds(p, from)
              /\ raw = << >> /\ wrapper \notin {"sock", "cache"},
           local' = [local EXCEPT ![p] = raw], UNCHANGED <<raw, res>>
    PROVE  ScriptMoves(p)
<1>1. from \notin Out /\ "read" \notin Early /\ "open" \notin Early
      /\ {"read", "open"} \subseteq AllPlaces \ {"start", "between"}
  BY DEF Out, Early, AllPlaces
<1>2. /\ Walks(p) /\ pc[p] = from /\ undone' = undone
      /\ \/ pc'[p] = "open"
         \/ pc'[p] \in {"read", "idle"} /\ raw = << >> /\ ~Rewrites(p)
  BY <1>1, OnePlaces, GotoMoves, EndsMoves DEF Rewrites
<1>. QED  BY <1>2, OnePlaces, OneFile DEF ScriptMoves, ScriptMove, ScriptReads

LEMMA OneFileOpens ==
    ASSUME RunInv, OneFileWrapper, NEW p \in Sessions,
           Goto(p, "open", "write"), res' = Nothing, UNCHANGED <<raw, local>>
    PROVE  ScriptMoves(p)
<1>1. Walks(p) /\ pc[p] = "open" /\ pc'[p] = "write" /\ undone' = undone
  BY OnePlaces, GotoMoves DEF AllPlaces, Out, Early
<1>. QED  BY <1>1, OnePlaces, OneFile DEF ScriptMoves, ScriptMove, ScriptOpens

LEMMA OneFileWrites ==
    ASSUME RunInv, OneFileWrapper, NEW p \in Sessions,
           ScriptEnds(p, "write") \/ Goto(p, "write", "read"),
           \/ res' = IF local[p] = << >> THEN NoData ELSE Mean(local[p])
           \/ res' = Mean(local[p]) /\ wrapper \notin {"sock", "cache"},
           local' = [local EXCEPT ![p] = << >>], raw' = raw
    PROVE  ScriptMoves(p)
<1>1. Walks(p) /\ pc[p] = "write" /\ pc'[p] \in {"read", "idle"} /\ undone' = undone
  BY OnePlaces, GotoMoves, EndsMoves DEF AllPlaces, Out, Early
<1>2. /\ res' \in {NoData, Mean(local[p])}
      /\ local[p] # << >> => res' = Mean(local[p])
      /\ local[p] = << >> /\ Rewrites(p) => res' = NoData
  BY OnePlaces DEF Rewrites
<1>3. ress' = [ress EXCEPT ![uses[p]] = res']
  BY OnePlaces, OneFile
<1>. QED  BY <1>1, <1>2, <1>3, OnePlaces DEF ScriptMoves, ScriptMove, ScriptWrites

LEMMA OneFilePrints ==
    ASSUME RunInv, OneFileWrapper, NEW p \in Sessions,
           NEW from \in {"read", "parse"}, NEW figure \in Result, Publish(p, from, figure),
           \/ /\ from = "read"
              /\ res.kind = "mean" => figure = res
              /\ res.kind # "mean" => figure.kind # "mean"
              /\ wrapper \in {"sock", "cache"} /\ res = NoData => figure = NoData
           \/ figure = Error,
           UNCHANGED <<raw, res, local>>
    PROVE  ScriptMoves(p)
<1>1. Prints(p) /\ pc[p] = from /\ pc'[p] = "idle" /\ row'[p] = figure
  BY OnePlaces, PublishMoves DEF Out
<1>. QED  BY <1>1, OnePlaces, OneFile DEF ScriptMoves, ScriptMove, ScriptPrints, Rewrites

ScriptNext == ScriptStarts \/ \E p \in Sessions : ScriptMoves(p)

LEMMA ResultKinds ==
    ASSUME RunInv, ScriptInv, OneFileWrapper
    PROVE  res \in FileResult /\ (res.kind = "mean" => res \in Result)
<1>1. res \in FileResult
  BY OnePlaces DEF ScriptInv, ScriptTypes, Files, ress
<1>. QED  BY <1>1 DEF FileResult, Compile!Missing

LEMMA SockIsScripted ==
    ASSUME RunInv, ScriptInv, wrapper = "sock", wrapper' = wrapper, fn' = fn, Sock!Next
    PROVE  ScriptNext
<1>. USE DEF Sock!files
<1>1. OneFileWrapper  BY DEF OneFileWrapper, Scripted
<1>2. CASE Sock!Launch("start") /\ UNCHANGED Sock!files
  BY <1>2, OneFileStarts DEF Sock!Launch, Launch, ScriptNext, Sock!Busy, Busy, Sock!Sessions, Sessions
<1>3. ASSUME NEW p \in Sessions, Sock!Kill(p), UNCHANGED Sock!files PROVE ScriptMoves(p)
  BY <1>1, <1>3, OneFileQuiet DEF Sock!Kill, Kill
<1>4. ASSUME NEW p \in Sessions, Sock!ClearFileContents(p) PROVE ScriptMoves(p)
  BY <1>1, <1>4, OneFileClears DEF Sock!ClearFileContents, Sock!Goto, Goto
<1>5. ASSUME NEW p \in Sessions, Sock!RunSockperfLatencyTest(p) PROVE ScriptMoves(p)
  BY <1>1, <1>5, OneFileRuns
  DEF Sock!RunSockperfLatencyTest, Sock!Iterate, Iterate, Sock!Measures, Measures, Sock!Returns,
      Returns, Sock!Current, Current
<1>6. ASSUME NEW p \in Sessions, Sock!EndLoop(p) PROVE ScriptMoves(p)
  BY <1>1, <1>6, OneFileQuiet DEF Sock!EndLoop, Sock!LoopEnds, LoopEnds, Sock!Goto, Goto
<1>7. ASSUME NEW p \in Sessions, Sock!SockAvgReads(p) PROVE ScriptMoves(p)
  BY <1>1, <1>7, OneFileReads DEF Sock!SockAvgReads, Sock!Goto, Goto
<1>8. ASSUME NEW p \in Sessions, Sock!SockAvgOpens(p) PROVE ScriptMoves(p)
  BY <1>1, <1>8, OneFileOpens DEF Sock!SockAvgOpens, Sock!Goto, Goto, Sock!Nothing, Nothing
<1>9. ASSUME NEW p \in Sessions, Sock!SockAvgWrites(p) PROVE ScriptMoves(p)
  BY <1>1, <1>9, OneFileWrites
  DEF Sock!SockAvgWrites, Sock!ScriptEnds, ScriptEnds, Sock!Returns, Returns, Sock!NoData, NoData,
      Sock!Mean, Mean
<1>10. ASSUME NEW p \in Sessions, Sock!SockAvgCutShort(p) PROVE ScriptMoves(p)
  BY <1>1, <1>10, OneFileQuiet
  DEF Sock!SockAvgCutShort, Sock!ScriptCutShort, ScriptCutShort, Sock!Returns, Returns
<1>11. ASSUME NEW p \in Sessions, Sock!PublishLatency(p) PROVE ScriptMoves(p)
  <2>. DEFINE figure == IF res.kind = "mean" THEN res ELSE NoData
  <2>1. Publish(p, "read", figure) /\ UNCHANGED <<raw, res, local>>
    BY <1>11 DEF Sock!PublishLatency, Sock!ReadAveragelatency, Sock!Publish, Publish, Sock!NoData, NoData
  <2>2. figure \in Result /\ (res.kind # "mean" => figure = NoData)
    BY <1>1, ResultKinds, Results
  <2>. QED  BY <1>1, <2>1, <2>2, Kinds, OneFilePrints
<1>. QED
  BY <1>2, <1>3, <1>4, <1>5, <1>6, <1>7, <1>8, <1>9, <1>10, <1>11
  DEF Sock!Next, Sock!Sessions, Sessions, ScriptNext

LEMMA CacheIsScripted ==
    ASSUME RunInv, ScriptInv, wrapper = "cache", wrapper' = wrapper, fn' = fn, Cache!Next
    PROVE  ScriptNext
<1>. USE DEF Cache!files
<1>1. OneFileWrapper  BY DEF OneFileWrapper, Scripted
<1>2. CASE Cache!Launch("start") /\ UNCHANGED Cache!files
  BY <1>2, OneFileStarts DEF Cache!Launch, Launch, ScriptNext, Cache!Busy, Busy, Cache!Sessions, Sessions
<1>3. ASSUME NEW p \in Sessions, Cache!Kill(p), UNCHANGED Cache!files PROVE ScriptMoves(p)
  BY <1>1, <1>3, OneFileQuiet DEF Cache!Kill, Kill
<1>4. ASSUME NEW p \in Sessions, Cache!ClearFile(p) PROVE ScriptMoves(p)
  BY <1>1, <1>4, OneFileClears DEF Cache!ClearFile, Cache!Goto, Goto
<1>5. ASSUME NEW p \in Sessions, Cache!RunCachebench(p) PROVE ScriptMoves(p)
  BY <1>1, <1>5, OneFileRuns
  DEF Cache!RunCachebench, Cache!Iterate, Iterate, Cache!Measures, Measures, Cache!Returns,
      Returns, Cache!Current, Current
<1>6. ASSUME NEW p \in Sessions, Cache!EndLoop(p) PROVE ScriptMoves(p)
  BY <1>1, <1>6, OneFileQuiet DEF Cache!EndLoop, Cache!LoopEnds, LoopEnds, Cache!Goto, Goto
<1>7. ASSUME NEW p \in Sessions, Cache!AverageCachePyReads(p) PROVE ScriptMoves(p)
  BY <1>1, <1>7, OneFileReads DEF Cache!AverageCachePyReads, Cache!Goto, Goto
<1>8. ASSUME NEW p \in Sessions, Cache!AverageCachePyOpens(p) PROVE ScriptMoves(p)
  BY <1>1, <1>8, OneFileOpens DEF Cache!AverageCachePyOpens, Cache!Goto, Goto, Cache!Nothing, Nothing
<1>9. ASSUME NEW p \in Sessions, Cache!AverageCachePyWrites(p) PROVE ScriptMoves(p)
  BY <1>1, <1>9, OneFileWrites
  DEF Cache!AverageCachePyWrites, Cache!ScriptEnds, ScriptEnds, Cache!Returns, Returns, Cache!NoData, NoData,
      Cache!Mean, Mean
<1>10. ASSUME NEW p \in Sessions, Cache!AverageCachePyCutShort(p) PROVE ScriptMoves(p)
  BY <1>1, <1>10, OneFileQuiet
  DEF Cache!AverageCachePyCutShort, Cache!ScriptCutShort, ScriptCutShort, Cache!Returns, Returns
<1>11. ASSUME NEW p \in Sessions, Cache!PublishCache(p) PROVE ScriptMoves(p)
  <2>. DEFINE figure == IF res.kind = "mean" THEN res ELSE NoData
  <2>1. Publish(p, "read", figure) /\ UNCHANGED <<raw, res, local>>
    BY <1>11 DEF Cache!PublishCache, Cache!ReadAverageFromFile, Cache!Publish, Publish, Cache!NoData, NoData
  <2>2. figure \in Result /\ (res.kind # "mean" => figure = NoData)
    BY <1>1, ResultKinds, Results
  <2>. QED  BY <1>1, <2>1, <2>2, Kinds, OneFilePrints
<1>. QED
  BY <1>2, <1>3, <1>4, <1>5, <1>6, <1>7, <1>8, <1>9, <1>10, <1>11
  DEF Cache!Next, Cache!Sessions, Sessions, ScriptNext

LEMMA EthrIsScripted ==
    ASSUME RunInv, ScriptInv, wrapper = "ethr", wrapper' = wrapper, fn' = fn, Ethr!Next
    PROVE  ScriptNext
<1>. USE DEF Ethr!files
<1>1. OneFileWrapper  BY DEF OneFileWrapper, Scripted
<1>2. CASE Ethr!Launch("start") /\ UNCHANGED Ethr!files
  BY <1>2, OneFileStarts DEF Ethr!Launch, Launch, ScriptNext, Ethr!Busy, Busy, Ethr!Sessions, Sessions
<1>3. ASSUME NEW p \in Sessions, Ethr!Kill(p), UNCHANGED Ethr!files PROVE ScriptMoves(p)
  BY <1>1, <1>3, OneFileQuiet DEF Ethr!Kill, Kill
<1>4. ASSUME NEW p \in Sessions, Ethr!ClearFileContents(p) PROVE ScriptMoves(p)
  BY <1>1, <1>4, OneFileClears DEF Ethr!ClearFileContents, Ethr!Goto, Goto
<1>5. ASSUME NEW p \in Sessions, Ethr!RunEthrBenchmark(p) PROVE ScriptMoves(p)
  BY <1>1, <1>5, OneFileRuns
  DEF Ethr!RunEthrBenchmark, Ethr!Iterate, Iterate, Ethr!Measures, Measures, Ethr!Returns, Returns,
      Ethr!Current, Current
<1>6. ASSUME NEW p \in Sessions, Ethr!EndLoop(p) PROVE ScriptMoves(p)
  BY <1>1, <1>6, OneFileQuiet DEF Ethr!EndLoop, Ethr!LoopEnds, LoopEnds, Ethr!Goto, Goto
<1>7. ASSUME NEW p \in Sessions, Ethr!EthrAverageReads(p) PROVE ScriptMoves(p)
  BY <1>1, <1>7, OneFileReads
  DEF Ethr!EthrAverageReads, Ethr!Goto, Goto, Ethr!ScriptEnds, ScriptEnds, Ethr!Returns, Returns
<1>8. ASSUME NEW p \in Sessions, Ethr!EthrAverageOpens(p) PROVE ScriptMoves(p)
  BY <1>1, <1>8, OneFileOpens DEF Ethr!EthrAverageOpens, Ethr!Goto, Goto, Ethr!Nothing, Nothing
<1>9. ASSUME NEW p \in Sessions, Ethr!EthrAverageWrites(p) PROVE ScriptMoves(p)
  BY <1>1, <1>9, OneFileWrites
  DEF Ethr!EthrAverageWrites, Ethr!ScriptEnds, ScriptEnds, Ethr!Returns, Returns, Ethr!Mean, Mean
<1>10. ASSUME NEW p \in Sessions, Ethr!EthrAverageCutShort(p) PROVE ScriptMoves(p)
  BY <1>1, <1>10, OneFileQuiet
  DEF Ethr!EthrAverageCutShort, Ethr!ScriptCutShort, ScriptCutShort, Ethr!Returns, Returns
<1>11. ASSUME NEW p \in Sessions, Ethr!PublishBandwidth(p) PROVE ScriptMoves(p)
  <2>. DEFINE figure == IF res.kind = "mean" THEN res ELSE NoData
  <2>1. Publish(p, "read", figure) /\ UNCHANGED <<raw, res, local>>
    BY <1>11 DEF Ethr!PublishBandwidth, Ethr!ReadAverageBandwidth, Ethr!Publish, Publish, Ethr!NoData, NoData
  <2>2. figure \in Result /\ (res.kind # "mean" => figure = NoData)
    BY <1>1, ResultKinds, Results
  <2>. QED  BY <1>1, <2>1, <2>2, Kinds, OneFilePrints
<1>. QED
  BY <1>2, <1>3, <1>4, <1>5, <1>6, <1>7, <1>8, <1>9, <1>10, <1>11
  DEF Ethr!Next, Ethr!Sessions, Sessions, ScriptNext

LEMMA FioIsScripted ==
    ASSUME RunInv, ScriptInv, wrapper = "fio", wrapper' = wrapper, fn' = fn, Fio!Next
    PROVE  ScriptNext
<1>. USE DEF Fio!files
<1>1. OneFileWrapper  BY DEF OneFileWrapper, Scripted
<1>2. CASE Fio!Launch("start") /\ UNCHANGED Fio!files
  BY <1>2, OneFileStarts DEF Fio!Launch, Launch, ScriptNext, Fio!Busy, Busy, Fio!Sessions, Sessions
<1>3. ASSUME NEW p \in Sessions, Fio!Kill(p), UNCHANGED Fio!files PROVE ScriptMoves(p)
  BY <1>1, <1>3, OneFileQuiet DEF Fio!Kill, Kill
<1>4. ASSUME NEW p \in Sessions, Fio!ClearFile(p) PROVE ScriptMoves(p)
  BY <1>1, <1>4, OneFileClears DEF Fio!ClearFile, Fio!Goto, Goto
<1>5. ASSUME NEW p \in Sessions, Fio!ExecFio(p) PROVE ScriptMoves(p)
  BY <1>1, <1>5, OneFileRuns
  DEF Fio!ExecFio, Fio!Iterate, Iterate, Fio!Measures, Measures, Fio!Returns, Returns,
      Fio!Current, Current
<1>6. ASSUME NEW p \in Sessions, Fio!EndLoop(p) PROVE ScriptMoves(p)
  BY <1>1, <1>6, OneFileQuiet DEF Fio!EndLoop, Fio!LoopEnds, LoopEnds, Fio!Goto, Goto
<1>7. ASSUME NEW p \in Sessions, Fio!PhoronixFio1Reads(p) PROVE ScriptMoves(p)
  BY <1>1, <1>7, OneFileReads
  DEF Fio!PhoronixFio1Reads, Fio!Goto, Goto, Fio!ScriptEnds, ScriptEnds, Fio!Returns, Returns
<1>8. ASSUME NEW p \in Sessions, Fio!PhoronixFio1Opens(p) PROVE ScriptMoves(p)
  BY <1>1, <1>8, OneFileOpens DEF Fio!PhoronixFio1Opens, Fio!Goto, Goto, Fio!Nothing, Nothing
<1>9. ASSUME NEW p \in Sessions, Fio!PhoronixFio1Writes(p) PROVE ScriptMoves(p)
  BY <1>1, <1>9, OneFileWrites
  DEF Fio!PhoronixFio1Writes, Fio!ScriptEnds, ScriptEnds, Fio!Returns, Returns, Fio!Mean, Mean
<1>10. ASSUME NEW p \in Sessions, Fio!PhoronixFio1CutShort(p) PROVE ScriptMoves(p)
  BY <1>1, <1>10, OneFileQuiet
  DEF Fio!PhoronixFio1CutShort, Fio!ScriptCutShort, ScriptCutShort, Fio!Returns, Returns
<1>11. ASSUME NEW p \in Sessions, Fio!PublishFio(p) PROVE ScriptMoves(p)
  <2>. DEFINE figure == IF res.kind = "mean" THEN res ELSE NoData
  <2>1. Publish(p, "read", figure) /\ UNCHANGED <<raw, res, local>>
    BY <1>11 DEF Fio!PublishFio, Fio!ReadAverages, Fio!Publish, Publish, Fio!NoData, NoData
  <2>2. figure \in Result /\ (res.kind # "mean" => figure = NoData)
    BY <1>1, ResultKinds, Results
  <2>. QED  BY <1>1, <2>1, <2>2, Kinds, OneFilePrints
<1>. QED
  BY <1>2, <1>3, <1>4, <1>5, <1>6, <1>7, <1>8, <1>9, <1>10, <1>11
  DEF Fio!Next, Fio!Sessions, Sessions, ScriptNext

LEMMA CompileIsScripted ==
    ASSUME RunInv, ScriptInv, wrapper = "compile", wrapper' = wrapper, fn' = fn, Compile!Next
    PROVE  ScriptNext
<1>. USE DEF Compile!files
<1>1. OneFileWrapper  BY DEF OneFileWrapper, Scripted
<1>2. CASE Compile!Launch("start") /\ UNCHANGED Compile!files
  BY <1>2, OneFileStarts DEF Compile!Launch, Launch, ScriptNext, Compile!Busy, Busy, Compile!Sessions, Sessions
<1>3. ASSUME NEW p \in Sessions, Compile!Kill(p), UNCHANGED Compile!files PROVE ScriptMoves(p)
  BY <1>1, <1>3, OneFileQuiet DEF Compile!Kill, Kill
<1>4. ASSUME NEW p \in Sessions, Compile!ClearFile(p) PROVE ScriptMoves(p)
  BY <1>1, <1>4, OneFileClears DEF Compile!ClearFile, Compile!Goto, Goto
<1>5. ASSUME NEW p \in Sessions, Compile!RunCompilebench(p) PROVE ScriptMoves(p)
  BY <1>1, <1>5, OneFileRuns
  DEF Compile!RunCompilebench, Compile!Iterate, Iterate, Compile!Measures, Measures, Compile!Returns, Returns,
      Compile!Current, Current
<1>6. ASSUME NEW p \in Sessions, Compile!EndLoop(p) PROVE ScriptMoves(p)
  BY <1>1, <1>6, OneFileQuiet DEF Compile!EndLoop, Compile!LoopEnds, LoopEnds, Compile!Goto, Goto
<1>7. ASSUME NEW p \in Sessions, Compile!ResultFileFails(p) PROVE ScriptMoves(p)
  BY <1>1, <1>7, Results, OneFilePrints
  DEF Compile!ResultFileFails, Compile!Publish, Publish, Compile!Error, Error
<1>8. ASSUME NEW p \in Sessions, Compile!OverallAverage(p) PROVE ScriptMoves(p)
  BY <1>1, <1>8, OneFileReads DEF Compile!OverallAverage, Compile!Goto, Goto
<1>9. ASSUME NEW p \in Sessions, Compile!OpenOutput(p) PROVE ScriptMoves(p)
  BY <1>1, <1>9, OneFileOpens DEF Compile!OpenOutput, Compile!Goto, Goto, Compile!Nothing, Nothing
<1>10. ASSUME NEW p \in Sessions, Compile!WriteOutput(p) PROVE ScriptMoves(p)
  BY <1>1, <1>10, OneFileWrites DEF Compile!WriteOutput, Compile!Goto, Goto, Compile!Mean, Mean
<1>11. ASSUME NEW p \in Sessions, Compile!PublishCompile(p) PROVE ScriptMoves(p)
  <2>. DEFINE figure == Compile!ReadOutputFile
  <2>1. Publish(p, "read", figure) /\ UNCHANGED <<raw, res, local>>
    BY <1>11 DEF Compile!PublishCompile, Compile!Publish, Publish
  <2>2. /\ figure \in Result
        /\ res.kind = "mean" => figure = res
        /\ res.kind # "mean" => figure.kind # "mean"
    BY <1>1, ResultKinds, Results, Kinds
    DEF Compile!ReadOutputFile, Compile!Missing, Compile!Error, Error, Compile!Garbage, Garbage
  <2>. QED  BY <1>1, <2>1, <2>2, OneFilePrints
<1>. QED
  BY <1>2, <1>3, <1>4, <1>5, <1>6, <1>7, <1>8, <1>9, <1>10, <1>11
  DEF Compile!Next, Compile!Sessions, Sessions, ScriptNext

(* ramsmp: a pair of files for each of its functions.                      *)
LEMMA RamFiles ==
    ASSUME wrapper = "ramsmp", wrapper' = wrapper
    PROVE  /\ uses = fn /\ raws = raw /\ ress = res /\ uses' = fn' /\ raws' = raw' /\ ress' = res'
           /\ Files = {"INT", "FLOAT"} /\ N = FnIterations
           /\ {"idle", "start", "loop", "script", "open", "write", "read", "between"} \subseteq ScriptPlaces
           /\ \A p : Rewrites(p) <=> fn[p] = "INT"
BY DEF uses, raws, ress, Files, N, TwoFunctions, ScriptPlaces, Rewrites, Ram!Functions

LEMMA RamIsScripted ==
    ASSUME RunInv, ScriptInv, wrapper = "ramsmp", wrapper' = wrapper, Ram!Next
    PROVE  ScriptNext
<1>. USE DEF Ram!files
<1>1. /\ uses = fn /\ raws = raw /\ ress = res /\ uses' = fn' /\ raws' = raw' /\ ress' = res'
      /\ Files = {"INT", "FLOAT"} /\ N = FnIterations
      /\ {"idle", "start", "loop", "script", "open", "write", "read", "between"} \subseteq ScriptPlaces
      /\ \A p : Rewrites(p) <=> fn[p] = "INT"
  BY RamFiles
<1>2. /\ fn \in [Sessions -> {"INT", "FLOAT", "none"}]
      /\ raw \in [{"INT", "FLOAT"} -> Seq(Value)]
      /\ res \in [{"INT", "FLOAT"} -> FileResult]
      /\ local \in [Sessions -> Seq(Value)]
      /\ \A p \in Sessions : pc[p] # "idle" => fn[p] \in {"INT", "FLOAT"}
  BY <1>1 DEF ScriptInv, ScriptTypes, ScriptOK
<1>3. ASSUME NEW f \in {"INT", "FLOAT"}, Starts("start"), fn' = [fn EXCEPT ![session'] = f],
             UNCHANGED <<raw, res, local>>
      PROVE  ScriptStarts
  <2>1. session' \in Sessions
    <3>1. 1 \in Sessions  BY MaxSessionsAssumption DEF Sessions
    <3>. QED  BY <1>3, <3>1, StartsAlone
  <2>. QED  BY <1>1, <1>2, <1>3, <2>1 DEF ScriptStarts
<1>a. ASSUME NEW p \in Sessions, iter[p] < N PROVE iter[p] < Iterations
  <2>1. iter[p] \in Nat /\ N \in Nat /\ N <= Iterations /\ Iterations \in Nat
    BY Bounds, IterationsAssumption DEF RunInv, RunTypes
  <2>. QED  BY <1>a, <2>1
<1>4. CASE Ram!Main
  BY <1>3, <1>4
  DEF Ram!Main, Ram!Launch, Launch, Starts, ScriptNext, Ram!Busy, Busy, Ram!Sessions, Sessions
<1>5. ASSUME NEW p \in Sessions, Ram!StartFloat(p) PROVE ScriptStarts
  BY <1>3, <1>5
  DEF Ram!StartFloat, Ram!StartSecond, StartSecond, Starts, Ram!Busy, Busy, Ram!Sessions, Sessions
<1>6. ASSUME NEW p \in Sessions, UNCHANGED <<fn, raw, res, local>>,
             Kill(p) \/ Goto(p, "loop", "script") \/ ScriptCutShort(p)
      PROVE  ScriptMoves(p)
  <2>1. CASE Kill(p)
    BY <1>1, <1>6, <2>1, KillMoves DEF ScriptMoves, ScriptMove, ScriptQuiet
  <2>2. CASE Goto(p, "loop", "script")
    <3>1. Walks(p) /\ pc[p] = "loop" /\ pc'[p] = "script" /\ undone' = undone
      BY <2>2, GotoMoves DEF AllPlaces, Out, Early
    <3>. QED  BY <1>1, <1>6, <3>1 DEF ScriptMoves, ScriptMove, ScriptQuiet
  <2>3. CASE ScriptCutShort(p)
    BY <1>1, <1>6, <2>3, CutShortMoves DEF ScriptMoves, ScriptMove, ScriptQuiet
  <2>. QED  BY <1>6, <2>1, <2>2, <2>3
<1>7. ASSUME NEW p \in Sessions, Ram!Kill(p), UNCHANGED <<fn, Ram!files>> PROVE ScriptMoves(p)
  BY <1>6, <1>7 DEF Ram!Kill, Kill
<1>8. ASSUME NEW p \in Sessions, Ram!ClearFile(p) PROVE ScriptMoves(p)
  <2>1. Goto(p, "start", "loop") /\ raw' = [raw EXCEPT ![fn[p]] = << >>] /\ UNCHANGED <<fn, res, local>>
    BY <1>8 DEF Ram!ClearFile, Ram!Goto, Goto
  <2>2. Walks(p) /\ pc[p] = "start" /\ pc'[p] = "loop" /\ undone' = undone
    BY <2>1, GotoMoves DEF AllPlaces, Out, Early
  <2>. QED  BY <1>1, <2>1, <2>2 DEF ScriptMoves, ScriptMove, ScriptClears
<1>9. ASSUME NEW p \in Sessions, Ram!RunRamsmp(p) PROVE ScriptMoves(p)
  <2>1. PICK ok \in BOOLEAN :
           /\ Iterate(p, ok) /\ iter[p] < N
           /\ raw' = IF ok THEN [raw EXCEPT ![fn[p]] = Append(@, Current(p))] ELSE raw
    BY <1>1, <1>2, <1>9, <1>a
    DEF Ram!RunRamsmp, Ram!Iterate, Iterate, Ram!Measures, Measures, Ram!Returns, Returns,
        Ram!Current, Current
  <2>3. /\ Works(p) /\ pc[p] = "loop" /\ pc'[p] \in {"loop", "idle"}
        /\ samples' = IF ok THEN [samples EXCEPT ![p] = Append(@, Current(p))] ELSE samples
    BY <2>1, IterateMoves
  <2>4. UNCHANGED <<fn, res, local>>
    BY <1>9 DEF Ram!RunRamsmp
  <2>5. \/ samples' = samples /\ raw' = raw
        \/ /\ samples' = [samples EXCEPT ![p] = Append(@, Current(p))]
           /\ raw' = [raw EXCEPT ![fn[p]] = Append(@, Current(p))]
    BY <2>1, <2>3
  <2>. QED  BY <1>1, <2>3, <2>4, <2>5 DEF ScriptMoves, ScriptMove, ScriptRuns
<1>10. ASSUME NEW p \in Sessions, Ram!EndLoop(p) PROVE ScriptMoves(p)
  BY <1>6, <1>10 DEF Ram!EndLoop, Ram!LoopEnds, Ram!Goto, Goto
<1>11. ASSUME NEW p \in Sessions, Ram!AveragePyReads(p) \/ Ram!AvgPyReads(p) PROVE ScriptMoves(p)
  <2>1. /\ \/ Goto(p, "script", "open")
           \/ ScriptEnds(p, "script") /\ raw[fn[p]] = << >> /\ fn[p] = "FLOAT"
        /\ local' = [local EXCEPT ![p] = raw[fn[p]]] /\ UNCHANGED <<fn, raw, res>>
    BY <1>11
    DEF Ram!AveragePyReads, Ram!AvgPyReads, Ram!Goto, Goto, Ram!ScriptEnds, ScriptEnds,
        Ram!Returns, Returns
  <2>2. /\ Walks(p) /\ pc[p] = "script" /\ undone' = undone
        /\ \/ pc'[p] = "open"
           \/ pc'[p] \in {"read", "idle"} /\ raw[fn[p]] = << >> /\ fn[p] # "INT"
    BY <2>1, GotoMoves, EndsMoves DEF AllPlaces, Out, Early
  <2>. QED  BY <1>1, <2>1, <2>2 DEF ScriptMoves, ScriptMove, ScriptReads
<1>12. ASSUME NEW p \in Sessions, Ram!ScriptOpens(p) PROVE ScriptMoves(p)
  <2>1. Goto(p, "open", "write") /\ res' = [res EXCEPT ![fn[p]] = Nothing] /\ UNCHANGED <<fn, raw, local>>
    BY <1>12 DEF Ram!ScriptOpens, Ram!Goto, Goto, Ram!Nothing, Nothing
  <2>2. Walks(p) /\ pc[p] = "open" /\ pc'[p] = "write" /\ undone' = undone
    BY <2>1, GotoMoves DEF AllPlaces, Out, Early
  <2>. QED  BY <1>1, <2>1, <2>2 DEF ScriptMoves, ScriptMove, ScriptOpens
<1>13. ASSUME NEW p \in Sessions, Ram!ScriptWrites(p) PROVE ScriptMoves(p)
  <2>. DEFINE figure == IF local[p] = << >> THEN NoData ELSE Mean(local[p])
  <2>1. /\ ScriptEnds(p, "write") /\ res' = [res EXCEPT ![fn[p]] = figure]
        /\ local' = [local EXCEPT ![p] = << >>] /\ UNCHANGED <<fn, raw>>
    BY <1>13
    DEF Ram!ScriptWrites, Ram!ScriptEnds, ScriptEnds, Ram!Returns, Returns, Ram!NoData, NoData,
        Ram!Mean, Mean
  <2>2. Walks(p) /\ pc[p] = "write" /\ pc'[p] \in {"read", "idle"} /\ undone' = undone
    BY <2>1, EndsMoves DEF Out
  <2>. QED  BY <1>1, <2>1, <2>2 DEF ScriptMoves, ScriptMove, ScriptWrites
<1>14. ASSUME NEW p \in Sessions, Ram!ScriptFails(p) PROVE ScriptMoves(p)
  BY <1>6, <1>14 DEF Ram!ScriptFails, Ram!ScriptCutShort, ScriptCutShort, Ram!Returns, Returns
<1>15. ASSUME NEW p \in Sessions, NEW figure \in Result, UNCHANGED <<fn, raw, res, local>>,
              Publish(p, "read", figure) \/ PublishFirst(p, "read", figure),
              res[fn[p]].kind = "mean" => figure = res[fn[p]],
              res[fn[p]].kind # "mean" => figure.kind # "mean",
              fn[p] = "INT" /\ res[fn[p]] = NoData => figure = NoData
       PROVE  ScriptMoves(p)
  <2>1. Prints(p) /\ pc[p] = "read" /\ pc'[p] \in Out /\ row'[p] = figure
    BY <1>15, PublishMoves DEF Out
  <2>2. pc'[p] \in ScriptPlaces  BY <1>1, <2>1 DEF Out
  <2>. QED  BY <1>1, <1>15, <2>1, <2>2 DEF ScriptMoves, ScriptMove, ScriptPrints
<1>16. ASSUME NEW p \in Sessions, pc[p] # "idle"
       PROVE  res[fn[p]] \in Result
  BY <1>2, <1>16 DEF FileResult
<1>17. ASSUME NEW p \in Sessions, Ram!PublishInt(p) PROVE ScriptMoves(p)
  <2>. DEFINE figure == IF res["INT"] = Nothing THEN NoData ELSE res["INT"]
  <2>1. /\ fn[p] = "INT" /\ res["INT"].kind # "nodata" /\ pc[p] = "read"
        /\ PublishFirst(p, "read", figure) /\ UNCHANGED <<fn, raw, res, local>>
    BY <1>17
    DEF Ram!PublishInt, Ram!PublishFirst, PublishFirst, Ram!NoData, NoData, Ram!Nothing, Nothing
  <2>. QED  BY <1>15, <1>16, <2>1, Kinds, Results
<1>18. ASSUME NEW p \in Sessions, Ram!AbortInt(p) PROVE ScriptMoves(p)
  BY <1>6, <1>18 DEF Ram!AbortInt, Ram!Goto, Kill
<1>19. ASSUME NEW p \in Sessions, Ram!PublishFloat(p) PROVE ScriptMoves(p)
  <2>. DEFINE figure == IF res["FLOAT"].kind = "mean" THEN res["FLOAT"] ELSE NoData
  <2>1. /\ fn[p] = "FLOAT" /\ pc[p] = "read"
        /\ Publish(p, "read", figure) /\ UNCHANGED <<fn, raw, res, local>>
    BY <1>19 DEF Ram!PublishFloat, Ram!Publish, Publish, Ram!NoData, NoData
  <2>. QED  BY <1>15, <1>16, <2>1, Kinds, Results
<1>. QED
  BY <1>4, <1>5, <1>7, <1>8, <1>9, <1>10, <1>11, <1>12, <1>13, <1>14, <1>17, <1>18, <1>19
  DEF Ram!Next, Ram!Sessions, Sessions, ScriptNext

(***************************************************************************)
(* The wrappers that read their one file themselves                        *)
(***************************************************************************)
Reading == {"iperf", "blake", "unigine", "cray"}

(* Where a session has emptied the file and may still use it.              *)
Holding ==
    IF wrapper = "cray" THEN {"render", "parse"} ELSE {"loop", "parse", "teardown", "read"}

FileOK(p) ==
    pc[p] \in Holding =>
        /\ InSpell(raw, spell[p])
        /\ Alone(p) => raw = samples[p]

FileInv == raw \in Seq(Value) /\ \A p \in Sessions : FileOK(p)

FileKept(p) ==
    /\ UNCHANGED <<raw, samples>>
    /\ pc'[p] \in Holding => pc[p] \in Holding

FileCleared(p) ==
    /\ raw' = << >> /\ samples' = samples
    /\ samples[p] = << >>

FileFilled(p) ==
    /\ Works(p) /\ pc[p] \in Holding
    /\ \/ UNCHANGED <<raw, samples>>
       \/ /\ samples' = [samples EXCEPT ![p] = Append(@, Current(p))]
          /\ \/ raw' = Append(raw, Current(p))
             \/ samples[p] = << >> /\ raw' = <<Current(p)>>

FileMove(p) == RunMove(p) /\ (FileKept(p) \/ FileCleared(p) \/ FileFilled(p))

(* What a value of p adds to the values of its spell.                      *)
LEMMA SpellGrows ==
    ASSUME RunInv, NEW p \in Sessions, RunMove(p), Works(p), NEW s \in Seq(Value)
    PROVE  /\ Current(p) \in Value
           /\ Append(s, Current(p)) \in Seq(Value)
           /\ InSpell(s, spell[p]) => InSpell(Append(s, Current(p)), spell[p])
           /\ <<Current(p)>> = Append(<< >>, Current(p)) /\ << >> \in Seq(Value)
           /\ InSpell(<< >>, spell[p])
<1>1. Current(p) \in Value /\ Current(p)[1] = p
  BY CurrentValue DEF Works
<1>2. p \in 1..session  BY OthersStay, Bounds DEF RunInv, RunTypes
<1>3. /\ Append(s, Current(p)) \in Seq(Value)
      /\ Len(Append(s, Current(p))) = Len(s) + 1
      /\ Append(s, Current(p))[Len(s) + 1] = Current(p)
      /\ \A i \in 1..Len(s) : Append(s, Current(p))[i] = s[i]
      /\ Len(s) \in Nat
  BY <1>1, Appended
<1>4. ASSUME InSpell(s, spell[p]), NEW i \in 1..(Len(s) + 1)
      PROVE  /\ Append(s, Current(p))[i][1] \in 1..session
             /\ spell[Append(s, Current(p))[i][1]] = spell[p]
  <2>1. i \in 1..Len(s) \/ i = Len(s) + 1  BY <1>3
  <2>. QED  BY <1>1, <1>2, <1>3, <1>4, <2>1 DEF InSpell, OfSpell
<1>5. InSpell(s, spell[p]) => InSpell(Append(s, Current(p)), spell[p])
  BY <1>3, <1>4 DEF InSpell, OfSpell
<1>6. <<Current(p)>> = Append(<< >>, Current(p)) /\ InSpell(<< >>, spell[p])
  BY DEF InSpell, OfSpell
<1>. QED  BY <1>1, <1>3, <1>5, <1>6, Results

LEMMA FileMoveInv ==
    ASSUME RunInv, FileInv, NEW p \in Sessions, FileMove(p)
    PROVE  FileInv'
<1>1. /\ pc[p] # "idle" /\ RunMove(p)
      /\ UNCHANGED <<wrapper, session, spell, Value, Holding>>
      /\ samples[p] \in Seq(Value) /\ raw \in Seq(Value)
  BY OthersStay, SameTypes DEF FileMove, FileInv, RunInv, RunTypes, Holding
<1>2. \A s, n : InSpell(s, n) => InSpell(s, n)'
  BY <1>1, SpellsStay
<1>3. /\ raw' \in Seq(Value)
      /\ InSpell(raw, spell[p]) => OfSpell(raw', spell[p], session, spell)
      /\ pc'[p] \in Holding => pc[p] \in Holding \/ raw' = << >>
      /\ (pc[p] \in Holding /\ raw = samples[p]) \/ (raw' = << >> /\ samples'[p] = << >>)
            => raw' = samples'[p] \/ pc'[p] \notin Holding
  <2>1. CASE FileKept(p)
    BY <1>1, <2>1 DEF FileKept, InSpell
  <2>2. CASE FileCleared(p)
    BY <1>1, <2>2, Results DEF FileCleared, InSpell, OfSpell
  <2>3. CASE FileFilled(p) /\ UNCHANGED <<raw, samples>>
    BY <1>1, <2>3 DEF FileFilled, InSpell
  <2>4. CASE FileFilled(p) /\ samples' = [samples EXCEPT ![p] = Append(@, Current(p))]
    <3>1. samples'[p] = Append(samples[p], Current(p)) /\ pc[p] \in Holding
      BY <1>1, <2>4 DEF RunInv, RunTypes, FileFilled
    <3>2. /\ \A s \in Seq(Value) :
                /\ Append(s, Current(p)) \in Seq(Value)
                /\ InSpell(s, spell[p]) => InSpell(Append(s, Current(p)), spell[p])
          /\ <<Current(p)>> = Append(<< >>, Current(p)) /\ << >> \in Seq(Value)
          /\ InSpell(<< >>, spell[p])
      BY <1>1, <2>4, SpellGrows, Results DEF FileFilled
    <3>3. CASE raw' = Append(raw, Current(p))
      BY <1>1, <3>1, <3>2, <3>3, Appended DEF InSpell
    <3>4. CASE samples[p] = << >> /\ raw' = <<Current(p)>>
      BY <1>1, <3>1, <3>2, <3>4 DEF InSpell
    <3>5. CASE UNCHANGED <<raw, samples>>
      BY <1>1, <2>4, <2>3, <3>5
    <3>. QED  BY <2>4, <3>3, <3>4, <3>5 DEF FileFilled
  <2>. QED  BY <2>1, <2>2, <2>3, <2>4 DEF FileMove, FileFilled
<1>4. ASSUME NEW q \in Sessions, q # p PROVE FileOK(q)'
  <2>1. pc'[q] = pc[q] /\ samples'[q] = samples[q]  BY <1>1, <1>4, OthersStay
  <2>2. CASE pc[q] \notin Holding
    BY <1>1, <2>1, <2>2 DEF FileOK
  <2>3. CASE pc[q] \in Holding
    <3>1. pc[q] # "idle"  BY <2>3 DEF Holding
    <3>2. ~Alone(q) /\ spell[q] = spell[p]
      <4>1. ~Alone(q)  BY <1>1, <1>4, <3>1, AloneIsAlone
      <4>2. q <= session  BY <3>1, Bounds DEF RunInv, RunTypes, RunOK, Unborn
      <4>3. spell[q] = spell[session]  BY <3>1, <4>2 DEF RunInv, RunOK
      <4>. QED  BY <1>1, <4>1, <4>3, OthersStay
    <3>3. InSpell(raw, spell[p])  BY <2>3, <3>2 DEF FileInv, FileOK
    <3>. QED  BY <1>1, <1>3, <3>2, <3>3 DEF FileOK, InSpell, Alone
  <2>. QED  BY <2>2, <2>3
<1>5. FileOK(p)'
  <2>1. FileOK(p) /\ Alone(p)' = Alone(p)  BY <1>1 DEF FileInv, Alone
  <2>2. CASE pc'[p] \in Holding /\ pc[p] \in Holding
    BY <1>1, <1>3, <2>1, <2>2 DEF FileOK, InSpell
  <2>3. CASE pc'[p] \in Holding /\ pc[p] \notin Holding
    <3>1. FileCleared(p)
      BY <1>1, <2>3 DEF FileMove, FileKept, FileFilled
    <3>2. raw' = << >> /\ samples'[p] = << >>  BY <3>1 DEF FileCleared
    <3>3. InSpell(raw, spell[p])'  BY <3>2 DEF InSpell, OfSpell
    <3>. QED  BY <1>1, <3>2, <3>3 DEF FileOK
  <2>4. CASE pc'[p] \notin Holding
    BY <1>1, <2>4 DEF FileOK
  <2>. QED  BY <2>2, <2>3, <2>4
<1>. QED  BY <1>1, <1>3, <1>4, <1>5 DEF FileInv

LEMMA FileStartsInv ==
    ASSUME RunInv, FileInv, NEW first, Starts(first), first \notin Holding, UNCHANGED raw
    PROVE  FileInv'
<1>1. /\ UNCHANGED <<wrapper, samples, Value, Holding>>
      /\ \A s, n : InSpell(s, n) => InSpell(s, n)'
  <2>1. 1 \in Sessions  BY MaxSessionsAssumption DEF Sessions
  <2>2. UNCHANGED <<wrapper, samples>>  BY <2>1, StartsAlone
  <2>. QED  BY <2>2, SameTypes, SpellsStay DEF Holding
<1>2. ASSUME NEW q \in Sessions PROVE FileOK(q)'
  <2>1. CASE q = session'
    <3>1. pc'[q] \notin Holding  BY <2>1, StartsAlone
    <3>. QED  BY <1>1, <3>1 DEF FileOK
  <2>2. CASE q # session'
    <3>1. /\ pc'[q] = pc[q] \/ pc'[q] = "idle"
          /\ spell'[q] = spell[q]
          /\ pc[q] # "idle" => q <= session
      BY <2>2, StartsAlone, Bounds DEF Unborn, RunInv, RunTypes
    <3>2. pc'[q] \in Holding => pc[q] \in Holding /\ q <= session
      BY <1>1, <3>1 DEF Holding
    <3>3. pc[q] \in Holding => InSpell(raw, spell[q])'
      BY <1>1, <3>1 DEF FileInv, FileOK, InSpell
    <3>. QED  BY <1>1, <3>1, <3>2, <3>3, StartsAlone DEF FileInv, FileOK, InSpell
  <2>. QED  BY <2>1, <2>2
<1>. QED  BY <1>1, <1>2 DEF FileInv

(* A figure that is what Measurement asks of p.                            *)
Whole(p, figure) ==
    \/ figure = Error
    \/ samples[p] # << >> /\ figure = Mean(samples[p])
    \/ samples[p] = << >> /\ figure = NoData

LEMMA WholeKept ==
    ASSUME NEW p \in Sessions, row'[p] \in Result,
           row'[p].kind = "mean" => \E n : InSpell(row'[p].of, n),
           Alone(p) => Whole(p, row'[p])
    PROVE  RowKept(p)
<1>1. ASSUME row'[p].kind = "mean" PROVE OneSpell(row'[p].of)
  <2>1. row'[p].of \in Seq(Value)  BY Results
  <2>2. DOMAIN row'[p].of = 1..Len(row'[p].of)  BY <2>1, LenProperties
  <2>. QED  BY <1>1, <2>2 DEF InSpell, OfSpell, OneSpell
<1>. QED  BY <1>1 DEF RowKept, Whole

(* The mean of what the file holds.                                        *)
LEMMA WholeFile ==
    ASSUME FileInv, NEW p \in Sessions, pc[p] \in Holding
    PROVE  LET figure == IF raw = << >> THEN NoData ELSE Mean(raw)
           IN  /\ figure \in Result
               /\ figure.kind = "mean" => InSpell(figure.of, spell[p])
               /\ Alone(p) => Whole(p, figure)
<1>1. raw \in Seq(Value) /\ FileOK(p)  BY DEF FileInv
<1>2. CASE raw = << >>
  BY <1>1, <1>2, Results, Kinds DEF FileOK, Whole
<1>3. CASE raw # << >>
  BY <1>1, <1>3, Results, Kinds DEF FileOK, Whole
<1>. QED  BY <1>2, <1>3

(***************************************************************************)
(* iperf and c-ray: a user counter set in every iteration                  *)
(***************************************************************************)
CounterOK(p) ==
    /\ local[p].kind = "mean" => iter[p] > 0 /\ InSpell(local[p].of, spell[p])
    /\ pc[p] \in {"teardown", "return"} => iter[p] = N
    /\ pc[p] = "parse" => iter[p] < N
    /\ Alone(p) /\ pc[p] \in {"loop", "teardown", "return"} /\ iter[p] > 0 => Whole(p, local[p])

CounterInv == local \in [Sessions -> Result] /\ \A p \in Sessions : CounterOK(p)

CounterKept(p) ==
    /\ UNCHANGED <<local, iter>>
    /\ \/ pc'[p] \in {"idle", "render"}
       \/ pc[p] = "start" /\ pc'[p] = "loop"
       \/ iter[p] < N /\ pc'[p] = "parse"
       \/ /\ pc[p] = "loop" /\ pc'[p] \in {"teardown", "return"}
          /\ iter[p] = N /\ samples' = samples

CounterSet(p) ==
    /\ iter[p] < N /\ iter' = [iter EXCEPT ![p] = @ + 1] /\ samples' = samples
    /\ pc'[p] \in {"idle", "loop"}
    /\ \E figure \in Result :
          /\ local' = [local EXCEPT ![p] = figure]
          /\ figure.kind = "mean" => InSpell(figure.of, spell[p])
          /\ Alone(p) => Whole(p, figure)

LEMMA CounterMoveInv ==
    ASSUME RunInv, CounterInv, NEW p \in Sessions, RunMove(p), CounterKept(p) \/ CounterSet(p)
    PROVE  CounterInv'
<1>1. /\ UNCHANGED <<wrapper, session, spell, N, Result>>
      /\ \A s, n : InSpell(s, n) => InSpell(s, n)'
      /\ iter[p] \in 0..N /\ N \in Nat \ {0}
  BY OthersStay, SameTypes, SpellsStay, Bounds DEF RunInv, RunTypes
<1>2. /\ local' \in [Sessions -> Result]
      /\ \A q \in Sessions : q # p => local'[q] = local[q]
  BY <1>1 DEF CounterInv, CounterKept, CounterSet
<1>3. ASSUME NEW q \in Sessions, q # p PROVE CounterOK(q)'
  <2>1. /\ pc'[q] = pc[q] /\ samples'[q] = samples[q] /\ iter'[q] = iter[q]
        /\ CounterOK(q) /\ Alone(q)' = Alone(q)
    BY <1>1, <1>3, OthersStay DEF CounterInv, Alone
  <2>2. InSpell(local[q].of, spell[q]) => InSpell(local[q].of, spell[q])'
    BY <1>1, <1>2, <1>3 DEF InSpell
  <2>3. Whole(q, local[q]) = Whole(q, local[q])'
    BY <1>2, <1>3, <2>1 DEF Whole
  <2>. QED  BY <1>1, <1>2, <1>3, <2>1, <2>2, <2>3 DEF CounterOK
<1>4. CounterOK(p)'
  <2>1. CounterOK(p) /\ Alone(p)' = Alone(p)  BY <1>1 DEF CounterInv, Alone
  <2>2. CASE CounterKept(p)
    <3>1. InSpell(local[p].of, spell[p]) => InSpell(local[p].of, spell[p])'
      BY <1>1, <2>2 DEF InSpell, CounterKept
    <3>2. CASE pc[p] = "start" /\ pc'[p] = "loop"
      <4>1. iter'[p] = 0 BY <2>2, <3>2 DEF RunInv, RunOK, CounterKept
      <4>. QED  BY <1>1, <2>1, <2>2, <3>1, <3>2, <4>1 DEF CounterOK, CounterKept
    <3>3. CASE pc'[p] \in {"idle", "render"} \/ (iter[p] < N /\ pc'[p] = "parse")
      BY <1>1, <2>1, <2>2, <3>1, <3>3 DEF CounterOK, CounterKept
    <3>4. CASE /\ pc[p] = "loop" /\ pc'[p] \in {"teardown", "return"}
               /\ iter[p] = N /\ samples' = samples
      BY <1>1, <2>1, <2>2, <3>1, <3>4 DEF CounterOK, CounterKept, Whole
    <3>. QED  BY <2>2, <3>2, <3>3, <3>4 DEF CounterKept
  <2>3. CASE CounterSet(p)
    <3>1. PICK figure \in Result :
            /\ local' = [local EXCEPT ![p] = figure]
            /\ figure.kind = "mean" => InSpell(figure.of, spell[p])
            /\ Alone(p) => Whole(p, figure)
      BY <2>3 DEF CounterSet
    <3>2. local'[p] = figure /\ iter'[p] = iter[p] + 1
      BY <2>3, <3>1 DEF CounterInv, CounterSet, RunInv, RunTypes
    <3>3. figure.kind = "mean" => InSpell(local[p].of, spell[p])'
      BY <1>1, <3>1, <3>2 DEF InSpell
    <3>4. Alone(p) => Whole(p, local[p])'
      BY <2>3, <3>1, <3>2 DEF Whole, CounterSet
    <3>. QED  BY <1>1, <2>1, <2>3, <3>2, <3>3, <3>4 DEF CounterOK, CounterSet
  <2>. QED  BY <2>2, <2>3
<1>. QED  BY <1>1, <1>2, <1>3, <1>4 DEF CounterInv

LEMMA CounterStartsInv ==
    ASSUME RunInv, CounterInv, NEW first, Starts(first), UNCHANGED local
    PROVE  CounterInv'
<1>1. /\ UNCHANGED <<wrapper, samples, iter, N, Result>>
      /\ \A s, n : InSpell(s, n) => InSpell(s, n)'
      /\ first \in {"start", "loop"}
  <2>1. 1 \in Sessions  BY MaxSessionsAssumption DEF Sessions
  <2>2. UNCHANGED <<wrapper, samples, iter>>  BY <2>1, StartsAlone
  <2>. QED  BY <2>2, SameTypes, SpellsStay DEF Starts
<1>2. ASSUME NEW q \in Sessions PROVE CounterOK(q)'
  <2>1. CounterOK(q)  BY DEF CounterInv
  <2>2. CASE q > session
    <3>1. iter[q] = 0 /\ (pc'[q] \in {"start", "loop", "idle"})
      BY <1>1, <2>2, StartsAlone DEF Unborn
    <3>. QED  BY <1>1, <2>1, <3>1 DEF CounterOK
  <2>3. CASE q <= session
    <3>1. /\ pc'[q] = pc[q] \/ pc'[q] = "idle"
          /\ spell'[q] = spell[q] /\ (Alone(q)' => Alone(q))
      BY <2>3, StartsAlone, Bounds
    <3>2. InSpell(local[q].of, spell[q]) => InSpell(local[q].of, spell[q])'
      BY <1>1, <3>1 DEF InSpell
    <3>. QED  BY <1>1, <2>1, <3>1, <3>2 DEF CounterOK, Whole
  <2>4. session \in Nat  BY StartsAlone
  <2>. QED  BY <2>2, <2>3, <2>4, Bounds
<1>. QED  BY <1>1, <1>2 DEF CounterInv

LEMMA CounterPrinted ==
    ASSUME RunInv, CounterInv, NEW p \in Sessions, pc[p] \in {"teardown", "return"},
           row'[p] = local[p]
    PROVE  RowKept(p)
<1>1. CounterOK(p) /\ local[p] \in Result /\ iter[p] > 0
  BY Bounds DEF CounterInv, CounterOK
<1>. QED  BY <1>1, WholeKept DEF CounterOK

(* A step that Measurement allows, whatever is mapped.                     *)
Kept == \/ \E first : Starts(first)
        \/ \E p \in Sessions : RunMove(p) /\ (Prints(p) => RowKept(p))

LEMMA IperfStep ==
    ASSUME RunInv, FileInv, CounterInv, wrapper = "iperf", wrapper' = wrapper, Iperf!Next
    PROVE  FileInv' /\ CounterInv' /\ Kept
<1>. DEFINE Own(p) == FileMove(p) /\ (CounterKept(p) \/ CounterSet(p)) /\ (Prints(p) => RowKept(p))
<1>1. N = Iterations /\ Holding = {"loop", "parse", "teardown", "read"}
  BY DEF N, TwoFunctions, Holding
<1>2. CASE Iperf!Launch("start") /\ UNCHANGED <<raw, local>>
  <2>1. Starts("start") /\ UNCHANGED <<raw, local>>
    BY <1>2 DEF Iperf!Launch, Launch, Starts, Iperf!Busy, Busy, Iperf!Sessions, Sessions
  <2>. QED  BY <1>1, <2>1, FileStartsInv, CounterStartsInv DEF Kept
<1>3. ASSUME NEW p \in Sessions, Iperf!Kill(p), UNCHANGED <<raw, local>> PROVE Own(p)
  <2>1. Walks(p) /\ pc'[p] = "idle" /\ undone' = undone
    BY <1>3, KillMoves DEF Iperf!Kill, Kill
  <2>. QED  BY <1>1, <1>3, <2>1 DEF RunMove, Walks, FileMove, FileKept, CounterKept, RowKept
<1>4. ASSUME NEW p \in Sessions, Iperf!SetUp(p) PROVE Own(p)
  <2>1. Goto(p, "start", "loop") /\ raw' = << >> /\ UNCHANGED local
    BY <1>4 DEF Iperf!SetUp, Iperf!Goto, Goto
  <2>2. Walks(p) /\ pc[p] = "start" /\ pc'[p] = "loop"
    BY <2>1, GotoMoves DEF AllPlaces, Out, Early
  <2>3. samples[p] = << >>  BY <2>2 DEF RunInv, RunOK
  <2>. QED  BY <2>1, <2>2, <2>3 DEF RunMove, Walks, FileMove, FileCleared, CounterKept, RowKept
<1>5. ASSUME NEW p \in Sessions, Iperf!RunIperfClient(p) PROVE Own(p)
  <2>1. PICK ok \in BOOLEAN :
           /\ Produce(p, "loop", ok, "parse")
           /\ raw' = IF ok THEN Append(raw, Current(p)) ELSE raw
    BY <1>5
    DEF Iperf!RunIperfClient, Iperf!Produce, Produce, Iperf!Measures, Measures, Iperf!Returns,
        Returns, Iperf!Current, Current
  <2>2. iter[p] < N /\ local' = local
    BY <1>1, <1>5, <2>1 DEF Produce, Iperf!RunIperfClient
  <2>3. /\ Works(p) /\ pc[p] = "loop" /\ pc'[p] \in {"parse", "idle"} /\ iter' = iter
        /\ samples' = IF ok THEN [samples EXCEPT ![p] = Append(@, Current(p))] ELSE samples
    BY <2>1, <2>2, ProduceMoves DEF AllPlaces, Early
  <2>4. FileFilled(p)  BY <1>1, <2>1, <2>3 DEF FileFilled
  <2>5. RowKept(p)  BY <2>3 DEF Works, RowKept
  <2>6. CounterKept(p)  BY <2>2, <2>3 DEF CounterKept
  <2>. QED  BY <2>3, <2>4, <2>5, <2>6 DEF RunMove, FileMove
<1>6. ASSUME NEW p \in Sessions, Iperf!SetCounters(p) PROVE Own(p)
  <2>. DEFINE figure == IF raw = << >> THEN NoData ELSE Mean(raw)
  <2>1. NextIteration(p, "parse") /\ local' = [local EXCEPT ![p] = figure] /\ UNCHANGED raw
    BY <1>6
    DEF Iperf!SetCounters, Iperf!NextIteration, NextIteration, Iperf!ParseAverageBitrate,
        Iperf!NoData, NoData, Iperf!Mean, Mean
  <2>2. pc[p] = "parse" /\ pc[p] \in Holding  BY <1>1, <2>1 DEF NextIteration
  <2>3. iter[p] < N  BY <2>2 DEF CounterInv, CounterOK
  <2>4. Iterates(p) /\ pc'[p] = "loop"  BY <2>1, <2>3, NextMoves DEF Out
  <2>5. /\ figure \in Result
        /\ figure.kind = "mean" => InSpell(figure.of, spell[p])
        /\ Alone(p) => Whole(p, figure)
    BY <2>2, WholeFile
  <2>6. CounterSet(p)  BY <2>1, <2>3, <2>4, <2>5 DEF CounterSet, Iterates
  <2>7. FileKept(p) /\ RowKept(p)  BY <2>1, <2>2, <2>4 DEF FileKept, Iterates, RowKept
  <2>. QED  BY <2>4, <2>6, <2>7 DEF RunMove, FileMove
<1>7. ASSUME NEW p \in Sessions, Iperf!EndLoop(p) PROVE Own(p)
  <2>1. Goto(p, "loop", "teardown") /\ iter[p] = N /\ UNCHANGED <<raw, local>>
    BY <1>1, <1>7 DEF Iperf!EndLoop, Iperf!LoopEnds, Iperf!Goto, Goto
  <2>2. Walks(p) /\ pc[p] = "loop" /\ pc'[p] = "teardown"
    BY <2>1, GotoMoves DEF AllPlaces, Out, Early
  <2>. QED  BY <1>1, <2>1, <2>2 DEF RunMove, Walks, FileMove, FileKept, CounterKept, RowKept
<1>8. ASSUME NEW p \in Sessions, Iperf!PublishBitrates(p) PROVE Own(p)
  <2>1. Publish(p, "teardown", local[p]) /\ UNCHANGED <<raw, local>> /\ local[p] \in Result
    BY <1>8 DEF Iperf!PublishBitrates, Iperf!Publish, Publish, CounterInv
  <2>2. Prints(p) /\ pc[p] = "teardown" /\ pc'[p] = "idle" /\ row'[p] = local[p]
    BY <2>1, PublishMoves DEF Out
  <2>3. RowKept(p)  BY <2>2, CounterPrinted
  <2>. QED  BY <1>1, <2>1, <2>2, <2>3 DEF RunMove, Prints, FileMove, FileKept, CounterKept
<1>9. ASSUME NEW p \in Sessions, Own(p) PROVE FileInv' /\ CounterInv' /\ Kept
  <2>1. RunMove(p)  BY <1>9 DEF FileMove
  <2>. QED  BY <1>9, <2>1, FileMoveInv, CounterMoveInv DEF Kept
<1>. QED
  BY <1>2, <1>3, <1>4, <1>5, <1>6, <1>7, <1>8, <1>9 DEF Iperf!Next, Iperf!Sessions, Sessions

(***************************************************************************)
(* BLAKE2                                                                  *)
(***************************************************************************)
LEMMA BlakeStep ==
    ASSUME RunInv, FileInv, wrapper = "blake", wrapper' = wrapper, Blake!Next
    PROVE  FileInv' /\ Kept
<1>. DEFINE Own(p) == FileMove(p) /\ (Prints(p) => RowKept(p))
<1>1. N = Iterations /\ Holding = {"loop", "parse", "teardown", "read"}
  BY DEF N, TwoFunctions, Holding
<1>2. CASE Blake!Launch("start") /\ UNCHANGED raw
  <2>1. Starts("start") /\ UNCHANGED raw
    BY <1>2 DEF Blake!Launch, Launch, Starts, Blake!Busy, Busy, Blake!Sessions, Sessions
  <2>. QED  BY <1>1, <2>1, FileStartsInv DEF Kept
<1>3. ASSUME NEW p \in Sessions, Blake!Kill(p), UNCHANGED raw PROVE Own(p)
  <2>1. Walks(p) /\ pc'[p] = "idle" /\ undone' = undone
    BY <1>3, KillMoves DEF Blake!Kill, Kill
  <2>. QED  BY <1>1, <1>3, <2>1 DEF RunMove, Walks, FileMove, FileKept, RowKept
<1>4. ASSUME NEW p \in Sessions, Blake!ClearFile(p) PROVE Own(p)
  <2>1. Goto(p, "start", "loop") /\ raw' = << >>
    BY <1>4 DEF Blake!ClearFile, Blake!Goto, Goto
  <2>2. Walks(p) /\ pc[p] = "start"
    BY <2>1, GotoMoves DEF AllPlaces, Out, Early
  <2>3. samples[p] = << >>  BY <2>2 DEF RunInv, RunOK
  <2>. QED  BY <2>1, <2>2, <2>3 DEF RunMove, Walks, FileMove, FileCleared, RowKept
<1>5. ASSUME NEW p \in Sessions, Blake!RunBlake2s(p) PROVE Own(p)
  <2>1. PICK ok \in BOOLEAN :
           Iterate(p, ok) /\ raw' = IF ok THEN Append(raw, Current(p)) ELSE raw
    BY <1>5
    DEF Blake!RunBlake2s, Blake!Iterate, Iterate, Blake!Measures, Measures, Blake!Returns,
        Returns, Blake!Current, Current
  <2>2. iter[p] < N  BY <1>1, <2>1 DEF Iterate
  <2>3. /\ Works(p) /\ pc[p] = "loop"
        /\ samples' = IF ok THEN [samples EXCEPT ![p] = Append(@, Current(p))] ELSE samples
    BY <2>1, <2>2, IterateMoves
  <2>4. FileFilled(p)  BY <1>1, <2>1, <2>3 DEF FileFilled
  <2>5. RowKept(p)  BY <2>3 DEF Works, RowKept
  <2>. QED  BY <2>3, <2>4, <2>5 DEF RunMove, FileMove
<1>6. ASSUME NEW p \in Sessions, Blake!EndLoop(p) PROVE Own(p)
  <2>1. Goto(p, "loop", "parse") /\ UNCHANGED raw
    BY <1>6 DEF Blake!EndLoop, Blake!LoopEnds, Blake!Goto, Goto
  <2>2. Walks(p) /\ pc[p] = "loop"
    BY <2>1, GotoMoves DEF AllPlaces, Out, Early
  <2>. QED  BY <1>1, <2>1, <2>2 DEF RunMove, Walks, FileMove, FileKept, RowKept
<1>7. ASSUME NEW p \in Sessions, Blake!PublishPerByte(p) PROVE Own(p)
  <2>. DEFINE figure == IF raw = << >> THEN NoData ELSE Mean(raw)
  <2>1. Publish(p, "parse", figure) /\ UNCHANGED raw
    BY <1>7 DEF Blake!PublishPerByte, Blake!Publish, Publish, Blake!NoData, NoData, Blake!Mean, Mean
  <2>2. pc[p] \in Holding  BY <1>1, <2>1 DEF Publish
  <2>3. /\ figure \in Result
        /\ figure.kind = "mean" => InSpell(figure.of, spell[p])
        /\ Alone(p) => Whole(p, figure)
    BY <2>2, WholeFile
  <2>4. Prints(p) /\ pc'[p] = "idle" /\ row'[p] = figure
    BY <2>1, <2>3, PublishMoves DEF Out
  <2>5. RowKept(p)  BY <2>3, <2>4, WholeKept
  <2>. QED  BY <1>1, <2>1, <2>4, <2>5 DEF RunMove, Prints, FileMove, FileKept
<1>8. ASSUME NEW p \in Sessions, Own(p) PROVE FileInv' /\ Kept
  BY <1>8, FileMoveInv DEF Kept, FileMove
<1>. QED
  BY <1>2, <1>3, <1>4, <1>5, <1>6, <1>7, <1>8 DEF Blake!Next, Blake!Sessions, Sessions

(***************************************************************************)
(* c-ray                                                                   *)
(***************************************************************************)
(* Its file never has more than one line.                                  *)
Short == raw = << >> \/ \E e \in Value : raw = <<e>>

LEMMA EarlyEmpty ==
    ASSUME RunInv, NEW p \in Sessions, pc[p] \in Early, iter[p] = 0
    PROVE  samples[p] = << >>
<1>1. LastBy(p, 0) /\ samples[p] \in Seq(Value)
  BY DEF RunInv, RunOK, RunTypes
<1>2. samples[p] # << >> => samples[p][Len(samples[p])] \in Value
  BY <1>1, LenProperties, ElementOfSeq
<1>3. \A e \in Value : ~(e[2] <= 0)  BY Bounds
<1>. QED  BY <1>1, <1>2, <1>3 DEF LastBy

LEMMA CrayStep ==
    ASSUME RunInv, FileInv, CounterInv, Short, wrapper = "cray", wrapper' = wrapper, Cray!Next
    PROVE  FileInv' /\ CounterInv' /\ Short' /\ Kept
<1>. DEFINE Own(p) == /\ FileMove(p) /\ (CounterKept(p) \/ CounterSet(p)) /\ Short'
                      /\ Prints(p) => RowKept(p)
<1>1. /\ N = 1 /\ Holding = {"render", "parse"} /\ Value' = Value
      /\ iter \in [Sessions -> 0..1] /\ Iterations \in Nat /\ Iterations >= 1
  BY SameTypes, IterationsAssumption DEF N, TwoFunctions, Holding, RunInv, RunTypes
<1>2. raw' = raw \/ raw' = << >> => Short'
  BY <1>1 DEF Short
<1>3. CASE Cray!Launch("loop") /\ UNCHANGED <<raw, local>>
  <2>1. Starts("loop") /\ UNCHANGED <<raw, local>>
    BY <1>3 DEF Cray!Launch, Launch, Starts, Cray!Busy, Busy, Cray!Sessions, Sessions
  <2>. QED  BY <1>1, <1>2, <2>1, FileStartsInv, CounterStartsInv DEF Kept
<1>4. ASSUME NEW p \in Sessions, Cray!Kill(p), UNCHANGED <<raw, local>> PROVE Own(p)
  <2>1. Walks(p) /\ pc'[p] = "idle" /\ undone' = undone
    BY <1>4, KillMoves DEF Cray!Kill, Kill
  <2>. QED  BY <1>1, <1>2, <1>4, <2>1 DEF RunMove, Walks, FileMove, FileKept, CounterKept, RowKept
<1>5. ASSUME NEW p \in Sessions, Cray!NoThreadCount(p) PROVE Own(p)
  <2>1. /\ iter[p] < N /\ Iterate(p, FALSE)
        /\ local' = [local EXCEPT ![p] = Error] /\ UNCHANGED raw
    <3>1. Cray!Iterate(p, FALSE) /\ local' = [local EXCEPT ![p] = Error] /\ UNCHANGED raw
      BY <1>5 DEF Cray!NoThreadCount, Cray!Error, Error
    <3>2. iter[p] < 1  BY <3>1 DEF Cray!Iterate
    <3>3. iter[p] < N /\ iter[p] < Iterations  BY <1>1, <3>2
    <3>4. Iterate(p, FALSE)
      BY <3>1, <3>3 DEF Cray!Iterate, Iterate, Cray!Measures, Measures, Cray!Returns, Returns
    <3>. QED  BY <3>1, <3>3, <3>4
  <2>2. Works(p) /\ pc'[p] \in {"loop", "idle"} /\ samples' = samples
    BY <2>1, IterateMoves
  <2>3. iter' = [iter EXCEPT ![p] = @ + 1] BY <2>1 DEF Iterate
  <2>4. CounterSet(p)
    BY <2>1, <2>2, <2>3, Kinds, Results DEF CounterSet, Whole
  <2>. QED  BY <1>1, <1>2, <2>1, <2>2, <2>4 DEF RunMove, Works, FileMove, FileKept, RowKept
<1>6. ASSUME NEW p \in Sessions, Cray!OpenResult(p) PROVE Own(p)
  <2>1. Goto(p, "loop", "render") /\ iter[p] = 0 /\ raw' = << >> /\ UNCHANGED local
    BY <1>1, <1>6 DEF Cray!OpenResult, Cray!Goto, Goto
  <2>2. Walks(p) /\ pc[p] = "loop" /\ pc'[p] = "render"
    BY <2>1, GotoMoves DEF AllPlaces, Out, Early
  <2>3. samples[p] = << >>  BY <2>1, <2>2, EarlyEmpty DEF Early
  <2>. QED
    BY <1>1, <1>2, <2>1, <2>2, <2>3 DEF RunMove, Walks, FileMove, FileCleared, CounterKept, RowKept
<1>7. ASSUME NEW p \in Sessions, Cray!Render(p) PROVE Own(p)
  <2>1. PICK ok \in BOOLEAN :
           /\ Produce(p, "render", ok, "parse") /\ iter[p] < 1
           /\ raw' = IF ok THEN <<Current(p)>> ELSE raw
    <3>1. PICK ok \in BOOLEAN :
             Cray!Produce(p, "render", ok, "parse") /\ raw' = IF ok THEN <<Current(p)>> ELSE raw
      BY <1>7 DEF Cray!Render, Cray!Current, Current
    <3>2. iter[p] < 1  BY <3>1 DEF Cray!Produce
    <3>3. iter[p] < Iterations  BY <1>1, <3>2
    <3>4. Produce(p, "render", ok, "parse")
      BY <3>1, <3>3
      DEF Cray!Produce, Produce, Cray!Measures, Measures, Cray!Returns, Returns, Cray!Current, Current
    <3>. QED  BY <3>1, <3>2, <3>4
  <2>2. iter[p] < N /\ iter[p] = 0 /\ local' = local
    BY <1>1, <1>7, <2>1 DEF Cray!Render
  <2>3. /\ Works(p) /\ pc[p] = "render" /\ pc'[p] \in {"parse", "idle"} /\ iter' = iter
        /\ samples' = IF ok THEN [samples EXCEPT ![p] = Append(@, Current(p))] ELSE samples
    BY <2>1, <2>2, ProduceMoves DEF AllPlaces, Early
  <2>4. samples[p] = << >>  BY <2>2, <2>3, EarlyEmpty DEF Early
  <2>5. FileFilled(p)  BY <1>1, <2>1, <2>3, <2>4 DEF FileFilled
  <2>6. RowKept(p) /\ CounterKept(p)  BY <2>2, <2>3 DEF Works, RowKept, CounterKept
  <2>7. Short'
    <3>1. Current(p) \in Value  BY <2>2, CurrentValue
    <3>2. raw' = raw \/ raw' = <<Current(p)>>  BY <2>1
    <3>. QED  BY <1>1, <1>2, <3>1, <3>2 DEF Short
  <2>. QED  BY <2>3, <2>5, <2>6, <2>7 DEF RunMove, FileMove
<1>8. ASSUME NEW p \in Sessions, Cray!Parse(p) PROVE Own(p)
  <2>. DEFINE figure == IF raw = << >> THEN Error ELSE Mean(<<raw[1]>>)
              inFile == IF raw = << >> THEN NoData ELSE Mean(raw)
  <2>1. NextIteration(p, "parse") /\ local' = [local EXCEPT ![p] = figure] /\ UNCHANGED raw
    BY <1>8
    DEF Cray!Parse, Cray!NextIteration, NextIteration, Cray!Error, Error, Cray!Mean, Mean
  <2>2. pc[p] = "parse" /\ pc[p] \in Holding  BY <1>1, <2>1 DEF NextIteration
  <2>3. iter[p] < N  BY <2>2 DEF CounterInv, CounterOK
  <2>4. Iterates(p) /\ pc'[p] = "loop"  BY <2>1, <2>3, NextMoves DEF Out
  <2>5. /\ inFile \in Result
        /\ inFile.kind = "mean" => InSpell(inFile.of, spell[p])
        /\ Alone(p) => Whole(p, inFile)
    BY <2>2, WholeFile
  <2>6. figure = IF raw = << >> THEN Error ELSE inFile
    <3>1. CASE raw = << >>  BY <3>1
    <3>2. ASSUME NEW e \in Value, raw = <<e>> PROVE figure = inFile
      <4>1. raw # << >> /\ raw[1] = e  BY <3>2
      <4>. QED  BY <3>2, <4>1
    <3>. QED  BY <3>1, <3>2 DEF Short
  <2>7. /\ figure \in Result
        /\ figure.kind = "mean" => InSpell(figure.of, spell[p])
        /\ Alone(p) => Whole(p, figure)
    <3>. HIDE DEF figure, inFile
    <3>1. Whole(p, Error) /\ Error.kind # "mean" /\ Error \in Result
      BY Kinds, Results DEF Whole
    <3>2. CASE figure = Error  BY <3>1, <3>2
    <3>3. CASE figure = inFile  BY <2>5, <3>3
    <3>. QED  BY <2>6, <3>2, <3>3
  <2>8. CounterSet(p)  BY <2>1, <2>3, <2>4, <2>7 DEF CounterSet, Iterates
  <2>9. FileKept(p) /\ RowKept(p)  BY <2>1, <2>2, <2>4 DEF FileKept, Iterates, RowKept
  <2>. QED  BY <1>2, <2>1, <2>4, <2>8, <2>9 DEF RunMove, FileMove
<1>9. ASSUME NEW p \in Sessions, Cray!EndLoop(p) PROVE Own(p)
  <2>1. Goto(p, "loop", "return") /\ iter[p] = N /\ UNCHANGED <<raw, local>>
    BY <1>1, <1>9 DEF Cray!EndLoop, Cray!LoopEnds, Cray!Goto, Goto
  <2>2. Walks(p) /\ pc[p] = "loop" /\ pc'[p] = "return"
    BY <2>1, GotoMoves DEF AllPlaces, Out, Early
  <2>. QED  BY <1>1, <1>2, <2>1, <2>2 DEF RunMove, Walks, FileMove, FileKept, CounterKept, RowKept
<1>10. ASSUME NEW p \in Sessions, Cray!PublishTime(p) PROVE Own(p)
  <2>1. Publish(p, "return", local[p]) /\ UNCHANGED <<raw, local>> /\ local[p] \in Result
    BY <1>10 DEF Cray!PublishTime, Cray!Publish, Publish, CounterInv
  <2>2. Prints(p) /\ pc[p] = "return" /\ pc'[p] = "idle" /\ row'[p] = local[p]
    BY <2>1, PublishMoves DEF Out
  <2>3. RowKept(p)  BY <2>2, CounterPrinted
  <2>. QED  BY <1>1, <1>2, <2>1, <2>2, <2>3 DEF RunMove, Prints, FileMove, FileKept, CounterKept
<1>11. ASSUME NEW p \in Sessions, Own(p) PROVE FileInv' /\ CounterInv' /\ Short' /\ Kept
  <2>1. RunMove(p)  BY <1>11 DEF FileMove
  <2>. QED  BY <1>11, <2>1, FileMoveInv, CounterMoveInv DEF Kept
<1>. QED
  BY <1>3, <1>4, <1>5, <1>6, <1>7, <1>8, <1>9, <1>10, <1>11 DEF Cray!Next, Cray!Sessions, Sessions

(***************************************************************************)
(* Unigine                                                                 *)
(***************************************************************************)
(* s is the first value of p, once for every iteration from its own to n.  *)
Repeats(p, s, n) ==
    /\ samples[p] = << >> => s = << >>
    /\ samples[p] # << >> =>
          /\ \A i \in 1..Len(s) : s[i] = samples[p][1]
          /\ Len(s) = n + 1 - samples[p][1][2]

(* What a session has added to its sum is of its spell, and its own first  *)
(* value over and over if it has the spell to itself.                      *)
TermsOK(p) ==
    /\ InSpell(local[p], spell[p])
    /\ iter[p] = 0 => local[p] = << >>
    /\ pc[p] \in {"idle", "start", "loop", "read"}
    /\ pc[p] = "read" => iter[p] < N
    /\ Alone(p) /\ pc[p] # "idle" => Repeats(p, local[p], iter[p])

(* FirstValueRepeated, for one session.                                    *)
Repeated(p) ==
    row[p].kind = "mean" =>
        /\ InSpell(row[p].of, spell[p])
        /\ Alone(p) => samples[p] # << >> /\ Repeats(p, row[p].of, N)

TermsInv ==
    /\ local \in [Sessions -> Seq(Value)]
    /\ \A p \in Sessions : TermsOK(p) /\ Repeated(p)

LEMMA TermsMoveInv ==
    ASSUME RunInv, TermsInv, NEW p \in Sessions, RunMove(p),
           local' \in [Sessions -> Seq(Value)],
           \A q \in Sessions : q # p => local'[q] = local[q],
           TermsOK(p)', row'[p] = row[p] \/ Repeated(p)'
    PROVE  TermsInv'
<1>1. /\ UNCHANGED <<wrapper, session, spell, N, Value>>
      /\ \A s, n : InSpell(s, n) => InSpell(s, n)'
      /\ pc[p] # "idle"
  BY OthersStay, SameTypes, SpellsStay
<1>2. ASSUME NEW q \in Sessions, q # p PROVE TermsOK(q)' /\ Repeated(q)'
  <2>1. /\ pc'[q] = pc[q] /\ samples'[q] = samples[q] /\ iter'[q] = iter[q] /\ row'[q] = row[q]
        /\ local'[q] = local[q] /\ TermsOK(q) /\ Repeated(q) /\ Alone(q)' = Alone(q)
    BY <1>1, <1>2, OthersStay DEF TermsInv, Alone
  <2>2. /\ InSpell(local[q], spell[q]) => InSpell(local[q], spell[q])'
        /\ InSpell(row[q].of, spell[q]) => InSpell(row[q].of, spell[q])'
    BY <1>1, <2>1 DEF InSpell
  <2>3. Repeats(q, local[q], iter[q])' = Repeats(q, local[q], iter[q])
    BY <2>1 DEF Repeats
  <2>4. Repeats(q, row[q].of, N)' = Repeats(q, row[q].of, N)
    BY <1>1, <2>1 DEF Repeats
  <2>. QED  BY <1>1, <2>1, <2>2, <2>3, <2>4 DEF TermsOK, Repeated
<1>3. CASE row'[p] = row[p]
  <2>1. row[p].kind # "mean"
    <3>1. pc[p] \notin Out  BY <1>1 DEF TermsInv, TermsOK, Out
    <3>. QED  BY <3>1, Kinds DEF RunInv, RunOK
  <2>2. Repeated(p)'  BY <1>3, <2>1 DEF Repeated
  <2>. QED  BY <1>2, <2>2, <1>1 DEF TermsInv
<1>4. CASE Repeated(p)'
  BY <1>1, <1>2, <1>4 DEF TermsInv
<1>. QED  BY <1>3, <1>4

LEMMA TermsStartsInv ==
    ASSUME RunInv, TermsInv, Starts("start"), UNCHANGED local
    PROVE  TermsInv'
<1>1. /\ UNCHANGED <<wrapper, samples, iter, row, N, Value>>
      /\ \A s, n : InSpell(s, n) => InSpell(s, n)'
      /\ session \in Nat
  <2>1. 1 \in Sessions  BY MaxSessionsAssumption DEF Sessions
  <2>2. UNCHANGED <<wrapper, samples, iter, row>> /\ session \in Nat  BY <2>1, StartsAlone
  <2>. QED  BY <2>2, SameTypes, SpellsStay
<1>2. ASSUME NEW q \in Sessions PROVE TermsOK(q)' /\ Repeated(q)'
  <2>1. TermsOK(q) /\ Repeated(q)  BY DEF TermsInv
  <2>2. CASE q > session
    <3>1. /\ iter[q] = 0 /\ local[q] = << >> /\ samples[q] = << >> /\ row[q].kind # "mean"
          /\ pc'[q] \in {"start", "idle"}
      BY <2>1, <2>2, StartsAlone, Kinds DEF Unborn, TermsOK
    <3>2. InSpell(<< >>, spell[q])' /\ Repeats(q, << >>, 0)'
      BY <1>1, <3>1 DEF InSpell, OfSpell, Repeats
    <3>3. InSpell(local[q], spell[q])'  BY <3>1, <3>2 DEF InSpell
    <3>4. Repeats(q, local[q], iter[q])'  BY <1>1, <3>1, <3>2 DEF Repeats
    <3>. QED  BY <1>1, <3>1, <3>3, <3>4 DEF TermsOK, Repeated
  <2>3. CASE q <= session
    <3>1. /\ pc'[q] = pc[q] \/ pc'[q] = "idle"
          /\ spell'[q] = spell[q] /\ (Alone(q)' => Alone(q))
      BY <2>3, StartsAlone, Bounds
    <3>2. /\ InSpell(local[q], spell[q]) => InSpell(local[q], spell[q])'
          /\ InSpell(row[q].of, spell[q]) => InSpell(row[q].of, spell[q])'
      BY <1>1, <3>1 DEF InSpell
    <3>3. /\ Repeats(q, local[q], iter[q])' = Repeats(q, local[q], iter[q])
          /\ Repeats(q, row[q].of, N)' = Repeats(q, row[q].of, N)
      BY <1>1 DEF Repeats
    <3>. QED  BY <1>1, <2>1, <3>1, <3>2, <3>3 DEF TermsOK, Repeated
  <2>. QED  BY <1>1, <2>2, <2>3, Bounds
<1>. QED  BY <1>1, <1>2 DEF TermsInv

LEMMA UnigineStep ==
    ASSUME RunInv, FileInv, TermsInv, wrapper = "unigine", wrapper' = wrapper, Unigine!Next
    PROVE  FileInv' /\ TermsInv' /\ ((\E first : Starts(first)) \/ \E p \in Sessions : RunMove(p))
<1>. DEFINE Own(p) == /\ FileMove(p) /\ TermsOK(p)' /\ (row'[p] = row[p] \/ Repeated(p)')
                      /\ local' \in [Sessions -> Seq(Value)]
                      /\ \A q \in Sessions : q # p => local'[q] = local[q]
<1>1. /\ N = Iterations /\ Holding = {"loop", "parse", "teardown", "read"} /\ N \in Nat
      /\ local \in [Sessions -> Seq(Value)] /\ iter \in [Sessions -> 0..N]
  BY Bounds DEF N, TwoFunctions, Holding, TermsInv, RunInv, RunTypes
<1>2. CASE Unigine!Launch("start") /\ UNCHANGED <<raw, local>>
  <2>1. Starts("start") /\ UNCHANGED <<raw, local>>
    BY <1>2 DEF Unigine!Launch, Launch, Starts, Unigine!Busy, Busy, Unigine!Sessions, Sessions
  <2>. QED  BY <1>1, <2>1, FileStartsInv, TermsStartsInv
<1>3. ASSUME NEW p \in Sessions, RunMove(p)
      PROVE  /\ InSpell(local[p], spell[p]) /\ (iter[p] = 0 => local[p] = << >>)
             /\ pc[p] \in {"start", "loop", "read"}
             /\ Alone(p) => Repeats(p, local[p], iter[p])
             /\ Alone(p)' = Alone(p) /\ spell' = spell /\ N' = N
             /\ \A s, n : InSpell(s, n) => InSpell(s, n)'
  BY <1>3, OthersStay, SameTypes, SpellsStay DEF TermsInv, TermsOK, Alone
<1>4. ASSUME NEW p \in Sessions, RunMove(p), UNCHANGED <<local, iter, samples>>,
             pc'[p] \in {"idle", "loop"}
      PROVE  TermsOK(p)'
  <2>1. InSpell(local[p], spell[p])'  BY <1>3, <1>4 DEF InSpell
  <2>. QED  BY <1>3, <1>4, <2>1 DEF TermsOK, Repeats
<1>5. ASSUME NEW p \in Sessions, Unigine!Kill(p), UNCHANGED <<raw, local>> PROVE Own(p)
  <2>1. Walks(p) /\ pc'[p] = "idle" /\ undone' = undone
    BY <1>5, KillMoves DEF Unigine!Kill, Kill
  <2>. QED  BY <1>1, <1>4, <1>5, <2>1 DEF RunMove, Walks, FileMove, FileKept
<1>6. ASSUME NEW p \in Sessions, Unigine!ClearFile(p) PROVE Own(p)
  <2>1. Goto(p, "start", "loop") /\ raw' = << >> /\ UNCHANGED local
    BY <1>6 DEF Unigine!ClearFile, Unigine!Goto, Goto
  <2>2. Walks(p) /\ pc[p] = "start" /\ pc'[p] = "loop"
    BY <2>1, GotoMoves DEF AllPlaces, Out, Early
  <2>3. samples[p] = << >>  BY <2>2 DEF RunInv, RunOK
  <2>. QED  BY <1>1, <1>4, <2>1, <2>2, <2>3 DEF RunMove, Walks, FileMove, FileCleared
<1>7. ASSUME NEW p \in Sessions, Unigine!RunHeaven(p) PROVE Own(p)
  <2>1. PICK ok \in BOOLEAN :
           /\ Produce(p, "loop", ok, "read")
           /\ raw' = IF ok THEN Append(raw, Current(p)) ELSE raw
    BY <1>7
    DEF Unigine!RunHeaven, Unigine!Produce, Produce, Unigine!Measures, Measures, Unigine!Returns,
        Returns, Unigine!Current, Current
  <2>2. iter[p] < N /\ local' = local
    BY <1>1, <1>7, <2>1 DEF Produce, Unigine!RunHeaven
  <2>3. /\ Works(p) /\ pc[p] = "loop" /\ pc'[p] \in {"read", "idle"} /\ iter' = iter
        /\ samples' = IF ok THEN [samples EXCEPT ![p] = Append(@, Current(p))] ELSE samples
    BY <2>1, <2>2, ProduceMoves DEF AllPlaces, Early
  <2>4. FileFilled(p) /\ RunMove(p)  BY <1>1, <2>1, <2>3 DEF FileFilled, RunMove
  <2>5. Repeats(p, local[p], iter[p]) => Repeats(p, local[p], iter[p])'
    <3>1. samples[p] \in Seq(Value) /\ iter[p] \in Nat
      BY <1>1 DEF RunInv, RunTypes
    <3>2. CASE samples' = samples
      BY <2>2, <2>3, <3>2 DEF Repeats
    <3>3. CASE samples' = [samples EXCEPT ![p] = Append(@, Current(p))]
      <4>1. Current(p) \in Value /\ Current(p)[2] = iter[p] + 1
        BY <2>2, CurrentValue
      <4>2. /\ samples'[p] = Append(samples[p], Current(p)) /\ samples'[p] # << >>
            /\ samples[p] # << >> => samples'[p][1] = samples[p][1]
            /\ samples[p] = << >> => samples'[p][1] = Current(p)
        <5>1. samples'[p] = Append(samples[p], Current(p))  BY <3>3 DEF RunInv, RunTypes
        <5>2. samples[p] # << >> => 1 \in 1..Len(samples[p])  BY <3>1, LenProperties
        <5>3. samples[p] = << >> => Len(samples[p]) + 1 = 1  OBVIOUS
        <5>. QED  BY <3>1, <4>1, <5>1, <5>2, <5>3, Appended
      <4>. QED  BY <2>2, <2>3, <3>1, <4>1, <4>2 DEF Repeats
    <3>. QED  BY <2>3, <3>2, <3>3
  <2>6. TermsOK(p)'
    <3>1. InSpell(local[p], spell[p])'  BY <1>3, <2>2, <2>4 DEF InSpell
    <3>. QED  BY <1>3, <2>2, <2>3, <2>4, <2>5, <3>1 DEF TermsOK
  <2>. QED  BY <1>1, <2>2, <2>3, <2>4, <2>6 DEF Works, FileMove
<1>8. ASSUME NEW p \in Sessions, Unigine!ReadFPS(p) PROVE Own(p)
  <2>1. /\ NextIteration(p, "read") /\ UNCHANGED raw
        /\ local' = [local EXCEPT ![p] = @ \o (IF raw = << >> THEN << >> ELSE <<raw[1]>>)]
    BY <1>8 DEF Unigine!ReadFPS, Unigine!NextIteration, NextIteration, Unigine!FirstFPS
  <2>2. pc[p] = "read" /\ pc[p] \in Holding  BY <1>1, <2>1 DEF NextIteration
  <2>3. iter[p] < N  BY <2>2 DEF TermsInv, TermsOK
  <2>4. Iterates(p) /\ pc'[p] = "loop" /\ RunMove(p)
    BY <2>1, <2>3, NextMoves DEF Out, RunMove
  <2>5. /\ local[p] \in Seq(Value) /\ raw \in Seq(Value) /\ samples[p] \in Seq(Value)
        /\ InSpell(raw, spell[p]) /\ (Alone(p) => raw = samples[p])
        /\ samples' = samples /\ iter'[p] = iter[p] + 1 /\ iter[p] \in Nat
    BY <1>1, <2>2, <2>4 DEF FileInv, FileOK, Iterates, RunInv, RunTypes
  <2>6. CASE raw = << >>
    <3>1. local'[p] = local[p]
      BY <1>1, <2>1, <2>5, <2>6, ConcatEmptySeq
    <3>2. InSpell(local[p], spell[p])'  BY <1>3, <2>4, <3>1 DEF InSpell
    <3>3. Alone(p) => Repeats(p, local[p], iter[p])'
      BY <1>3, <2>4, <2>5, <2>6, <3>1 DEF Repeats
    <3>4. TermsOK(p)'
      BY <1>3, <2>4, <2>5, <3>2, <3>3 DEF TermsOK
    <3>5. local' \in [Sessions -> Seq(Value)] /\ \A q \in Sessions : q # p => local'[q] = local[q]
      BY <1>1, <2>1, <2>5, <2>6, ConcatEmptySeq
    <3>. QED  BY <2>1, <2>2, <2>4, <3>4, <3>5 DEF Iterates, FileMove, FileKept
  <2>7. CASE raw # << >>
    <3>1. raw[1] \in Value /\ 1 \in 1..Len(raw)
      BY <2>5, <2>7, LenProperties, ElementOfSeq
    <3>2. local[p] \o <<raw[1]>> = Append(local[p], raw[1])
      BY <2>5, <3>1, AppendIsConcat
    <3>3. /\ local' \in [Sessions -> Seq(Value)] /\ \A q \in Sessions : q # p => local'[q] = local[q]
          /\ local'[p] = Append(local[p], raw[1])
      BY <1>1, <2>1, <2>5, <2>7, <3>1, <3>2, Appended
    <3>4. /\ Len(local'[p]) = Len(local[p]) + 1 /\ local'[p][Len(local[p]) + 1] = raw[1]
          /\ \A i \in 1..Len(local[p]) : local'[p][i] = local[p][i]
          /\ Len(local[p]) \in Nat
      BY <2>5, <3>1, <3>3, Appended
    <3>5. \A i \in 1..(Len(local[p]) + 1) : i \in 1..Len(local[p]) \/ i = Len(local[p]) + 1
      BY <3>4
    <3>6. InSpell(local[p], spell[p])'
      <4>1. OfSpell(local'[p], spell[p], session, spell)
        <5>1. /\ \A i \in 1..Len(local[p]) : local[p][i][1] \in 1..session /\ spell[local[p][i][1]] = spell[p]
              /\ raw[1][1] \in 1..session /\ spell[raw[1][1]] = spell[p]
          BY <1>3, <2>4, <2>5, <3>1 DEF InSpell, OfSpell
        <5>2. \A i \in 1..(Len(local[p]) + 1) :
                 \/ i \in 1..Len(local[p]) /\ local'[p][i] = local[p][i]
                 \/ local'[p][i] = raw[1]
          BY <3>4, <3>5
        <5>. QED  BY <3>4, <5>1, <5>2 DEF OfSpell
      <4>. QED  BY <1>3, <2>4, <4>1, OthersStay DEF InSpell
    <3>7. Alone(p) => Repeats(p, local[p], iter[p])'
      <4>1. ASSUME Alone(p) PROVE Repeats(p, local[p], iter[p])'
        <5>1. raw = samples[p] /\ samples'[p] = samples[p] /\ Repeats(p, local[p], iter[p])
          BY <1>3, <2>4, <2>5, <4>1
        <5>2. samples[p][1][2] \in Nat  BY <3>1, <5>1, Bounds
        <5>3. /\ samples[p] # << >>
              /\ \A i \in 1..Len(local[p]) : local[p][i] = samples[p][1]
              /\ Len(local[p]) = iter[p] + 1 - samples[p][1][2]
          BY <2>7, <5>1 DEF Repeats
        <5>4. \A i \in 1..(Len(local[p]) + 1) : local'[p][i] = samples[p][1]
          BY <3>4, <3>5, <5>1, <5>3
        <5>5. Len(local'[p]) = iter'[p] + 1 - samples[p][1][2]
          <6>1. ASSUME NEW a \in Nat, NEW b \in Nat, NEW k \in Nat, a = b + 1 - k
                PROVE  a + 1 = (b + 1) + 1 - k
            BY <6>1
          <6>2. iter[p] \in Nat /\ iter'[p] = iter[p] + 1  BY <2>5
          <6>3. Len(local[p]) \in Nat /\ Len(local'[p]) = Len(local[p]) + 1  BY <3>4
          <6>4. Len(local[p]) + 1 = (iter[p] + 1) + 1 - samples[p][1][2]
            <7>1. Len(local[p]) = iter[p] + 1 - samples[p][1][2]  BY <5>3
            <7>. QED  BY <5>2, <6>1, <6>2, <6>3, <7>1
          <6>. QED  BY <6>2, <6>3, <6>4
        <5>. QED  BY <3>4, <5>1, <5>3, <5>4, <5>5 DEF Repeats
      <4>. QED  BY <4>1
    <3>8. TermsOK(p)'
      BY <1>3, <2>4, <2>5, <3>6, <3>7 DEF TermsOK
    <3>. QED  BY <2>1, <2>2, <2>4, <3>3, <3>8 DEF Iterates, FileMove, FileKept
  <2>. QED  BY <2>6, <2>7
<1>9. ASSUME NEW p \in Sessions, Unigine!PublishFPS(p) PROVE Own(p)
  <2>. DEFINE figure == IF local[p] = << >> THEN NoData ELSE Mean(local[p])
  <2>1. Publish(p, "loop", figure) /\ UNCHANGED <<raw, local>> /\ iter[p] = N
    BY <1>1, <1>9
    DEF Unigine!PublishFPS, Unigine!Publish, Publish, Unigine!NoData, NoData, Unigine!Mean, Mean
  <2>2. figure \in Result /\ local[p] \in Seq(Value)
    BY <1>1, Results
  <2>3. Prints(p) /\ pc[p] = "loop" /\ pc'[p] = "idle" /\ row'[p] = figure /\ RunMove(p)
    BY <2>1, <2>2, PublishMoves DEF Out, RunMove
  <2>4. UNCHANGED <<samples, iter>>  BY <2>3 DEF Prints
  <2>5. Repeated(p)'
    <3>1. CASE local[p] = << >>
      BY <2>3, <3>1, Kinds DEF Repeated
    <3>2. CASE local[p] # << >>
      <4>1. row'[p].of = local[p]  BY <2>3, <3>2, Kinds
      <4>2. InSpell(row[p].of, spell[p])'  BY <1>3, <2>3, <4>1 DEF InSpell
      <4>3. Alone(p)' => samples'[p] # << >> /\ Repeats(p, row[p].of, N)'
        BY <1>3, <2>1, <2>3, <2>4, <3>2, <4>1 DEF Repeats
      <4>. QED  BY <4>2, <4>3 DEF Repeated
    <3>. QED  BY <3>1, <3>2
  <2>. QED  BY <1>1, <1>4, <2>1, <2>3, <2>4, <2>5 DEF Prints, FileMove, FileKept
<1>10. ASSUME NEW p \in Sessions, Own(p)
       PROVE  FileInv' /\ TermsInv' /\ RunMove(p)
  <2>1. RunMove(p)  BY <1>10 DEF FileMove
  <2>. QED  BY <1>10, <2>1, FileMoveInv, TermsMoveInv
<1>. QED
  BY <1>2, <1>5, <1>6, <1>7, <1>8, <1>9, <1>10 DEF Unigine!Next, Unigine!Sessions, Sessions

(***************************************************************************)
(* GpuTest                                                                 *)
(***************************************************************************)
(* The lines of the log l are all of spell n.                              *)
LogOfSpell(l, n, ses, sp) ==
    \A i \in 1..Len(l) : l[i].of[1] \in 1..ses /\ sp[l[i].of[1]] = n
LogInSpell(n) == LogOfSpell(log, n, session, spell)

ScoreLine == [module : Gpu!Modules, of : Value]

(* The results file, the log and the score of a session are of its spell;  *)
(* if it has the spell to itself the value is where the script has got to. *)
GpuOK(p) ==
    /\ pc[p] \in {"idle", "start", "loop", "run", "copy", "append", "between"}
    /\ pc[p] # "idle" => fn[p] \in Gpu!Modules
    /\ pc[p] \in {"run", "copy", "append"} => iter[p] < N
    /\ pc[p] \in {"loop", "run", "copy", "append"} => InSpell(raw[fn[p]], spell[p])
    /\ pc[p] \in {"run", "copy"} => LogInSpell(spell[p])
    /\ pc[p] = "append" => InSpell(local[p], spell[p])
    /\ Alone(p) =>
          /\ pc[p] \in {"loop", "run"} => raw[fn[p]] = samples[p]
          /\ pc[p] = "run" => log = << >>
          /\ pc[p] = "copy" =>
                \/ log = << >> /\ raw[fn[p]] = samples[p]
                \/ \E x \in Value : /\ log = <<[module |-> fn[p], of |-> x]>>
                                    /\ samples[p] = Append(raw[fn[p]], x)
          /\ pc[p] = "append" => samples[p] = raw[fn[p]] \o local[p]

GpuTypes ==
    /\ raw \in [Gpu!Modules -> Seq(Value)]
    /\ log \in Seq(ScoreLine)
    /\ local \in [Sessions -> Seq(Value)]
    /\ fn \in [Sessions -> {"none"} \cup Gpu!Modules]

GpuInv == GpuTypes /\ \A p \in Sessions : GpuOK(p)

(* What a move of p must leave alone, for the others.                      *)
GpuFilesKept(p) ==
    /\ \A m \in Gpu!Modules : InSpell(raw[m], spell[p]) => InSpell(raw[m], spell[p])'
    /\ LogInSpell(spell[p]) => LogInSpell(spell[p])'
    /\ \A q \in Sessions : q # p => local'[q] = local[q]
    /\ fn' = fn

LEMMA GpuMoveInv ==
    ASSUME RunInv, GpuInv, NEW p \in Sessions, RunMove(p), GpuTypes', GpuFilesKept(p), GpuOK(p)'
    PROVE  GpuInv'
<1>1. /\ UNCHANGED <<wrapper, session, spell, N, Value>>
      /\ \A s, n : InSpell(s, n) => InSpell(s, n)'
      /\ pc[p] # "idle"
  BY OthersStay, SameTypes, SpellsStay
<1>2. ASSUME NEW q \in Sessions, q # p PROVE GpuOK(q)'
  <2>1. /\ pc'[q] = pc[q] /\ iter'[q] = iter[q] /\ local'[q] = local[q] /\ fn'[q] = fn[q]
        /\ GpuOK(q) /\ Alone(q)' = Alone(q)
    BY <1>1, <1>2, OthersStay DEF GpuInv, Alone, GpuFilesKept
  <2>2. CASE pc[q] = "idle"
    BY <2>1, <2>2 DEF GpuOK
  <2>3. CASE pc[q] # "idle"
    <3>1. ~Alone(q)  BY <1>1, <1>2, <2>3, AloneIsAlone
    <3>2. q <= session  BY <2>3, Bounds DEF RunInv, RunTypes, RunOK, Unborn
    <3>3. spell[q] = spell[session]  BY <2>3, <3>2 DEF RunInv, RunOK
    <3>4. spell[q] = spell[p]  BY <3>3, OthersStay
    <3>5. InSpell(local[q], spell[q]) => InSpell(local[q], spell[q])'
      BY <1>1, <2>1 DEF InSpell
    <3>6. /\ InSpell(raw[fn[q]], spell[q]) => InSpell(raw[fn[q]], spell[q])'
          /\ LogInSpell(spell[q]) => LogInSpell(spell[q])'
      BY <1>1, <2>1, <2>3, <3>4 DEF GpuFilesKept, GpuOK, InSpell, LogInSpell
    <3>. QED  BY <1>1, <2>1, <2>3, <3>1, <3>5, <3>6 DEF GpuOK
  <2>. QED  BY <2>2, <2>3
<1>. QED  BY <1>2 DEF GpuInv

LEMMA GpuStartsInv ==
    ASSUME RunInv, GpuInv, NEW m \in Gpu!Modules, Starts("start"), UNCHANGED <<raw, log, local>>,
           fn' = [fn EXCEPT ![session'] = m]
    PROVE  /\ GpuInv'
           /\ session' \in Sessions /\ session' > session /\ fn'[session'] = m
           /\ \A q \in Sessions : q # session' => fn'[q] = fn[q]
<1>1. /\ UNCHANGED <<wrapper, samples, iter, N, Value>>
      /\ \A s, n : InSpell(s, n) => InSpell(s, n)'
      /\ session \in Nat /\ session' \in Sessions /\ session' = session + 1
  <2>1. 1 \in Sessions  BY MaxSessionsAssumption DEF Sessions
  <2>2. /\ UNCHANGED <<wrapper, samples, iter>>
        /\ session \in Nat /\ session' \in Sessions /\ session' = session + 1
    BY <2>1, StartsAlone
  <2>. QED  BY <2>2, SameTypes, SpellsStay
<1>2. /\ fn'[session'] = m /\ \A q \in Sessions : q # session' => fn'[q] = fn[q]
      /\ GpuTypes'
  BY <1>1 DEF GpuInv, GpuTypes, ScoreLine
<1>3. ASSUME NEW q \in Sessions PROVE GpuOK(q)'
  <2>1. CASE q = session'
    <3>1. pc'[q] = "start" /\ fn'[q] \in Gpu!Modules
      BY <1>2, <2>1, StartsAlone
    <3>. QED  BY <3>1 DEF GpuOK
  <2>2. CASE q # session'
    <3>1. /\ GpuOK(q) /\ fn'[q] = fn[q] /\ spell'[q] = spell[q]
          /\ pc'[q] = pc[q] \/ pc'[q] = "idle"
      BY <1>2, <2>2, StartsAlone DEF GpuInv
    <3>2. CASE pc'[q] = "idle"
      BY <3>1, <3>2 DEF GpuOK
    <3>3. CASE pc'[q] = pc[q] /\ pc[q] # "idle"
      <4>1. q <= session  BY <1>1, <3>3, Bounds DEF RunInv, RunOK, Unborn
      <4>2. Alone(q)' => Alone(q)  BY <4>1, StartsAlone
      <4>3. /\ InSpell(local[q], spell[q]) => InSpell(local[q], spell[q])'
            /\ InSpell(raw[fn[q]], spell[q]) => InSpell(raw[fn[q]], spell[q])'
        BY <1>1, <3>1 DEF InSpell
      <4>4. LogInSpell(spell[q]) => LogInSpell(spell[q])'
        <5>1. \A n : InSpell([i \in 1..Len(log) |-> log[i].of], n) <=> LogInSpell(n)
          <6>1. Len([i \in 1..Len(log) |-> log[i].of]) = Len(log)
            BY LenProperties DEF GpuInv, GpuTypes
          <6>. QED  BY <6>1 DEF InSpell, OfSpell, LogInSpell, LogOfSpell
        <5>2. \A n : InSpell([i \in 1..Len(log) |-> log[i].of], n)' <=> LogInSpell(n)'
          <6>1. Len([i \in 1..Len(log) |-> log[i].of]) = Len(log)
            BY LenProperties DEF GpuInv, GpuTypes
          <6>. QED  BY <6>1 DEF InSpell, OfSpell, LogInSpell, LogOfSpell
        <5>. QED  BY <1>1, <3>1, <5>1, <5>2 DEF InSpell, LogInSpell
      <4>. QED  BY <1>1, <1>2, <3>1, <3>3, <4>2, <4>3, <4>4 DEF GpuOK
    <3>. QED  BY <3>1, <3>2, <3>3
  <2>. QED  BY <2>1, <2>2
<1>. QED  BY <1>1, <1>2, <1>3 DEF GpuInv

(* A set of naturals has a least one.                                      *)
LEMMA LeastOf ==
    ASSUME NEW S, S \subseteq Nat, S # {}
    PROVE  \E i \in S : \A j \in S : i <= j
<1>. DEFINE R == {ij \in Nat \X Nat : ij[1] < ij[2]}
<1>1. IsWellFoundedOn(R, Nat)  BY NatLessThanWellFounded DEF OpToRel
<1>2. PICK i \in S : \A j \in S : ~(<<j, i>> \in R)  BY <1>1, WFMin
<1>3. ASSUME NEW j \in S PROVE i <= j
  <2>1. <<j, i>> \in Nat \X Nat /\ i \in Nat /\ j \in Nat OBVIOUS
  <2>2. ~(j < i)  BY <1>2, <2>1
  <2>. QED  BY <2>1, <2>2
<1>. QED  BY <1>3

(* A step of GpuTest is one that Measurement allows; only a start changes  *)
(* which function a session runs, and only that of the new session.        *)
GpuKept ==
    \/ \E first : /\ Starts(first)
                  /\ \A q \in Sessions : q # session' => fn'[q] = fn[q]
    \/ \E p \in Sessions : RunMove(p) /\ (Prints(p) => RowKept(p)) /\ fn' = fn

(* A move of p that writes to no file and leaves its score alone.          *)
LEMMA GpuQuiet ==
    ASSUME RunInv, GpuInv, NEW p \in Sessions, RunMove(p), UNCHANGED <<raw, log, local, fn>>
    PROVE  GpuTypes' /\ GpuFilesKept(p)
<1>1. /\ UNCHANGED <<wrapper, session, spell, Value>>
  BY OthersStay, SameTypes
<1>. QED
  BY <1>1 DEF GpuInv, GpuTypes, ScoreLine, GpuFilesKept, InSpell, LogInSpell

(* A move of p that is over, or that stays in its loop.                    *)
LEMMA GpuStays ==
    ASSUME RunInv, GpuInv, NEW p \in Sessions, RunMove(p), UNCHANGED <<fn, raw, log, local>>,
           samples' = samples, pc'[p] = "idle" \/ (pc[p] = "loop" /\ pc'[p] = "loop")
    PROVE  GpuTypes' /\ GpuFilesKept(p) /\ GpuOK(p)'
<1>1. GpuTypes' /\ GpuFilesKept(p)  BY GpuQuiet
<1>2. CASE pc'[p] = "idle"  BY <1>1, <1>2 DEF GpuOK
<1>3. CASE pc[p] = "loop" /\ pc'[p] = "loop"
  <2>1. /\ UNCHANGED <<session, spell, Value>> /\ Alone(p)' = Alone(p)
        /\ \A s, n : InSpell(s, n) => InSpell(s, n)'
    BY OthersStay, SameTypes, SpellsStay DEF Alone
  <2>2. GpuOK(p)  BY DEF GpuInv
  <2>3. GpuOK(p)'  BY <1>1, <1>3, <2>1, <2>2 DEF GpuOK, GpuFilesKept, InSpell
  <2>. QED  BY <1>1, <2>3
<1>. QED  BY <1>2, <1>3

LEMMA GpuStep ==
    ASSUME RunInv, GpuInv, wrapper = "gputest", wrapper' = wrapper, Gpu!Next
    PROVE  GpuInv' /\ GpuKept
<1>. DEFINE Own(p) == /\ RunMove(p) /\ GpuTypes' /\ GpuFilesKept(p) /\ GpuOK(p)'
                      /\ Prints(p) => RowKept(p)
            files == <<fn, raw, log, local>>
<1>1. /\ N = FnIterations /\ N \in Nat /\ N <= Iterations /\ Iterations \in Nat
      /\ Gpu!Modules = {"FurMark", "TessMark"}
      /\ raw \in [Gpu!Modules -> Seq(Value)] /\ log \in Seq(ScoreLine)
      /\ local \in [Sessions -> Seq(Value)] /\ fn \in [Sessions -> {"none"} \cup Gpu!Modules]
      /\ iter \in [Sessions -> 0..N]
  BY Bounds, IterationsAssumption DEF N, TwoFunctions, GpuInv, GpuTypes, RunInv, RunTypes, Gpu!Modules
<1>2. ASSUME NEW p \in Sessions, pc[p] # "idle"
      PROVE  /\ GpuOK(p) /\ fn[p] \in Gpu!Modules /\ raw[fn[p]] \in Seq(Value)
             /\ samples[p] \in Seq(Value) /\ local[p] \in Seq(Value)
  BY <1>1, <1>2 DEF GpuInv, GpuOK, RunInv, RunTypes
<1>3. ASSUME NEW p \in Sessions, RunMove(p)
      PROVE  /\ UNCHANGED <<session, spell, N, Value>> /\ pc[p] # "idle" /\ Alone(p)' = Alone(p)
             /\ \A s, n : InSpell(s, n) => InSpell(s, n)'
  BY <1>3, OthersStay, SameTypes, SpellsStay DEF Alone
<1>a. ASSUME NEW p \in Sessions, iter[p] < N PROVE iter[p] < Iterations
  BY <1>1, <1>a
<1>5. ASSUME NEW p \in Sessions, Gpu!Kill(p), UNCHANGED files PROVE Own(p)
  <2>1. Walks(p) /\ pc'[p] = "idle" /\ undone' = undone
    BY <1>5, KillMoves DEF Gpu!Kill, Kill
  <2>2. RunMove(p) /\ samples' = samples /\ row' = row  BY <2>1 DEF RunMove, Walks
  <2>3. GpuTypes' /\ GpuFilesKept(p) /\ GpuOK(p)'
    BY <1>5, <2>1, <2>2, GpuStays
  <2>. QED  BY <2>2, <2>3 DEF RowKept
<1>6. ASSUME NEW p \in Sessions, Gpu!ScriptFails(p) PROVE Own(p)
  <2>1. Iterate(p, FALSE) /\ UNCHANGED files /\ iter[p] < N /\ samples' = samples
    BY <1>1, <1>6, <1>a
    DEF Gpu!ScriptFails, Gpu!Iterate, Iterate, Gpu!Measures, Measures, Gpu!Returns, Returns
  <2>2. Works(p) /\ pc[p] = "loop" /\ pc'[p] \in {"loop", "idle"}
    BY <2>1, IterateMoves
  <2>3. RunMove(p) /\ samples' = samples /\ row' = row  BY <2>1, <2>2 DEF RunMove, Works
  <2>4. GpuTypes' /\ GpuFilesKept(p) /\ GpuOK(p)'
    BY <2>1, <2>2, <2>3, GpuStays
  <2>. QED  BY <2>3, <2>4 DEF RowKept
<1>7. ASSUME NEW p \in Sessions, Gpu!ClearResultsFile(p) PROVE Own(p)
  <2>1. Goto(p, "start", "loop") /\ raw' = [raw EXCEPT ![fn[p]] = << >>] /\ UNCHANGED <<fn, log, local>>
    BY <1>7 DEF Gpu!ClearResultsFile, Gpu!Goto, Goto
  <2>2. Walks(p) /\ pc[p] = "start" /\ pc'[p] = "loop" /\ RunMove(p) /\ UNCHANGED <<row, samples>>
    BY <2>1, GotoMoves DEF AllPlaces, Out, Early, RunMove, Walks
  <2>3. samples[p] = << >> /\ fn[p] \in Gpu!Modules
    BY <1>2, <2>2 DEF RunInv, RunOK
  <2>4. /\ raw' \in [Gpu!Modules -> Seq(Value)] /\ raw'[fn[p]] = << >>
        /\ \A m \in Gpu!Modules : raw'[m] = raw[m] \/ raw'[m] = << >>
    BY <1>1, <2>1, <2>3, Results
  <2>5. InSpell(<< >>, spell[p])'  BY DEF InSpell, OfSpell
  <2>6. \A m \in Gpu!Modules : InSpell(raw[m], spell[p]) => InSpell(raw[m], spell[p])'
    BY <1>3, <2>2, <2>4, <2>5 DEF InSpell
  <2>7. GpuTypes' /\ GpuFilesKept(p)
    BY <1>1, <1>3, <2>1, <2>2, <2>4, <2>6 DEF GpuTypes, ScoreLine, GpuFilesKept, LogInSpell
  <2>8. InSpell(raw[fn[p]], spell[p])'
    BY <1>3, <2>1, <2>2, <2>4, <2>5 DEF InSpell
  <2>9. GpuOK(p)'
    BY <1>3, <2>1, <2>2, <2>3, <2>4, <2>8 DEF GpuOK
  <2>. QED  BY <2>2, <2>7, <2>9 DEF RowKept
<1>8. ASSUME NEW p \in Sessions, Gpu!StartGpuTest(p) PROVE Own(p)
  <2>1. /\ Goto(p, "loop", "run") /\ log' = << >> /\ UNCHANGED <<fn, raw, local>>
        /\ iter[p] < N
    BY <1>1, <1>8 DEF Gpu!StartGpuTest, Gpu!Goto, Goto
  <2>2. /\ Walks(p) /\ pc[p] = "loop" /\ pc'[p] = "run" /\ RunMove(p)
        /\ UNCHANGED <<row, samples, iter>>
    BY <2>1, GotoMoves DEF AllPlaces, Out, Early, RunMove, Walks
  <2>3. LogInSpell(spell[p])'
    BY <2>1 DEF LogInSpell, LogOfSpell
  <2>4. GpuTypes' /\ GpuFilesKept(p)
    BY <1>1, <1>3, <2>1, <2>2, <2>3 DEF GpuTypes, ScoreLine, GpuFilesKept, InSpell
  <2>5. InSpell(raw[fn[p]], spell[p])'
    BY <1>2, <1>3, <2>1, <2>2 DEF InSpell, GpuOK
  <2>6. GpuOK(p)'
    BY <1>2, <1>3, <2>1, <2>2, <2>3, <2>5 DEF GpuOK
  <2>. QED  BY <2>2, <2>4, <2>6 DEF RowKept
<1>9. ASSUME NEW p \in Sessions, RunMove(p), pc[p] = "run", iter[p] < N, UNCHANGED <<fn, raw, local>>,
             log' = log \/ log' = Append(log, [module |-> fn[p], of |-> Current(p)])
      PROVE  /\ GpuTypes' /\ GpuFilesKept(p) /\ LogInSpell(spell[p])'
             /\ InSpell(raw[fn[p]], spell[p])' /\ fn[p] \in Gpu!Modules
             /\ Alone(p) => \/ log' = << >>
                            \/ log' = <<[module |-> fn[p], of |-> Current(p)]>>
             /\ Current(p) \in Value
  <2>. DEFINE line == [module |-> fn[p], of |-> Current(p)]
  <2>1. /\ Current(p) \in Value /\ Current(p)[1] = p
    BY <1>9, CurrentValue
  <2>2. fn[p] \in Gpu!Modules /\ GpuOK(p)  BY <1>2, <1>9
  <2>3. line \in ScoreLine /\ line.of = Current(p)
    BY <2>1, <2>2 DEF ScoreLine
  <2>4. p \in 1..session  BY <1>9, OthersStay, Bounds DEF RunInv, RunTypes
  <2>. HIDE DEF line
  <2>5. /\ Append(log, line) \in Seq(ScoreLine)
        /\ Len(Append(log, line)) = Len(log) + 1
        /\ Append(log, line)[Len(log) + 1] = line
        /\ \A i \in 1..Len(log) : Append(log, line)[i] = log[i]
        /\ Len(log) \in Nat
    BY <1>1, <2>3, Appended
  <2>6. LogOfSpell(log, spell[p], session, spell)
    BY <1>9, <2>2 DEF GpuOK, LogInSpell
  <2>7. LogOfSpell(Append(log, line), spell[p], session, spell)
    <3>1. \A i \in 1..(Len(log) + 1) : i \in 1..Len(log) \/ i = Len(log) + 1
      BY <2>5
    <3>. QED  BY <2>1, <2>3, <2>4, <2>5, <2>6, <3>1 DEF LogOfSpell
  <2>8. log' = log \/ log' = Append(log, line)  BY <1>9 DEF line
  <2>9. LogInSpell(spell[p])'
    BY <1>3, <1>9, <2>6, <2>7, <2>8 DEF LogInSpell
  <2>10. log' \in Seq(ScoreLine)  BY <1>1, <2>5, <2>8
  <2>11. GpuTypes' /\ GpuFilesKept(p)
    BY <1>1, <1>3, <1>9, <2>9, <2>10 DEF GpuTypes, ScoreLine, GpuFilesKept, InSpell
  <2>12. InSpell(raw[fn[p]], spell[p])'
    BY <1>3, <1>9, <2>2 DEF InSpell, GpuOK
  <2>13. Alone(p) => log' = << >> \/ log' = <<line>>
    <3>1. Alone(p) => log = << >>  BY <1>9, <2>2 DEF GpuOK
    <3>2. Append(<< >>, line) = <<line>>  OBVIOUS
    <3>. QED  BY <2>8, <3>1, <3>2
  <2>. QED  BY <2>1, <2>2, <2>9, <2>11, <2>12, <2>13 DEF line
<1>10. ASSUME NEW p \in Sessions, Gpu!ScriptSucceeds(p) PROVE Own(p)
  <2>1. PICK ok \in BOOLEAN :
           /\ Produce(p, "run", ok, "copy") /\ iter[p] < N
           /\ log' = IF ok THEN Append(log, [module |-> fn[p], of |-> Current(p)]) ELSE log
    BY <1>1, <1>10, <1>a
    DEF Gpu!ScriptSucceeds, Gpu!Produce, Produce, Gpu!Measures, Measures, Gpu!Returns, Returns,
        Gpu!Current, Current, Gpu!LogScore
  <2>2. iter[p] < N /\ UNCHANGED <<fn, raw, local>>
    BY <1>10, <2>1 DEF Gpu!ScriptSucceeds
  <2>3. /\ Works(p) /\ pc[p] = "run" /\ pc'[p] \in {"copy", "idle"} /\ iter' = iter
        /\ samples' = IF ok THEN [samples EXCEPT ![p] = Append(@, Current(p))] ELSE samples
    BY <2>1, <2>2, ProduceMoves DEF AllPlaces, Early
  <2>4. RunMove(p) /\ row' = row  BY <2>3 DEF RunMove, Works
  <2>5. /\ GpuTypes' /\ GpuFilesKept(p) /\ LogInSpell(spell[p])'
        /\ InSpell(raw[fn[p]], spell[p])' /\ fn[p] \in Gpu!Modules
        /\ Alone(p) => \/ log' = << >>
                       \/ log' = <<[module |-> fn[p], of |-> Current(p)]>>
        /\ Current(p) \in Value
    <3>1. log' = log \/ log' = Append(log, [module |-> fn[p], of |-> Current(p)])  BY <2>1
    <3>. QED  BY <1>9, <2>2, <2>3, <2>4, <3>1
  <2>6. ASSUME Alone(p)
        PROVE  \/ log' = << >> /\ raw'[fn'[p]] = samples'[p]
               \/ \E x \in Value : /\ log' = <<[module |-> fn'[p], of |-> x]>>
                                   /\ samples'[p] = Append(raw'[fn'[p]], x)
    <3>1. log = << >> /\ raw[fn[p]] = samples[p]
      BY <1>2, <2>3, <2>6 DEF GpuOK
    <3>2. CASE ok
      <4>1. samples'[p] = Append(samples[p], Current(p))
        BY <2>3, <3>2 DEF RunInv, RunTypes
      <4>2. log' = <<[module |-> fn[p], of |-> Current(p)]>>
        BY <2>1, <3>1, <3>2
      <4>. QED  BY <2>2, <2>5, <3>1, <4>1, <4>2
    <3>3. CASE ~ok
      BY <2>1, <2>2, <2>3, <3>1, <3>3
    <3>. QED  BY <3>2, <3>3
  <2>7. GpuOK(p)'
    <3>1. CASE pc'[p] = "idle"  BY <3>1 DEF GpuOK
    <3>2. CASE pc'[p] = "copy"
      BY <1>3, <2>2, <2>3, <2>4, <2>5, <2>6, <3>2 DEF GpuOK
    <3>. QED  BY <2>3, <3>1, <3>2
  <2>. QED  BY <2>4, <2>5, <2>7 DEF RowKept
<1>11. ASSUME NEW p \in Sessions, Gpu!GpuTestFails(p) PROVE Own(p)
  <2>1. /\ NextIteration(p, "run") /\ UNCHANGED <<fn, raw, local>> /\ pc[p] = "run"
        /\ log' = log \/ log' = Append(log, [module |-> fn[p], of |-> Current(p)])
    BY <1>11
    DEF Gpu!GpuTestFails, Gpu!NextIteration, NextIteration, Gpu!LogScore, Gpu!Current, Current
  <2>2. iter[p] < N  BY <2>1, <1>2 DEF GpuOK
  <2>3. Iterates(p) /\ pc'[p] = "loop"  BY <2>1, <2>2, NextMoves DEF Out
  <2>4. RunMove(p) /\ UNCHANGED <<samples, row>>  BY <2>3 DEF RunMove, Iterates
  <2>5. GpuTypes' /\ GpuFilesKept(p) /\ InSpell(raw[fn[p]], spell[p])' /\ fn[p] \in Gpu!Modules
    BY <1>9, <2>1, <2>2, <2>4
  <2>6. GpuOK(p)'
    BY <1>2, <1>3, <2>1, <2>3, <2>4, <2>5 DEF GpuOK
  <2>. QED  BY <2>4, <2>5, <2>6 DEF RowKept
<1>12. ASSUME NEW p \in Sessions, Gpu!FindScore(p) PROVE Own(p)
  <2>. DEFINE matches == {i \in DOMAIN log : log[i].module = fn[p]}
              first   == CHOOSE i \in matches : \A j \in matches : i <= j
              found   == IF matches = {} THEN << >> ELSE <<log[first].of>>
  <2>1. /\ Goto(p, "copy", "append") /\ local' = [local EXCEPT ![p] = found]
        /\ UNCHANGED <<fn, raw, log>>
    BY <1>12 DEF Gpu!FindScore, Gpu!Goto, Goto, Gpu!Matches
  <2>2. /\ Walks(p) /\ pc[p] = "copy" /\ pc'[p] = "append" /\ RunMove(p)
        /\ UNCHANGED <<row, samples, iter>>
    BY <2>1, GotoMoves DEF AllPlaces, Out, Early, RunMove, Walks
  <2>3. /\ GpuOK(p) /\ fn[p] \in Gpu!Modules /\ raw[fn[p]] \in Seq(Value)
        /\ samples[p] \in Seq(Value) /\ LogInSpell(spell[p])
    BY <1>2, <2>2 DEF GpuOK
  <2>4. DOMAIN log = 1..Len(log) /\ Len(log) \in Nat /\ \A i \in DOMAIN log : log[i] \in ScoreLine
    BY <1>1, LenProperties, ElementOfSeq
  <2>5. ASSUME matches = {}
        PROVE  /\ found \in Seq(Value) /\ OfSpell(found, spell[p], session, spell)
               /\ Alone(p) => samples[p] = raw[fn[p]] \o found
    <3>1. found = << >>  BY <2>5
    <3>. HIDE DEF found
    <3>2. Alone(p) => raw[fn[p]] = samples[p]
      <4>1. ASSUME NEW x \in Value, log = <<[module |-> fn[p], of |-> x]>> PROVE FALSE
        <5>1. 1 \in DOMAIN log /\ log[1].module = fn[p]  BY <4>1
        <5>. QED  BY <2>5, <5>1
      <4>. QED  BY <2>2, <2>3, <4>1 DEF GpuOK
    <3>3. found \in Seq(Value) /\ OfSpell(found, spell[p], session, spell)
      <4>1. Len(found) = 0 /\ found \in Seq(Value)  BY <3>1, Results
      <4>. QED  BY <4>1 DEF OfSpell
    <3>4. Alone(p) => samples[p] = raw[fn[p]] \o found
      BY <2>3, <3>1, <3>2, ConcatEmptySeq
    <3>. QED  BY <3>3, <3>4
  <2>6. ASSUME matches # {}
        PROVE  /\ found \in Seq(Value) /\ OfSpell(found, spell[p], session, spell)
               /\ Alone(p) => samples[p] = raw[fn[p]] \o found
    <3>1. first \in matches
      <4>1. matches \subseteq Nat  BY <2>4
      <4>2. \E i \in matches : \A j \in matches : i <= j
        BY <2>6, <4>1, LeastOf
      <4>. QED  BY <4>2
    <3>. DEFINE x == log[first].of
    <3>2. /\ x \in Value /\ x[1] \in 1..session /\ spell[x[1]] = spell[p]
      <4>1. first \in 1..Len(log) /\ log[first] \in ScoreLine  BY <2>4, <3>1
      <4>. QED  BY <2>3, <4>1 DEF ScoreLine, LogInSpell, LogOfSpell
    <3>3. found = <<x>>  BY <2>6
    <3>. HIDE DEF first
    <3>4. Alone(p) => samples[p] = Append(raw[fn[p]], x)
      <4>1. ASSUME Alone(p) PROVE samples[p] = Append(raw[fn[p]], x)
        <5>1. log # << >>  BY <2>4, <3>1
        <5>2. PICK y \in Value : /\ log = <<[module |-> fn[p], of |-> y]>>
                                 /\ samples[p] = Append(raw[fn[p]], y)
          BY <2>2, <2>3, <4>1, <5>1 DEF GpuOK
        <5>3. first = 1  BY <2>4, <3>1, <5>2
        <5>4. x = y  BY <5>2, <5>3
        <5>. QED  BY <5>2, <5>4
      <4>. QED  BY <4>1
    <3>. HIDE DEF x
    <3>5. <<x>> \in Seq(Value) /\ OfSpell(<<x>>, spell[p], session, spell)
      BY <3>2 DEF OfSpell
    <3>6. Append(raw[fn[p]], x) = raw[fn[p]] \o <<x>>
      BY <2>3, <3>2, AppendIsConcat
    <3>. QED  BY <3>3, <3>4, <3>5, <3>6
  <2>7. /\ found \in Seq(Value) /\ OfSpell(found, spell[p], session, spell)
        /\ Alone(p) => samples[p] = raw[fn[p]] \o found
    BY <2>5, <2>6
  <2>. HIDE DEF found
  <2>8. /\ local' \in [Sessions -> Seq(Value)] /\ local'[p] = found
        /\ \A q \in Sessions : q # p => local'[q] = local[q]
    BY <1>1, <2>1, <2>7
  <2>9. GpuTypes' /\ GpuFilesKept(p)
    BY <1>1, <1>3, <2>1, <2>2, <2>8 DEF GpuTypes, ScoreLine, GpuFilesKept, InSpell, LogInSpell
  <2>10. InSpell(raw[fn[p]], spell[p])' /\ InSpell(local[p], spell[p])'
    BY <1>3, <2>1, <2>2, <2>3, <2>7, <2>8 DEF InSpell, GpuOK
  <2>11. GpuOK(p)'
    BY <1>3, <2>1, <2>2, <2>3, <2>7, <2>8, <2>10 DEF GpuOK
  <2>. QED  BY <2>2, <2>9, <2>11 DEF RowKept
<1>13. ASSUME NEW p \in Sessions, Gpu!CopyScore(p) PROVE Own(p)
  <2>1. /\ NextIteration(p, "append") /\ UNCHANGED <<fn, log>> /\ pc[p] = "append"
        /\ raw' = [raw EXCEPT ![fn[p]] = @ \o local[p]]
        /\ local' = [local EXCEPT ![p] = << >>]
    BY <1>13 DEF Gpu!CopyScore, Gpu!NextIteration, NextIteration
  <2>2. /\ GpuOK(p) /\ fn[p] \in Gpu!Modules /\ raw[fn[p]] \in Seq(Value) /\ local[p] \in Seq(Value)
        /\ iter[p] < N
    BY <1>2, <2>1 DEF GpuOK
  <2>3. Iterates(p) /\ pc'[p] = "loop"  BY <2>1, <2>2, NextMoves DEF Out
  <2>4. RunMove(p) /\ UNCHANGED <<samples, row>>  BY <2>3 DEF RunMove, Iterates
  <2>. DEFINE all == raw[fn[p]] \o local[p]
              a   == Len(raw[fn[p]])
              b   == Len(local[p])
  <2>5. /\ all \in Seq(Value) /\ Len(all) = a + b /\ a \in Nat /\ b \in Nat
        /\ \A i \in 1..(a + b) : all[i] = IF i <= a THEN raw[fn[p]][i] ELSE local[p][i - a]
    <3>1. a \in Nat /\ b \in Nat  BY <2>2, LenProperties
    <3>2. /\ all \in Seq(Value) /\ Len(all) = a + b
          /\ \A i \in 1..(a + b) : all[i] = IF i <= a THEN raw[fn[p]][i] ELSE local[p][i - a]
      <4>. HIDE DEF Own
      <4>. QED  BY <2>2, ConcatProperties
    <3>. QED  BY <3>1, <3>2
  <2>6. InSpell(raw[fn[p]], spell[p]) /\ InSpell(local[p], spell[p])
        /\ (Alone(p) => samples[p] = all)
    BY <2>1, <2>2 DEF GpuOK, all
  <2>7. OfSpell(all, spell[p], session, spell)
    <3>1. /\ \A i \in 1..a : raw[fn[p]][i][1] \in 1..session /\ spell[raw[fn[p]][i][1]] = spell[p]
          /\ \A i \in 1..b : local[p][i][1] \in 1..session /\ spell[local[p][i][1]] = spell[p]
      BY <2>6 DEF InSpell, OfSpell
    <3>. HIDE DEF all, a, b, Own
    <3>2. ASSUME NEW i \in 1..(a + b)
          PROVE  all[i][1] \in 1..session /\ spell[all[i][1]] = spell[p]
      <4>1. (i <= a /\ i \in 1..a) \/ (~(i <= a) /\ i - a \in 1..b)
        BY <2>5
      <4>2. all[i] = IF i <= a THEN raw[fn[p]][i] ELSE local[p][i - a]
        BY <2>5
      <4>. QED  BY <3>1, <4>1, <4>2
    <3>. QED  BY <2>5, <3>2 DEF OfSpell
  <2>. HIDE DEF all
  <2>8. /\ raw' \in [Gpu!Modules -> Seq(Value)] /\ raw'[fn[p]] = all
        /\ \A m \in Gpu!Modules : raw'[m] = raw[m] \/ raw'[m] = all
        /\ local' \in [Sessions -> Seq(Value)]
        /\ \A q \in Sessions : q # p => local'[q] = local[q]
    BY <1>1, <2>1, <2>2, <2>5, Results DEF all
  <2>9. \A m \in Gpu!Modules : InSpell(raw[m], spell[p]) => InSpell(raw[m], spell[p])'
    BY <1>3, <2>4, <2>7, <2>8 DEF InSpell
  <2>10. GpuTypes' /\ GpuFilesKept(p)
    BY <1>1, <1>3, <2>1, <2>4, <2>8, <2>9 DEF GpuTypes, ScoreLine, GpuFilesKept, LogInSpell
  <2>11. InSpell(raw[fn[p]], spell[p])'
    BY <1>3, <2>1, <2>4, <2>7, <2>8 DEF InSpell
  <2>12. GpuOK(p)'
    BY <1>3, <2>1, <2>2, <2>3, <2>4, <2>6, <2>8, <2>11 DEF GpuOK
  <2>. QED  BY <2>4, <2>10, <2>12 DEF RowKept
<1>14. ASSUME NEW p \in Sessions, UNCHANGED files,
              NEW figure, figure = IF raw[fn[p]] = << >> THEN NoData ELSE Mean(raw[fn[p]]),
              Publish(p, "loop", figure) \/ PublishFirst(p, "loop", figure)
       PROVE  Own(p)
  <2>1. pc[p] = "loop"  BY <1>14 DEF Publish, PublishFirst
  <2>2. GpuOK(p) /\ fn[p] \in Gpu!Modules /\ raw[fn[p]] \in Seq(Value)
    BY <1>2, <2>1
  <2>3. /\ figure \in Result
        /\ figure.kind = "mean" => InSpell(figure.of, spell[p])
        /\ Alone(p) => Whole(p, figure)
    <3>1. CASE raw[fn[p]] = << >>
      BY <1>14, <2>1, <2>2, <3>1, Results, Kinds DEF GpuOK, Whole
    <3>2. CASE raw[fn[p]] # << >>
      BY <1>14, <2>1, <2>2, <3>2, Results, Kinds DEF GpuOK, Whole
    <3>. QED  BY <3>1, <3>2
  <2>4. Prints(p) /\ pc'[p] \in Out /\ row'[p] = figure
    BY <1>14, <2>3, PublishMoves DEF Out
  <2>5. RowKept(p) /\ RunMove(p)  BY <2>3, <2>4, WholeKept DEF RunMove
  <2>6. GpuTypes' /\ GpuFilesKept(p)  BY <1>14, <2>5, GpuQuiet
  <2>7. GpuOK(p)'
    BY <1>14, <2>2, <2>4 DEF GpuOK, Out
  <2>. QED  BY <2>5, <2>6, <2>7
<1>15. ASSUME NEW p \in Sessions, Gpu!PublishFurMark(p) PROVE Own(p)
  <2>1. /\ UNCHANGED files /\ fn[p] = "FurMark"
        /\ PublishFirst(p, "loop", IF raw[fn[p]] = << >> THEN NoData ELSE Mean(raw[fn[p]]))
    BY <1>15
    DEF Gpu!PublishFurMark, Gpu!PublishFirst, PublishFirst, Gpu!CalculateAverageScore,
        Gpu!NoData, NoData, Gpu!Mean, Mean
  <2>. QED  BY <1>14, <2>1
<1>16. ASSUME NEW p \in Sessions, Gpu!PublishTessMark(p) PROVE Own(p)
  <2>1. /\ UNCHANGED files /\ fn[p] = "TessMark"
        /\ Publish(p, "loop", IF raw[fn[p]] = << >> THEN NoData ELSE Mean(raw[fn[p]]))
    BY <1>16
    DEF Gpu!PublishTessMark, Gpu!Publish, Publish, Gpu!CalculateAverageScore,
        Gpu!NoData, NoData, Gpu!Mean, Mean
  <2>. QED  BY <1>14, <2>1
<1>17. ASSUME NEW m \in Gpu!Modules, Starts("start"), UNCHANGED <<raw, log, local>>,
              fn' = [fn EXCEPT ![session'] = m]
       PROVE  GpuInv' /\ GpuKept
  BY <1>17, GpuStartsInv DEF GpuKept
<1>18. CASE Gpu!Main
  <2>1. /\ Starts("start") /\ UNCHANGED <<raw, log, local>>
        /\ fn' = [fn EXCEPT ![session'] = "FurMark"]
    BY <1>18 DEF Gpu!Main, Gpu!Launch, Launch, Starts, Gpu!Busy, Busy, Gpu!Sessions, Sessions
  <2>. QED  BY <1>1, <1>17, <2>1
<1>19. ASSUME NEW p \in Sessions, Gpu!StartTessMark(p) PROVE GpuInv' /\ GpuKept
  <2>1. /\ Starts("start") /\ UNCHANGED <<raw, log, local>>
        /\ fn' = [fn EXCEPT ![session'] = "TessMark"]
    BY <1>19
    DEF Gpu!StartTessMark, Gpu!StartSecond, StartSecond, Starts, Gpu!Busy, Busy, Gpu!Sessions,
        Sessions
  <2>. QED  BY <1>1, <1>17, <2>1
<1>20. ASSUME NEW p \in Sessions, Own(p) PROVE GpuInv' /\ GpuKept
  BY <1>20, GpuMoveInv DEF GpuKept, GpuFilesKept
<1>. QED
  BY <1>5, <1>6, <1>7, <1>8, <1>10, <1>11, <1>12, <1>13, <1>15, <1>16, <1>18, <1>19, <1>20
  DEF Gpu!Next, Gpu!Sessions, Sessions


(***************************************************************************)
(* All wrappers                                                            *)
(***************************************************************************)
Wrapper == Scripted \cup Reading \cup {"gputest"}

(* Where a session can be, where no other invariant says so.               *)
PlacesOf ==
    [iperf |-> {"idle", "start", "loop", "parse", "teardown"},
     blake |-> {"idle", "start", "loop", "parse"},
     cray  |-> {"idle", "loop", "render", "parse", "return"}]

Placed == pc \in [Sessions -> PlacesOf[wrapper]]

LEMMA Places ==
    /\ PlacesOf["iperf"] = {"idle", "start", "loop", "parse", "teardown"}
    /\ PlacesOf["blake"] = {"idle", "start", "loop", "parse"}
    /\ PlacesOf["cray"]  = {"idle", "loop", "render", "parse", "return"}
BY DEF PlacesOf

LEMMA IperfPlaced == ASSUME Placed, wrapper = "iperf", wrapper' = wrapper, Iperf!Next PROVE Placed'
<1>. DEFINE P == {"idle", "start", "loop", "parse", "teardown"}
<1>1. pc \in [Sessions -> P]  BY Places DEF Placed
<1>2. ASSUME Iperf!Launch("start") PROVE pc' \in [Sessions -> P]
  BY <1>1, <1>2 DEF Iperf!Launch
<1>3. ASSUME NEW p \in Sessions,
             \/ Iperf!Kill(p) \/ Iperf!SetUp(p) \/ Iperf!SetCounters(p) \/ Iperf!EndLoop(p)
             \/ Iperf!PublishBitrates(p)
      PROVE  pc' \in [Sessions -> P]
  BY <1>1, <1>3
  DEF Iperf!Kill, Iperf!SetUp, Iperf!SetCounters, Iperf!EndLoop, Iperf!PublishBitrates, Iperf!Goto,
      Iperf!NextIteration, Iperf!LoopEnds, Iperf!Publish
<1>4. ASSUME NEW p \in Sessions, Iperf!RunIperfClient(p) PROVE pc' \in [Sessions -> P]
  BY <1>1, <1>4 DEF Iperf!RunIperfClient, Iperf!Produce, Iperf!Returns
<1>5. pc' \in [Sessions -> P]
  BY <1>2, <1>3, <1>4 DEF Iperf!Launch, Iperf!Next, Iperf!Sessions, Sessions
<1>. QED  BY <1>5, Places DEF Placed

LEMMA BlakePlaced == ASSUME Placed, wrapper = "blake", wrapper' = wrapper, Blake!Next PROVE Placed'
<1>. DEFINE P == {"idle", "start", "loop", "parse"}
<1>1. pc \in [Sessions -> P]  BY Places DEF Placed
<1>2. ASSUME Blake!Launch("start") PROVE pc' \in [Sessions -> P]
  BY <1>1, <1>2 DEF Blake!Launch
<1>3. ASSUME NEW p \in Sessions,
             Blake!Kill(p) \/ Blake!ClearFile(p) \/ Blake!EndLoop(p) \/ Blake!PublishPerByte(p)
      PROVE  pc' \in [Sessions -> P]
  BY <1>1, <1>3
  DEF Blake!Kill, Blake!ClearFile, Blake!EndLoop, Blake!PublishPerByte, Blake!Goto, Blake!LoopEnds,
      Blake!Publish
<1>4. ASSUME NEW p \in Sessions, Blake!RunBlake2s(p) PROVE pc' \in [Sessions -> P]
  BY <1>1, <1>4 DEF Blake!RunBlake2s, Blake!Iterate, Blake!Returns
<1>5. pc' \in [Sessions -> P]
  BY <1>2, <1>3, <1>4 DEF Blake!Next, Blake!Sessions, Sessions
<1>. QED  BY <1>5, Places DEF Placed

LEMMA CrayPlaced == ASSUME Placed, wrapper = "cray", wrapper' = wrapper, Cray!Next PROVE Placed'
<1>. DEFINE P == {"idle", "loop", "render", "parse", "return"}
<1>1. pc \in [Sessions -> P]  BY Places DEF Placed
<1>2. ASSUME Cray!Launch("loop") PROVE pc' \in [Sessions -> P]
  BY <1>1, <1>2 DEF Cray!Launch
<1>3. ASSUME NEW p \in Sessions,
             \/ Cray!Kill(p) \/ Cray!OpenResult(p) \/ Cray!Parse(p) \/ Cray!EndLoop(p)
             \/ Cray!PublishTime(p)
      PROVE  pc' \in [Sessions -> P]
  BY <1>1, <1>3
  DEF Cray!Kill, Cray!OpenResult, Cray!Parse, Cray!EndLoop, Cray!PublishTime, Cray!Goto,
      Cray!NextIteration, Cray!LoopEnds, Cray!Publish
<1>4. ASSUME NEW p \in Sessions, Cray!NoThreadCount(p) \/ Cray!Render(p)
      PROVE  pc' \in [Sessions -> P]
  BY <1>1, <1>4
  DEF Cray!NoThreadCount, Cray!Render, Cray!Iterate, Cray!Produce, Cray!Returns
<1>5. pc' \in [Sessions -> P]
  BY <1>2, <1>3, <1>4 DEF Cray!Next, Cray!Sessions, Sessions
<1>. QED  BY <1>5, Places DEF Placed

(* ethr: the values its script cannot read are values.                     *)
LEMMA EthrReadable ==
    ASSUME RunInv, log \subseteq Value, wrapper = "ethr", wrapper' = wrapper, Ethr!Next
    PROVE  log' \subseteq Value'
<1>1. Value' = Value  BY SameTypes
<1>2. ASSUME NEW p \in Sessions, Ethr!RunEthrBenchmark(p) PROVE log' \subseteq Value
  <2>1. iter[p] < N /\ (log' = log \/ log' = log \cup {Current(p)})
    BY <1>2 DEF Ethr!RunEthrBenchmark, Ethr!Iterate, Ethr!Current, Current, N, TwoFunctions
  <2>2. Current(p) \in Value  BY <2>1, CurrentValue
  <2>. QED  BY <2>1, <2>2
<1>3. log' = log \/ \E p \in Sessions : Ethr!RunEthrBenchmark(p)
  BY DEF Ethr!Next, Ethr!ClearFileContents, Ethr!EndLoop, Ethr!EthrAverageReads,
         Ethr!EthrAverageOpens, Ethr!EthrAverageWrites, Ethr!EthrAverageCutShort,
         Ethr!PublishBandwidth, Ethr!Sessions, Sessions
<1>. QED  BY <1>1, <1>2, <1>3

(* The invariant: what there is to say of the sessions, and of the files   *)
(* of the wrapper in use.                                                  *)
IInv ==
    /\ wrapper \in Wrapper
    /\ RunInv
    /\ wrapper \in Scripted => ScriptInv
    /\ wrapper \in Reading => FileInv
    /\ wrapper \in {"iperf", "cray"} => CounterInv
    /\ wrapper \in {"iperf", "blake", "cray"} => Placed
    /\ wrapper = "cray" => Short
    /\ wrapper = "unigine" => TermsInv
    /\ wrapper = "gputest" => GpuInv
    /\ wrapper = "ethr" => log \subseteq Value


-----------------------------------------------------------------------------
(* The invariants of the wrappers contain their type invariants.           *)
LEMMA RunTyped ==
    ASSUME RunInv, NEW P, \A p \in Sessions : pc[p] \in P
    PROVE  /\ N = Iterations => Value = Sample /\ Result = Figure
           /\ runs \in 0..MaxRuns /\ session \in 0..MaxSessions
           /\ pc \in [Sessions -> P] /\ iter \in [Sessions -> 0..N]
           /\ samples \in [Sessions -> Seq(Value)] /\ row \in [Sessions -> Result]
           /\ spell \in [Sessions -> 0..MaxSessions] /\ undone \subseteq Sessions
<1>1. N = Iterations => Value = Sample /\ Result = Figure  BY DEF Value, Result, Sample, Figure
<1>. QED  BY <1>1 DEF RunInv, RunTypes

LEMMA OneFileTyped ==
    ASSUME RunInv, ScriptInv, wrapper \in Scripted \ {"ramsmp"}
    PROVE  /\ N = Iterations
           /\ \A p \in Sessions : pc[p] \in ScriptPlaces
           /\ raw \in Seq(Value) /\ local \in [Sessions -> Seq(Value)]
           /\ res \in Result \/ (wrapper = "compile" /\ res = Compile!Missing)
BY DEF Scripted, N, TwoFunctions, ScriptInv, ScriptTypes, ScriptOK, raws, ress, Files, FileResult

LEMMA SockTypes == ASSUME IInv, wrapper = "sock" PROVE Sock!TypeOK
<1>1. ScriptPlaces = {"idle"} \cup {"start", "loop", "script", "open", "write", "read"}
  BY DEF ScriptPlaces
<1>. QED
  BY <1>1, OneFileTyped, RunTyped
  DEF IInv, Scripted, Sock!TypeOK, Sock!RunTypeOK, Sock!Sample, Sock!Sessions, Sock!Figure, Sample,
      Figure, Sessions

LEMMA CacheTypes == ASSUME IInv, wrapper = "cache" PROVE Cache!TypeOK
<1>1. ScriptPlaces = {"idle"} \cup {"start", "loop", "script", "open", "write", "read"}
  BY DEF ScriptPlaces
<1>. QED
  BY <1>1, OneFileTyped, RunTyped
  DEF IInv, Scripted, Cache!TypeOK, Cache!RunTypeOK, Cache!Sample, Cache!Sessions, Cache!Figure,
      Sample, Figure, Sessions

LEMMA EthrTypes == ASSUME IInv, wrapper = "ethr" PROVE Ethr!TypeOK
<1>1. ScriptPlaces = {"idle"} \cup {"start", "loop", "script", "open", "write", "read"}
  BY DEF ScriptPlaces
<1>. QED
  BY <1>1, OneFileTyped, RunTyped
  DEF IInv, Scripted, Ethr!TypeOK, Ethr!RunTypeOK, Ethr!Sample, Ethr!Sessions, Ethr!Figure,
      Sample, Figure, Sessions

LEMMA FioTypes == ASSUME IInv, wrapper = "fio" PROVE Fio!TypeOK
<1>1. ScriptPlaces = {"idle"} \cup {"start", "loop", "script", "open", "write", "read"}
  BY DEF ScriptPlaces
<1>. QED
  BY <1>1, OneFileTyped, RunTyped
  DEF IInv, Scripted, Fio!TypeOK, Fio!RunTypeOK, Fio!Sample, Fio!Sessions, Fio!Figure,
      Sample, Figure, Sessions

LEMMA CompileTypes == ASSUME IInv, wrapper = "compile" PROVE Compile!TypeOK
<1>1. ScriptPlaces = {"idle"} \cup {"start", "loop", "parse", "open", "write", "read"}
  BY DEF ScriptPlaces
<1>. QED
  BY <1>1, OneFileTyped, RunTyped
  DEF IInv, Scripted, Compile!TypeOK, Compile!RunTypeOK, Compile!Sample, Compile!Sessions,
      Compile!Figure, Sample, Figure, Sessions

LEMMA RamTypes == ASSUME IInv, wrapper = "ramsmp" PROVE Ram!TypeOK
<1>1. ScriptPlaces = {"idle"} \cup {"start", "loop", "script", "open", "write", "read", "between"}
  BY DEF ScriptPlaces
<1>2. /\ N = FnIterations /\ \A p \in Sessions : pc[p] \in ScriptPlaces
      /\ fn \in [Sessions -> {"none"} \cup Ram!Functions]
      /\ raw \in [Ram!Functions -> Seq(Value)] /\ res \in [Ram!Functions -> Result]
      /\ local \in [Sessions -> Seq(Value)]
  BY DEF IInv, Scripted, N, TwoFunctions, ScriptInv, ScriptTypes, ScriptOK, raws, ress, uses,
         Files, FileResult
<1>. QED
  BY <1>1, <1>2, RunTyped
  DEF IInv, Ram!TypeOK, Ram!RunTypeOK, Ram!Sample, Ram!Sessions, Ram!Figure, Value, Result, Sessions

LEMMA IperfTypes == ASSUME IInv, wrapper = "iperf" PROVE Iperf!TypeOK
<1>1. /\ N = Iterations /\ raw \in Seq(Value) /\ local \in [Sessions -> Result]
      /\ \A p \in Sessions : pc[p] \in {"idle"} \cup {"start", "loop", "parse", "teardown"}
  BY Places DEF IInv, Reading, N, TwoFunctions, FileInv, CounterInv, Placed
<1>. QED
  BY <1>1, RunTyped
  DEF IInv, Iperf!TypeOK, Iperf!RunTypeOK, Iperf!Sample, Iperf!Sessions, Iperf!Figure, Sample,
      Figure, Sessions

LEMMA BlakeTypes == ASSUME IInv, wrapper = "blake" PROVE Blake!TypeOK
<1>1. /\ N = Iterations /\ raw \in Seq(Value)
      /\ \A p \in Sessions : pc[p] \in {"idle"} \cup {"start", "loop", "parse"}
  BY Places DEF IInv, Reading, N, TwoFunctions, FileInv, Placed
<1>. QED
  BY <1>1, RunTyped
  DEF IInv, Blake!TypeOK, Blake!RunTypeOK, Blake!Sample, Blake!Sessions, Blake!Figure, Sample,
      Figure, Sessions

LEMMA UnigineTypes == ASSUME IInv, wrapper = "unigine" PROVE Unigine!TypeOK
<1>1. /\ N = Iterations /\ raw \in Seq(Value) /\ local \in [Sessions -> Seq(Value)]
      /\ \A p \in Sessions : pc[p] \in {"idle"} \cup {"start", "loop", "read"}
  BY DEF IInv, Reading, N, TwoFunctions, FileInv, TermsInv, TermsOK
<1>. QED
  BY <1>1, RunTyped
  DEF IInv, Unigine!TypeOK, Unigine!RunTypeOK, Unigine!Sample, Unigine!Sessions, Unigine!Figure,
      Sample, Figure, Sessions

LEMMA CrayTypes == ASSUME IInv, wrapper = "cray" PROVE Cray!TypeOK
<1>1. /\ raw \in Seq(Value) /\ local \in [Sessions -> Result]
      /\ pc \in [Sessions -> {"idle"} \cup {"loop", "render", "parse", "return"}]
  BY Places DEF IInv, Reading, FileInv, CounterInv, Placed
<1>2. N = 1 /\ Value = Cray!Sample /\ Result = Cray!Figure
  BY DEF N, TwoFunctions, Value, Result, Cray!Sample, Cray!Sessions, Cray!Figure, Sessions
<1>. QED
  BY <1>1, <1>2 DEF IInv, RunInv, RunTypes, Cray!TypeOK, Cray!RunTypeOK, Cray!Sessions, Sessions

LEMMA GpuTyped == ASSUME IInv, wrapper = "gputest" PROVE Gpu!TypeOK
<1>1. /\ N = FnIterations /\ GpuTypes
      /\ \A p \in Sessions :
            pc[p] \in {"idle"} \cup {"start", "loop", "run", "copy", "append", "between"}
  BY DEF IInv, N, TwoFunctions, GpuInv, GpuOK
<1>. QED
  BY <1>1, RunTyped
  DEF IInv, GpuTypes, ScoreLine, Gpu!TypeOK, Gpu!RunTypeOK, Gpu!Score, Gpu!Sample, Gpu!Sessions,
      Gpu!Figure, Value, Result, Sessions

LEMMA TypesHold == ASSUME IInv PROVE TypeOK
BY SockTypes, CacheTypes, EthrTypes, FioTypes, CompileTypes, RamTypes, IperfTypes, BlakeTypes,
   UnigineTypes, CrayTypes, GpuTyped DEF TypeOK

(* What the rows of the scripted wrappers, and Unigine's, can be.          *)
LEMMA RowsHold ==
    ASSUME RunInv, NEW p \in Sessions, RowOK(p) PROVE Fresh(p) /\ WholeOrOld(p)
<1>1. /\ row[p].of \in Seq(Value) /\ DOMAIN row[p].of = 1..Len(row[p].of)
  BY Results, LenProperties DEF RunInv, RunTypes
<1>2. row[p].kind = "mean" => OneSpell(row[p].of)
  BY <1>1, SoundIsOneSpell DEF RowOK
<1>. QED  BY <1>1, <1>2 DEF RowOK, Before, Fresh, WholeOrOld

LEMMA RepeatedHolds ==
    ASSUME IInv, wrapper = "unigine" PROVE Unigine!FirstValueRepeated
<1>1. /\ N = Iterations /\ \A p \in Sessions : Repeated(p)
      /\ \A p \in Sessions : DOMAIN row[p].of = 1..Len(row[p].of)
  BY Results, LenProperties DEF IInv, N, TwoFunctions, TermsInv, RunInv, RunTypes
<1>2. \A p \in Sessions : Unigine!Alone(p) <=> Alone(p)
  BY DEF Unigine!Alone, Alone, Unigine!Sessions, Sessions
<1>. QED
  BY <1>1, <1>2
  DEF Unigine!FirstValueRepeated, Repeated, Repeats, InSpell, OfSpell, Unigine!Sessions, Sessions

LEMMA IInvSafe ==
    ASSUME IInv
    PROVE  TypeOK /\ FreshWhenMeasured /\ WholeOrOldFigure /\ FirstValueRepeated
<1>1. ASSUME wrapper \in Outliving \cup {"ramsmp"}, NEW p \in Sessions
      PROVE  Fresh(p) /\ WholeOrOld(p)
  BY <1>1, RowsHold DEF IInv, Outliving, Scripted, ScriptInv
<1>. QED
  BY <1>1, TypesHold, RepeatedHolds DEF FreshWhenMeasured, WholeOrOldFigure, FirstValueRepeated


-----------------------------------------------------------------------------
LEMMA StartInv ==
    ASSUME RunInit
    PROVE  /\ RunInv
           /\ \A p \in Sessions : pc[p] = "idle" /\ iter[p] = 0 /\ samples[p] = << >>
                                  /\ row[p] = Nothing
           /\ << >> \in Seq(Value) /\ Nothing \in Result /\ Nothing.kind # "mean"
<1>1. RunTypes
  BY Bounds, Results, MaxSessionsAssumption, MaxRunsAssumption DEF RunInit, RunTypes, AllPlaces
<1>2. \A p \in Sessions : RunOK(p)
  BY Bounds DEF RunInit, RunOK, Unborn, Out, Early
<1>. QED  BY <1>1, <1>2, Results, Kinds DEF RunInit, RunInv

LEMMA StartScript ==
    ASSUME RunInit, ScriptTypes, \A f \in Files : ress[f].kind # "mean"
    PROVE  ScriptInv
<1>1. \A p \in Sessions : pc[p] = "idle" /\ row[p].kind # "mean"
  BY StartInv
<1>2. \A p \in Sessions : ScriptOK(p) /\ RowOK(p)
  BY <1>1 DEF ScriptOK, RowOK, Sound, Past, ScriptPlaces
<1>. QED  BY <1>2 DEF ScriptInv, Sound

LEMMA StartOneFile ==
    ASSUME RunInit, wrapper \in Scripted \ {"ramsmp"}, raw = << >>,
           res = Nothing \/ (wrapper = "compile" /\ res = Compile!Missing),
           local = [p \in Sessions |-> << >>]
    PROVE  ScriptInv
<1>1. Compile!Missing.kind # "mean"  BY DEF Compile!Missing
<1>2. ScriptTypes
  BY StartInv DEF ScriptTypes, raws, ress, uses, Files, FileResult, Scripted
<1>. QED  BY <1>1, <1>2, StartInv, StartScript DEF ress, Files, Scripted

LEMMA StartReading ==
    ASSUME RunInit, wrapper \in Reading, raw = << >>
    PROVE  FileInv
BY StartInv DEF FileInv, FileOK, Holding

LEMMA StartCounter ==
    ASSUME RunInit, local = [p \in Sessions |-> Nothing]
    PROVE  CounterInv
BY StartInv DEF CounterInv, CounterOK

LEMMA StartPlaced ==
    ASSUME RunInit, wrapper \in {"iperf", "blake", "cray"}
    PROVE  Placed
BY Places DEF RunInit, Placed

LEMMA StartTerms ==
    ASSUME RunInit, local = [p \in Sessions |-> << >>]
    PROVE  TermsInv
<1>1. \A p \in Sessions : InSpell(local[p], spell[p])  BY DEF InSpell, OfSpell
<1>. QED  BY <1>1, StartInv DEF TermsInv, TermsOK, Repeated

LEMMA StartGpu ==
    ASSUME RunInit, log = << >>, fn = [p \in Sessions |-> "none"],
           raw = [m \in Gpu!Modules |-> << >>], local = [p \in Sessions |-> << >>]
    PROVE  GpuInv
<1>1. GpuTypes  BY StartInv DEF GpuTypes
<1>2. \A p \in Sessions : GpuOK(p)  BY StartInv DEF GpuOK
<1>. QED  BY <1>1, <1>2 DEF GpuInv

LEMMA IInvInit == ASSUME Init PROVE IInv /\ RunInit
<1>. USE DEF Wrapper, Scripted, Reading
<1>1. ASSUME wrapper = "sock" /\ Sock!Init PROVE IInv /\ RunInit
  <2>1. RunInit /\ raw = << >> /\ res = Nothing /\ local = [p \in Sessions |-> << >>]
    BY <1>1 DEF Sock!Init, Sock!RunInit, RunInit, Sock!Nothing, Nothing, Sock!Sessions, Sessions
  <2>. QED  BY <1>1, <2>1, StartInv, StartOneFile DEF IInv
<1>2. ASSUME wrapper = "cache" /\ Cache!Init PROVE IInv /\ RunInit
  <2>1. RunInit /\ raw = << >> /\ res = Nothing /\ local = [p \in Sessions |-> << >>]
    BY <1>2 DEF Cache!Init, Cache!RunInit, RunInit, Cache!Nothing, Nothing, Cache!Sessions, Sessions
  <2>. QED  BY <1>2, <2>1, StartInv, StartOneFile DEF IInv
<1>3. ASSUME wrapper = "ethr" /\ Ethr!Init PROVE IInv /\ RunInit
  <2>1. /\ RunInit /\ raw = << >> /\ res = Nothing /\ local = [p \in Sessions |-> << >>]
        /\ log = {}
    BY <1>3 DEF Ethr!Init, Ethr!RunInit, RunInit, Ethr!Nothing, Nothing, Ethr!Sessions, Sessions
  <2>. QED  BY <1>3, <2>1, StartInv, StartOneFile DEF IInv
<1>4. ASSUME wrapper = "fio" /\ Fio!Init PROVE IInv /\ RunInit
  <2>1. RunInit /\ raw = << >> /\ res = Nothing /\ local = [p \in Sessions |-> << >>]
    BY <1>4 DEF Fio!Init, Fio!RunInit, RunInit, Fio!Nothing, Nothing, Fio!Sessions, Sessions
  <2>. QED  BY <1>4, <2>1, StartInv, StartOneFile DEF IInv
<1>5. ASSUME wrapper = "compile" /\ Compile!Init PROVE IInv /\ RunInit
  <2>1. /\ RunInit /\ raw = << >> /\ local = [p \in Sessions |-> << >>]
        /\ res = Nothing \/ res = Compile!Missing
    BY <1>5
    DEF Compile!Init, Compile!RunInit, RunInit, Compile!Nothing, Nothing, Compile!Sessions, Sessions
  <2>. QED  BY <1>5, <2>1, StartInv, StartOneFile DEF IInv
<1>6. ASSUME wrapper = "ramsmp" /\ Ram!Init PROVE IInv /\ RunInit
  <2>1. /\ RunInit /\ raw = [f \in Ram!Functions |-> << >>]
        /\ res = [f \in Ram!Functions |-> Nothing]
        /\ local = [p \in Sessions |-> << >>] /\ fn = [p \in Sessions |-> "none"]
    BY <1>6 DEF Ram!Init, Ram!RunInit, RunInit, Ram!Nothing, Nothing, Ram!Sessions, Sessions
  <2>2. ScriptTypes
    BY <1>6, <2>1, StartInv DEF ScriptTypes, raws, ress, uses, Files, FileResult
  <2>3. \A f \in Files : ress[f].kind # "mean"
    BY <1>6, <2>1, StartInv DEF ress, Files
  <2>. QED  BY <1>6, <2>1, <2>2, <2>3, StartInv, StartScript DEF IInv
<1>7. ASSUME wrapper = "iperf" /\ Iperf!Init PROVE IInv /\ RunInit
  <2>1. RunInit /\ raw = << >> /\ local = [p \in Sessions |-> Nothing]
    BY <1>7 DEF Iperf!Init, Iperf!RunInit, RunInit, Iperf!Nothing, Nothing, Iperf!Sessions, Sessions
  <2>. QED  BY <1>7, <2>1, StartInv, StartReading, StartCounter, StartPlaced DEF IInv
<1>8. ASSUME wrapper = "blake" /\ Blake!Init PROVE IInv /\ RunInit
  <2>1. RunInit /\ raw = << >>
    BY <1>8 DEF Blake!Init, Blake!RunInit, RunInit, Blake!Nothing, Nothing, Blake!Sessions, Sessions
  <2>. QED  BY <1>8, <2>1, StartInv, StartReading, StartPlaced DEF IInv
<1>9. ASSUME wrapper = "unigine" /\ Unigine!Init PROVE IInv /\ RunInit
  <2>1. RunInit /\ raw = << >> /\ local = [p \in Sessions |-> << >>]
    BY <1>9
    DEF Unigine!Init, Unigine!RunInit, RunInit, Unigine!Nothing, Nothing, Unigine!Sessions, Sessions
  <2>. QED  BY <1>9, <2>1, StartInv, StartReading, StartTerms DEF IInv
<1>10. ASSUME wrapper = "cray" /\ Cray!Init PROVE IInv /\ RunInit
  <2>1. RunInit /\ raw = << >> /\ local = [p \in Sessions |-> Nothing]
    BY <1>10 DEF Cray!Init, Cray!RunInit, RunInit, Cray!Nothing, Nothing, Cray!Sessions, Sessions
  <2>. QED  BY <1>10, <2>1, StartInv, StartReading, StartCounter, StartPlaced DEF IInv, Short
<1>11. ASSUME wrapper = "gputest" /\ Gpu!Init PROVE IInv /\ RunInit
  <2>1. /\ RunInit /\ log = << >> /\ fn = [p \in Sessions |-> "none"]
        /\ raw = [m \in Gpu!Modules |-> << >>] /\ local = [p \in Sessions |-> << >>]
    BY <1>11 DEF Gpu!Init, Gpu!RunInit, RunInit, Gpu!Nothing, Nothing, Gpu!Sessions, Sessions
  <2>. QED  BY <1>11, <2>1, StartInv, StartGpu DEF IInv
<1>. QED
  BY <1>1, <1>2, <1>3, <1>4, <1>5, <1>6, <1>7, <1>8, <1>9, <1>10, <1>11 DEF Init


(***************************************************************************)
(* How Wrappers reads Measurement for the wrapper in use                   *)
(***************************************************************************)
(* What a step of any wrapper does to the sessions: the rows of those the  *)
(* two promises are about are what Measurement allows.                     *)
Allowed ==
    \/ \E first : /\ Starts(first)
                  /\ TwoFunctions => \A q \in Sessions : q # session' => fn'[q] = fn[q]
    \/ \E p \in Sessions : /\ RunMove(p)
                           /\ TwoFunctions => fn' = fn
                           /\ Prints(p) /\ (wrapper \in Promising \/ Keeps(p)) => RowKept(p)

LEMMA AllowedRun == ASSUME RunInv, Allowed PROVE RunInv' /\ wrapper' = wrapper
<1>1. ASSUME NEW first, Starts(first) PROVE RunInv' /\ wrapper' = wrapper
  BY <1>1, StartsRun DEF Starts
<1>2. ASSUME NEW p \in Sessions, RunMove(p) PROVE RunInv' /\ wrapper' = wrapper
  BY <1>2, RunMoveRun, OthersStay
<1>. QED  BY <1>1, <1>2 DEF Allowed

LEMMA PromiseStep == ASSUME RunInv, Allowed PROVE [Promise!Next]_Promise!vars
<1>1. wrapper' = wrapper  BY AllowedRun
<1>2. CASE wrapper \notin Promising
  BY <1>1, <1>2 DEF Promise!vars
<1>3. ASSUME wrapper \in Promising PROVE [Promise!Next]_Promise!vars
  <2>1. M!Sessions = Sessions /\ Promise!Sessions = Sessions
    BY DEF M!Sessions, Promise!Sessions, Sessions
  <2>2. ASSUME M!Begin PROVE Promise!Begin
    BY <1>1, <1>3, <2>2 DEF M!Begin, Promise!Begin
  <2>3. ASSUME NEW p \in Sessions, M!Measure(p) PROVE Promise!Measure(p)
    BY <1>1, <1>3, <2>3 DEF M!Measure, Promise!Measure, Promise!Nothing, M!Nothing
  <2>4. ASSUME NEW p \in Sessions, M!CutShort(p) PROVE Promise!CutShort(p)
    BY <1>1, <1>3, <2>4 DEF M!CutShort, Promise!CutShort, Promise!Nothing, M!Nothing
  <2>5. ASSUME NEW p \in Sessions, M!Report(p) PROVE Promise!Report(p)
    BY <1>1, <1>3, <2>1, <2>5
    DEF M!Report, Promise!Report, M!Alone, Promise!Alone, M!OneSpell, Promise!OneSpell,
        Promise!Nothing, M!Nothing, Promise!NoData, M!NoData, Promise!Error, M!Error, Promise!Mean,
        M!Mean
  <2>6. ASSUME UNCHANGED M!vars PROVE UNCHANGED Promise!vars
    BY <1>1, <1>3, <2>6 DEF M!vars, Promise!vars
  <2>7. \/ UNCHANGED M!vars \/ M!Begin
        \/ \E p \in Sessions : M!Measure(p) \/ M!CutShort(p) \/ M!Report(p)
    BY <1>3, MoveMeasured, StartMeasured DEF Allowed
  <2>. QED  BY <2>1, <2>2, <2>3, <2>4, <2>5, <2>6, <2>7 DEF Promise!Next
<1>. QED  BY <1>2, <1>3

(* The sessions of a function whose rows are kept, as FunctionPromise sees *)
(* them.                                                                   *)
Keeping   == {p \in Sessions : Keeps(p)}
keptUndone  == undone \cap Keeping
keptSamples == [p \in Sessions |-> IF Keeps(p) THEN samples[p] ELSE << >>]
keptRow     == [p \in Sessions |-> IF Keeps(p) THEN row[p] ELSE Nothing]

LEMMA FunctionStart ==
    ASSUME RunInv, TwoFunctions, NEW first, Starts(first),
           \A q \in Sessions : q # session' => fn'[q] = fn[q]
    PROVE  FunctionPromise!Begin
<1>1. /\ wrapper' = wrapper /\ UNCHANGED <<samples, row, undone>>
      /\ session' = session + 1 /\ session \in Nat
      /\ \A q \in Sessions : q # session' => fn'[q] = fn[q]
      /\ \A q \in Sessions : q = session' => samples[q] = << >> /\ row[q] = Nothing /\ q \notin undone
  <2>1. 1 \in Sessions  BY MaxSessionsAssumption DEF Sessions
  <2>. QED  BY <2>1, StartsAlone DEF Unborn
<1>2. \A q \in Sessions : q # session' => (Keeps(q)' <=> Keeps(q))
  BY <1>1 DEF Keeps, TwoFunctions
<1>3. UNCHANGED <<keptSamples, keptRow>>
  BY <1>1, <1>2 DEF keptSamples, keptRow
<1>4. undone' \cap Keeping' = undone \cap Keeping
  BY <1>1, <1>2 DEF RunInv, RunTypes, Keeping
<1>5. M!Begin  BY StartMeasured
<1>6. TwoFunctions'  BY <1>1 DEF TwoFunctions
<1>. QED
  BY <1>3, <1>4, <1>5, <1>6
  DEF FunctionPromise!Begin, M!Begin, keptSamples, keptRow, Keeping

LEMMA FunctionMove ==
    ASSUME RunInv, TwoFunctions, NEW p \in Sessions, RunMove(p), fn' = fn,
           Prints(p) /\ Keeps(p) => RowKept(p)
    PROVE  [FunctionPromise!Next]_FunctionPromise!vars
<1>1. /\ UNCHANGED <<wrapper, session, spell>>
      /\ \A q \in Sessions : q # p =>
            samples'[q] = samples[q] /\ row'[q] = row[q] /\ (q \in undone' <=> q \in undone)
  BY OthersStay
<1>2. TwoFunctions' /\ Keeping' = Keeping /\ (\A q \in Sessions : Keeps(q)' <=> Keeps(q))
  BY <1>1 DEF TwoFunctions, Keeping, Keeps
<1>3. CASE ~Keeps(p)
  <2>1. keptSamples' = keptSamples /\ keptRow' = keptRow
    BY <1>1, <1>2, <1>3 DEF keptSamples, keptRow
  <2>2. undone' \cap Keeping' = undone \cap Keeping
    BY <1>1, <1>2, <1>3 DEF Keeping
  <2>. QED
    BY <1>1, <1>2, <2>1, <2>2 DEF FunctionPromise!vars, keptSamples, keptRow, Keeping
<1>4. ASSUME Keeps(p) PROVE [FunctionPromise!Next]_FunctionPromise!vars
  <2>1. /\ samples \in [Sessions -> Seq(Value)] /\ row \in [Sessions -> Result] /\ p \in Keeping
        /\ keptSamples[p] = samples[p] /\ keptRow[p] = row[p] /\ keptRow'[p] = row'[p]
    BY <1>2, <1>4 DEF RunInv, RunTypes, keptSamples, keptRow, Keeping
  <2>2. ASSUME M!Measure(p) PROVE FunctionPromise!Measure(p)
    <3>1. PICK i \in 1..Iterations :
             /\ samples[p] # << >> => samples[p][Len(samples[p])][2] < i
             /\ samples' = [samples EXCEPT ![p] = Append(@, <<p, i>>)]
      BY <2>2 DEF M!Measure
    <3>2. keptSamples' = [keptSamples EXCEPT ![p] = Append(@, <<p, i>>)]
      BY <1>2, <1>4, <2>1, <3>1 DEF keptSamples
    <3>3. UNCHANGED <<session, spell, undone, row>> /\ p <= session /\ row[p] = Nothing
      BY <2>2 DEF M!Measure, M!Nothing, Nothing
    <3>4. keptRow' = keptRow /\ undone' \cap Keeping' = undone \cap Keeping
      BY <1>2, <3>3 DEF keptRow
    <3>. QED
      BY <1>2, <2>1, <3>1, <3>2, <3>3, <3>4
      DEF FunctionPromise!Measure, keptSamples, keptRow, Keeping, FunctionPromise!Nothing, Nothing
  <2>3. ASSUME M!CutShort(p) PROVE FunctionPromise!CutShort(p)
    <3>1. /\ UNCHANGED <<session, spell, samples, row>> /\ p <= session /\ row[p] = Nothing
          /\ undone' = undone \cup {p}
      BY <2>3 DEF M!CutShort, M!Nothing, Nothing
    <3>2. keptSamples' = keptSamples /\ keptRow' = keptRow
      BY <1>2, <3>1 DEF keptSamples, keptRow
    <3>3. undone' \cap Keeping' = (undone \cap Keeping) \cup {p}
      BY <1>2, <2>1, <3>1
    <3>. QED
      BY <1>2, <2>1, <3>1, <3>2, <3>3
      DEF FunctionPromise!CutShort, keptSamples, keptRow, Keeping, FunctionPromise!Nothing, Nothing
  <2>4. ASSUME M!Report(p) PROVE FunctionPromise!Report(p)
    <3>1. /\ UNCHANGED <<session, spell, undone, samples>> /\ p <= session /\ row[p] = Nothing
          /\ row' = [row EXCEPT ![p] = row'[p]]
          /\ \/ row'[p] = Error
             \/ samples[p] # << >> /\ row'[p] = Mean(samples[p])
             \/ samples[p] = << >> /\ row'[p] = NoData
             \/ /\ ~Alone(p) \/ p \in undone \cap Keeping
                /\ row'[p].kind = "mean" => OneSpell(row'[p].of)
      BY <2>1, <2>4
      DEF M!Report, M!Nothing, Nothing, M!Error, Error, M!NoData, NoData, M!Mean, Mean, M!Alone,
          Alone, M!OneSpell, OneSpell, M!Sessions, Sessions
    <3>2. keptSamples' = keptSamples /\ keptRow' = [keptRow EXCEPT ![p] = keptRow'[p]]
      BY <1>2, <1>4, <2>1, <3>1 DEF keptSamples, keptRow
    <3>3. undone' \cap Keeping' = undone \cap Keeping
      BY <1>2, <3>1
    <3>4. /\ FunctionPromise!Alone(p) <=> Alone(p)
          /\ \A s : FunctionPromise!OneSpell(s) <=> OneSpell(s)
      BY DEF FunctionPromise!Alone, Alone, FunctionPromise!OneSpell, OneSpell,
             FunctionPromise!Sessions, Sessions
    <3>. DEFINE shown == keptRow'[p]
    <3>5. /\ \/ shown = Error
             \/ keptSamples[p] # << >> /\ shown = Mean(keptSamples[p])
             \/ keptSamples[p] = << >> /\ shown = NoData
             \/ /\ ~FunctionPromise!Alone(p) \/ p \in undone \cap Keeping
                /\ shown.kind = "mean" => FunctionPromise!OneSpell(shown.of)
      BY <2>1, <3>1, <3>4
    <3>. QED
      BY <1>2, <2>1, <3>1, <3>2, <3>3, <3>5
      DEF FunctionPromise!Report, keptSamples, keptRow, Keeping, FunctionPromise!Nothing, Nothing,
          FunctionPromise!Error, Error, FunctionPromise!NoData, NoData, FunctionPromise!Mean, Mean
  <2>5. ASSUME UNCHANGED M!vars PROVE UNCHANGED FunctionPromise!vars
    <3>1. UNCHANGED <<session, spell, undone, samples, row>>  BY <2>5 DEF M!vars
    <3>. QED  BY <1>2, <3>1 DEF FunctionPromise!vars, Keeping
  <2>6. UNCHANGED M!vars \/ M!Measure(p) \/ M!CutShort(p) \/ M!Report(p)
    BY <1>4, MoveMeasured
  <2>7. FunctionPromise!Sessions = Sessions  BY DEF FunctionPromise!Sessions, Sessions
  <2>. QED  BY <2>2, <2>3, <2>4, <2>5, <2>6, <2>7 DEF FunctionPromise!Next
<1>. QED  BY <1>3, <1>4

LEMMA FunctionStep == ASSUME RunInv, Allowed PROVE [FunctionPromise!Next]_FunctionPromise!vars
<1>1. CASE ~TwoFunctions
  BY <1>1, AllowedRun DEF TwoFunctions, Keeps, FunctionPromise!vars
<1>2. CASE TwoFunctions
  BY <1>2, FunctionStart, FunctionMove DEF Allowed, FunctionPromise!Next
<1>. QED  BY <1>1, <1>2


-----------------------------------------------------------------------------
(* Every step of every wrapper is allowed, and keeps the invariant.        *)
LEMMA ScriptStep ==
    ASSUME RunInv, ScriptInv, wrapper \in Scripted, ScriptNext
    PROVE  ScriptInv' /\ Allowed
<1>1. CASE ScriptStarts
  BY <1>1, ScriptStartsInv DEF ScriptStarts, Allowed
<1>2. ASSUME NEW p \in Sessions, ScriptMoves(p) PROVE ScriptInv' /\ Allowed
  <2>1. /\ ScriptInv' /\ RunMove(p) /\ fn' = fn
        /\ Prints(p) /\ Rewrites(p) => RowKept(p)
    BY <1>2, ScriptMoveInv, ScriptMoveIsMove DEF ScriptMoves
  <2>2. wrapper \in Promising \/ Keeps(p) => Rewrites(p)
    BY DEF Scripted, Promising, Keeps, TwoFunctions, PromisingFn, Rewrites, ScriptInv, ScriptTypes,
           uses, Files, Ram!Functions
  <2>. QED  BY <2>1, <2>2 DEF Allowed
<1>. QED  BY <1>1, <1>2 DEF ScriptNext

LEMMA KeptAllowed == ASSUME ~TwoFunctions, Kept PROVE Allowed
BY DEF Kept, Allowed

LEMMA IInvStep ==
    ASSUME IInv, Next
    PROVE  IInv' /\ [Promise!Next]_Promise!vars /\ [FunctionPromise!Next]_FunctionPromise!vars
<1>1. wrapper' = wrapper /\ RunInv  BY DEF Next, IInv
<1>2. SUFFICES IInv' /\ Allowed
  BY <1>1, PromiseStep, FunctionStep
<1>3. ASSUME wrapper = "sock", Sock!Next, fn' = fn PROVE IInv' /\ Allowed
  <2>1. ScriptInv' /\ Allowed
    BY <1>1, <1>3, SockIsScripted, ScriptStep DEF IInv, Scripted
  <2>. QED  BY <1>1, <1>3, <2>1, AllowedRun DEF IInv, Scripted, Reading, Wrapper
<1>4. ASSUME wrapper = "ethr", Ethr!Next, fn' = fn PROVE IInv' /\ Allowed
  <2>1. ScriptInv' /\ Allowed
    BY <1>1, <1>4, EthrIsScripted, ScriptStep DEF IInv, Scripted
  <2>2. log' \subseteq Value'  BY <1>1, <1>4, EthrReadable DEF IInv
  <2>. QED  BY <1>1, <1>4, <2>1, <2>2, AllowedRun DEF IInv, Scripted, Reading, Wrapper
<1>5. ASSUME wrapper = "iperf", Iperf!Next PROVE IInv' /\ Allowed
  <2>1. FileInv' /\ CounterInv' /\ Kept
    BY <1>1, <1>5, IperfStep DEF IInv, Reading
  <2>2. Placed'  BY <1>1, <1>5, IperfPlaced DEF IInv
  <2>3. Allowed  BY <1>5, <2>1, KeptAllowed DEF TwoFunctions
  <2>. QED  BY <1>1, <1>5, <2>1, <2>2, <2>3, AllowedRun DEF IInv, Scripted, Reading, Wrapper
<1>6. ASSUME wrapper = "cache", Cache!Next, fn' = fn PROVE IInv' /\ Allowed
  <2>1. ScriptInv' /\ Allowed
    BY <1>1, <1>6, CacheIsScripted, ScriptStep DEF IInv, Scripted
  <2>. QED  BY <1>1, <1>6, <2>1, AllowedRun DEF IInv, Scripted, Reading, Wrapper
<1>7. ASSUME wrapper = "blake", Blake!Next PROVE IInv' /\ Allowed
  <2>1. FileInv' /\ Kept  BY <1>1, <1>7, BlakeStep DEF IInv, Reading
  <2>2. Placed'  BY <1>1, <1>7, BlakePlaced DEF IInv
  <2>3. Allowed  BY <1>7, <2>1, KeptAllowed DEF TwoFunctions
  <2>. QED  BY <1>1, <1>7, <2>1, <2>2, <2>3, AllowedRun DEF IInv, Scripted, Reading, Wrapper
<1>8. ASSUME wrapper = "compile", Compile!Next, fn' = fn PROVE IInv' /\ Allowed
  <2>1. ScriptInv' /\ Allowed
    BY <1>1, <1>8, CompileIsScripted, ScriptStep DEF IInv, Scripted
  <2>. QED  BY <1>1, <1>8, <2>1, AllowedRun DEF IInv, Scripted, Reading, Wrapper
<1>9. ASSUME wrapper = "fio", Fio!Next, fn' = fn PROVE IInv' /\ Allowed
  <2>1. ScriptInv' /\ Allowed
    BY <1>1, <1>9, FioIsScripted, ScriptStep DEF IInv, Scripted
  <2>. QED  BY <1>1, <1>9, <2>1, AllowedRun DEF IInv, Scripted, Reading, Wrapper
<1>10. ASSUME wrapper = "unigine", Unigine!Next PROVE IInv' /\ Allowed
  <2>1. /\ FileInv' /\ TermsInv'
        /\ (\E first : Starts(first)) \/ \E p \in Sessions : RunMove(p)
    BY <1>1, <1>10, UnigineStep DEF IInv, Reading
  <2>2. ~TwoFunctions /\ wrapper \notin Promising /\ \A p : ~Keeps(p)
    BY <1>10 DEF TwoFunctions, Promising, Keeps
  <2>3. Allowed  BY <2>1, <2>2 DEF Allowed
  <2>. QED  BY <1>1, <1>10, <2>1, <2>3, AllowedRun DEF IInv, Scripted, Reading, Wrapper
<1>11. ASSUME wrapper = "cray", Cray!Next PROVE IInv' /\ Allowed
  <2>1. FileInv' /\ CounterInv' /\ Short' /\ Kept
    BY <1>1, <1>11, CrayStep DEF IInv, Reading
  <2>2. Placed'  BY <1>1, <1>11, CrayPlaced DEF IInv
  <2>3. Allowed  BY <1>11, <2>1, KeptAllowed DEF TwoFunctions
  <2>. QED  BY <1>1, <1>11, <2>1, <2>2, <2>3, AllowedRun DEF IInv, Scripted, Reading, Wrapper
<1>12. ASSUME wrapper = "ramsmp", Ram!Next PROVE IInv' /\ Allowed
  <2>1. ScriptInv' /\ Allowed
    BY <1>1, <1>12, RamIsScripted, ScriptStep DEF IInv, Scripted
  <2>. QED  BY <1>1, <1>12, <2>1, AllowedRun DEF IInv, Scripted, Reading, Wrapper
<1>13. ASSUME wrapper = "gputest", Gpu!Next PROVE IInv' /\ Allowed
  <2>1. GpuInv' /\ GpuKept  BY <1>1, <1>13, GpuStep DEF IInv
  <2>2. Allowed  BY <2>1 DEF GpuKept, Allowed
  <2>. QED  BY <1>1, <1>13, <2>1, <2>2, AllowedRun DEF IInv, Scripted, Reading, Wrapper
<1>. QED
  BY <1>3, <1>4, <1>5, <1>6, <1>7, <1>8, <1>9, <1>10, <1>11, <1>12, <1>13 DEF Next

LEMMA IInvStutter ==
    ASSUME IInv, UNCHANGED vars
    PROVE  IInv' /\ UNCHANGED <<Promise!vars, FunctionPromise!vars>>
<1>1. /\ UNCHANGED <<runs, session, pc, iter, samples, row, spell, undone>>
      /\ UNCHANGED <<wrapper, raw, res, local, fn, log>>
  BY DEF vars, runVars
<1>2. UNCHANGED <<N, Value, Result, Files, uses, FileResult, ScriptPlaces, Holding>>
  BY <1>1 DEF N, TwoFunctions, Value, Result, Files, uses, FileResult, ScriptPlaces, Holding
<1>3. UNCHANGED <<raws, ress>>  BY <1>1 DEF raws, ress
<1>4. /\ \A s, n : InSpell(s, n)' <=> InSpell(s, n)
      /\ \A figure : Sound(figure)' <=> Sound(figure)
      /\ \A n : LogInSpell(n)' <=> LogInSpell(n)
      /\ \A p \in Sessions : Alone(p)' = Alone(p)
  BY <1>1 DEF InSpell, OfSpell, Sound, LogInSpell, LogOfSpell, Alone
<1>5. RunInv'
  BY <1>1, <1>2 DEF IInv, RunInv, RunTypes, RunOK, Unborn, LastBy
<1>6. ScriptInv => ScriptInv'
  BY <1>1, <1>2, <1>3, <1>4
  DEF ScriptInv, ScriptTypes, ScriptOK, RowOK, Rewrites, InSpell, Sound
<1>7. FileInv => FileInv'
  BY <1>1, <1>2, <1>4 DEF FileInv, FileOK, InSpell
<1>8. CounterInv => CounterInv'
  BY <1>1, <1>2, <1>4 DEF CounterInv, CounterOK, Whole, InSpell
<1>9. (Placed => Placed') /\ (Short => Short')
  BY <1>1, <1>2 DEF Placed, Short
<1>10. TermsInv => TermsInv'
  BY <1>1, <1>2, <1>4 DEF TermsInv, TermsOK, Repeated, Repeats, InSpell
<1>11. GpuInv => GpuInv'
  BY <1>1, <1>2, <1>4 DEF GpuInv, GpuTypes, GpuOK, ScoreLine, InSpell, LogInSpell
<1>12. IInv'
  BY <1>1, <1>2, <1>5, <1>6, <1>7, <1>8, <1>9, <1>10, <1>11 DEF IInv
<1>13. UNCHANGED Promise!vars  BY <1>1 DEF Promise!vars
<1>14. UNCHANGED FunctionPromise!vars
  BY <1>1 DEF FunctionPromise!vars, Keeps, TwoFunctions
<1>. QED  BY <1>12, <1>13, <1>14

(***************************************************************************)
(* Theorems                                                                *)
(***************************************************************************)
(* The invariant of all wrappers holds in every state.                     *)
THEOREM WrappersInvariant == Spec => []IInv
<1>1. Init => IInv  BY IInvInit
<1>2. IInv /\ [Next]_vars => IInv'  BY IInvStep, IInvStutter
<1>. QED  BY <1>1, <1>2, PTL DEF Spec

(* Type correctness: the files of every wrapper hold measurements of known *)
(* sessions, and no loop passes its ->Iterations(n).                       *)
THEOREM WrappersTypeOK == Spec => []TypeOK
<1>1. IInv => TypeOK  BY IInvSafe
<1>. QED  BY <1>1, WrappersInvariant, PTL

(* A session of ethr, compilebench, fio or ramsmp's FLOATmem that had its  *)
(* spell to itself, measured something and saw its script end shows        *)
(* exactly its own measurements, whatever was left in the file the figure  *)
(* is read from.                                                           *)
THEOREM WrappersFreshWhenMeasured == Spec => []FreshWhenMeasured
<1>1. IInv => FreshWhenMeasured  BY IInvSafe
<1>. QED  BY <1>1, WrappersInvariant, PTL

(* No figure of those four, old or new, mixes measurements of two spells,  *)
(* however many tools and scripts outlive their wrapper.                   *)
THEOREM WrappersWholeOrOldFigure == Spec => []WholeOrOldFigure
<1>1. IInv => WholeOrOldFigure  BY IInvSafe
<1>. QED  BY <1>1, WrappersInvariant, PTL

(* unigine.cpp counts the first value of a session that runs alone once    *)
(* for each iteration from that value's own on, and nothing else.          *)
THEOREM WrappersFirstValueRepeated == Spec => []FirstValueRepeated
<1>1. IInv => FirstValueRepeated  BY IInvSafe
<1>. QED  BY <1>1, WrappersInvariant, PTL

(* sockperf, iperf, cachebench, BLAKE2 and c-ray implement Measurement,    *)
(* whatever was killed or failed before, and whatever tool outlived its    *)
(* wrapper.                                                                *)
THEOREM WrappersKeepPromise == Spec => KeepsPromise
<1>1. Init => Promise!Init
  <2>1. ASSUME RunInit PROVE Promise!Init
    BY <2>1 DEF RunInit, Promise!Init, Promise!Nothing, Nothing, Promise!Sessions, Sessions
  <2>. QED  BY <2>1, IInvInit
<1>2. IInv /\ [Next]_vars => [Promise!Next]_Promise!vars
  BY IInvStep, IInvStutter
<1>. QED  BY <1>1, <1>2, WrappersInvariant, PTL DEF Spec, KeepsPromise, Promise!Spec

(* ramsmp's INTmem, and FurMark and TessMark, implement Measurement for    *)
(* the rows they print, although INTmem may abort the executable and all   *)
(* GpuTest functions, of whatever run, write to one log.                   *)
THEOREM WrappersFunctionsKeepPromise == Spec => FunctionsKeepPromise
<1>1. Init => FunctionPromise!Init
  <2>1. ASSUME RunInit PROVE FunctionPromise!Init
    <3>1. /\ \A p \in Sessions : (IF Keeps(p) THEN samples[p] ELSE << >>) = << >>
          /\ \A p \in Sessions : (IF Keeps(p) THEN row[p] ELSE Nothing) = Nothing
      BY <2>1 DEF RunInit
    <3>. QED
      BY <2>1, <3>1
      DEF RunInit, FunctionPromise!Init, FunctionPromise!Nothing, Nothing, FunctionPromise!Sessions,
          Sessions
  <2>. QED  BY <2>1, IInvInit
<1>2. IInv /\ [Next]_vars => [FunctionPromise!Next]_FunctionPromise!vars
  BY IInvStep, IInvStutter
<1>. QED
  BY <1>1, <1>2, WrappersInvariant, PTL DEF Spec, FunctionsKeepPromise, FunctionPromise!Spec
===============================================================================
