----------------------------- MODULE CRayMtProofs -----------------------------
(***************************************************************************)
(* Proofs about CRayMt for every number of scanlines, every number of      *)
(* threads up to it, and any number of spurious wakeups: the image is      *)
(* whole when its time is printed, and nobody is stuck before.             *)
(***************************************************************************)
EXTENDS CRayMt, TLAPS

(* (int)sl never goes down from one share to the next: thread_num is not   *)
(* larger than yres, so that every share is at least one scanline wide     *)
(* before rounding.                                                        *)
LEMMA IntSlGrows ==
    ASSUME NEW k \in Nat, NEW n \in IntSl(k), NEW m \in IntSl(k + 1)
    PROVE  n <= m
<1>1. n \in Nat /\ m \in Nat /\ YRes \in Nat /\ ThreadNum \in Nat
  BY YResAssumption, ThreadNumAssumption DEF IntSl
<1>2. n * ThreadNum <= k * YRes /\ (k + 1) * YRes <= (m + 1) * ThreadNum
  BY DEF IntSl
<1>3. ThreadNum <= YRes /\ 0 < ThreadNum
  BY YResAssumption, ThreadNumAssumption
<1>4. (k + 1) * YRes = k * YRes + YRes /\ (m + 1) * ThreadNum = m * ThreadNum + ThreadNum
  BY <1>1, SMT
<1>5. n * ThreadNum <= m * ThreadNum
  <2>. /\ n * ThreadNum \in Int /\ k * YRes \in Int /\ m * ThreadNum \in Int
    BY <1>1, SMT
  <2>. QED  BY <1>1, <1>2, <1>3, <1>4, SMT
<1>6. ASSUME m < n PROVE FALSE
  <2>1. PICK d \in Nat : n = m + 1 + d
    <3>. n - m - 1 \in Nat /\ n = m + 1 + (n - m - 1)  BY <1>1, <1>6
    <3>. QED  OBVIOUS
  <2>2. n * ThreadNum = m * ThreadNum + ThreadNum + d * ThreadNum
    BY <1>1, <2>1, SMT
  <2>3. d * ThreadNum \in Nat /\ m * ThreadNum \in Nat
    BY <1>1, <2>1, SMT
  <2>. QED  BY <1>1, <1>3, <1>5, <2>2, <2>3, SMT
<1>. QED  BY <1>1, <1>6

(* The first share begins at scanline 0.                                   *)
LEMMA IntSlBegins == 0 \in IntSl(0)
BY YResAssumption, ThreadNumAssumption, SMT DEF IntSl

LEMMA CRayInit == Init => IInv
<1>. SUFFICES ASSUME Init PROVE IInv
  OBVIOUS
<1>. USE YResAssumption, ThreadNumAssumption, MaxSpuriousAssumption
<1>1. TypeOK
  <2>1. /\ ThreadNum \in Nat /\ YRes \in Nat /\ 0 < ThreadNum
        /\ Nobody \in 0..Nobody
    BY DEF Nobody
  <2>2. /\ sl_start \in [Threads -> 0..YRes]
        /\ sl_count \in [Threads -> 0..YRes]
        /\ line \in [Threads -> 0..YRes]
        /\ pc \in [Threads -> {"unborn", "lock", "test", "wait", "render", "ended"}]
        /\ rendered \in [Lines -> Nat]
    BY <2>1 DEF Init
  <2>3. /\ i \in 0..ThreadNum /\ sl \in 0..YRes /\ spurious \in 0..MaxSpurious
        /\ start \in {0, 1} /\ mutex \in 0..Nobody
        /\ main \in {"spawn", "fix", "lock", "gate", "join", "output", "done", "failed"}
    BY <2>1 DEF Init
  <2>. QED  BY <2>2, <2>3 DEF TypeOK
<1>2. Dealt
  BY IntSlBegins DEF Init, Dealt, Created, Edge, Threads, Lines
<1>3. Progress
  BY DEF Init, Progress, Done, Threads, Lines
<1>4. Gate
  BY DEF Init, Gate, Threads
<1>. QED  BY <1>1, <1>2, <1>3, <1>4 DEF IInv

(***************************************************************************)
(* main()'s steps                                                          *)
(***************************************************************************)
(* Dealing out the next share keeps the shares apart and gapless.          *)
LEMMA ShareKeepsIInv ==
    ASSUME IInv, main = "spawn", i < ThreadNum, NEW next \in IntSl(i + 1), Share(next)
    PROVE  /\ sl' \in 0..YRes
           /\ sl_start' \in [Threads -> 0..YRes]
           /\ sl_count' \in [Threads -> 0..YRes]
           /\ sl' \in IntSl(i + 1)
           /\ i \in Threads
           /\ \A t \in Threads : t < i + 1 => sl_start'[t] + sl_count'[t] <= sl'
           /\ \A t, u \in Threads :
                 (t < u /\ u < i + 1) => sl_start'[t] + sl_count'[t] <= sl_start'[u]
           /\ \A l \in Lines : l < sl' =>
                 \E t \in Threads : t < i + 1 /\ sl_start'[t] <= l /\ l < sl_start'[t] + sl_count'[t]
<1>. USE YResAssumption, ThreadNumAssumption
<1>1. TypeOK /\ Dealt
  BY DEF IInv
<1>2. i \in Threads /\ i \in Nat
  BY <1>1 DEF TypeOK, Threads
<1>3. sl \in 0..YRes /\ next \in 0..YRes /\ sl <= next
  BY <1>1, <1>2, IntSlGrows DEF TypeOK, Dealt, IntSl
<1>4. /\ sl' = next
      /\ sl_start' = [sl_start EXCEPT ![i] = sl]
      /\ sl_count' = [sl_count EXCEPT ![i] = next - sl]
  BY DEF Share
<1>5. /\ sl_start \in [Threads -> 0..YRes] /\ sl_count \in [Threads -> 0..YRes]
      /\ sl_start' \in [Threads -> 0..YRes] /\ sl_count' \in [Threads -> 0..YRes]
  <2>1. sl_start \in [Threads -> 0..YRes] /\ sl_count \in [Threads -> 0..YRes]
    BY <1>1 DEF TypeOK
  <2>2. next - sl \in 0..YRes
    BY <1>3
  <2>. QED  BY <2>1, <2>2, <1>2, <1>3, <1>4
<1>6. sl_start'[i] = sl /\ sl_count'[i] = next - sl
  BY <1>2, <1>4, <1>5
<1>7. \A t \in Threads : t < i => sl_start'[t] = sl_start[t] /\ sl_count'[t] = sl_count[t]
  BY <1>2, <1>4, <1>5 DEF Threads
<1>8. /\ \A t \in Threads : t < i => sl_start[t] + sl_count[t] <= sl
      /\ \A t, u \in Threads : (t < u /\ u < i) => sl_start[t] + sl_count[t] <= sl_start[u]
      /\ \A l \in Lines : l < sl =>
            \E t \in Threads : t < i /\ sl_start[t] <= l /\ l < sl_start[t] + sl_count[t]
  BY <1>1 DEF Dealt, Created, Edge
<1>9. \A t \in Threads : t < i + 1 => sl_start'[t] + sl_count'[t] <= sl'
  <2>. SUFFICES ASSUME NEW t \in Threads, t < i + 1 PROVE sl_start'[t] + sl_count'[t] <= sl'
    OBVIOUS
  <2>1. CASE t = i
    BY <2>1, <1>3, <1>4, <1>6
  <2>2. CASE t < i
    BY <2>2, <1>3, <1>4, <1>5, <1>7, <1>8
  <2>. QED  BY <2>1, <2>2, <1>2 DEF Threads
<1>10. ASSUME NEW t \in Threads, NEW u \in Threads, t < u, u < i + 1
       PROVE  sl_start'[t] + sl_count'[t] <= sl_start'[u]
  <2>1. t < i
    BY <1>2, <1>10 DEF Threads
  <2>2. CASE u = i
    BY <2>1, <2>2, <1>6, <1>7, <1>8
  <2>3. CASE u < i
    BY <2>1, <2>3, <1>7, <1>8, <1>10
  <2>. QED  BY <2>2, <2>3, <1>2, <1>10 DEF Threads
<1>11. ASSUME NEW l \in Lines, l < sl'
       PROVE  \E t \in Threads : t < i + 1 /\ sl_start'[t] <= l /\ l < sl_start'[t] + sl_count'[t]
  <2>1. CASE l < sl
    <3>1. PICK t \in Threads : t < i /\ sl_start[t] <= l /\ l < sl_start[t] + sl_count[t]
      BY <2>1, <1>8
    <3>. QED  BY <3>1, <1>2, <1>7 DEF Threads
  <2>2. CASE sl <= l
    <3>1. sl_start'[i] + sl_count'[i] = next
      BY <1>3, <1>6
    <3>. QED  BY <2>2, <3>1, <1>2, <1>4, <1>6, <1>11
  <2>. QED  BY <2>1, <2>2, <1>3 DEF Lines
<1>. QED  BY <1>2, <1>3, <1>4, <1>5, <1>9, <1>10, <1>11

LEMMA SpawnKeepsIInv == IInv /\ Spawn => IInv'
<1>. SUFFICES ASSUME IInv, Spawn PROVE IInv'
  OBVIOUS
<1>. USE YResAssumption, ThreadNumAssumption
<1>1. PICK next \in IntSl(i + 1) : Share(next)
  BY DEF Spawn
<1>2. main = "spawn" /\ i < ThreadNum
  BY DEF Spawn
<1>3. TypeOK /\ Dealt /\ Progress /\ Gate
  BY DEF IInv
<1>4. /\ sl' \in 0..YRes
      /\ sl_start' \in [Threads -> 0..YRes]
      /\ sl_count' \in [Threads -> 0..YRes]
      /\ sl' \in IntSl(i + 1)
      /\ i \in Threads
      /\ \A t \in Threads : t < i + 1 => sl_start'[t] + sl_count'[t] <= sl'
      /\ \A t, u \in Threads :
            (t < u /\ u < i + 1) => sl_start'[t] + sl_count'[t] <= sl_start'[u]
      /\ \A l \in Lines : l < sl' =>
            \E t \in Threads : t < i + 1 /\ sl_start'[t] <= l /\ l < sl_start'[t] + sl_count'[t]
  BY <1>1, <1>2, ShareKeepsIInv
<1>5. TypeOK'
  <2>1. /\ UNCHANGED <<main, line, mutex, start, rendered, spurious>>
        /\ pc' = [pc EXCEPT ![i] = "lock"] /\ i' = i + 1
    BY DEF Spawn
  <2>2. pc' \in [Threads -> {"unborn", "lock", "test", "wait", "render", "ended"}]
    BY <2>1, <1>3 DEF TypeOK
  <2>3. i' \in 0..ThreadNum
    BY <2>1, <1>2, <1>4 DEF Threads
  <2>. QED  BY <2>1, <2>2, <2>3, <1>3, <1>4 DEF TypeOK
<1>6. Dealt'
  BY <1>2, <1>4 DEF Dealt, Created, Edge, Spawn, IntSl
<1>7. \A t \in Threads : line[t] = 0
  BY <1>2, <1>3 DEF Gate, TypeOK
<1>8. Progress'
  <2>1. /\ sl_start \in [Threads -> Nat] /\ sl_start' \in [Threads -> Nat]
        /\ \A t \in Threads : line'[t] = 0
    BY <1>3, <1>4, <1>7 DEF TypeOK, Spawn
  <2>2. \A l \in Lines : ~Done(l) /\ ~Done(l)'
    BY <2>1, <1>7 DEF Done, Lines
  <2>. QED  BY <2>2, <1>3 DEF Progress, Spawn
<1>9. Gate'
  BY <1>2, <1>3, <1>4, <1>7 DEF Gate, Spawn, TypeOK
<1>. QED  BY <1>5, <1>6, <1>8, <1>9 DEF IInv

LEMMA SpawnFailsKeepsIInv == IInv /\ SpawnFails => IInv'
<1>. SUFFICES ASSUME IInv, SpawnFails PROVE IInv'
  OBVIOUS
<1>. USE YResAssumption, ThreadNumAssumption
<1>1. PICK next \in IntSl(i + 1) : Share(next)
  BY DEF SpawnFails
<1>2. main = "spawn" /\ i < ThreadNum
  BY DEF SpawnFails
<1>3. TypeOK /\ Dealt /\ Progress /\ Gate
  BY DEF IInv
<1>4. /\ sl' \in 0..YRes
      /\ sl_start' \in [Threads -> 0..YRes]
      /\ sl_count' \in [Threads -> 0..YRes]
  BY <1>1, <1>2, ShareKeepsIInv
<1>5. TypeOK'
  BY <1>2, <1>3, <1>4 DEF TypeOK, SpawnFails
<1>6. Dealt'
  BY DEF Dealt, SpawnFails
<1>7. \A t \in Threads : line[t] = 0
  BY <1>2, <1>3 DEF Gate, TypeOK
<1>8. Progress'
  <2>1. /\ sl_start \in [Threads -> Nat] /\ sl_start' \in [Threads -> Nat]
        /\ \A t \in Threads : line'[t] = 0
    BY <1>3, <1>4, <1>7 DEF TypeOK, SpawnFails
  <2>2. \A l \in Lines : ~Done(l) /\ ~Done(l)'
    BY <2>1, <1>7 DEF Done, Lines
  <2>. QED  BY <2>2, <1>3 DEF Progress, SpawnFails
<1>9. Gate'
  BY <1>2, <1>3, <1>4, <1>7 DEF Gate, SpawnFails, TypeOK
<1>. QED  BY <1>5, <1>6, <1>8, <1>9 DEF IInv

(* Correcting the last share closes the gap rounding may have left.        *)
LEMMA FixLastKeepsIInv == IInv /\ FixLast => IInv'
<1>. SUFFICES ASSUME IInv, FixLast PROVE IInv'
  OBVIOUS
<1>. USE YResAssumption, ThreadNumAssumption
<1>1. TypeOK /\ Dealt /\ Progress /\ Gate
  BY DEF IInv
<1>2. /\ main = "fix" /\ main' = "lock"
      /\ sl_count' = [sl_count EXCEPT ![Last] = YRes - sl_start[Last]]
      /\ UNCHANGED <<i, sl, sl_start, pc, line, mutex, start, rendered, spurious>>
  BY DEF FixLast
<1>3. /\ Last \in Threads /\ sl \in 0..YRes /\ YRes \in Nat
      /\ sl_start \in [Threads -> 0..YRes] /\ sl_count \in [Threads -> 0..YRes]
  BY <1>1 DEF Last, Threads, TypeOK
<1>4. /\ \A t \in Threads : sl_start[t] + sl_count[t] <= sl
      /\ \A t, u \in Threads : t < u => sl_start[t] + sl_count[t] <= sl_start[u]
      /\ \A l \in Lines : l < sl => \E t \in Threads : sl_start[t] <= l /\ l < sl_start[t] + sl_count[t]
  BY <1>1, <1>2 DEF Dealt, Created, Edge, Threads
<1>5. YRes - sl_start[Last] \in 0..YRes
  BY <1>3
<1>6. sl_count' \in [Threads -> 0..YRes]
  BY <1>2, <1>3, <1>5
<1>7. TypeOK'
  BY <1>1, <1>2, <1>6 DEF TypeOK
<1>8. /\ sl_count'[Last] = YRes - sl_start[Last]
      /\ \A t \in Threads : t # Last => sl_count'[t] = sl_count[t]
  BY <1>2, <1>3
<1>9. \A t \in Threads : t = Last \/ t < Last
  BY DEF Last, Threads
<1>10. Dealt'
  <2>1. \A t \in Threads : sl_start'[t] + sl_count'[t] <= YRes
    BY <1>2, <1>3, <1>4, <1>8
  <2>2. \A t, u \in Threads : t < u => sl_start'[t] + sl_count'[t] <= sl_start'[u]
    BY <1>2, <1>4, <1>8, <1>9 DEF Last, Threads
  <2>3. ASSUME NEW l \in Lines
        PROVE  \E t \in Threads : sl_start'[t] <= l /\ l < sl_start'[t] + sl_count'[t]
    <3>1. sl_start[Last] <= l => Last \in Threads /\ sl_start'[Last] <= l /\ l < sl_start'[Last] + sl_count'[Last]
      BY <1>2, <1>3, <1>8 DEF Lines
    <3>2. CASE sl <= l
      BY <1>3, <1>4, <3>1, <3>2 DEF Lines
    <3>3. CASE l < sl
      <4>1. PICK t \in Threads : sl_start[t] <= l /\ l < sl_start[t] + sl_count[t]
        BY <1>4, <3>3
      <4>. QED  BY <1>2, <1>8, <3>1, <4>1
    <3>. QED  BY <3>2, <3>3, <1>3 DEF Lines
  <2>. QED  BY <2>1, <2>2, <2>3, <1>2 DEF Dealt, Created, Edge, Threads
<1>11. Progress'
  BY <1>1, <1>2 DEF Progress, Done
<1>12. \A t \in Threads : line[t] = 0 /\ pc[t] \notin {"render", "ended"}
  BY <1>1, <1>2 DEF Gate, TypeOK
<1>13. Gate'
  BY <1>1, <1>2, <1>6, <1>12 DEF Gate
<1>. QED  BY <1>7, <1>10, <1>11, <1>13 DEF IInv

LEMMA GateKeepsIInv ==
    IInv /\ (Spawned \/ LockGate \/ OpenGate \/ Join \/ Joined \/ Output) => IInv'
<1>. SUFFICES ASSUME IInv, Spawned \/ LockGate \/ OpenGate \/ Join \/ Joined \/ Output
              PROVE  IInv'
  OBVIOUS
<1>. USE YResAssumption, ThreadNumAssumption
<1>1. TypeOK /\ Dealt /\ Progress /\ Gate
  BY DEF IInv
<1>2. UNCHANGED <<sl, sl_start, sl_count, line, rendered, spurious>>
  BY DEF Spawned, LockGate, OpenGate, Join, Joined, Output
<1>3. TypeOK'
  <2>1. CASE Spawned
    BY <1>1, <2>1 DEF Spawned, TypeOK
  <2>2. CASE LockGate
    BY <1>1, <2>2 DEF LockGate, TypeOK, Main, Nobody
  <2>3. CASE OpenGate
    <3>1. pc' \in [Threads -> {"unborn", "lock", "test", "wait", "render", "ended"}]
      BY <1>1, <2>3 DEF OpenGate, TypeOK
    <3>2. Nobody \in 0..Nobody /\ 0 \in 0..ThreadNum
      BY DEF Nobody
    <3>. QED  BY <1>1, <1>2, <2>3, <3>1, <3>2 DEF OpenGate, TypeOK
  <2>4. CASE Join
    <3>1. i' \in 0..ThreadNum
      BY <1>1, <2>4 DEF Join, TypeOK
    <3>. QED  BY <1>1, <2>4, <3>1 DEF Join, TypeOK
  <2>5. CASE Joined
    BY <1>1, <2>5 DEF Joined, TypeOK
  <2>6. CASE Output
    BY <1>1, <2>6 DEF Output, TypeOK
  <2>. QED  BY <2>1, <2>2, <2>3, <2>4, <2>5, <2>6
<1>4. Dealt'
  <2>1. CASE Spawned
    BY <1>1, <1>2, <2>1 DEF Spawned, Dealt, Created, Edge
  <2>2. CASE LockGate \/ OpenGate \/ Join \/ Joined \/ Output
    <3>1. main \notin {"spawn", "fix", "failed"} /\ main' \notin {"spawn", "fix", "failed"}
      BY <2>2 DEF LockGate, OpenGate, Join, Joined, Output
    <3>. QED  BY <1>1, <1>2, <3>1 DEF Dealt, Created, Edge
  <2>. QED  BY <2>1, <2>2
<1>5. Progress'
  BY <1>1, <1>2 DEF Progress, Done
<1>6. Gate'
  <2>1. CASE Spawned
    BY <1>1, <2>1 DEF Spawned, Gate
  <2>2. CASE LockGate
    BY <1>1, <2>2 DEF LockGate, Gate
  <2>3. CASE OpenGate
    <3>1. start' = 1 /\ main' = "join" /\ i' = 0
      BY <2>3 DEF OpenGate
    <3>2. \A t \in Threads :
            /\ pc'[t] \in {"render", "ended"} <=> pc[t] \in {"render", "ended"}
            /\ pc'[t] = "ended" <=> pc[t] = "ended"
      BY <2>3 DEF OpenGate
    <3>. QED  BY <1>1, <1>2, <3>1, <3>2 DEF Gate, Threads
  <2>4. CASE Join
    <3>1. /\ main = "join" /\ main' = "join" /\ pc[i] = "ended" /\ i' = i + 1
          /\ UNCHANGED <<pc, start>>
          /\ i \in Nat
      BY <1>1, <2>4 DEF Join, TypeOK
    <3>2. \A t \in Threads : t < i' => pc'[t] = "ended"
      BY <1>1, <3>1 DEF Gate, Threads
    <3>. QED  BY <1>1, <1>2, <3>1, <3>2 DEF Gate
  <2>5. CASE Joined
    BY <1>1, <2>5 DEF Joined, Gate, Threads
  <2>6. CASE Output
    BY <1>1, <2>6 DEF Output, Gate
  <2>. QED  BY <2>1, <2>2, <2>3, <2>4, <2>5, <2>6
<1>. QED  BY <1>3, <1>4, <1>5, <1>6 DEF IInv

(***************************************************************************)
(* The threads' steps                                                      *)
(***************************************************************************)
LEMMA WaitingKeepsIInv ==
    ASSUME IInv, NEW t \in Threads, Lock(t) \/ CondWait(t) \/ WakeUp(t) \/ Pass(t) \/ End(t)
    PROVE  IInv'
<1>. USE YResAssumption, ThreadNumAssumption, MaxSpuriousAssumption
<1>1. TypeOK /\ Dealt /\ Progress /\ Gate
  BY DEF IInv
<1>2. UNCHANGED <<main, i, sl, sl_start, sl_count, line, start, rendered>>
  BY DEF Lock, CondWait, WakeUp, Pass, End
<1>3. \A u \in Threads : u # t => pc'[u] = pc[u]
  BY <1>1 DEF Lock, CondWait, WakeUp, Pass, End, TypeOK
<1>4. TypeOK'
  <2>1. pc' \in [Threads -> {"unborn", "lock", "test", "wait", "render", "ended"}]
    BY <1>1 DEF Lock, CondWait, WakeUp, Pass, End, TypeOK
  <2>2. mutex' \in 0..Nobody
    <3>1. t \in 0..Nobody /\ Nobody \in 0..Nobody
      BY DEF Threads, Nobody
    <3>. QED  BY <1>1, <3>1 DEF Lock, CondWait, WakeUp, Pass, End, TypeOK
  <2>3. spurious' \in 0..MaxSpurious
    BY <1>1 DEF Lock, CondWait, WakeUp, Pass, End, TypeOK
  <2>. QED  BY <1>1, <1>2, <2>1, <2>2, <2>3 DEF TypeOK
<1>5. Dealt'
  BY <1>1, <1>2 DEF Dealt, Created, Edge
<1>6. Progress'
  BY <1>1, <1>2 DEF Progress, Done
<1>7. Gate'
  <2>1. /\ pc[t] # "ended"
        /\ pc'[t] \in {"render", "ended"} => start = 1
        /\ pc'[t] \notin {"render", "ended"} => line[t] = 0
        /\ pc'[t] = "ended" => line[t] = sl_count[t]
    <3>1. CASE Lock(t)
      BY <1>1, <3>1 DEF Lock, Gate, TypeOK
    <3>2. CASE CondWait(t)
      BY <1>1, <3>2 DEF CondWait, Gate, TypeOK
    <3>3. CASE WakeUp(t)
      BY <1>1, <3>3 DEF WakeUp, Gate, TypeOK
    <3>4. CASE Pass(t)
      BY <1>1, <3>4 DEF Pass, Gate, TypeOK
    <3>5. CASE End(t)
      <4>1. line[t] \in Int /\ sl_count[t] \in Int /\ line[t] <= sl_count[t] /\ line[t] >= sl_count[t]
        BY <1>1, <3>5 DEF End, Gate, TypeOK
      <4>. QED  BY <1>1, <3>5, <4>1 DEF End, Gate, TypeOK
    <3>. QED  BY <3>1, <3>2, <3>3, <3>4, <3>5
  <2>. QED  BY <1>1, <1>2, <1>3, <2>1 DEF Gate
<1>. QED  BY <1>4, <1>5, <1>6, <1>7 DEF IInv

(* A thread renders a scanline nobody has rendered: it is in no other      *)
(* thread's share, and the thread itself has not come to it yet.           *)
LEMMA RenderKeepsIInv ==
    ASSUME IInv, NEW t \in Threads, RenderScanline(t)
    PROVE  IInv'
<1>. USE YResAssumption, ThreadNumAssumption
<1>1. TypeOK /\ Dealt /\ Progress /\ Gate
  BY DEF IInv
<1>2. /\ pc[t] = "render" /\ line[t] < sl_count[t]
      /\ rendered' = [rendered EXCEPT ![line[t] + sl_start[t]] = @ + 1]
      /\ line' = [line EXCEPT ![t] = @ + 1]
      /\ UNCHANGED <<main, i, sl, sl_start, sl_count, pc, mutex, start, spurious>>
  BY DEF RenderScanline
<1>3. /\ \A u \in Threads : /\ sl_start[u] \in Nat /\ sl_count[u] \in 0..YRes /\ line[u] \in 0..YRes
                            /\ line[u] <= sl_count[u]
      /\ line'[t] = line[t] + 1
      /\ \A u \in Threads : u # t => line'[u] = line[u]
      /\ line[t] + 1 \in 0..YRes
  BY <1>1, <1>2 DEF TypeOK, Gate
<1>4. /\ \A u \in Threads : sl_start[u] + sl_count[u] <= YRes
      /\ \A u, v \in Threads : u < v => sl_start[u] + sl_count[u] <= sl_start[v]
  <2>1. start = 1 /\ main \notin {"spawn", "fix", "failed"}
    BY <1>1, <1>2 DEF Gate
  <2>. QED  BY <1>1, <2>1 DEF Dealt, Created, Edge, Threads
<1>5. PICK here \in Lines : here = line[t] + sl_start[t]
  <2>1. line[t] + sl_start[t] \in Lines
    BY <1>2, <1>3, <1>4 DEF Lines
  <2>. QED  BY <2>1
<1>6. ~Done(here)
  <2>. SUFFICES ASSUME NEW u \in Threads, sl_start[u] <= here, here < sl_start[u] + line[u]
                PROVE  FALSE
    BY DEF Done
  <2>1. CASE u = t
    BY <2>1, <1>3, <1>5
  <2>2. CASE u < t
    BY <2>2, <1>2, <1>3, <1>4, <1>5
  <2>3. CASE t < u
    BY <2>3, <1>2, <1>3, <1>4, <1>5
  <2>. QED  BY <2>1, <2>2, <2>3 DEF Threads
<1>7. Progress'
  <2>1. Done(here)'
    BY <1>2, <1>3, <1>5 DEF Done
  <2>2. \A l \in Lines : l # here => (Done(l)' <=> Done(l))
    <3>1. ASSUME NEW l \in Lines, NEW u \in Threads, l # here
          PROVE  (sl_start[u] <= l /\ l < sl_start[u] + line'[u]) <=> (sl_start[u] <= l /\ l < sl_start[u] + line[u])
      BY <3>1, <1>3, <1>5 DEF Lines
    <3>. QED  BY <3>1, <1>2 DEF Done
  <2>3. rendered[here] = 0 /\ \A l \in Lines : l # here => rendered'[l] = rendered[l]
    BY <1>1, <1>2, <1>5, <1>6 DEF Progress, TypeOK
  <2>4. rendered'[here] = 1
    BY <1>1, <1>2, <1>5, <2>3 DEF TypeOK
  <2>. QED  BY <1>1, <2>1, <2>2, <2>3, <2>4 DEF Progress
<1>8. TypeOK'
  <2>1. line' \in [Threads -> 0..YRes]
    BY <1>1, <1>2, <1>3 DEF TypeOK
  <2>2. rendered' \in [Lines -> Nat]
    BY <1>1, <1>2, <1>5 DEF TypeOK
  <2>. QED  BY <1>1, <1>2, <2>1, <2>2 DEF TypeOK
<1>9. Dealt'
  BY <1>1, <1>2 DEF Dealt, Created, Edge
<1>10. Gate'
  <2>1. line'[t] <= sl_count[t]
    BY <1>2, <1>3
  <2>. QED  BY <1>1, <1>2, <1>3, <2>1 DEF Gate
<1>. QED  BY <1>7, <1>8, <1>9, <1>10 DEF IInv

LEMMA CRayNext == IInv /\ [Next]_vars => IInv'
<1>. SUFFICES ASSUME IInv, [Next]_vars PROVE IInv'
  OBVIOUS
<1>1. CASE MainStep
  BY <1>1, SpawnKeepsIInv, SpawnFailsKeepsIInv, FixLastKeepsIInv, GateKeepsIInv DEF MainStep
<1>2. ASSUME NEW t \in Threads, ThreadStep(t) \/ WakeUp(t) PROVE IInv'
  BY <1>2, WaitingKeepsIInv, RenderKeepsIInv DEF ThreadStep
<1>3. CASE UNCHANGED vars
  BY <1>3 DEF vars, IInv, TypeOK, Dealt, Created, Edge, Progress, Done, Gate
<1>. QED  BY <1>1, <1>2, <1>3 DEF Next

(***************************************************************************)
(* No deadlock                                                             *)
(***************************************************************************)
(* Who holds the mutex is where it is held, no thread waits at an open     *)
(* gate, and main() has created the threads it joins.                      *)
MutexInv ==
    /\ mutex = Main <=> main = "gate"
    /\ \A t \in Threads : mutex = t <=> pc[t] = "test"
    /\ \A t \in Threads : pc[t] = "wait" => start = 0
    /\ \A t \in Threads : main # "failed" => (pc[t] = "unborn" <=> main = "spawn" /\ i <= t)

LEMMA MutexNext == IInv /\ MutexInv /\ [Next]_vars => MutexInv'
<1>. SUFFICES ASSUME IInv, MutexInv, [Next]_vars PROVE MutexInv'
  OBVIOUS
<1>. USE YResAssumption, ThreadNumAssumption DEF Threads, Main, Nobody
<1>1. /\ ThreadNum \in Nat /\ i \in 0..ThreadNum
      /\ pc \in [Threads -> {"unborn", "lock", "test", "wait", "render", "ended"}]
  BY DEF IInv, TypeOK
<1>2. CASE Spawn
  BY <1>1, <1>2 DEF Spawn, MutexInv
<1>3. CASE SpawnFails \/ Spawned \/ FixLast
  BY <1>1, <1>3 DEF SpawnFails, Spawned, FixLast, MutexInv
<1>4. CASE LockGate
  BY <1>1, <1>4 DEF LockGate, MutexInv
<1>5. CASE OpenGate
  BY <1>1, <1>5 DEF OpenGate, MutexInv
<1>6. CASE Join \/ Joined \/ Output
  BY <1>1, <1>6 DEF Join, Joined, Output, MutexInv
<1>7. ASSUME NEW t \in Threads, ThreadStep(t) \/ WakeUp(t) PROVE MutexInv'
  <2>1. CASE Lock(t)
    BY <1>1, <2>1 DEF Lock, MutexInv
  <2>2. CASE CondWait(t)
    BY <1>1, <2>2 DEF CondWait, MutexInv
  <2>3. CASE Pass(t)
    BY <1>1, <2>3 DEF Pass, MutexInv
  <2>4. CASE WakeUp(t)
    BY <1>1, <2>4 DEF WakeUp, MutexInv
  <2>5. CASE RenderScanline(t) \/ End(t)
    BY <1>1, <2>5 DEF RenderScanline, End, MutexInv
  <2>. QED  BY <1>7, <2>1, <2>2, <2>3, <2>4, <2>5 DEF ThreadStep
<1>8. CASE UNCHANGED vars
  BY <1>8 DEF vars, MutexInv
<1>. QED  BY <1>2, <1>3, <1>4, <1>5, <1>6, <1>7, <1>8 DEF Next, MainStep

(***************************************************************************)
(* Theorems                                                                *)
(***************************************************************************)
(* The invariant holds in every state of every run.                        *)
THEOREM CRayInvariant == Spec => []IInv
<1>. QED  BY CRayInit, CRayNext, PTL DEF Spec

(* Type correctness: no index leaves the image or the thread table.        *)
THEOREM CRayTypeOK == Spec => []TypeOK
<1>1. IInv => TypeOK
  BY DEF IInv
<1>. QED  BY CRayInvariant, <1>1, PTL

(* When "Rendering took" is printed every scanline has been rendered       *)
(* exactly once.                                                           *)
THEOREM CRayWholeImage == Spec => []WholeImage
<1>1. IInv => WholeImage
  <2>. SUFFICES ASSUME IInv, main \in {"output", "done"}, NEW l \in Lines PROVE rendered[l] = 1
    BY DEF WholeImage
  <2>1. l < YRes /\ main \notin {"spawn", "fix", "failed"}
    BY YResAssumption DEF Lines
  <2>2. PICK t \in Threads : sl_start[t] <= l /\ l < sl_start[t] + sl_count[t]
    BY <2>1 DEF IInv, Dealt, Edge
  <2>3. line[t] = sl_count[t]
    BY DEF IInv, Gate
  <2>. QED  BY <2>2, <2>3 DEF IInv, Progress, Done
<1>. QED  BY CRayInvariant, <1>1, PTL

(* No two threads ever render the same scanline.                           *)
THEOREM CRayNoLineTwice == Spec => []NoLineTwice
<1>1. IInv => NoLineTwice
  BY DEF IInv, Progress, NoLineTwice
<1>. QED  BY CRayInvariant, <1>1, PTL

(* Nothing is rendered before the clock is started.                        *)
THEOREM CRayRenderingIsTimed == Spec => []RenderingIsTimed
<1>1. IInv => RenderingIsTimed
  <2>. SUFFICES ASSUME IInv, start = 0, NEW l \in Lines PROVE rendered[l] = 0
    BY DEF RenderingIsTimed
  <2>1. \A t \in Threads : line[t] = 0 /\ sl_start[t] \in Nat
    BY DEF IInv, Gate, TypeOK
  <2>2. ~Done(l)
    BY <2>1 DEF Done, Lines
  <2>. QED  BY <2>2 DEF IInv, Progress
<1>. QED  BY CRayInvariant, <1>1, PTL

(* Until main() returns, it or a thread can go on without being woken: a   *)
(* mutex that somebody waits for has a holder that can go on, and main()   *)
(* waits for no thread that is still at the gate.                          *)
THEOREM CRayNeverStuck == Spec => []NeverStuck
<1>. USE YResAssumption, ThreadNumAssumption DEF Threads, Main, Nobody
<1>1. Init => MutexInv
  <2>. SUFFICES ASSUME Init PROVE MutexInv
    OBVIOUS
  <2>. QED  BY DEF Init, MutexInv
<1>2. IInv /\ MutexInv => NeverStuck
  <2>. SUFFICES ASSUME IInv, MutexInv, ~MainCanGoOn PROVE \E t \in Threads : CanGoOn(t)
    BY DEF NeverStuck
  <2>1. /\ ThreadNum \in Nat /\ i \in 0..ThreadNum /\ mutex \in 0..Nobody
        /\ pc \in [Threads -> {"unborn", "lock", "test", "wait", "render", "ended"}]
    BY DEF IInv, TypeOK
  <2>2. main \in {"lock", "join"}
    BY DEF MainCanGoOn
  <2>3. CASE mutex # Nobody
    <3>1. mutex \in Threads
      BY <2>1, <2>2, <2>3 DEF MutexInv
    <3>. QED  BY <3>1 DEF MutexInv, CanGoOn
  <2>4. CASE mutex = Nobody
    <3>1. main = "join" /\ i \in Threads /\ pc[i] # "ended"
      BY <2>1, <2>2, <2>4 DEF MainCanGoOn
    <3>2. pc[i] \notin {"unborn", "wait"}
      BY <3>1 DEF MutexInv, IInv, Gate
    <3>. QED  BY <2>1, <2>4, <3>1, <3>2 DEF CanGoOn
  <2>. QED  BY <2>3, <2>4
<1>. QED  BY CRayInvariant, MutexNext, <1>1, <1>2, PTL DEF Spec
===============================================================================
