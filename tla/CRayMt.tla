-------------------------------- MODULE CRayMt --------------------------------
(***************************************************************************)
(* The threads of c-ray-1.1/c-ray-mt.c.  main() deals the scanlines out to *)
(* thread_num threads as it creates them, corrects what rounding has taken *)
(* from the last one, opens the start gate (a mutex, a condition variable  *)
(* and the flag `start`), joins the threads, and prints the elapsed time   *)
(* and the image.  The scene and the pixels are left out: `rendered`       *)
(* counts how often each scanline has been rendered.                       *)
(***************************************************************************)
EXTENDS Integers

CONSTANTS
    YRes,           \* yres, the number of scanlines
    ThreadNum,      \* thread_num, already reduced to yres if it was larger
    MaxSpurious     \* bound on the spurious wakeups pthread_cond_wait may have

ASSUME YResAssumption        == YRes \in Nat \ {0}
ASSUME ThreadNumAssumption   == ThreadNum \in 1..YRes
ASSUME MaxSpuriousAssumption == MaxSpurious \in Nat

Threads == 0..(ThreadNum - 1)
Lines   == 0..(YRes - 1)
Last    == ThreadNum - 1
Main    == ThreadNum            \* as holder of start_mutex
Nobody  == ThreadNum + 1

VARIABLES
    main,       \* where main() is
    i,          \* its loop index
    sl,         \* (int)sl
    sl_start, sl_count,     \* the fields of threads[]
    pc,         \* where each thread is
    line,       \* the loop index of each thread
    mutex,      \* the holder of start_mutex
    start,      \* the flag of the gate
    rendered,   \* how often each scanline has been rendered
    spurious    \* spurious wakeups so far

vars == <<main, i, sl, sl_start, sl_count, pc, line, mutex, start, rendered, spurious>>

Init ==
    /\ main = "spawn"
    /\ i = 0
    /\ sl = 0
    /\ sl_start = [t \in Threads |-> 0]
    /\ sl_count = [t \in Threads |-> 0]
    /\ pc = [t \in Threads |-> "unborn"]
    /\ line = [t \in Threads |-> 0]
    /\ mutex = Nobody
    /\ start = 0
    /\ rendered = [l \in Lines |-> 0]
    /\ spurious = 0

(* Type invariant: the fields of threads[] and the loop indices are within *)
(* the image.                                                              *)
TypeOK ==
    /\ main \in {"spawn", "fix", "lock", "gate", "join", "output", "done", "failed"}
    /\ i \in 0..ThreadNum
    /\ sl \in 0..YRes
    /\ sl_start \in [Threads -> 0..YRes]
    /\ sl_count \in [Threads -> 0..YRes]
    /\ pc \in [Threads -> {"unborn", "lock", "test", "wait", "render", "ended"}]
    /\ line \in [Threads -> 0..YRes]
    /\ mutex \in 0..Nobody
    /\ start \in {0, 1}
    /\ rendered \in [Lines -> Nat]
    /\ spurious \in 0..MaxSpurious

(***************************************************************************)
(* main()                                                                  *)
(***************************************************************************)
(* (int)sl when sl is the sum of k floating-point shares of yres /         *)
(* thread_num: the exact k * yres / thread_num rounded down, or, where     *)
(* that is a whole number, also the number below it.                       *)
IntSl(k) == {n \in 0..YRes : n * ThreadNum <= k * YRes /\ k * YRes <= (n + 1) * ThreadNum}

(* The share of thread i is set before the thread is created.              *)
Share(next) ==
    /\ sl' = next
    /\ sl_start' = [sl_start EXCEPT ![i] = sl]
    /\ sl_count' = [sl_count EXCEPT ![i] = next - sl]

Spawn ==
    /\ main = "spawn"
    /\ i < ThreadNum
    /\ \E next \in IntSl(i + 1) : Share(next)
    /\ pc' = [pc EXCEPT ![i] = "lock"]
    /\ i' = i + 1
    /\ UNCHANGED <<main, line, mutex, start, rendered, spurious>>

(* pthread_create() != 0: main() returns, and the process ends with all    *)
(* its threads.                                                            *)
SpawnFails ==
    /\ main = "spawn"
    /\ i < ThreadNum
    /\ \E next \in IntSl(i + 1) : Share(next)
    /\ main' = "failed"
    /\ UNCHANGED <<i, pc, line, mutex, start, rendered, spurious>>

Spawned ==
    /\ main = "spawn"
    /\ i = ThreadNum
    /\ main' = "fix"
    /\ UNCHANGED <<i, sl, sl_start, sl_count, pc, line, mutex, start, rendered, spurious>>

(* A faulty variant of FixLast, to validate WholeImage: the last share     *)
(* stays as rounding left it.                                              *)
FixNothing ==
    /\ main = "fix"
    /\ main' = "lock"
    /\ UNCHANGED <<i, sl, sl_start, sl_count, pc, line, mutex, start, rendered, spurious>>

(* threads[thread_num - 1].sl_count = yres - threads[...].sl_start.        *)
FixLast ==
    /\ main = "fix"
    /\ sl_count' = [sl_count EXCEPT ![Last] = YRes - sl_start[Last]]
    /\ main' = "lock"
    /\ UNCHANGED <<i, sl, sl_start, pc, line, mutex, start, rendered, spurious>>

LockGate ==
    /\ main = "lock"
    /\ mutex = Nobody
    /\ mutex' = Main
    /\ main' = "gate"
    /\ UNCHANGED <<i, sl, sl_start, sl_count, pc, line, start, rendered, spurious>>

(* A faulty variant of OpenGate, to validate Finishes and NeverStuck:      *)
(* pthread_cond_signal() for pthread_cond_broadcast().                     *)
OpenGateToOne ==
    /\ main = "gate"
    /\ start' = 1
    /\ IF \E t \in Threads : pc[t] = "wait"
       THEN \E t \in Threads : pc[t] = "wait" /\ pc' = [pc EXCEPT ![t] = "lock"]
       ELSE UNCHANGED pc
    /\ mutex' = Nobody
    /\ i' = 0
    /\ main' = "join"
    /\ UNCHANGED <<sl, sl_start, sl_count, line, rendered, spurious>>

(* The time is taken, start = 1, broadcast, unlock.                        *)
OpenGate ==
    /\ main = "gate"
    /\ start' = 1
    /\ pc' = [t \in Threads |-> IF pc[t] = "wait" THEN "lock" ELSE pc[t]]
    /\ mutex' = Nobody
    /\ i' = 0
    /\ main' = "join"
    /\ UNCHANGED <<sl, sl_start, sl_count, line, rendered, spurious>>

Join ==
    /\ main = "join"
    /\ i < ThreadNum
    /\ pc[i] = "ended"
    /\ i' = i + 1
    /\ UNCHANGED <<main, sl, sl_start, sl_count, pc, line, mutex, start, rendered, spurious>>

(* rend_time = get_msec() - start_time, and "Rendering took: ..." is out.  *)
Joined ==
    /\ main = "join"
    /\ i = ThreadNum
    /\ main' = "output"
    /\ UNCHANGED <<i, sl, sl_start, sl_count, pc, line, mutex, start, rendered, spurious>>

(* The image is written.                                                   *)
Output ==
    /\ main = "output"
    /\ main' = "done"
    /\ UNCHANGED <<i, sl, sl_start, sl_count, pc, line, mutex, start, rendered, spurious>>

(***************************************************************************)
(* thread_func()                                                           *)
(***************************************************************************)
Alive == main \notin {"done", "failed"}

Lock(t) ==
    /\ Alive
    /\ pc[t] = "lock"
    /\ mutex = Nobody
    /\ mutex' = t
    /\ pc' = [pc EXCEPT ![t] = "test"]
    /\ UNCHANGED <<main, i, sl, sl_start, sl_count, line, start, rendered, spurious>>

(* while(!start) pthread_cond_wait(): it unlocks the mutex as it waits.    *)
CondWait(t) ==
    /\ Alive
    /\ pc[t] = "test"
    /\ start = 0
    /\ pc' = [pc EXCEPT ![t] = "wait"]
    /\ mutex' = Nobody
    /\ UNCHANGED <<main, i, sl, sl_start, sl_count, line, start, rendered, spurious>>

(* A wakeup without a signal: the mutex is locked and start tested again.  *)
WakeUp(t) ==
    /\ Alive
    /\ pc[t] = "wait"
    /\ spurious < MaxSpurious
    /\ spurious' = spurious + 1
    /\ pc' = [pc EXCEPT ![t] = "lock"]
    /\ UNCHANGED <<main, i, sl, sl_start, sl_count, line, mutex, start, rendered>>

(* A faulty variant of Pass, to validate RenderingIsTimed: `if(!start)`    *)
(* for `while(!start)`, so that any wakeup is taken for the signal.        *)
PassOnWakeUp(t) ==
    /\ Alive
    /\ pc[t] = "test"
    /\ start = 1 \/ spurious > 0
    /\ pc' = [pc EXCEPT ![t] = "render"]
    /\ mutex' = Nobody
    /\ UNCHANGED <<main, i, sl, sl_start, sl_count, line, start, rendered, spurious>>

Pass(t) ==
    /\ Alive
    /\ pc[t] = "test"
    /\ start = 1
    /\ pc' = [pc EXCEPT ![t] = "render"]
    /\ mutex' = Nobody
    /\ UNCHANGED <<main, i, sl, sl_start, sl_count, line, start, rendered, spurious>>

(* A faulty variant of RenderScanline, to validate NoLineTwice:            *)
(* `i <= td->sl_count`.                                                    *)
RenderOneMore(t) ==
    /\ Alive
    /\ pc[t] = "render"
    /\ line[t] <= sl_count[t]
    /\ rendered' = [rendered EXCEPT ![line[t] + sl_start[t]] = @ + 1]
    /\ line' = [line EXCEPT ![t] = @ + 1]
    /\ UNCHANGED <<main, i, sl, sl_start, sl_count, pc, mutex, start, spurious>>

(* render_scanline(xres, yres, i + td->sl_start, ...).                     *)
RenderScanline(t) ==
    /\ Alive
    /\ pc[t] = "render"
    /\ line[t] < sl_count[t]
    /\ rendered' = [rendered EXCEPT ![line[t] + sl_start[t]] = @ + 1]
    /\ line' = [line EXCEPT ![t] = @ + 1]
    /\ UNCHANGED <<main, i, sl, sl_start, sl_count, pc, mutex, start, spurious>>

End(t) ==
    /\ Alive
    /\ pc[t] = "render"
    /\ line[t] >= sl_count[t]
    /\ pc' = [pc EXCEPT ![t] = "ended"]
    /\ UNCHANGED <<main, i, sl, sl_start, sl_count, line, mutex, start, rendered, spurious>>

MainStep ==
    \/ Spawn
    \/ SpawnFails
    \/ Spawned
    \/ FixLast
    \/ LockGate
    \/ OpenGate
    \/ Join
    \/ Joined
    \/ Output

ThreadStep(t) ==
    \/ Lock(t)
    \/ CondWait(t)
    \/ Pass(t)
    \/ RenderScanline(t)
    \/ End(t)

Next ==
    \/ MainStep
    \/ \E t \in Threads : ThreadStep(t) \/ WakeUp(t)

Spec == Init /\ [][Next]_vars

(* The operating system runs every thread again and again; nothing obliges *)
(* a spurious wakeup to happen.                                            *)
FairSpec ==
    /\ Spec
    /\ WF_vars(MainStep)
    /\ \A t \in Threads : WF_vars(ThreadStep(t))

(***************************************************************************)
(* Properties                                                              *)
(***************************************************************************)
(* When the elapsed time is printed, every scanline of the image has been  *)
(* rendered exactly once, whatever rounding did to the shares and although *)
(* the last one is corrected after its thread has been created.            *)
WholeImage == main \in {"output", "done"} => \A l \in Lines : rendered[l] = 1

(* At no time has a scanline been rendered twice: no two threads write the *)
(* same pixels, so that the buffer needs no lock.                          *)
NoLineTwice == \A l \in Lines : rendered[l] <= 1

(* "Rendering took" counts all of the rendering: none before start_time is *)
(* taken, neither by an early thread nor by one that woke up spuriously.   *)
RenderingIsTimed == start = 0 => \A l \in Lines : rendered[l] = 0

(* No wakeup is lost at the gate: main() comes to its end.                 *)
Finishes == <>(main \in {"done", "failed"})

(* What a thread can do without being woken: not if it waits at the gate,  *)
(* nor for a mutex another one holds.                                      *)
CanGoOn(t) == pc[t] \in {"test", "render"} \/ (pc[t] = "lock" /\ mutex = Nobody)

MainCanGoOn ==
    /\ main = "lock" => mutex = Nobody
    /\ main = "join" => i = ThreadNum \/ pc[i] = "ended"

(* The lock, the condition variable and the joins never leave everyone     *)
(* waiting for everyone: until main() returns, it or one of the threads    *)
(* can go on, and no spurious wakeup is needed for that.                   *)
NeverStuck == Alive => MainCanGoOn \/ \E t \in Threads : CanGoOn(t)

(***************************************************************************)
(* The inductive invariant of CRayMtProofs                                 *)
(***************************************************************************)
(* The threads created so far, and where their shares end.                 *)
Created == IF main = "spawn" THEN i ELSE ThreadNum
Edge    == IF main \in {"spawn", "fix"} THEN sl ELSE YRes

(* Their shares follow one another without an overlap and leave no         *)
(* scanline out.                                                           *)
Dealt ==
    main # "failed" =>
        /\ main = "spawn" => sl \in IntSl(i)
        /\ \A t \in Threads : t < Created => sl_start[t] + sl_count[t] <= Edge
        /\ \A t, u \in Threads : (t < u /\ u < Created) => sl_start[t] + sl_count[t] <= sl_start[u]
        /\ \A l \in Lines : l < Edge =>
               \E t \in Threads : t < Created /\ sl_start[t] <= l /\ l < sl_start[t] + sl_count[t]

(* What has been rendered is what the threads have counted.                *)
Done(l) == \E t \in Threads : sl_start[t] <= l /\ l < sl_start[t] + line[t]
Progress ==
    \A l \in Lines : rendered[l] = IF Done(l) THEN 1 ELSE 0

(* No thread renders unless the gate is open, none beyond its share, and   *)
(* one that has ended has rendered all of it.                              *)
Gate ==
    /\ start = 1 <=> main \in {"join", "output", "done"}
    /\ \A t \in Threads :
          /\ pc[t] \in {"render", "ended"} => start = 1
          /\ pc[t] \notin {"render", "ended"} => line[t] = 0
          /\ line[t] <= sl_count[t]
          /\ pc[t] = "ended" => line[t] = sl_count[t]
    /\ main = "join" => \A t \in Threads : t < i => pc[t] = "ended"
    /\ main \in {"output", "done"} => \A t \in Threads : pc[t] = "ended"

(* All of it together: whatever state this allows, no step can render a    *)
(* scanline twice or end the run with one left out.                        *)
IInv == TypeOK /\ Dealt /\ Progress /\ Gate
===============================================================================
