------------------------ MODULE NetworkOptionProofs ------------------------
(***************************************************************************)
(* What `BENCH network` shows and what it leaves running, for every number *)
(* of runs, of iterations, of wrappers that die and of ^C: TypeCorrect,    *)
(* ShownIsThisSessionAlways and NoServerBeforeLastStopAlways.              *)
(*                                                                         *)
(* The files are named alike in every run and only tee ever empties them,  *)
(* so the invariant follows the pipeline: FilesOfThisRun says which files  *)
(* belong to the run in progress (those tee has opened), FileIsEmpty that  *)
(* the wrapper that may still publish finds its file empty; the wrappers   *)
(* that ^C left behind have no tee.  For the servers, a session in `swept` *)
(* is past the start of its server (SweptIsBegun), so that the server      *)
(* which a wrapper starts now, be it of an old session, is not one that    *)
(* the last killall was meant for.                                         *)
(***************************************************************************)
EXTENDS NetworkOption, TLAPS

(* A run that is in progress has a number.                                 *)
RunHasNumber == stage # 0 => session \in Sessions

(* The runs whose turn has not come.                                       *)
Ahead(p) ==
    \/ p[1] > session
    \/ stage # 0 /\ p[1] = session /\ \E n \in 1..3 : n > stage /\ p[2] = Order[n]
NotBegun == \A p \in Runs : Ahead(p) => wrapper[p] = "none"

(* What the files that were opened in this run hold is this run's.         *)
OwnRows(t) == Len(out[t]) <= 1 /\ \A i \in DOMAIN out[t] : out[t][i] = session
FilesOfThisRun ==
    \A n \in 1..3 :
        /\ n < stage \/ (n = stage /\ tee # "opening")
        /\ Order[n] \notin missed
        => OwnRows(Order[n])

FileIsEmpty ==
    InSystem /\ tee = "open" /\ wrapper[Current] # "exited" => out[Order[stage]] = << >>

SweptIsBegun == \A t \in Tools : swept[t] \subseteq Begun(t)

IInv ==
    /\ TypeOK
    /\ RunHasNumber
    /\ NotBegun
    /\ FilesOfThisRun
    /\ FileIsEmpty
    /\ ShownIsThisSession
    /\ SweptIsBegun
    /\ NoServerBeforeLastStop

(***************************************************************************)
(* The order of the tools                                                  *)
(***************************************************************************)
(* Each stage has its tool, and each tool its stage.                       *)
LEMMA OrderIsTools ==
    /\ \A n \in 1..3 : Order[n] \in Tools
    /\ \A t \in Tools : \E n \in 1..3 : Order[n] = t
    /\ \A n, k \in 1..3 : Order[n] = Order[k] => n = k
<1>1. 1..3 = {1, 2, 3} OBVIOUS
<1>2. Order[1] = "ethr" /\ Order[2] = "sock" /\ Order[3] = "iperf" BY DEF Order
<1> QED BY <1>1, <1>2 DEF Tools

LEMMA RunsAreRuns ==
    /\ \A p \in Runs : p[1] \in Sessions /\ p[2] \in Tools /\ p = <<p[1], p[2]>>
    /\ \A s \in Sessions, t \in Tools : <<s, t>> \in Runs /\ <<s, t>>[1] = s /\ <<s, t>>[2] = t
BY DEF Runs

LEMMA CurrentIsRun ==
    ASSUME RunHasNumber, InSystem
    PROVE  Current \in Runs /\ Current[1] = session /\ Current[2] = Order[stage]
BY OrderIsTools DEF RunHasNumber, InSystem, Current, Runs

(* The invariant holds when nothing has run yet.                           *)
LEMMA InitInv == ASSUME Init PROVE IInv
<1> USE NetworkAssumption DEF Init
<1>1. TypeOK
  <2>1. NoServer \in Server BY DEF NoServer, Server
  <2>2. << >> \in Seq(Sessions) /\ "none" \in Places BY DEF Places
  <2> QED BY <2>1, <2>2 DEF TypeOK
<1>2. NotBegun BY DEF NotBegun
<1>3. FilesOfThisRun BY DEF FilesOfThisRun
<1>4. ShownIsThisSession BY DEF ShownIsThisSession
<1>5. SweptIsBegun /\ NoServerBeforeLastStop
  BY DEF SweptIsBegun, NoServerBeforeLastStop, NoServer
<1> QED BY <1>1, <1>2, <1>3, <1>4, <1>5 DEF IInv, RunHasNumber, FileIsEmpty, InSystem

(***************************************************************************)
(* Wrappers only go forward                                                *)
(***************************************************************************)
Early == {"none", "setup", "start"}
Forward ==
    \A p \in Runs :
        /\ wrapper[p] = "none" => wrapper'[p] = "none"
        /\ wrapper[p] = "exited" => wrapper'[p] = "exited"
        /\ wrapper[p] \notin Early => wrapper'[p] \notin Early

(* What is said of the places holds after a step forward.                  *)
LEMMA ForwardKeeps ==
    ASSUME IInv, Forward, UNCHANGED <<session, stage>>, swept' = swept
    PROVE  RunHasNumber' /\ NotBegun' /\ SweptIsBegun'
<1>1. RunHasNumber' BY DEF IInv, RunHasNumber
<1>2. NotBegun' BY DEF IInv, NotBegun, Ahead, Forward
<1>3. SweptIsBegun'
  <2>1. \A t \in Tools : Begun(t) \subseteq Begun(t)'
    BY RunsAreRuns DEF Begun, Forward, Early
  <2> QED BY <2>1 DEF IInv, SweptIsBegun
<1> QED BY <1>1, <1>2, <1>3

(* What is said of the files holds after a step that leaves them alone.    *)
LEMMA SameFiles ==
    ASSUME IInv, Forward, UNCHANGED <<session, stage, tee, out, shown, missed>>
    PROVE  FilesOfThisRun' /\ FileIsEmpty' /\ ShownIsThisSession'
<1>1. FilesOfThisRun' /\ ShownIsThisSession'
  BY DEF IInv, FilesOfThisRun, OwnRows, ShownIsThisSession
<1>2. FileIsEmpty'
  BY CurrentIsRun DEF IInv, FileIsEmpty, InSystem, Current, Forward
<1> QED BY <1>1, <1>2

LEMMA SameServers ==
    ASSUME IInv, UNCHANGED <<server, swept>>
    PROVE  NoServerBeforeLastStop'
BY DEF IInv, NoServerBeforeLastStop

(***************************************************************************)
(* BENCH and the pipelines                                                 *)
(***************************************************************************)
(* The first stage of a run, or the next one: its wrapper has not begun.   *)
LEMMA NextStage ==
    ASSUME IInv, NEW n \in 1..4, NEW s \in Sessions, BeginStage(n, s), session' = s,
           \/ s = session /\ stage \in 1..3 /\ n = stage + 1
           \/ s = session + 1 /\ n = 1,
           UNCHANGED swept
    PROVE  /\ stage' = n /\ wrapper' \in [Runs -> Places] /\ tee' \in {"opening", "dead"}
           /\ RunHasNumber' /\ NotBegun' /\ FileIsEmpty' /\ SweptIsBegun'
<1> USE DEF BeginStage
<1>1. TypeOK /\ NotBegun /\ SweptIsBegun /\ wrapper \in [Runs -> Places] /\ session \in Nat
  BY DEF IInv, TypeOK
<1>2. stage' = n /\ tee' \in {"opening", "dead"} OBVIOUS
<1>3. ASSUME n \in 1..3 PROVE <<s, Order[n]>> \in Runs /\ wrapper[<<s, Order[n]>>] = "none"
  <2>1. <<s, Order[n]>> \in Runs BY <1>3, OrderIsTools, RunsAreRuns
  <2>2. Ahead(<<s, Order[n]>>)
    <3>1. CASE s = session + 1 BY <3>1, <1>1 DEF Ahead
    <3>2. CASE s = session /\ stage \in 1..3 /\ n = stage + 1
      BY <1>3, <3>2 DEF Ahead
    <3> QED BY <3>1, <3>2
  <2> QED BY <1>1, <2>1, <2>2 DEF NotBegun
<1>4. /\ wrapper' \in [Runs -> Places]
      /\ \A p \in Runs : wrapper'[p] = wrapper[p] \/ (n \in 1..3 /\ p = <<s, Order[n]>>)
  <2>1. CASE n = 4 BY <2>1, <1>1
  <2>2. CASE n \in 1..3
    <3>1. wrapper' = [wrapper EXCEPT ![<<s, Order[n]>>] = "setup"] BY <2>2
    <3>2. "setup" \in Places BY DEF Places
    <3> QED BY <1>1, <2>2, <3>1, <3>2
  <2> QED BY <2>1, <2>2
<1>5. NotBegun'
  <2> SUFFICES ASSUME NEW p \in Runs, Ahead(p)' PROVE wrapper'[p] = "none"
    BY DEF NotBegun
  <2>1. p[1] \in Nat BY RunsAreRuns DEF Sessions
  <2>2. \/ p[1] > s
        \/ p[1] = s /\ \E k \in 1..3 : k > n /\ p[2] = Order[k]
    BY <1>2 DEF Ahead
  <2>3. Ahead(p)
    <3>1. CASE s = session + 1 BY <2>1, <2>2, <3>1, <1>1 DEF Ahead
    <3>2. CASE s = session /\ stage \in 1..3 /\ n = stage + 1
      <4>1. CASE p[1] > s BY <3>2, <4>1 DEF Ahead
      <4>2. CASE p[1] = s /\ \E k \in 1..3 : k > n /\ p[2] = Order[k]
        <5>1. PICK k \in 1..3 : k > n /\ p[2] = Order[k] BY <4>2
        <5>2. k > stage /\ stage # 0 BY <3>2, <5>1
        <5> QED BY <3>2, <4>2, <5>1, <5>2 DEF Ahead
      <4> QED BY <2>2, <4>1, <4>2
    <3> QED BY <3>1, <3>2
  <2>4. ~(n \in 1..3 /\ p = <<s, Order[n]>>)
    <3> SUFFICES ASSUME n \in 1..3, p = <<s, Order[n]>> PROVE FALSE
      OBVIOUS
    <3>1. p[1] = s /\ p[2] = Order[n] OBVIOUS
    <3>2. PICK k \in 1..3 : k > n /\ p[2] = Order[k] BY <2>1, <2>2, <3>1
    <3>3. Order[k] = Order[n] /\ k > n BY <3>1, <3>2
    <3>4. k = n BY <3>3, OrderIsTools
    <3> QED BY <3>3, <3>4
  <2> QED BY <1>1, <1>4, <2>3, <2>4 DEF NotBegun
<1>6. SweptIsBegun'
  <2> SUFFICES ASSUME NEW t \in Tools, NEW k \in swept[t] PROVE k \in Begun(t)'
    BY DEF SweptIsBegun
  <2>1. k \in Sessions /\ wrapper[<<k, t>>] \notin {"none", "setup", "start"}
    BY <1>1 DEF SweptIsBegun, Begun
  <2>2. <<k, t>> \in Runs BY <2>1, RunsAreRuns
  <2>3. wrapper'[<<k, t>>] = wrapper[<<k, t>>] BY <1>3, <1>4, <2>1, <2>2
  <2> QED BY <2>1, <2>3 DEF Begun
<1>7. RunHasNumber' /\ FileIsEmpty'
  BY <1>2 DEF RunHasNumber, FileIsEmpty
<1> QED BY <1>2, <1>4, <1>5, <1>6, <1>7

LEMMA StartBenchStep == ASSUME IInv, StartBench PROVE IInv'
<1> USE NetworkAssumption DEF StartBench
<1>1. TypeOK BY DEF IInv
<1>2. session' = session + 1 /\ session' \in Sessions /\ session \in Nat /\ session' \in 0..MaxSessions
  BY <1>1 DEF TypeOK, Sessions
<1>3. BeginStage(1, session + 1) /\ shown' = [t \in Tools |-> << >>] /\ missed' = {} OBVIOUS
<1>4. /\ stage' = 1 /\ wrapper' \in [Runs -> Places] /\ tee' \in {"opening", "dead"}
      /\ RunHasNumber' /\ NotBegun' /\ FileIsEmpty' /\ SweptIsBegun'
  BY <1>2, <1>3, NextStage
<1>5. tee' = "opening" BY <1>3 DEF BeginStage
<1>6. TypeOK'
  <2>1. << >> \in Seq(Sessions) OBVIOUS
  <2>2. shown' \in [Tools -> Seq(Sessions)] BY <1>3, <2>1
  <2> QED BY <1>1, <1>2, <1>3, <1>4, <2>2 DEF TypeOK
<1>7. FilesOfThisRun' BY <1>4, <1>5 DEF FilesOfThisRun
<1>8. ShownIsThisSession' BY <1>3 DEF ShownIsThisSession
<1> QED BY <1>4, <1>6, <1>7, <1>8, SameServers DEF IInv

(* The file tee has truncated is this run's, and empty.                    *)
LEMMA TeeOpensStep == ASSUME IInv, TeeOpens PROVE IInv'
<1> USE DEF TeeOpens
<1>1. TypeOK /\ FilesOfThisRun /\ ShownIsThisSession /\ stage \in 1..3 BY DEF IInv, InSystem
<1>2. out \in [Tools -> Seq(Sessions)] /\ << >> \in Seq(Sessions) /\ Order[stage] \in Tools
  BY <1>1, OrderIsTools DEF TypeOK
<1>3. out' = [out EXCEPT ![Order[stage]] = << >>] OBVIOUS
<1>4. out' \in [Tools -> Seq(Sessions)] /\ out'[Order[stage]] = << >> BY <1>2, <1>3
<1>5. TypeOK' BY <1>1, <1>4 DEF TypeOK
<1>6. FilesOfThisRun'
  <2> SUFFICES ASSUME NEW n \in 1..3, n <= stage, Order[n] \notin missed PROVE OwnRows(Order[n])'
    BY <1>1 DEF FilesOfThisRun
  <2>1. CASE n = stage BY <1>4, <2>1 DEF OwnRows
  <2>2. CASE n # stage
    <3>1. n < stage BY <1>1, <2>2
    <3>2. out'[Order[n]] = out[Order[n]] BY <1>1, <1>2, <1>3, <2>2, OrderIsTools
    <3> QED BY <1>1, <3>1, <3>2 DEF FilesOfThisRun, OwnRows
  <2> QED BY <2>1, <2>2
<1>7. FileIsEmpty' BY <1>4 DEF FileIsEmpty
<1>8. ShownIsThisSession' BY <1>1 DEF ShownIsThisSession
<1>9. Forward BY DEF Forward
<1> QED BY <1>5, <1>6, <1>7, <1>8, <1>9, ForwardKeeps, SameServers DEF IInv

LEMMA PipelineEndsStep == ASSUME IInv, PipelineEnds PROVE IInv'
<1> USE DEF PipelineEnds
<1>1. TypeOK /\ FilesOfThisRun /\ ShownIsThisSession /\ stage \in 1..3 /\ session \in Sessions
  BY DEF IInv, InSystem, RunHasNumber
<1>2. BeginStage(stage + 1, session) /\ stage + 1 \in 1..4 /\ tee # "opening" BY <1>1
<1>3. /\ stage' = stage + 1 /\ wrapper' \in [Runs -> Places] /\ tee' \in {"opening", "dead"}
      /\ RunHasNumber' /\ NotBegun' /\ FileIsEmpty' /\ SweptIsBegun'
  BY <1>1, <1>2, NextStage
<1>4. TypeOK' BY <1>1, <1>3 DEF TypeOK
<1>5. FilesOfThisRun'
  <2> SUFFICES ASSUME NEW n \in 1..3, n < stage + 1 \/ (n = stage + 1 /\ tee' # "opening"),
                      Order[n] \notin missed
               PROVE  OwnRows(Order[n])
    BY <1>3 DEF FilesOfThisRun, OwnRows
  <2>1. n <= stage BY <1>1, <1>2 DEF BeginStage
  <2> QED BY <1>1, <1>2, <2>1 DEF FilesOfThisRun
<1>6. ShownIsThisSession' BY <1>1 DEF ShownIsThisSession
<1> QED BY <1>3, <1>4, <1>5, <1>6, SameServers DEF IInv

(* The report: every file tee has opened is this run's.                    *)
LEMMA PrintReportStep == ASSUME IInv, PrintReport PROVE IInv'
<1> USE DEF PrintReport
<1>1. TypeOK /\ FilesOfThisRun /\ NotBegun /\ SweptIsBegun BY DEF IInv
<1>2. TypeOK' BY <1>1 DEF TypeOK
<1>3. FilesOfThisRun' BY DEF FilesOfThisRun
<1>4. ShownIsThisSession'
  <2> SUFFICES ASSUME NEW t \in Tools \ missed PROVE OwnRows(t)
    BY DEF ShownIsThisSession, OwnRows
  <2>1. PICK n \in 1..3 : Order[n] = t BY OrderIsTools
  <2> QED BY <1>1, <2>1 DEF FilesOfThisRun
<1>5. NotBegun' BY <1>1 DEF NotBegun, Ahead
<1>6. SweptIsBegun' BY <1>1 DEF SweptIsBegun, Begun
<1> QED BY <1>2, <1>3, <1>4, <1>5, <1>6, SameServers DEF IInv, RunHasNumber, FileIsEmpty, InSystem

(***************************************************************************)
(* ^C                                                                      *)
(***************************************************************************)
LEMMA SignalStep ==
    ASSUME IInv, Signal, swept' = swept
    PROVE  /\ Forward /\ wrapper' \in [Runs -> Places] /\ server' \in [Tools -> Server]
           /\ faults' \in 0..MaxFaults /\ NoServerBeforeLastStop'
<1> USE NetworkAssumption
<1>1. TypeOK /\ NoServerBeforeLastStop BY DEF IInv
<1>2. faults' \in 0..MaxFaults BY <1>1 DEF Signal, TypeOK
<1>3. PICK place \in [Tools -> Places] :
          /\ \A t \in Tools : place[t] \in AfterInterrupt(wrapper[<<session, t>>])
          /\ wrapper' = [p \in Runs |->
                            IF p[1] # session THEN wrapper[p]
                            ELSE IF p \in widowed /\ place[p[2]] # wrapper[p] THEN "exited"
                            ELSE place[p[2]]]
  BY DEF Signal
<1>4. "exited" \in Places BY DEF Places
<1>5. wrapper' \in [Runs -> Places] BY <1>1, <1>3, <1>4, RunsAreRuns DEF TypeOK
<1>6. ASSUME NEW p \in Runs
      PROVE  /\ wrapper[p] \in Places
             /\ \/ wrapper'[p] = wrapper[p]
                \/ wrapper'[p] = "exited" /\ wrapper[p] # "none"
                \/ wrapper'[p] \in AfterInterrupt(wrapper[p])
  <2>1. wrapper[p] \in Places /\ p = <<p[1], p[2]>> /\ p[2] \in Tools
    BY <1>1, RunsAreRuns DEF TypeOK
  <2>2. CASE p[1] # session BY <1>3, <2>1, <2>2
  <2>3. CASE p[1] = session
    <3>1. place[p[2]] \in AfterInterrupt(wrapper[p]) BY <1>3, <2>1, <2>3
    <3>2. wrapper[p] = "none" => place[p[2]] = "none" BY <3>1 DEF AfterInterrupt
    <3> QED BY <1>3, <2>1, <2>3, <3>1, <3>2
  <2> QED BY <2>1, <2>2, <2>3
<1>7. Forward BY <1>6 DEF Forward, Early, AfterInterrupt, Places
<1>8. PICK killed \in SUBSET Tools :
          server' = [t \in Tools |-> IF t \in killed /\ server[t].by = session
                                     THEN NoServer ELSE server[t]]
  BY DEF Signal
<1>9. NoServer \in Server BY DEF NoServer, Server
<1>10. server' \in [Tools -> Server] BY <1>1, <1>8, <1>9 DEF TypeOK
<1>11. NoServerBeforeLastStop' BY <1>1, <1>8 DEF NoServerBeforeLastStop, NoServer
<1> QED BY <1>2, <1>5, <1>7, <1>10, <1>11

(* The file of a tee that dies before it has opened it is given up.        *)
LEMMA InterruptStep == ASSUME IInv, Interrupt PROVE IInv'
<1>1. /\ Forward /\ wrapper' \in [Runs -> Places] /\ server' \in [Tools -> Server]
      /\ faults' \in 0..MaxFaults /\ NoServerBeforeLastStop'
  BY SignalStep DEF Interrupt
<1>2. /\ UNCHANGED <<session, stage, widowed, iter, out, shown, swept>> /\ stage \in 1..3
      /\ tee' = "dead" /\ missed' = IF tee = "opening" THEN missed \cup {Order[stage]} ELSE missed
  BY DEF Interrupt, InSystem
<1>3. TypeOK /\ FilesOfThisRun /\ ShownIsThisSession BY DEF IInv
<1>4. TypeOK' BY <1>1, <1>2, <1>3, OrderIsTools DEF TypeOK
<1>5. FilesOfThisRun'
  <2> SUFFICES ASSUME NEW n \in 1..3, n <= stage, Order[n] \notin missed' PROVE OwnRows(Order[n])
    BY <1>2 DEF FilesOfThisRun, OwnRows
  <2>1. Order[n] \notin missed /\ (tee = "opening" => n # stage) BY <1>2
  <2>2. n < stage \/ n = stage BY <1>2
  <2> QED BY <1>3, <2>1, <2>2 DEF FilesOfThisRun
<1>6. ShownIsThisSession' BY <1>2, <1>3 DEF ShownIsThisSession
<1>7. FileIsEmpty' BY <1>2 DEF FileIsEmpty
<1> QED BY <1>1, <1>2, <1>4, <1>5, <1>6, <1>7, ForwardKeeps DEF IInv

LEMMA QuitStep == ASSUME IInv, Quit PROVE IInv'
<1>1. /\ Forward /\ wrapper' \in [Runs -> Places] /\ server' \in [Tools -> Server]
      /\ faults' \in 0..MaxFaults /\ NoServerBeforeLastStop'
  BY SignalStep DEF Quit
<1>2. /\ UNCHANGED <<session, widowed, iter, out, shown, missed, swept>>
      /\ stage' = 0 /\ tee' = "dead"
  BY DEF Quit
<1>3. TypeOK /\ ShownIsThisSession /\ NotBegun /\ SweptIsBegun BY DEF IInv
<1>4. TypeOK' BY <1>1, <1>2, <1>3 DEF TypeOK
<1>5. FilesOfThisRun' BY <1>2 DEF FilesOfThisRun
<1>6. ShownIsThisSession' BY <1>2, <1>3 DEF ShownIsThisSession
<1>7. NotBegun' BY <1>1, <1>2, <1>3 DEF NotBegun, Ahead, Forward
<1>8. SweptIsBegun'
  <2>1. \A t \in Tools : Begun(t) \subseteq Begun(t)'
    BY <1>1, RunsAreRuns DEF Begun, Forward, Early
  <2> QED BY <1>2, <1>3, <2>1 DEF SweptIsBegun
<1> QED BY <1>1, <1>2, <1>4, <1>5, <1>6, <1>7, <1>8 DEF IInv, RunHasNumber, FileIsEmpty, InSystem

(***************************************************************************)
(* A script and its wrapper                                                *)
(***************************************************************************)
LEMMA StepForward ==
    ASSUME TypeOK, NEW p \in Runs, NEW from \in Places, NEW to \in Places, Step(p, from, to),
           from \notin {"none", "exited"}, from \notin Early => to \notin Early
    PROVE  /\ Forward /\ wrapper' \in [Runs -> Places]
           /\ wrapper'[p] \in {to, "exited"} /\ \A q \in Runs : q # p => wrapper'[q] = wrapper[q]
<1>1. wrapper' = [wrapper EXCEPT ![p] = IF p \in widowed THEN "exited" ELSE to] /\ wrapper[p] = from
  BY DEF Step
<1>2. wrapper \in [Runs -> Places] /\ "exited" \in Places BY DEF TypeOK, Places
<1>3. wrapper'[p] \in {to, "exited"} /\ \A q \in Runs : q # p => wrapper'[q] = wrapper[q]
  BY <1>1, <1>2
<1>4. wrapper' \in [Runs -> Places] BY <1>1, <1>2
<1>5. Forward BY <1>1, <1>3 DEF Forward, Early
<1> QED BY <1>3, <1>4, <1>5

(* The steps that only move a wrapper on.                                  *)
LEMMA MoveStep ==
    ASSUME IInv, NEW p \in Runs,
           Setup(p) \/ SetupFails(p) \/ SleepEnds(p) \/ ClientRuns(p) \/ LoopEnds(p)
    PROVE  IInv'
<1> USE NetworkAssumption DEF Setup, SetupFails, SleepEnds, ClientRuns, LoopEnds
<1>1. TypeOK BY DEF IInv
<1>2. /\ UNCHANGED <<session, stage, tee, widowed, server, out, shown, faults, missed, swept>>
      /\ iter' \in [Runs -> 0..Iterations]
  <2>1. CASE ClientRuns(p)
    <3>1. iter[p] \in 0..Iterations /\ iter[p] + 1 \in 0..Iterations BY <1>1, <2>1 DEF TypeOK
    <3> QED BY <1>1, <2>1, <3>1 DEF Step, TypeOK
  <2>2. CASE ~ClientRuns(p) BY <1>1, <2>2 DEF Step, TypeOK
  <2> QED BY <2>1, <2>2
<1>3. Forward /\ wrapper' \in [Runs -> Places]
  BY <1>1, StepForward DEF Places, Early
<1>4. TypeOK' BY <1>1, <1>2, <1>3 DEF TypeOK
<1> QED BY <1>2, <1>3, <1>4, ForwardKeeps, SameFiles, SameServers DEF IInv

LEMMA CrashStep == ASSUME IInv, NEW p \in Runs, Crash(p) PROVE IInv'
<1> USE NetworkAssumption DEF Crash
<1>1. TypeOK BY DEF IInv
<1>2. wrapper \in [Runs -> Places] /\ "exited" \in Places BY <1>1 DEF TypeOK, Places
<1>3. wrapper' = [wrapper EXCEPT ![p] = "exited"] \/ wrapper' = wrapper OBVIOUS
<1>4. Forward /\ wrapper' \in [Runs -> Places] BY <1>2, <1>3 DEF Forward, Early
<1>5. TypeOK' BY <1>1, <1>4 DEF TypeOK
<1> QED BY <1>4, <1>5, ForwardKeeps, SameFiles, SameServers DEF IInv

(* The port decides between the old server and the new one; neither is of  *)
(* a session that the last killall was meant for.                          *)
LEMMA StartServerStep == ASSUME IInv, NEW p \in Runs, StartServer(p) PROVE IInv'
<1> USE DEF StartServer
<1>1. TypeOK /\ SweptIsBegun /\ NoServerBeforeLastStop BY DEF IInv
<1>2. p[1] \in Sessions /\ p[2] \in Tools /\ p = <<p[1], p[2]>> BY RunsAreRuns
<1>3. Forward /\ wrapper' \in [Runs -> Places]
  BY <1>1, StepForward DEF Places, Early
<1>4. UNCHANGED <<session, stage, tee, widowed, iter, out, shown, faults, missed, swept>>
  BY DEF Step
<1>5. p[1] \notin swept[p[2]]
  <2>1. wrapper[<<p[1], p[2]>>] = "start" BY <1>2 DEF Step
  <2> QED BY <1>1, <1>2, <2>1 DEF SweptIsBegun, Begun
<1> DEFINE new == [state |-> "starting", by |-> p[1], pipe |-> PipeOf(p)]
<1>6. new \in Server
  BY <1>2, NetworkAssumption DEF Server, PipeOf, Sessions
<1>7. PICK s \in {new, server[p[2]]} : server' = [server EXCEPT ![p[2]] = s]
  OBVIOUS
<1>8. server \in [Tools -> Server] BY <1>1 DEF TypeOK
<1>9. server' \in [Tools -> Server] BY <1>2, <1>6, <1>7, <1>8
<1>10. TypeOK' BY <1>1, <1>3, <1>4, <1>9 DEF TypeOK
<1>11. NoServerBeforeLastStop'
  <2> SUFFICES ASSUME NEW t \in Tools, server'[t].state # "none"
               PROVE  server'[t].by \notin swept[t]
    BY <1>4 DEF NoServerBeforeLastStop
  <2>1. CASE server'[t] = server[t] BY <1>1, <2>1 DEF NoServerBeforeLastStop
  <2>2. CASE t = p[2] /\ server'[t] = new BY <1>5, <2>2
  <2>3. server'[t] = server[t] \/ (t = p[2] /\ server'[t] = new)
    <3> HIDE DEF new
    <3> QED BY <1>2, <1>7, <1>8
  <2> QED BY <2>1, <2>2, <2>3
<1> QED BY <1>3, <1>4, <1>10, <1>11, ForwardKeeps, SameFiles DEF IInv

LEMMA ServerUpStep ==
    ASSUME IInv, NEW u \in Tools, ServerUp(u)
    PROVE  IInv'
<1> USE DEF ServerUp
<1>1. TypeOK /\ NoServerBeforeLastStop BY DEF IInv
<1>2. server \in [Tools -> Server] BY <1>1 DEF TypeOK
<1>3. server[u] \in Server /\ [server[u] EXCEPT !.state = "up"] \in Server
  BY <1>2 DEF Server
<1>4. server' = [server EXCEPT ![u] = [server[u] EXCEPT !.state = "up"]] OBVIOUS
<1>5. server' \in [Tools -> Server] BY <1>2, <1>3, <1>4
<1>6. TypeOK' BY <1>1, <1>5 DEF TypeOK
<1>7. NoServerBeforeLastStop'
  <2> SUFFICES ASSUME NEW t \in Tools, server'[t].state # "none"
               PROVE  server'[t].by \notin swept[t]
    BY DEF NoServerBeforeLastStop
  <2>1. server'[t].by = server[t].by BY <1>2, <1>3, <1>4 DEF Server
  <2>2. server[t].state # "none" BY <1>2, <1>4
  <2> QED BY <1>1, <2>1, <2>2 DEF NoServerBeforeLastStop
<1>8. Forward BY DEF Forward
<1> QED BY <1>6, <1>7, <1>8, ForwardKeeps, SameFiles DEF IInv

LEMMA StopServerStep == ASSUME IInv, NEW p \in Runs, StopServer(p) PROVE IInv'
<1> USE DEF StopServer
<1>1. TypeOK /\ SweptIsBegun /\ NoServerBeforeLastStop /\ NotBegun /\ RunHasNumber BY DEF IInv
<1>2. p[2] \in Tools BY RunsAreRuns
<1>3. Forward /\ wrapper' \in [Runs -> Places]
  BY <1>1, StepForward DEF Places, Early
<1>4. UNCHANGED <<session, stage, tee, widowed, iter, out, shown, faults, missed>>
  BY DEF Step
<1>5. NoServer \in Server BY NetworkAssumption DEF NoServer, Server
<1>6. /\ server' = [server EXCEPT ![p[2]] = NoServer] /\ server' \in [Tools -> Server]
      /\ swept' = [swept EXCEPT ![p[2]] = Begun(p[2])] /\ swept' \in [Tools -> SUBSET Sessions]
  BY <1>1, <1>2, <1>5 DEF TypeOK, Begun
<1>7. TypeOK' BY <1>1, <1>3, <1>4, <1>6 DEF TypeOK
<1>8. SweptIsBegun'
  <2>1. \A t \in Tools : Begun(t) \subseteq Begun(t)'
    BY <1>3, RunsAreRuns DEF Begun, Forward, Early
  <2>2. \A t \in Tools : swept'[t] = swept[t] \/ swept'[t] = Begun(t)
    BY <1>1, <1>2, <1>6 DEF TypeOK
  <2> QED BY <1>1, <2>1, <2>2 DEF SweptIsBegun
<1>9. NoServerBeforeLastStop'
  <2> SUFFICES ASSUME NEW t \in Tools, server'[t].state # "none"
               PROVE  server'[t].by \notin swept'[t]
    BY DEF NoServerBeforeLastStop
  <2>1. t # p[2] BY <1>1, <1>2, <1>6 DEF TypeOK, NoServer
  <2>2. server'[t] = server[t] /\ swept'[t] = swept[t] BY <1>1, <1>6, <2>1 DEF TypeOK
  <2> QED BY <1>1, <2>2 DEF NoServerBeforeLastStop
<1>10. RunHasNumber' BY <1>1, <1>4 DEF RunHasNumber
<1>11. NotBegun' BY <1>1, <1>3, <1>4 DEF NotBegun, Ahead, Forward
<1> QED BY <1>3, <1>4, <1>7, <1>8, <1>9, <1>10, <1>11, SameFiles DEF IInv

(* The row goes into a file that was empty, or nowhere.                    *)
LEMMA PublishRowStep == ASSUME IInv, NEW p \in Runs, PublishRow(p) PROVE IInv'
<1> USE DEF PublishRow
<1>1. TypeOK /\ FilesOfThisRun /\ FileIsEmpty /\ RunHasNumber /\ ShownIsThisSession BY DEF IInv
<1>2. Forward /\ wrapper' \in [Runs -> Places] /\ wrapper'[p] = "exited"
  BY <1>1, StepForward DEF Places, Early
<1>3. UNCHANGED <<session, stage, tee, widowed, iter, server, shown, faults, missed, swept>>
      /\ wrapper[p] = "aggregate"
  BY DEF Step
<1>4. RunHasNumber' /\ NotBegun' /\ SweptIsBegun' /\ NoServerBeforeLastStop' /\ ShownIsThisSession'
  BY <1>1, <1>2, <1>3, ForwardKeeps, SameServers DEF ShownIsThisSession
<1>5. CASE out' = out
  <2>1. TypeOK' BY <1>1, <1>2, <1>3, <1>5 DEF TypeOK
  <2> QED BY <1>2, <1>3, <1>4, <1>5, <2>1, SameFiles DEF IInv
<1>6. CASE IsCurrent(p) /\ tee = "open" /\ out' = [out EXCEPT ![p[2]] = Append(@, p[1])]
  <2>1. /\ InSystem /\ p = Current /\ p[1] = session /\ p[2] = Order[stage] /\ session \in Sessions
        /\ p[2] \in Tools /\ out[p[2]] = << >> /\ stage \in 1..3
    BY <1>1, <1>3, <1>6, CurrentIsRun, RunsAreRuns
       DEF IsCurrent, FileIsEmpty, InSystem, RunHasNumber
  <2>2. out \in [Tools -> Seq(Sessions)] BY <1>1 DEF TypeOK
  <2>3. Append(out[p[2]], p[1]) = <<session>> /\ <<session>> \in Seq(Sessions)
    BY <2>1
  <2>4. out' = [out EXCEPT ![p[2]] = <<session>>] BY <1>6, <2>3
  <2>5. out' \in [Tools -> Seq(Sessions)] /\ out'[Order[stage]] = <<session>>
    BY <2>1, <2>2, <2>3, <2>4
  <2>6. TypeOK' BY <1>1, <1>2, <1>3, <2>5 DEF TypeOK
  <2>7. FilesOfThisRun'
    <3> SUFFICES ASSUME NEW n \in 1..3, n <= stage, Order[n] \notin missed PROVE OwnRows(Order[n])'
      BY <1>3, <2>1 DEF FilesOfThisRun
    <3>1. CASE n = stage
      <4>1. Len(<<session>>) <= 1 /\ DOMAIN <<session>> = {1} /\ <<session>>[1] = session OBVIOUS
      <4> QED BY <1>3, <2>5, <3>1, <4>1 DEF OwnRows
    <3>2. CASE n # stage
      <4>1. n < stage BY <2>1, <3>2
      <4>2. out'[Order[n]] = out[Order[n]] BY <2>1, <2>2, <2>4, <3>2, OrderIsTools
      <4> QED BY <1>1, <1>3, <4>1, <4>2 DEF FilesOfThisRun, OwnRows
    <3> QED BY <3>1, <3>2
  <2>8. FileIsEmpty' BY <1>2, <1>3, <2>1 DEF FileIsEmpty, Current
  <2> QED BY <1>4, <2>6, <2>7, <2>8 DEF IInv
<1> QED BY <1>5, <1>6

(***************************************************************************)
(* The theorems                                                            *)
(***************************************************************************)
(* Whatever BENCH, a script, a wrapper, a server or the user does keeps    *)
(* the invariant.                                                          *)
LEMMA StepInv == ASSUME IInv, [Next]_vars PROVE IInv'
<1>1. CASE UNCHANGED vars
  <2>1. Forward BY <1>1 DEF vars, Forward
  <2>2. TypeOK' BY <1>1 DEF vars, IInv, TypeOK
  <2> QED BY <1>1, <2>1, <2>2, ForwardKeeps, SameFiles, SameServers DEF vars, IInv
<1>2. CASE StartBench BY <1>2, StartBenchStep
<1>3. CASE TeeOpens BY <1>3, TeeOpensStep
<1>4. CASE PipelineEnds BY <1>4, PipelineEndsStep
<1>5. CASE PrintReport BY <1>5, PrintReportStep
<1>6. ASSUME NEW p \in Runs, WrapperStep(p) PROVE IInv'
  BY <1>6, MoveStep, StartServerStep, StopServerStep, PublishRowStep DEF WrapperStep
<1>7. CASE Interrupt BY <1>7, InterruptStep
<1>8. CASE Quit BY <1>8, QuitStep
<1>9. CASE \E t \in Tools : ServerUp(t) BY <1>9, ServerUpStep
<1>10. CASE \E p \in Runs : Crash(p) BY <1>10, CrashStep
<1> QED BY <1>1, <1>2, <1>3, <1>4, <1>5, <1>6, <1>7, <1>8, <1>9, <1>10 DEF Next, Proceed

LEMMA SpecInv == Spec => []IInv
<1>1. Init => IInv BY InitInv
<1>2. IInv /\ [Next]_vars => IInv' BY StepInv
<1> QED BY <1>1, <1>2, PTL DEF Spec

(* BENCH network stays within its types: one server a tool, and no wrapper *)
(* makes more client runs than ->Iterations(n) (ethrbench.cpp:62-92).      *)
THEOREM TypeCorrect == Spec => []TypeOK
<1>1. IInv => TypeOK BY DEF IInv
<1> QED BY <1>1, SpecInv, PTL

(* Whatever dies in whatever run and whatever survives ^C, the report of   *)
(* `BENCH network` shows no row of an earlier run (BENCH.cpp:653-666) for  *)
(* a tool whose tee has opened its file, for any number of runs.           *)
THEOREM ShownIsThisSessionAlways == Spec => []ShownIsThisSession
<1>1. IInv => ShownIsThisSession BY DEF IInv
<1> QED BY <1>1, SpecInv, PTL

(* No server outlives a killall of its name (sockperfbench.cpp:81 and its  *)
(* likes), whichever of the wrappers that are about at a time ran it.      *)
THEOREM NoServerBeforeLastStopAlways == Spec => []NoServerBeforeLastStop
<1>1. IInv => NoServerBeforeLastStop BY DEF IInv
<1> QED BY <1>1, SpecInv, PTL
=============================================================================
