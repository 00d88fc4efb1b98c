---------------------------- MODULE NetworkOption ----------------------------
(***************************************************************************)
(* `BENCH network` (BENCH.cpp:651-668): the pipelines                      *)
(*     ./ethr-test.sh | tee ethrr_output.txt                               *)
(*     ./sock-test.sh | tee sockk_output.txt                               *)
(*     ./iperf-test.sh | tee iperff_output.txt                             *)
(* one after the other, then the report, which reads the three files.      *)
(*                                                                         *)
(* Each script runs a wrapper that starts its tool's server in the         *)
(* background, sleeps, runs the clients, and kills every process of the    *)
(* server's name.  system() returns when the script AND tee are done, and  *)
(* tee reads until the last holder of the pipe's write end is gone: the    *)
(* servers of ethr and iperf write to /dev/null, sockperf's server         *)
(* inherits the pipe.                                                      *)
(*                                                                         *)
(* What can go wrong between the steps: a script gives up before its       *)
(* wrapper (missing directory or binary); a wrapper dies and leaves its    *)
(* server, and perhaps the child it was waiting for; ^C.  BENCH ignores ^C *)
(* while it is in system(), and so does a wrapper while it is in system(): *)
(* tee dies and BENCH goes on, but a wrapper that is running a client, the *)
(* killall or the average survives, and goes on beside BENCH's next stages *)
(* and the next run of BENCH.                                              *)
(* The files inside a wrapper's directory are the wrapper modules' matter. *)
(***************************************************************************)
EXTENDS Naturals, Sequences

CONSTANTS
    Iterations,     \* client runs of a wrapper (2, 2 and 3 in the code)
    MaxSessions,    \* bound on the number of runs of `BENCH network`
    MaxFaults       \* bound on the deaths of wrappers and the ^C, together

Tools == {"ethr", "sock", "iperf"}
Order == <<"ethr", "sock", "iperf">>

ASSUME NetworkAssumption ==
    /\ Iterations \in Nat \ {0}
    /\ MaxSessions \in Nat \ {0}
    /\ MaxFaults \in Nat

Sessions == 1..MaxSessions
Runs     == Sessions \X Tools       \* a wrapper's run: its session and its tool
Places   == {"none", "setup", "start", "sleep", "loop", "stop", "aggregate", "exited"}

VARIABLES
    session,        \* the current (or last) run of BENCH
    stage,          \* 0: BENCH not running; 1..3: in system(); 4: reporting
    tee,            \* this stage's tee: "opening" its file, "open", or "dead"
    wrapper,        \* where the script and wrapper of a run are
    widowed,        \* the runs whose wrapper died while a child of it runs
    iter,           \* client runs done in a run
    server,         \* for each tool the server that is alive
    out,            \* for each tool the rows in its file, by their session
    shown,          \* for each tool the rows the report printed
    faults,         \* wrappers that died and ^C pressed so far
    missed,         \* history: tools whose tee ^C killed before it opened its file
    swept           \* history: for each tool the sessions that had started
                    \* their server before the last killall

vars == <<session, stage, tee, wrapper, widowed, iter, server, out, shown,
          faults, missed, swept>>

NoServer == [state |-> "none", by |-> 0, pipe |-> 0]
Server   == [state : {"none", "starting", "up"}, by : 0..MaxSessions, pipe : 0..MaxSessions]

(* The run BENCH waits for.                                                *)
InSystem  == stage \in 1..3
Current   == <<session, Order[stage]>>
IsCurrent(p) == InSystem /\ p = Current

Init ==
    /\ session = 0
    /\ stage = 0
    /\ tee = "dead"
    /\ wrapper = [p \in Runs |-> "none"]
    /\ widowed = {}
    /\ iter = [p \in Runs |-> 0]
    /\ server = [t \in Tools |-> NoServer]
    /\ out = [t \in Tools |-> << >>]
    /\ shown = [t \in Tools |-> << >>]
    /\ faults = 0
    /\ missed = {}
    /\ swept = [t \in Tools |-> {}]

(* Type invariant: at most one server of a tool is alive (its port is      *)
(* taken), and a wrapper makes at most ->Iterations(n) client runs.        *)
TypeOK ==
    /\ session \in 0..MaxSessions
    /\ stage \in 0..4
    /\ tee \in {"opening", "open", "dead"}
    /\ wrapper \in [Runs -> Places]
    /\ widowed \subseteq Runs
    /\ iter \in [Runs -> 0..Iterations]
    /\ server \in [Tools -> Server]
    /\ out \in [Tools -> Seq(Sessions)] /\ shown \in [Tools -> Seq(Sessions)]
    /\ faults \in 0..MaxFaults
    /\ missed \subseteq Tools
    /\ swept \in [Tools -> SUBSET Sessions]

(***************************************************************************)
(* BENCH and the pipelines                                                 *)
(***************************************************************************)
(* The next system(), or the report after the third.                       *)
BeginStage(n, s) ==
    /\ stage' = n
    /\ IF n <= 3
       THEN tee' = "opening" /\ wrapper' = [wrapper EXCEPT ![<<s, Order[n]>>] = "setup"]
       ELSE tee' = "dead" /\ UNCHANGED wrapper

StartBench ==
    /\ stage = 0
    /\ session < MaxSessions
    /\ session' = session + 1
    /\ shown' = [t \in Tools |-> << >>]
    /\ missed' = {}
    /\ BeginStage(1, session + 1)
    /\ UNCHANGED <<widowed, iter, server, out, faults, swept>>

(* A faulty variant of TeeOpens, to validate ShownIsThisSession: `tee -a`. *)
TeeOpensAppend ==
    /\ InSystem
    /\ tee = "opening"
    /\ tee' = "open"
    /\ UNCHANGED <<session, stage, wrapper, widowed, iter, server, out, shown,
                   faults, missed, swept>>

(* tee truncates its file.                                                 *)
TeeOpens ==
    /\ InSystem
    /\ tee = "opening"
    /\ tee' = "open"
    /\ out' = [out EXCEPT ![Order[stage]] = << >>]
    /\ UNCHANGED <<session, stage, wrapper, widowed, iter, server, shown,
                   faults, missed, swept>>

(* A live server writes to this stage's pipe.                              *)
PipeHeld == server[Order[stage]].state # "none" /\ server[Order[stage]].pipe = session

(* The last child of a dead wrapper may hold the pipe or not: its output   *)
(* is redirected, and its shell may have been replaced by it.              *)
ScriptOver == wrapper[Current] = "exited" \/ Current \in widowed

(* The script has ended and tee has seen the end of its input.  After ^C   *)
(* system() returns at once, or when the script has ended: that is the     *)
(* shell's choice.  The status is ignored.                                 *)
PipelineEnds ==
    /\ InSystem
    /\ tee = "dead" \/ (tee = "open" /\ ScriptOver /\ ~PipeHeld)
    /\ BeginStage(stage + 1, session)
    /\ UNCHANGED <<session, widowed, iter, server, out, shown, faults, missed, swept>>

(* The three processNetworkOutput() calls and "######## END ########".     *)
PrintReport ==
    /\ stage = 4
    /\ stage' = 0
    /\ shown' = out
    /\ UNCHANGED <<session, tee, wrapper, widowed, iter, server, out, faults, missed, swept>>

(***************************************************************************)
(* ^C reaches the processes of this run of BENCH, the wrappers that an     *)
(* earlier ^C left in it included                                          *)
(***************************************************************************)
(* What becomes of a wrapper: in sleep_for() it dies; in system() it       *)
(* ignores the signal, and its child, a shell, dies of it or was just      *)
(* done: no server is started, or none killed.  Between two calls it dies. *)
(* The script dies, or waits for a command that does not.                  *)
AfterInterrupt(place) ==
    CASE place \in {"none", "exited"} -> {place}
      [] place = "sleep" -> {"exited"}
      [] place = "start" -> {"start", "sleep", "exited"}
      [] place = "stop" -> {"stop", "aggregate", "exited"}
      [] OTHER -> {place, "exited"}

(* A background job starts with SIGINT ignored and dies only if it has     *)
(* installed a handler by now.                                             *)
Signal ==
    /\ faults < MaxFaults
    /\ faults' = faults + 1
    /\ \E place \in {f \in [Tools -> Places] :
                        \A t \in Tools : f[t] \in AfterInterrupt(wrapper[<<session, t>>])} :
           wrapper' = [p \in Runs |->
                          IF p[1] # session THEN wrapper[p]
                          ELSE IF p \in widowed /\ place[p[2]] # wrapper[p] THEN "exited"
                          ELSE place[p[2]]]
    /\ \E killed \in SUBSET Tools :
           server' = [t \in Tools |-> IF t \in killed /\ server[t].by = session
                                      THEN NoServer ELSE server[t]]

(* BENCH is in system().                                                   *)
Interrupt ==
    /\ InSystem
    /\ Signal
    /\ tee' = "dead"
    /\ missed' = IF tee = "opening" THEN missed \cup {Order[stage]} ELSE missed
    /\ UNCHANGED <<session, stage, widowed, iter, out, shown, swept>>

(* BENCH is not, or not yet, in system() and dies.                         *)
Quit ==
    /\ stage # 0
    /\ Signal
    /\ stage < 4 => tee = "opening" /\ wrapper[Current] = "setup" /\ wrapper'[Current] = "exited"
    /\ stage' = 0
    /\ tee' = "dead"
    /\ UNCHANGED <<session, widowed, iter, out, shown, missed, swept>>

(***************************************************************************)
(* A script and its wrapper                                                *)
(***************************************************************************)
(* After the death of the wrapper its child is the last to go on.          *)
Step(p, from, to) ==
    /\ wrapper[p] = from
    /\ wrapper' = [wrapper EXCEPT ![p] = IF p \in widowed THEN "exited" ELSE to]
    /\ UNCHANGED <<session, stage, tee, widowed, shown, faults, missed>>

Setup(p) == Step(p, "setup", "start") /\ UNCHANGED <<iter, server, out, swept>>

(* exit 1: no directory, no binary.                                        *)
SetupFails(p) == Step(p, "setup", "exited") /\ UNCHANGED <<iter, server, out, swept>>

(* A faulty variant of PipeOf, to validate FinishesUnlessPipeHeld: iperf's *)
(* server is started without `> /dev/null 2>&1`.                           *)
PipeOfUnredirected(p) == IF p[2] = "ethr" THEN 0 ELSE p[1]

(* Where the server's stdout goes: only sockperf's is not redirected.      *)
PipeOf(p) == IF p[2] = "sock" THEN p[1] ELSE 0

(* `<server> &`.  While an older server has the port the new one exits; if *)
(* the older one is still starting, either of them gets it.                *)
StartServer(p) ==
    /\ Step(p, "start", "sleep")
    /\ LET new == [state |-> "starting", by |-> p[1], pipe |-> PipeOf(p)]
           old == server[p[2]]
       IN  \E s \in IF old.state = "none" THEN {new}
                    ELSE IF old.state = "up" THEN {old} ELSE {old, new} :
               server' = [server EXCEPT ![p[2]] = s]
    /\ UNCHANGED <<iter, out, swept>>

(* The server listens; nothing makes that happen within the sleep.         *)
ServerUp(t) ==
    /\ server[t].state = "starting"
    /\ server' = [server EXCEPT ![t].state = "up"]
    /\ UNCHANGED <<session, stage, tee, wrapper, widowed, iter, out, shown,
                   faults, missed, swept>>

SleepEnds(p) == Step(p, "sleep", "loop") /\ UNCHANGED <<iter, server, out, swept>>

(* One client, whatever comes of it.                                       *)
ClientRuns(p) ==
    /\ iter[p] < Iterations
    /\ Step(p, "loop", "loop")
    /\ iter' = [iter EXCEPT ![p] = @ + 1]
    /\ UNCHANGED <<server, out, swept>>

LoopEnds(p) ==
    /\ iter[p] = Iterations
    /\ Step(p, "loop", "stop")
    /\ UNCHANGED <<iter, server, out, swept>>

(* The sessions that have started their server of a tool, or never will.   *)
Begun(t) == {s \in Sessions : wrapper[<<s, t>>] \notin {"none", "setup", "start"}}

(* A faulty variant of StopServer, to validate NoServerBeforeLastStop: it  *)
(* kills the process this wrapper started, and no other.                   *)
StopOwnServer(p) ==
    /\ Step(p, "stop", "aggregate")
    /\ server' = [server EXCEPT ![p[2]] = IF @.by = p[1] THEN NoServer ELSE @]
    /\ swept' = [swept EXCEPT ![p[2]] = Begun(p[2])]
    /\ UNCHANGED <<iter, out>>

(* killall ethr, killall sockperf, pkill iperf3: by name, so the servers   *)
(* of all other sessions as well.                                          *)
StopServer(p) ==
    /\ Step(p, "stop", "aggregate")
    /\ server' = [server EXCEPT ![p[2]] = NoServer]
    /\ swept' = [swept EXCEPT ![p[2]] = Begun(p[2])]
    /\ UNCHANGED <<iter, out>>

(* The average and the row, through the pipe into tee's file; then wrapper *)
(* and script end.  No one reads the row of a run whose tee is dead.       *)
PublishRow(p) ==
    /\ IsCurrent(p) => tee # "opening"
    /\ Step(p, "aggregate", "exited")
    /\ out' = IF IsCurrent(p) /\ tee = "open" /\ p \notin widowed
              THEN [out EXCEPT ![p[2]] = Append(@, p[1])] ELSE out
    /\ UNCHANGED <<iter, server, swept>>

(* Is a child of the wrapper running?                                      *)
HasChild(p) == wrapper[p] \in {"start", "stop", "aggregate"} \/ (wrapper[p] = "loop" /\ iter[p] < Iterations)

(* The wrapper dies.  A child that runs goes on, or was just done; the     *)
(* script goes on to its end.                                              *)
Crash(p) ==
    /\ faults < MaxFaults
    /\ faults' = faults + 1
    /\ p \notin widowed
    /\ wrapper[p] \in {"start", "sleep", "loop", "stop", "aggregate"}
    /\ \/ wrapper' = [wrapper EXCEPT ![p] = "exited"] /\ UNCHANGED widowed
       \/ HasChild(p) /\ widowed' = widowed \cup {p} /\ UNCHANGED wrapper
    /\ UNCHANGED <<session, stage, tee, iter, server, out, shown, missed, swept>>

WrapperStep(p) ==
    \/ Setup(p) \/ SetupFails(p) \/ StartServer(p) \/ SleepEnds(p)
    \/ ClientRuns(p) \/ LoopEnds(p) \/ StopServer(p) \/ PublishRow(p)

(* What BENCH, the pipelines and the wrappers do by themselves.            *)
Proceed ==
    \/ TeeOpens
    \/ PipelineEnds
    \/ PrintReport
    \/ \E p \in Runs : WrapperStep(p)

Next ==
    \/ StartBench
    \/ Proceed
    \/ Interrupt
    \/ Quit
    \/ \E t \in Tools : ServerUp(t)
    \/ \E p \in Runs : Crash(p)

(* Scripts, wrappers and BENCH are scheduled; users need not do anything.  *)
Spec == Init /\ [][Next]_vars /\ WF_vars(Proceed)

(***************************************************************************)
(* Properties                                                              *)
(***************************************************************************)
(* The report shows for each tool at most one row, and one of this very    *)
(* run of BENCH, although it ignores every exit status, reads files that   *)
(* have the same name in every run (system(), BENCH.cpp:653-666), and      *)
(* wrappers of earlier runs may still be about.  Only where ^C killed tee  *)
(* before it had opened its file the last run's row is still there.        *)
ShownIsThisSession ==
    \A t \in Tools \ missed :
        /\ Len(shown[t]) <= 1
        /\ \A i \in DOMAIN shown[t] : shown[t][i] = session

(* Killing by name also removes the servers crashed or interrupted         *)
(* sessions left behind: whatever server lives was started after the last  *)
(* killall/pkill of its name, whoever ran it.                              *)
NoServerBeforeLastStop ==
    \A t \in Tools :
        server[t].state # "none" => server[t].by \notin swept[t]

SockPipeHeld ==
    InSystem /\ Order[stage] = "sock" /\ wrapper[Current] = "exited" /\ tee = "open" /\ PipeHeld

(* BENCH network reaches its END whatever dies, whenever ^C is pressed and *)
(* whatever survives it; the one thing it can wait for in vain is the pipe *)
(* that the server of a dead sockperf wrapper still holds, and never a     *)
(* server of ethr or iperf.                                                *)
FinishesUnlessPipeHeld == stage # 0 ~> (stage = 0 \/ SockPipeHeld)
==============================================================================
