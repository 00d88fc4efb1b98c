------------------------------ MODULE GBenchRun ------------------------------
(***************************************************************************)
(* The part every wrapper executable shares: one benchmark function,       *)
(* registered with ->Iterations(n), run by the Google Benchmark library.   *)
(* The library is not in the repository; it is modelled from how the       *)
(* wrappers use it: `for (auto _ : state)` runs the body n times, the user *)
(* counter set in `state` appears in one row of the table on stdout when   *)
(* the function returns, SkipWithError turns that row into an ERROR row.   *)
(*                                                                         *)
(* A run of a benchmark function is a session.  All sessions use the same  *)
(* directory, so what one leaves in a file is there for the next, and they *)
(* can overlap.  A wrapper runs its tool and its script with std::system() *)
(* and waits; a signal to the wrapper does not reach them (and ^C does not *)
(* reach a wrapper that waits), so a session is not over before both are   *)
(* gone, and a new one may be started long before that.                    *)
(***************************************************************************)
EXTENDS Figures

VARIABLES
    runs,           \* the number of runs of the executable so far
    session,        \* the sessions launched so far are 1..session
    pc,             \* where each one is; "idle": before it begins, or over
    iter,           \* completed iterations of `for (auto _ : state)`
    samples,        \* history: the values each one's tool produced
    row,            \* the row each one has printed
    spell,          \* history: the first session of the time, without a
                    \* pause, in which it was launched; 0 before that
    undone          \* history: the sessions whose script was cut short

runVars == <<runs, session, pc, iter, samples, row, spell, undone>>

(* The sessions of which something, wrapper, tool or script, still runs.   *)
Busy == {p \in Sessions : pc[p] # "idle"}

RunTypeOK(Places) ==
    /\ runs \in 0..MaxRuns
    /\ session \in 0..MaxSessions
    /\ pc \in [Sessions -> {"idle"} \cup Places]
    /\ iter \in [Sessions -> 0..Iterations]
    /\ samples \in [Sessions -> Seq(Sample)]
    /\ row \in [Sessions -> Figure]
    /\ spell \in [Sessions -> 0..MaxSessions]
    /\ undone \subseteq Sessions

RunInit ==
    /\ runs = 0
    /\ session = 0
    /\ pc = [p \in Sessions |-> "idle"]
    /\ iter = [p \in Sessions |-> 0]
    /\ samples = [p \in Sessions |-> << >>]
    /\ row = [p \in Sessions |-> Nothing]
    /\ spell = [p \in Sessions |-> 0]
    /\ undone = {}

(* The executable is started, whatever may still be running.               *)
Launch(first) ==
    /\ runs < MaxRuns /\ session < MaxSessions
    /\ runs' = runs + 1
    /\ session' = session + 1
    /\ pc' = [pc EXCEPT ![session'] = first]
    /\ spell' = [spell EXCEPT ![session'] = IF Busy = {} THEN session' ELSE spell[session]]
    /\ UNCHANGED <<iter, samples, row, undone>>

(* Session p is over at once: its wrapper is killed, and had no child, or  *)
(* the child is killed too.  Whatever it has written to files stays there. *)
Kill(p) ==
    /\ pc[p] # "idle"
    /\ pc' = [pc EXCEPT ![p] = "idle"]
    /\ UNCHANGED <<runs, session, iter, samples, row, spell, undone>>

(* The child that p waits for in std::system() ends.  Its wrapper goes on, *)
(* or has been killed meanwhile: then this was the last step of p.         *)
Returns(p, next) == \E place \in {next, "idle"} : pc' = [pc EXCEPT ![p] = place]

(* The value p's tool is producing in the iteration that is running.       *)
Current(p) == <<p, iter[p] + 1>>

Measures(p, ok) ==
    samples' = IF ok THEN [samples EXCEPT ![p] = Append(@, Current(p))] ELSE samples

(* One more iteration, in which the tool did (ok) or did not produce its   *)
(* value.                                                                  *)
Iterate(p, ok) ==
    /\ pc[p] = "loop"
    /\ iter[p] < Iterations
    /\ iter' = [iter EXCEPT ![p] = @ + 1]
    /\ Measures(p, ok)
    /\ Returns(p, "loop")
    /\ UNCHANGED <<runs, session, row, spell, undone>>

(* The tool's part of an iteration that continues in the wrapper.          *)
Produce(p, from, ok, next) ==
    /\ pc[p] = from
    /\ iter[p] < Iterations
    /\ Measures(p, ok)
    /\ Returns(p, next)
    /\ UNCHANGED <<runs, session, iter, row, spell, undone>>

NextIteration(p, from) ==
    /\ pc[p] = from
    /\ iter' = [iter EXCEPT ![p] = @ + 1]
    /\ pc' = [pc EXCEPT ![p] = "loop"]
    /\ UNCHANGED <<runs, session, samples, row, spell, undone>>

(* Control moves on without an iteration or a row.                         *)
Goto(p, from, to) ==
    /\ pc[p] = from
    /\ pc' = [pc EXCEPT ![p] = to]
    /\ UNCHANGED <<runs, session, iter, samples, row, spell, undone>>

LoopEnds(p, next) == iter[p] = Iterations /\ Goto(p, "loop", next)

(* A script reads the measurements ("script"), opens its result file for   *)
(* writing ("open"), which empties it, and writes ("write").  It ends...   *)
ScriptEnds(p, from) ==
    /\ pc[p] = from
    /\ Returns(p, "read")
    /\ UNCHANGED <<runs, session, iter, samples, row, spell, undone>>

(* ... or is cut short at any point: it cannot be started, it is           *)
(* interrupted, an exception ends it.  No wrapper looks at its status.     *)
ScriptCutShort(p) ==
    /\ pc[p] \in {"script", "open", "write"}
    /\ Returns(p, "read")
    /\ undone' = undone \cup {p}
    /\ UNCHANGED <<runs, session, iter, samples, row, spell>>

(* The function returns and the library prints its row.                    *)
Publish(p, from, figure) ==
    /\ pc[p] = from
    /\ pc' = [pc EXCEPT ![p] = "idle"]
    /\ row' = [row EXCEPT ![p] = figure]
    /\ UNCHANGED <<runs, session, iter, samples, spell, undone>>

(* An executable with two functions: the second one starts when the first  *)
(* has printed its row (in "between"), and is a session of its own.        *)
PublishFirst(p, from, figure) ==
    /\ pc[p] = from
    /\ pc' = [pc EXCEPT ![p] = "between"]
    /\ row' = [row EXCEPT ![p] = figure]
    /\ UNCHANGED <<runs, session, iter, samples, spell, undone>>

StartSecond(p, first) ==
    /\ pc[p] = "between"
    /\ session < MaxSessions
    /\ session' = session + 1
    /\ pc' = [pc EXCEPT ![p] = "idle", ![session'] = first]
    /\ spell' = [spell EXCEPT ![session'] = IF Busy = {p} THEN session' ELSE spell[session]]
    /\ UNCHANGED <<runs, iter, samples, row, undone>>

(***************************************************************************)
(* What the properties of the wrappers say of a session and of a figure.   *)
(***************************************************************************)
(* No other session ran at any time during the spell of p.                 *)
Alone(p) == \A q \in Sessions : spell[q] = spell[p] => q = p

(* The values s were all measured in one spell.                            *)
OneSpell(s) == \A i, j \in DOMAIN s : spell[s[i][1]] = spell[s[j][1]]

(* The mean p shows does not mix values of different spells, and if p had  *)
(* its spell to itself it is p's whole measurement or an earlier figure.   *)
WholeOrOld(p) ==
    row[p].kind = "mean" =>
        /\ OneSpell(row[p].of)
        /\ Alone(p) => \/ row[p].of = samples[p]
                       \/ \A i \in DOMAIN row[p].of : row[p].of[i][1] < p

(* A p that had its spell to itself, whose script ran to its end and which *)
(* measured something shows the mean of exactly its own measurements.      *)
Fresh(p) ==
    (row[p].kind = "mean" /\ Alone(p) /\ p \notin undone /\ samples[p] # << >>)
        => row[p].of = samples[p]
==============================================================================
