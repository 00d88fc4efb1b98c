----------------------------- MODULE Measurement -----------------------------
(***************************************************************************)
(* What a wrapper promises to the reader of its table, whatever files and  *)
(* scripts it uses to get there.  Sessions may overlap: a spell is a time  *)
(* in which there is always one of them running.                           *)
(*   - A session that has its spell to itself and whose script is not cut  *)
(*     short shows the mean of exactly the values it measured, each        *)
(*     counted once and in order, and no mean if it measured nothing.      *)
(*   - Any other session shows at worst a mean of one spell's values.      *)
(***************************************************************************)
EXTENDS Figures

VARIABLES
    session,    \* the number of sessions so far
    spell,      \* the first session of each one's spell; 0 before it begins
    undone,     \* the sessions whose script has been cut short
    samples,    \* the values each one's tool produced
    row         \* the row each one has printed

vars == <<session, spell, undone, samples, row>>

Alone(p)   == \A q \in Sessions : spell[q] = spell[p] => q = p
OneSpell(s) == \A i, j \in DOMAIN s : spell[s[i][1]] = spell[s[j][1]]

Init ==
    /\ session = 0
    /\ spell = [p \in Sessions |-> 0]
    /\ undone = {}
    /\ samples = [p \in Sessions |-> << >>]
    /\ row = [p \in Sessions |-> Nothing]

Begin ==
    /\ session < MaxSessions
    /\ session' = session + 1
    /\ \E s \in {session'} \cup (IF session = 0 THEN {} ELSE {spell[session]}) :
          spell' = [spell EXCEPT ![session'] = s]
    /\ UNCHANGED <<undone, samples, row>>

Measure(p) ==
    /\ p <= session
    /\ row[p] = Nothing
    /\ \E i \in 1..Iterations :
          /\ samples[p] # << >> => samples[p][Len(samples[p])][2] < i
          /\ samples' = [samples EXCEPT ![p] = Append(@, <<p, i>>)]
    /\ UNCHANGED <<session, spell, undone, row>>

CutShort(p) ==
    /\ p <= session
    /\ row[p] = Nothing
    /\ undone' = undone \cup {p}
    /\ UNCHANGED <<session, spell, samples, row>>

Report(p) ==
    /\ p <= session
    /\ row[p] = Nothing
    /\ row' = [row EXCEPT ![p] = row'[p]]
    /\ \/ row'[p] = Error
       \/ samples[p] # << >> /\ row'[p] = Mean(samples[p])
       \/ samples[p] = << >> /\ row'[p] = NoData
       \/ /\ ~Alone(p) \/ p \in undone
          /\ row'[p].kind = "mean" => OneSpell(row'[p].of)
    /\ UNCHANGED <<session, spell, undone, samples>>

Next == Begin \/ \E p \in Sessions : Measure(p) \/ CutShort(p) \/ Report(p)

Spec == Init /\ [][Next]_vars
==============================================================================
