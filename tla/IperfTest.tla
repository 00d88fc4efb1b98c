------------------------------ MODULE IperfTest -------------------------------
(***************************************************************************)
(* What a run of iperf3 promises, whatever messages it takes: the server   *)
(* gives itself to one client at a time, and a client reports success only *)
(* for a test whose results the server, while it was that client's, has    *)
(* taken and answered.  IperfControl is shown to implement this.           *)
(***************************************************************************)
CONSTANTS
    Clients,        \* the client processes
    None            \* the owner of an idle server

VARIABLES
    owner,          \* the client the server is given to, or None
    phase           \* of each client: running, agreed, ok or failed

vars == <<owner, phase>>

Init == owner = None /\ phase = [c \in Clients |-> "running"]

Take(c) == owner = None /\ owner' = c /\ UNCHANGED phase

Release == owner # None /\ owner' = None /\ UNCHANGED phase

Agree(c) ==
    /\ owner = c
    /\ phase[c] = "running"
    /\ phase' = [phase EXCEPT ![c] = "agreed"]
    /\ UNCHANGED owner

Succeed(c) ==
    /\ phase[c] = "agreed"
    /\ phase' = [phase EXCEPT ![c] = "ok"]
    /\ UNCHANGED owner

Fail(c) ==
    /\ phase[c] \in {"running", "agreed"}
    /\ phase' = [phase EXCEPT ![c] = "failed"]
    /\ UNCHANGED owner

Next ==
    \/ Release
    \/ \E c \in Clients : Take(c) \/ Agree(c) \/ Succeed(c) \/ Fail(c)

Spec == Init /\ [][Next]_vars
===============================================================================
