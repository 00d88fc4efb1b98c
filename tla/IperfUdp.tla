------------------------------- MODULE IperfUdp -------------------------------
(***************************************************************************)
(* What iperf-3.14 counts in a UDP test: iperf_udp_send() numbers the      *)
(* packets of a stream, iperf_udp_recv() tells losses and reordering from  *)
(* the numbers that arrive, each side sets aside what it counted while     *)
(* omitting, the server prints its summary when TEST_END comes and the     *)
(* client prints its own after the results were exchanged.  The network    *)
(* may lose, reorder and duplicate.  Bytes, jitter and intervals are left  *)
(* out; the exchange itself is IperfControl's.                             *)
(***************************************************************************)
EXTENDS Integers, FiniteSets

CONSTANTS
    Streams,        \* -P: the streams of the test, all in one direction
    CounterMod,     \* 2^32, or 2^64 with --udp-counters-64bit
    MaxPackets,     \* bound on the packets sent on a stream
    MaxDuplicates   \* bound on the packets of a stream that arrive twice

ASSUME StreamsAssumption == IsFiniteSet(Streams)
ASSUME CounterAssumption == CounterMod \in Nat \ {0}
ASSUME BoundsAssumption == MaxPackets \in Nat /\ MaxDuplicates \in Nat

VARIABLES
    reverse,        \* -R: the server sends
    state,          \* test->state of "client" and "server"
    omitting,       \* test->omitting of each
    sent,           \* the sender's packet_count
    sentOmitted,    \* its omitted_packet_count
    network,        \* the packets on their way
    packetCount,    \* the receiver's packet_count: the highest number seen
    cntError,       \* cnt_error: packets it holds for lost
    outOfOrder,     \* outoforder_packets
    omittedCount,   \* omitted_packet_count
    omittedError,   \* omitted_cnt_error
    results,        \* what each side has sent in EXCHANGE_RESULTS
    printed,        \* the figures each side has printed
    received,       \* history: the packets that were counted
    atReset,        \* history: those counted when the receiver reset, if it did in time
    duplicates      \* history: how many were counted twice

countVars == <<packetCount, cntError, outOfOrder, received, duplicates>>
omitVars == <<omittedCount, omittedError, atReset>>
senderVars == <<sent, sentOmitted>>
reportVars == <<results, printed>>
vars == <<reverse, state, omitting, senderVars, network, countVars, omitVars, reportVars>>

Sides == {"client", "server"}
Sender == IF reverse THEN "server" ELSE "client"
Receiver == IF reverse THEN "client" ELSE "server"
Zero == [s \in Streams |-> 0]
Nothing == [s \in Streams |-> {}]

Init ==
    /\ reverse \in BOOLEAN
    /\ state = [side \in Sides |-> "TEST_RUNNING"]
    /\ omitting \in {[side \in Sides |-> o] : o \in BOOLEAN}
    /\ sent = Zero /\ sentOmitted = Zero
    /\ network = Nothing
    /\ packetCount = Zero /\ cntError = Zero /\ outOfOrder = Zero
    /\ omittedCount = Zero /\ omittedError = Zero
    /\ results = [side \in Sides |-> << >>]
    /\ printed = [side \in Sides |-> << >>]
    /\ received = Nothing /\ atReset = Nothing
    /\ duplicates = Zero

(* iperf_udp_send(): the number is used up even if the write fails.        *)
Send(s) ==
    /\ state[Sender] = "TEST_RUNNING"
    /\ sent[s] < MaxPackets
    /\ sent' = [sent EXCEPT ![s] = @ + 1]
    /\ \/ network' = [network EXCEPT ![s] = @ \cup {sent[s] + 1}]
       \/ UNCHANGED network
    /\ UNCHANGED <<reverse, state, omitting, sentOmitted, countVars, omitVars, reportVars>>

(* The number on the packet has 32 bits unless 64 were asked for.          *)
Pcount(n) == n % CounterMod

(* Mutant: the packet that reveals the gap is counted as lost as well.     *)
CountGapTooWide(s, pcount) ==
    IF pcount >= packetCount[s] + 1
    THEN /\ cntError' = [cntError EXCEPT ![s] =
                            IF pcount > packetCount[s] + 1 THEN @ + pcount - packetCount[s] ELSE @]
         /\ packetCount' = [packetCount EXCEPT ![s] = pcount]
         /\ UNCHANGED outOfOrder
    ELSE /\ outOfOrder' = [outOfOrder EXCEPT ![s] = @ + 1]
         /\ cntError' = [cntError EXCEPT ![s] = IF @ > 0 THEN @ - 1 ELSE @]
         /\ UNCHANGED packetCount

(* iperf_udp_recv(): forward, with or without a gap, or backward.          *)
Count(s, pcount) ==
    IF pcount >= packetCount[s] + 1
    THEN /\ cntError' = [cntError EXCEPT ![s] = @ + (pcount - 1) - packetCount[s]]
         /\ packetCount' = [packetCount EXCEPT ![s] = pcount]
         /\ UNCHANGED outOfOrder
    ELSE /\ outOfOrder' = [outOfOrder EXCEPT ![s] = @ + 1]
         /\ cntError' = [cntError EXCEPT ![s] = IF @ > 0 THEN @ - 1 ELSE @]
         /\ UNCHANGED packetCount

(* A packet arrives; one the network duplicates stays on its way.  A       *)
(* packet that comes after the test is drained and not counted.            *)
Receive(s, n) ==
    /\ n \in network[s]
    /\ IF state[Receiver] = "TEST_RUNNING"
       THEN /\ Count(s, Pcount(n))
            /\ received' = [received EXCEPT ![s] = @ \cup {n}]
            /\ duplicates' = [duplicates EXCEPT ![s] = IF n \in received[s] THEN @ + 1 ELSE @]
       ELSE UNCHANGED countVars
    /\ \/ network' = [network EXCEPT ![s] = @ \ {n}]
       \/ /\ Cardinality(received'[s] \cap network[s]) + duplicates'[s] <= MaxDuplicates
          /\ UNCHANGED network
    /\ UNCHANGED <<reverse, state, omitting, senderVars, omitVars, reportVars>>

(* Mutant: the server runs its timers while it waits for the results.     *)
ResetStatsWhileWaiting(side) ==
    /\ omitting[side]
    /\ side = "client" => state[side] = "TEST_RUNNING"
    /\ omitting' = [omitting EXCEPT ![side] = FALSE]
    /\ IF side = Sender
       THEN sentOmitted' = sent /\ UNCHANGED omitVars
       ELSE /\ omittedCount' = packetCount
            /\ omittedError' = cntError
            /\ atReset' = IF state[side] = "TEST_RUNNING" THEN received ELSE atReset
            /\ UNCHANGED sentOmitted
    /\ UNCHANGED <<reverse, state, sent, network, countVars, reportVars>>

(* client_omit_timer_proc(), server_omit_timer_proc() and                  *)
(* iperf_reset_stats(): the client runs its timers while TEST_RUNNING, the *)
(* server whenever it is in its loop and not inside the TEST_END handler.  *)
ResetStats(side) ==
    /\ omitting[side]
    /\ state[side] \in IF side = "client" THEN {"TEST_RUNNING"}
                       ELSE {"TEST_RUNNING", "DISPLAY_RESULTS"}
    /\ omitting' = [omitting EXCEPT ![side] = FALSE]
    /\ IF side = Sender
       THEN sentOmitted' = sent /\ UNCHANGED omitVars
       ELSE /\ omittedCount' = packetCount
            /\ omittedError' = cntError
            /\ atReset' = IF state[side] = "TEST_RUNNING" THEN received ELSE atReset
            /\ UNCHANGED sentOmitted
    /\ UNCHANGED <<reverse, state, sent, network, countVars, reportVars>>

(* send_results(): what a side says of its streams.  Whatever the sender   *)
(* says of errors, the receiver does not read it.                          *)
Own(side) ==
    [s \in Streams |->
        IF side = Sender
        THEN [packets |-> sent[s], omitted |-> sentOmitted[s], errors |-> 0, omittedErrors |-> 0]
        ELSE [packets |-> packetCount[s], omitted |-> omittedCount[s],
              errors |-> cntError[s], omittedErrors |-> omittedError[s]]]

(* The lines of the summary: the packets the sender sent; the total and    *)
(* the losses of the receiver.                                             *)
SenderLine(own) == [s \in Streams |-> [total |-> own[s].packets - own[s].omitted, lost |-> 0]]

(* Mutant: the losses of the omitted period are left in.                   *)
ReceiverLineWithOmittedErrors(own) ==
    [s \in Streams |-> [total |-> own[s].packets - own[s].omitted, lost |-> own[s].errors]]

ReceiverLine(own) ==
    [s \in Streams |-> [total |-> own[s].packets - own[s].omitted,
                        lost |-> own[s].errors - own[s].omittedErrors]]

(* The client is done and no longer omitting: it sends TEST_END.           *)
ClientEnds ==
    /\ state["client"] = "TEST_RUNNING" /\ ~omitting["client"]
    /\ state' = [state EXCEPT !["client"] = "TEST_END"]
    /\ UNCHANGED <<reverse, omitting, senderVars, network, countVars, omitVars, reportVars>>

(* The server reads TEST_END and prints the line of its own side, whether  *)
(* or not it is still omitting.                                            *)
ServerEnds ==
    /\ state["client"] = "TEST_END" /\ state["server"] = "TEST_RUNNING"
    /\ state' = [state EXCEPT !["server"] = "EXCHANGE_RESULTS"]
    /\ printed' = [printed EXCEPT !["server"] =
                      IF Sender = "server" THEN [sender |-> SenderLine(Own("server"))]
                      ELSE [receiver |-> ReceiverLine(Own("server"))]]
    /\ UNCHANGED <<reverse, omitting, senderVars, network, countVars, omitVars, results>>

ClientSendsResults ==
    /\ state["client"] = "TEST_END" /\ state["server"] = "EXCHANGE_RESULTS"
    /\ state' = [state EXCEPT !["client"] = "EXCHANGE_RESULTS"]
    /\ results' = [results EXCEPT !["client"] = Own("client")]
    /\ UNCHANGED <<reverse, omitting, senderVars, network, countVars, omitVars, printed>>

ServerSendsResults ==
    /\ state["server"] = "EXCHANGE_RESULTS" /\ results["client"] # << >>
    /\ state' = [state EXCEPT !["server"] = "DISPLAY_RESULTS"]
    /\ results' = [results EXCEPT !["server"] = Own("server")]
    /\ UNCHANGED <<reverse, omitting, senderVars, network, countVars, omitVars, printed>>

(* get_results() and the client's summary: both lines of every stream.     *)
ClientDisplays ==
    /\ state["client"] = "EXCHANGE_RESULTS" /\ results["server"] # << >>
    /\ state' = [state EXCEPT !["client"] = "DISPLAY_RESULTS"]
    /\ LET own == Own("client")
           peer == results["server"]
       IN  printed' = [printed EXCEPT !["client"] =
              [sender |-> SenderLine(IF Sender = "client" THEN own ELSE peer),
               receiver |-> ReceiverLine(IF Sender = "client" THEN peer ELSE own)]]
    /\ UNCHANGED <<reverse, omitting, senderVars, network, countVars, omitVars, results>>

Next ==
    \/ \E s \in Streams : Send(s) \/ \E n \in network[s] : Receive(s, n)
    \/ \E side \in Sides : ResetStats(side)
    \/ ClientEnds \/ ServerEnds
    \/ ClientSendsResults \/ ServerSendsResults \/ ClientDisplays

Spec == Init /\ [][Next]_vars

(***************************************************************************)
(* Properties                                                              *)
(***************************************************************************)
States == {"TEST_RUNNING", "TEST_END", "EXCHANGE_RESULTS", "DISPLAY_RESULTS"}
Report == [Streams -> [packets : Nat, omitted : Nat, errors : Nat, omittedErrors : Nat]]

(* Type invariant: counters never go below zero, and every packet counted  *)
(* or on its way is one that was sent.                                     *)
TypeOK ==
    /\ reverse \in BOOLEAN
    /\ state \in [Sides -> States]
    /\ omitting \in [Sides -> BOOLEAN]
    /\ sent \in [Streams -> Nat] /\ sentOmitted \in [Streams -> Nat]
    /\ packetCount \in [Streams -> Nat] /\ cntError \in [Streams -> Nat]
    /\ outOfOrder \in [Streams -> Nat] /\ duplicates \in [Streams -> Nat]
    /\ omittedCount \in [Streams -> Nat] /\ omittedError \in [Streams -> Nat]
    /\ network \in [Streams -> SUBSET Nat] /\ received \in [Streams -> SUBSET Nat]
    /\ atReset \in [Streams -> SUBSET Nat]
    /\ results \in [Sides -> Report \cup {<< >>}]
    /\ \A s \in Streams : network[s] \cup received[s] \subseteq 1..sent[s]

Missing(s) == (1..packetCount[s]) \ received[s]
NoWrap(s) == sent[s] < CounterMod

(* The one counter cnt_error, kept without remembering a single number, is *)
(* the number of packets missing below the highest one seen; a duplicate,  *)
(* which the comment in iperf_udp_recv() assumes away, makes it too small  *)
(* by at most one each, and nothing ever makes it too large.               *)
LossIsWhatIsMissing ==
    \A s \in Streams : NoWrap(s) =>
        /\ cntError[s] <= Cardinality(Missing(s))
        /\ Cardinality(Missing(s)) <= cntError[s] + duplicates[s]

(* The receiver's line the client prints adds up: without duplicates, what *)
(* is not lost of a stream's total is what was counted since the omitted   *)
(* period, also when packets of that period arrive after it.               *)
PrintedAddsUp ==
    printed["client"] # << >> =>
        \A s \in Streams : NoWrap(s) /\ duplicates[s] = 0 =>
            LET line == printed["client"].receiver[s] IN
            line.total - line.lost = Cardinality(received[s] \ atReset[s])

(* The server prints its summary before it has the client's results, and   *)
(* resets at a time of its own; the client prints the same line for that   *)
(* side later.                                                             *)
ReportsAgree ==
    printed["client"] # << >> =>
        \A line \in DOMAIN printed["server"] :
            printed["client"][line] = printed["server"][line]
===============================================================================
