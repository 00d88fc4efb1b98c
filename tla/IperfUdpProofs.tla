---------------------------- MODULE IperfUdpProofs ----------------------------
(***************************************************************************)
(* The loss accounting of iperf3, for every number of streams and packets, *)
(* every width of the counter and every loss, reordering and duplication:  *)
(* cnt_error is the number of missing packets (LossIsWhatIsMissing), and   *)
(* the two summaries agree (ReportsAgree).                                 *)
(***************************************************************************)
EXTENDS IperfUdp, FiniteSetTheorems, TLAPS

-----------------------------------------------------------------------------
LEMMA PcountType == \A n \in Nat : Pcount(n) \in Nat
BY CounterAssumption DEF Pcount

LEMMA PcountSame == \A n \in Nat : n < CounterMod => Pcount(n) = n
BY CounterAssumption DEF Pcount

LEMMA OwnType ==
    ASSUME TypeOK, NEW side
    PROVE  Own(side) \in Report
BY DEF Own, Report, TypeOK

LEMMA InitType == Init => TypeOK
<1>. SUFFICES ASSUME Init PROVE TypeOK
  OBVIOUS
<1>1. Zero \in [Streams -> Nat] /\ Nothing \in [Streams -> SUBSET Nat]
  BY DEF Zero, Nothing
<1>2. \A s \in Streams : network[s] \cup received[s] \subseteq 1..sent[s]
  BY DEF Init, Nothing, Zero
<1>. QED  BY <1>1, <1>2 DEF Init, TypeOK, States, Sides

LEMMA SendType ==
    ASSUME TypeOK, NEW s \in Streams, Send(s)
    PROVE  TypeOK'
<1>. USE DEF countVars, omitVars, reportVars
<1>1. sent' \in [Streams -> Nat] /\ \A t \in Streams : 1..sent[t] \subseteq 1..sent'[t]
  BY DEF TypeOK, Send
<1>2. /\ sent[s] + 1 \in 1..sent'[s]
      /\ sent[s] + 1 \in Nat
  BY DEF TypeOK, Send
<1>3. network' \in [Streams -> SUBSET Nat]
  <2>1. network[s] \cup {sent[s] + 1} \in SUBSET Nat /\ network \in [Streams -> SUBSET Nat]
    BY <1>2 DEF TypeOK
  <2>. QED  BY <2>1 DEF Send
<1>4. \A t \in Streams : network'[t] \cup received'[t] \subseteq 1..sent'[t]
  <2>. SUFFICES ASSUME NEW t \in Streams
                PROVE  network'[t] \cup received'[t] \subseteq 1..sent'[t]
    OBVIOUS
  <2>1. network'[t] \subseteq network[t] \cup (IF t = s THEN {sent[s] + 1} ELSE {})
    BY DEF TypeOK, Send
  <2>. QED  BY <1>1, <1>2, <2>1 DEF TypeOK, Send
<1>. QED  BY <1>1, <1>3, <1>4 DEF TypeOK, Send

(* What one packet does to the counters, whatever its number is.           *)
LEMMA CountType ==
    ASSUME packetCount \in [Streams -> Nat], cntError \in [Streams -> Nat],
           outOfOrder \in [Streams -> Nat], NEW s \in Streams, NEW p \in Nat, Count(s, p)
    PROVE  /\ packetCount' \in [Streams -> Nat]
           /\ cntError' \in [Streams -> Nat]
           /\ outOfOrder' \in [Streams -> Nat]
<1>1. CASE p >= packetCount[s] + 1
  <2>1. (cntError[s] + (p - 1)) - packetCount[s] \in Nat
    BY <1>1
  <2>. QED  BY <1>1, <2>1 DEF Count
<1>2. CASE ~(p >= packetCount[s] + 1)
  <2>1. (IF cntError[s] > 0 THEN cntError[s] - 1 ELSE cntError[s]) \in Nat
    OBVIOUS
  <2>. QED  BY <1>2, <2>1 DEF Count
<1>. QED  BY <1>1, <1>2

LEMMA ReceiveType ==
    ASSUME TypeOK, NEW s \in Streams, NEW n \in network[s], Receive(s, n)
    PROVE  TypeOK'
<1>1. n \in Nat /\ n \in 1..sent[s]
  BY DEF TypeOK
<1>2. /\ packetCount' \in [Streams -> Nat] /\ cntError' \in [Streams -> Nat]
      /\ outOfOrder' \in [Streams -> Nat]
  BY <1>1, CountType, PcountType DEF TypeOK, Receive, countVars
<1>3. duplicates' \in [Streams -> Nat]
  <2>1. (IF n \in received[s] THEN duplicates[s] + 1 ELSE duplicates[s]) \in Nat
    BY DEF TypeOK
  <2>2. duplicates' = duplicates \/
        duplicates' = [duplicates EXCEPT ![s] = IF n \in received[s] THEN @ + 1 ELSE @]
    BY DEF Receive, countVars
  <2>. QED  BY <2>1, <2>2 DEF TypeOK
<1>4. received' \in [Streams -> SUBSET Nat] /\ \A t \in Streams : received'[t] \subseteq 1..sent[t]
  <2>1. received[s] \cup {n} \in SUBSET Nat /\ received[s] \cup {n} \subseteq 1..sent[s]
    BY <1>1 DEF TypeOK
  <2>2. received' = received \/ received' = [received EXCEPT ![s] = received[s] \cup {n}]
    BY DEF Receive, countVars
  <2>. QED  BY <2>1, <2>2 DEF TypeOK
<1>5. network' \in [Streams -> SUBSET Nat] /\ \A t \in Streams : network'[t] \subseteq 1..sent[t]
  <2>1. network[s] \ {n} \in SUBSET Nat /\ network[s] \ {n} \subseteq 1..sent[s]
    BY DEF TypeOK
  <2>2. network' = network \/ network' = [network EXCEPT ![s] = network[s] \ {n}]
    BY DEF Receive
  <2>. QED  BY <2>1, <2>2 DEF TypeOK
<1>6. UNCHANGED <<reverse, state, omitting, sent, sentOmitted, omittedCount, omittedError, atReset, results>>
  BY DEF Receive, senderVars, omitVars, reportVars
<1>. QED  BY <1>2, <1>3, <1>4, <1>5, <1>6 DEF TypeOK

LEMMA ResetStatsType ==
    ASSUME TypeOK, NEW side \in Sides, ResetStats(side)
    PROVE  TypeOK'
<1>1. omitting' \in [Sides -> BOOLEAN]
  BY DEF TypeOK, ResetStats
<1>2. /\ sentOmitted' \in [Streams -> Nat] /\ omittedCount' \in [Streams -> Nat]
      /\ omittedError' \in [Streams -> Nat] /\ atReset' \in [Streams -> SUBSET Nat]
  BY DEF TypeOK, ResetStats, omitVars
<1>. QED  BY <1>1, <1>2 DEF TypeOK, ResetStats, countVars, reportVars

LEMMA EndType ==
    ASSUME TypeOK,
           \/ ClientEnds \/ ServerEnds
           \/ ClientSendsResults \/ ServerSendsResults \/ ClientDisplays
    PROVE  TypeOK'
<1>1. state' \in [Sides -> States]
  <2>1. \E side \in Sides, new \in States : state' = [state EXCEPT ![side] = new]
    BY DEF ClientEnds, ServerEnds, ClientSendsResults, ServerSendsResults, ClientDisplays,
           States, Sides
  <2>. QED  BY <2>1 DEF TypeOK
<1>2. results' \in [Sides -> Report \cup {<< >>}]
  <2>1. results' = results \/ \E side \in Sides : results' = [results EXCEPT ![side] = Own(side)]
    BY DEF ClientEnds, ServerEnds, ClientSendsResults, ServerSendsResults, ClientDisplays,
           reportVars, Sides
  <2>2. CASE results' = results
    BY <2>2 DEF TypeOK
  <2>3. ASSUME NEW side \in Sides, results' = [results EXCEPT ![side] = Own(side)]
        PROVE  results' \in [Sides -> Report \cup {<< >>}]
    <3>1. Own(side) \in Report \cup {<< >>} /\ results \in [Sides -> Report \cup {<< >>}]
      BY OwnType DEF TypeOK
    <3>. QED  BY <2>3, <3>1
  <2>. QED  BY <2>1, <2>2, <2>3
<1>3. UNCHANGED <<reverse, omitting, senderVars, network, countVars, omitVars>>
  BY DEF ClientEnds, ServerEnds, ClientSendsResults, ServerSendsResults, ClientDisplays
<1>. QED  BY <1>1, <1>2, <1>3 DEF TypeOK, senderVars, countVars, omitVars

LEMMA TypeInductive == TypeOK /\ [Next]_vars => TypeOK'
<1>1. ASSUME TypeOK, Next
      PROVE  TypeOK'
  BY <1>1, SendType, ReceiveType, ResetStatsType, EndType DEF Next
<1>2. ASSUME TypeOK, UNCHANGED vars
      PROVE  TypeOK'
  BY <1>2 DEF TypeOK, vars, senderVars, countVars, omitVars, reportVars
<1>. QED  BY <1>1, <1>2

(* The counters of a UDP test never go below zero, and no packet is        *)
(* counted that was not sent.                                              *)
THEOREM TypeCorrect == Spec => []TypeOK
<1>. QED  BY InitType, TypeInductive, PTL DEF Spec

-----------------------------------------------------------------------------
(* The loss of one stream: what arrived lies below the highest number, and *)
(* cnt_error is what is missing below it up to the duplicates.             *)
Accounted(s) ==
    /\ received[s] \subseteq 1..packetCount[s]
    /\ cntError[s] <= Cardinality(Missing(s))
    /\ Cardinality(Missing(s)) <= cntError[s] + duplicates[s]

LossInv == \A s \in Streams : NoWrap(s) => Accounted(s)

LEMMA MissingFinite ==
    ASSUME TypeOK, NEW s \in Streams
    PROVE  IsFiniteSet(Missing(s)) /\ Cardinality(Missing(s)) \in Nat
<1>1. IsFiniteSet(1..packetCount[s])
  BY FS_Interval DEF TypeOK
<1>. QED  BY <1>1, FS_Subset, FS_CardinalityType DEF Missing

LEMMA AccountedKept ==
    ASSUME NEW s \in Streams, Accounted(s), received'[s] = received[s],
           packetCount'[s] = packetCount[s], cntError'[s] = cntError[s],
           duplicates'[s] = duplicates[s]
    PROVE  Accounted(s)'
BY DEF Accounted, Missing

LEMMA GapSize ==
    ASSUME NEW a \in Nat, NEW b \in Nat, b >= a + 1
    PROVE  IsFiniteSet((a + 1)..(b - 1)) /\ Cardinality((a + 1)..(b - 1)) = (b - 1) - a
<1>. DEFINE lo == a + 1
            hi == b - 1
<1>1. lo \in Int /\ hi \in Int /\ (lo > hi => hi - a = 0) /\ hi - lo + 1 = hi - a
  OBVIOUS
<1>. HIDE DEF lo, hi
<1>2. IsFiniteSet(lo..hi) /\ Cardinality(lo..hi) = IF lo > hi THEN 0 ELSE hi - lo + 1
  BY <1>1, FS_Interval
<1>3. IsFiniteSet(lo..hi) /\ Cardinality(lo..hi) = hi - a
  BY <1>1, <1>2
<1>. QED  BY <1>3 DEF lo, hi

(* A packet ahead of all others: the numbers it skips are missing now.     *)
LEMMA ForwardAccounted ==
    ASSUME TypeOK, NEW s \in Streams, NEW n \in Nat, n >= packetCount[s] + 1, Accounted(s),
           received'[s] = received[s] \cup {n},
           duplicates'[s] = IF n \in received[s] THEN duplicates[s] + 1 ELSE duplicates[s],
           Count(s, n)
    PROVE  Accounted(s)'
<1>1. /\ packetCount'[s] = n
      /\ cntError'[s] = cntError[s] + (n - 1) - packetCount[s]
  BY DEF Count, TypeOK
<1>0. packetCount[s] \in Nat /\ cntError[s] \in Nat /\ duplicates[s] \in Nat
  BY DEF TypeOK
<1>2. n \notin received[s] /\ duplicates'[s] = duplicates[s]
  BY DEF Accounted, TypeOK
<1>. DEFINE Skipped == (packetCount[s] + 1)..(n - 1)
<1>3. Missing(s)' = Missing(s) \cup Skipped
  BY <1>1 DEF Missing, Accounted, TypeOK
<1>4. Missing(s) \cap Skipped = {}
  BY DEF Missing, TypeOK
<1>5. IsFiniteSet(Skipped) /\ Cardinality(Skipped) = (n - 1) - packetCount[s]
  BY <1>0, GapSize
<1>. HIDE DEF Skipped
<1>6. Cardinality(Missing(s)') = Cardinality(Missing(s)) + ((n - 1) - packetCount[s])
  <2>1. IsFiniteSet(Missing(s)) /\ Cardinality(Missing(s)) \in Nat
    BY MissingFinite
  <2>2. Cardinality(Missing(s) \cup Skipped)
           = Cardinality(Missing(s)) + Cardinality(Skipped) - Cardinality({})
    BY <1>4, <1>5, <2>1, FS_Union
  <2>. QED  BY <1>0, <1>3, <1>5, <2>1, <2>2, FS_EmptySet
<1>7. received'[s] \subseteq 1..packetCount'[s]
  BY <1>1 DEF Accounted, TypeOK
<1>8. Cardinality(Missing(s)) \in Nat
  BY MissingFinite
<1>. QED  BY <1>0, <1>1, <1>2, <1>6, <1>7, <1>8 DEF Accounted

(* A packet from behind: it was missing, or it is a duplicate.             *)
LEMMA BackwardAccounted ==
    ASSUME TypeOK, NEW s \in Streams, NEW n \in Nat, n >= 1, ~(n >= packetCount[s] + 1),
           Accounted(s), received'[s] = received[s] \cup {n},
           duplicates'[s] = IF n \in received[s] THEN duplicates[s] + 1 ELSE duplicates[s],
           Count(s, n)
    PROVE  Accounted(s)'
<1>1. /\ packetCount'[s] = packetCount[s]
      /\ cntError'[s] = IF cntError[s] > 0 THEN cntError[s] - 1 ELSE cntError[s]
  BY DEF Count, TypeOK
<1>0. /\ packetCount[s] \in Nat /\ cntError[s] \in Nat /\ duplicates[s] \in Nat
      /\ Cardinality(Missing(s)) \in Nat
  BY MissingFinite DEF TypeOK
<1>2. Missing(s)' = Missing(s) \ {n}
  BY <1>1 DEF Missing
<1>3. n \in 1..packetCount[s] /\ received'[s] \subseteq 1..packetCount'[s]
  BY <1>1 DEF Accounted, TypeOK
<1>4. CASE n \in received[s]
  <2>1. Missing(s)' = Missing(s)
    BY <1>2, <1>4 DEF Missing
  <2>2. Cardinality(Missing(s)') = Cardinality(Missing(s))
    BY <2>1
  <2>. QED  BY <1>0, <1>1, <1>3, <1>4, <2>2 DEF Accounted
<1>5. CASE n \notin received[s]
  <2>1. n \in Missing(s)
    BY <1>3, <1>5 DEF Missing
  <2>2. IsFiniteSet(Missing(s))
    BY MissingFinite
  <2>3. Cardinality(Missing(s)') = Cardinality(Missing(s)) - 1
    BY <1>2, <2>1, <2>2, FS_RemoveElement
  <2>4. Cardinality(Missing(s)) # 0
    BY <2>1, <2>2, FS_EmptySet
  <2>. QED  BY <1>0, <1>1, <1>3, <1>5, <2>3, <2>4 DEF Accounted
<1>. QED  BY <1>4, <1>5

LEMMA ReceiveLoss ==
    ASSUME TypeOK, LossInv, NEW s \in Streams, NEW n \in network[s], Receive(s, n)
    PROVE  LossInv'
<1>. SUFFICES ASSUME NEW t \in Streams, NoWrap(t)'
              PROVE  Accounted(t)'
  BY DEF LossInv
<1>1. sent' = sent /\ Accounted(t)
  BY DEF Receive, senderVars, LossInv, NoWrap
<1>2. CASE UNCHANGED countVars
  BY <1>1, <1>2, AccountedKept DEF countVars
<1>3. CASE /\ Count(s, Pcount(n))
           /\ received' = [received EXCEPT ![s] = @ \cup {n}]
           /\ duplicates' = [duplicates EXCEPT ![s] = IF n \in received[s] THEN @ + 1 ELSE @]
  <2>1. CASE t # s
    <3>1. packetCount'[t] = packetCount[t] /\ cntError'[t] = cntError[t]
      BY <1>3, <2>1 DEF Count, TypeOK
    <3>2. received'[t] = received[t] /\ duplicates'[t] = duplicates[t]
      BY <1>3, <2>1 DEF TypeOK
    <3>. QED  BY <1>1, <3>1, <3>2, AccountedKept
  <2>2. CASE t = s
    <3>1. n \in Nat /\ n >= 1 /\ n < CounterMod
      BY <1>1, <2>2, CounterAssumption DEF TypeOK, NoWrap
    <3>2. Count(s, n)
      BY <1>3, <3>1, PcountSame
    <3>3. /\ received'[s] = received[s] \cup {n}
          /\ duplicates'[s] = IF n \in received[s] THEN duplicates[s] + 1 ELSE duplicates[s]
      BY <1>3 DEF TypeOK
    <3>. QED  BY <1>1, <2>2, <3>1, <3>2, <3>3, ForwardAccounted, BackwardAccounted
  <2>. QED  BY <2>1, <2>2
<1>. QED  BY <1>2, <1>3 DEF Receive

LEMMA OtherLoss ==
    ASSUME TypeOK, LossInv, UNCHANGED countVars,
           \A s \in Streams : NoWrap(s)' => NoWrap(s)
    PROVE  LossInv'
BY AccountedKept DEF LossInv, countVars

LEMMA WrapIsForEver ==
    ASSUME TypeOK, [Next]_vars, NEW s \in Streams, NoWrap(s)'
    PROVE  NoWrap(s)
<1>1. sent' = sent \/ \E t \in Streams : sent' = [sent EXCEPT ![t] = @ + 1]
  BY DEF Next, Send, Receive, ResetStats, ClientEnds, ServerEnds, ClientSendsResults,
         ServerSendsResults, ClientDisplays, vars, senderVars
<1>2. sent[s] \in Nat /\ CounterMod \in Nat /\ sent \in [Streams -> Nat]
  BY CounterAssumption DEF TypeOK
<1>3. sent'[s] >= sent[s] /\ sent'[s] \in Nat
  BY <1>1, <1>2
<1>. QED  BY <1>2, <1>3 DEF NoWrap

LEMMA CountVarsKept ==
    ASSUME [Next]_vars
    PROVE  \/ UNCHANGED countVars
           \/ \E s \in Streams : \E n \in network[s] : Receive(s, n)
BY DEF Next, Send, ResetStats, ClientEnds, ServerEnds, ClientSendsResults,
       ServerSendsResults, ClientDisplays, vars

LEMMA LossInductive == TypeOK /\ LossInv /\ [Next]_vars => LossInv'
BY CountVarsKept, WrapIsForEver, OtherLoss, ReceiveLoss

LEMMA InitLoss == Init => LossInv
<1>. SUFFICES ASSUME Init, NEW s \in Streams
              PROVE  Accounted(s)
  BY DEF LossInv
<1>1. Missing(s) = {} /\ received[s] = {} /\ cntError[s] = 0 /\ duplicates[s] = 0
  BY DEF Init, Missing, Zero, Nothing
<1>. QED  BY <1>1, FS_EmptySet DEF Accounted

(* Whatever is lost, reordered or duplicated: cnt_error is the number of   *)
(* packets missing below the highest number seen, less at most one for     *)
(* each duplicate.                                                         *)
THEOREM LossIsWhatIsMissingAlways == Spec => []LossIsWhatIsMissing
<1>1. LossInv => LossIsWhatIsMissing
  BY DEF LossInv, LossIsWhatIsMissing, Accounted
<1>. QED  BY <1>1, InitType, TypeInductive, InitLoss, LossInductive, PTL DEF Spec

-----------------------------------------------------------------------------
(* The server's summary is the line of its own side, of the counters it is *)
(* about to send and then has sent.                                        *)
ServerLine(own) ==
    IF Sender = "server" THEN [sender |-> SenderLine(own)] ELSE [receiver |-> ReceiverLine(own)]

ReportInv ==
    /\ printed = [side \in Sides |-> printed[side]]
    /\ state["server"] = "EXCHANGE_RESULTS" => printed["server"] = ServerLine(Own("server"))
    /\ state["server"] = "DISPLAY_RESULTS" => printed["server"] = ServerLine(results["server"])
    /\ results["server"] # << >> => state["server"] = "DISPLAY_RESULTS"
    /\ printed["client"] # << >> =>
          /\ state["client"] = "DISPLAY_RESULTS" /\ state["server"] = "DISPLAY_RESULTS"
          /\ IF Sender = "server"
             THEN printed["client"].sender = SenderLine(results["server"])
             ELSE printed["client"].receiver = ReceiverLine(results["server"])

LEMMA Roles ==
    /\ Sender \in Sides /\ Receiver \in Sides /\ Sender # Receiver
    /\ Sender # "server" <=> Receiver = "server"
    /\ Sender # "client" <=> Receiver = "client"
    /\ Sender \in {"client", "server"}
BY DEF Sender, Receiver, Sides

LEMMA RolesKept == [Next]_vars => reverse' = reverse /\ Sender' = Sender /\ Receiver' = Receiver
<1>1. [Next]_vars => reverse' = reverse
  BY DEF Next, Send, Receive, ResetStats, ClientEnds, ServerEnds,
         ClientSendsResults, ServerSendsResults, ClientDisplays, vars
<1>2. ASSUME reverse' = reverse
      PROVE  Sender' = Sender /\ Receiver' = Receiver
  BY <1>2 DEF Sender, Receiver
<1>. QED  BY <1>1, <1>2

(* What a side will say does not change while none of its packets counts.  *)
LEMMA OwnKept ==
    ASSUME [Next]_vars, NEW side \in Sides, state[side] # "TEST_RUNNING",
           side = "server" => state[side] # "DISPLAY_RESULTS"
    PROVE  Own(side)' = Own(side)
<1>1. side # Sender => side = Receiver
  BY Roles DEF Sides
<1>2. CASE UNCHANGED <<senderVars, countVars, omitVars>>
  BY <1>2, RolesKept DEF Own, senderVars, countVars, omitVars
<1>3. ASSUME NEW s \in Streams, Send(s)
      PROVE  Own(side)' = Own(side)
  <2>1. side # Sender /\ UNCHANGED <<countVars, omitVars>>
    BY <1>3 DEF Send
  <2>. QED  BY <2>1, RolesKept DEF Own, countVars, omitVars
<1>4. ASSUME NEW s \in Streams, NEW n \in network[s], Receive(s, n)
      PROVE  Own(side)' = Own(side)
  <2>1. UNCHANGED <<senderVars, omitVars>> /\ (side = Sender \/ UNCHANGED countVars)
    BY <1>1, <1>4 DEF Receive
  <2>. QED  BY <2>1, RolesKept DEF Own, senderVars, countVars, omitVars
<1>5. ASSUME NEW other \in Sides, ResetStats(other)
      PROVE  Own(side)' = Own(side)
  <2>1. other # side /\ UNCHANGED countVars /\ sent' = sent
    BY <1>5 DEF ResetStats, Sides
  <2>2. IF other = Sender THEN side # Sender /\ UNCHANGED omitVars
        ELSE side = Sender /\ UNCHANGED sentOmitted
    BY <1>5, <2>1, Roles DEF ResetStats, Sides
  <2>. QED  BY <2>1, <2>2, RolesKept DEF Own, countVars, omitVars
<1>. QED  BY <1>2, <1>3, <1>4, <1>5
          DEF Next, ClientEnds, ServerEnds, ClientSendsResults, ServerSendsResults,
              ClientDisplays, vars

LEMMA InitReport == Init => ReportInv
BY DEF Init, ReportInv, Sides

LEMMA ReportInductive == TypeOK /\ ReportInv /\ [Next]_vars => ReportInv'
<1>. SUFFICES ASSUME TypeOK, ReportInv, [Next]_vars
              PROVE  ReportInv'
  OBVIOUS
<1>. USE DEF Sides
<1>1. /\ state \in [Sides -> States] /\ results \in [Sides -> Report \cup {<< >>}]
  BY DEF TypeOK
<1>2. CASE UNCHANGED <<state, reportVars>>
  <2>1. state["server"] = "EXCHANGE_RESULTS" => Own("server")' = Own("server")
    BY OwnKept
  <2>. QED  BY <1>2, <2>1, RolesKept DEF ReportInv, reportVars, ServerLine, SenderLine, ReceiverLine
<1>3. CASE ClientEnds
  <2>1. /\ state'["server"] = state["server"] /\ results' = results /\ printed' = printed
        /\ Own("server")' = Own("server")
    BY <1>1, <1>3, RolesKept DEF ClientEnds, reportVars, Own, senderVars, countVars, omitVars
  <2>2. printed["client"] = << >>
    BY <1>3 DEF ClientEnds, ReportInv
  <2>. QED  BY <2>1, <2>2, RolesKept DEF ReportInv, ServerLine, SenderLine, ReceiverLine
<1>4. CASE ServerEnds
  <2>1. /\ state'["server"] = "EXCHANGE_RESULTS" /\ results' = results
        /\ Own("server")' = Own("server")
    BY <1>1, <1>4, RolesKept DEF ServerEnds, Own, senderVars, countVars, omitVars
  <2>2. printed["client"] = << >> /\ results["server"] = << >>
    BY <1>4 DEF ServerEnds, ReportInv
  <2>3. printed' = [printed EXCEPT !["server"] = ServerLine(Own("server"))]
    BY <1>4, Roles DEF ServerEnds, ServerLine
  <2>4. printed'["server"] = ServerLine(Own("server")) /\ printed'["client"] = << >>
    BY <2>2, <2>3 DEF ReportInv
  <2>5. ServerLine(Own("server"))' = ServerLine(Own("server"))
    BY <2>1, RolesKept DEF ServerLine, SenderLine, ReceiverLine
  <2>6. printed' = [side \in Sides |-> printed'[side]]
    BY <2>3 DEF ReportInv
  <2>. QED  BY <2>1, <2>2, <2>4, <2>5, <2>6 DEF ReportInv
<1>5. CASE ClientSendsResults
  <2>1. /\ state["server"] = "EXCHANGE_RESULTS" /\ state'["server"] = "EXCHANGE_RESULTS"
        /\ results'["server"] = results["server"] /\ printed' = printed
        /\ Own("server")' = Own("server")
    BY <1>1, <1>5, RolesKept DEF ClientSendsResults, Own, senderVars, countVars, omitVars
  <2>2. printed["client"] = << >>
    BY <2>1 DEF ReportInv
  <2>. QED  BY <2>1, <2>2, RolesKept DEF ReportInv, ServerLine, SenderLine, ReceiverLine
<1>6. CASE ServerSendsResults
  <2>1. /\ state["server"] = "EXCHANGE_RESULTS" /\ state'["server"] = "DISPLAY_RESULTS"
        /\ results'["server"] = Own("server") /\ printed' = printed
    BY <1>1, <1>6 DEF ServerSendsResults
  <2>2. printed["client"] = << >> /\ printed["server"] = ServerLine(Own("server"))
    BY <2>1 DEF ReportInv
  <2>3. ServerLine(results["server"])' = ServerLine(Own("server"))
    BY <2>1, RolesKept DEF ServerLine, SenderLine, ReceiverLine
  <2>. QED  BY <2>1, <2>2, <2>3 DEF ReportInv
<1>7. CASE ClientDisplays
  <2>1. /\ state["server"] = "DISPLAY_RESULTS" /\ state'["server"] = "DISPLAY_RESULTS"
        /\ state'["client"] = "DISPLAY_RESULTS" /\ results' = results
    BY <1>1, <1>7 DEF ClientDisplays, ReportInv
  <2>2. /\ printed'["server"] = printed["server"] /\ printed' = [side \in Sides |-> printed'[side]]
        /\ Sender = "server" => printed'["client"].sender = SenderLine(results["server"])
        /\ Sender # "server" => printed'["client"].receiver = ReceiverLine(results["server"])
    BY <1>7, Roles DEF ClientDisplays, ReportInv
  <2>3. /\ SenderLine(results["server"]) = SenderLine(results["server"])'
        /\ ReceiverLine(results["server"]) = ReceiverLine(results["server"])'
        /\ ServerLine(results["server"]) = ServerLine(results["server"])'
    BY <2>1, RolesKept DEF ServerLine, SenderLine, ReceiverLine
  <2>. QED  BY <2>1, <2>2, <2>3, RolesKept DEF ReportInv
<1>. QED  BY <1>2, <1>3, <1>4, <1>5, <1>6, <1>7 DEF Next, Send, Receive, ResetStats, vars

(* The line the server printed for its own side before the exchange is the *)
(* line the client prints for that side.                                   *)
THEOREM ReportsAgreeAlways == Spec => []ReportsAgree
<1>1. ReportInv => ReportsAgree
  <2>. SUFFICES ASSUME ReportInv, printed["client"] # << >>,
                       NEW line \in DOMAIN printed["server"]
                PROVE  printed["client"][line] = printed["server"][line]
    BY DEF ReportsAgree
  <2>1. printed["server"] = ServerLine(results["server"])
    BY DEF ReportInv
  <2>2. CASE Sender = "server"
    BY <2>1, <2>2 DEF ReportInv, ServerLine
  <2>3. CASE Sender # "server"
    BY <2>1, <2>3 DEF ReportInv, ServerLine
  <2>. QED  BY <2>2, <2>3
<1>. QED  BY <1>1, InitType, TypeInductive, InitReport, ReportInductive, PTL DEF Spec

-----------------------------------------------------------------------------
(* Once duplicates are excluded, the receiver's total less its losses is   *)
(* what it counted since its reset: of the counters while it receives, of  *)
(* the results it has sent afterwards.                                     *)
Exact(s) == NoWrap(s) /\ duplicates[s] = 0
AddsUp(own, s) ==
    (own[s].packets - own[s].omitted) - (own[s].errors - own[s].omittedErrors)
       = Cardinality(received[s] \ atReset[s])

BalanceInv ==
    /\ \A s \in Streams : atReset[s] \subseteq received[s]
    /\ Receiver = "client" \/ state["server"] # "DISPLAY_RESULTS" =>
          \A s \in Streams : Exact(s) => AddsUp(Own(Receiver), s)
    /\ Receiver = "server" /\ state["server"] = "DISPLAY_RESULTS" =>
          \A s \in Streams : Exact(s) => AddsUp(results["server"], s)
    /\ PrintedAddsUp

LEMMA ReceiverOwn ==
    ASSUME NEW s \in Streams
    PROVE  AddsUp(Own(Receiver), s) <=>
              (packetCount[s] - omittedCount[s]) - (cntError[s] - omittedError[s])
                 = Cardinality(received[s] \ atReset[s])
BY Roles DEF AddsUp, Own

LEMMA InitBalance == Init => BalanceInv
<1>. SUFFICES ASSUME Init PROVE BalanceInv
  OBVIOUS
<1>1. \A s \in Streams : received[s] = {} /\ atReset[s] = {}
  BY DEF Init, Nothing
<1>2. \A s \in Streams : AddsUp(Own(Receiver), s)
  BY <1>1, ReceiverOwn, FS_EmptySet DEF Init, Zero
<1>. QED  BY <1>1, <1>2 DEF Init, BalanceInv, PrintedAddsUp, Sides

LEMMA ReceivedFinite ==
    ASSUME TypeOK, NEW s \in Streams
    PROVE  IsFiniteSet(received[s]) /\ IsFiniteSet(received[s] \ atReset[s])
<1>1. IsFiniteSet(1..sent[s]) /\ received[s] \subseteq 1..sent[s]
  BY FS_Interval DEF TypeOK
<1>. QED  BY <1>1, FS_Subset

(* One more packet is counted: exactly one more is not lost.               *)
LEMMA CountBalance ==
    ASSUME TypeOK, NEW s \in Streams, NEW n \in Nat, n >= 1, NoWrap(s), Accounted(s),
           atReset[s] \subseteq received[s], n \notin received[s], duplicates[s] = 0,
           received'[s] = received[s] \cup {n}, UNCHANGED omitVars, Count(s, n),
           (packetCount[s] - omittedCount[s]) - (cntError[s] - omittedError[s])
              = Cardinality(received[s] \ atReset[s])
    PROVE  (packetCount'[s] - omittedCount'[s]) - (cntError'[s] - omittedError'[s])
              = Cardinality(received'[s] \ atReset'[s])
<1>1. /\ packetCount[s] \in Nat /\ cntError[s] \in Nat /\ omittedCount[s] \in Nat
      /\ omittedError[s] \in Nat /\ Cardinality(Missing(s)) \in Nat /\ IsFiniteSet(Missing(s))
  BY MissingFinite DEF TypeOK
<1>2. packetCount'[s] - cntError'[s] = packetCount[s] - cntError[s] + 1
  <2>1. CASE n >= packetCount[s] + 1
    BY <1>1, <2>1 DEF Count, TypeOK
  <2>2. CASE ~(n >= packetCount[s] + 1)
    <3>1. n \in Missing(s)
      BY <1>1, <2>2 DEF Missing
    <3>2. cntError[s] > 0
      BY <1>1, <3>1, FS_EmptySet DEF Accounted
    <3>3. packetCount'[s] = packetCount[s] /\ cntError'[s] = cntError[s] - 1
      BY <2>2, <3>2 DEF Count, TypeOK
    <3>. QED  BY <1>1, <3>3
  <2>. QED  BY <2>1, <2>2
<1>3. packetCount'[s] \in Nat /\ cntError'[s] \in Nat
  BY CountType DEF TypeOK
<1>4. Cardinality(received'[s] \ atReset'[s]) = Cardinality(received[s] \ atReset[s]) + 1
  <2>1. /\ received'[s] \ atReset'[s] = (received[s] \ atReset[s]) \cup {n}
        /\ n \notin received[s] \ atReset[s]
    BY DEF omitVars
  <2>2. IsFiniteSet(received[s] \ atReset[s])
    BY ReceivedFinite
  <2>. QED  BY <2>1, <2>2, FS_AddElement
<1>5. Cardinality(received[s] \ atReset[s]) \in Nat
  BY ReceivedFinite, FS_CardinalityType
<1>. QED  BY <1>1, <1>2, <1>3, <1>4, <1>5 DEF omitVars

LEMMA ExactBefore ==
    ASSUME TypeOK, [Next]_vars, NEW s \in Streams, Exact(s)'
    PROVE  Exact(s)
<1>1. duplicates' = duplicates \/ \E t \in Streams : \E n \in network[t] : Receive(t, n)
  BY CountVarsKept DEF countVars
<1>2. ASSUME NEW t \in Streams, NEW n \in network[t], Receive(t, n)
      PROVE  duplicates'[s] >= duplicates[s]
  <2>1. \/ duplicates' = duplicates
        \/ duplicates' = [duplicates EXCEPT ![t] = IF n \in received[t] THEN @ + 1 ELSE @]
    BY <1>2 DEF Receive, countVars
  <2>2. duplicates \in [Streams -> Nat]
    BY DEF TypeOK
  <2>. QED  BY <2>1, <2>2
<1>3. duplicates'[s] >= duplicates[s] /\ duplicates[s] \in Nat
  BY <1>1, <1>2 DEF TypeOK
<1>. QED  BY <1>3, WrapIsForEver DEF Exact

(* A step that changes neither the counters nor what is printed.           *)
LEMMA QuietBalance ==
    ASSUME TypeOK, BalanceInv, [Next]_vars, UNCHANGED <<countVars, omitVars, printed>>,
           Receiver = "client" \/ state'["server"] # "DISPLAY_RESULTS"
              => Receiver = "client" \/ state["server"] # "DISPLAY_RESULTS",
           Receiver = "server" /\ state'["server"] = "DISPLAY_RESULTS"
              => results'["server"] = IF state["server"] = "DISPLAY_RESULTS"
                                     THEN results["server"] ELSE Own("server")
    PROVE  BalanceInv'
<1>1. \A s \in Streams : received'[s] = received[s] /\ atReset'[s] = atReset[s]
  BY DEF countVars, omitVars
<1>2. \A s \in Streams : Exact(s)' => Exact(s)
  BY ExactBefore
<1>3. Receiver' = Receiver
  BY RolesKept
<1>4. \A s \in Streams : AddsUp(Own(Receiver), s) => AddsUp(Own(Receiver), s)'
  BY <1>3, RolesKept DEF AddsUp, Own, countVars, omitVars, Sender, Receiver
<1>5. \A s \in Streams : atReset'[s] \subseteq received'[s]
  BY <1>1 DEF BalanceInv
<1>6. Receiver' = "client" \/ state'["server"] # "DISPLAY_RESULTS" =>
          \A s \in Streams : Exact(s)' => AddsUp(Own(Receiver), s)'
  BY <1>2, <1>3, <1>4 DEF BalanceInv
<1>7. Receiver' = "server" /\ state'["server"] = "DISPLAY_RESULTS" =>
          \A s \in Streams : Exact(s)' => AddsUp(results["server"], s)'
  <2>. SUFFICES ASSUME Receiver = "server", state'["server"] = "DISPLAY_RESULTS",
                       NEW s \in Streams, Exact(s)
                PROVE  AddsUp(results'["server"], s)
    BY <1>1, <1>2, <1>3 DEF AddsUp
  <2>. QED  BY DEF BalanceInv
<1>8. PrintedAddsUp'
  BY <1>1, <1>2 DEF BalanceInv, PrintedAddsUp, Exact
<1>. QED  BY <1>5, <1>6, <1>7, <1>8 DEF BalanceInv

LEMMA ReceiveBalance ==
    ASSUME TypeOK, LossInv, ReportInv, BalanceInv, [Next]_vars,
           NEW s \in Streams, NEW n \in network[s], Receive(s, n)
    PROVE  BalanceInv'
<1>1. CASE UNCHANGED countVars
  BY <1>1, QuietBalance DEF Receive, reportVars
<1>2. CASE /\ state[Receiver] = "TEST_RUNNING"
           /\ Count(s, Pcount(n))
           /\ received' = [received EXCEPT ![s] = @ \cup {n}]
           /\ duplicates' = [duplicates EXCEPT ![s] = IF n \in received[s] THEN @ + 1 ELSE @]
  <2>1. /\ Receiver' = Receiver /\ state' = state /\ printed["client"] = << >> /\ printed' = printed
        /\ Receiver = "server" => state["server"] # "DISPLAY_RESULTS"
    BY <1>2, RolesKept DEF Receive, reportVars, ReportInv, Receiver
  <2>2. \A t \in Streams : atReset'[t] \subseteq received'[t]
    BY <1>2 DEF Receive, omitVars, BalanceInv, TypeOK
  <2>3. ASSUME NEW t \in Streams, Exact(t)'
        PROVE  AddsUp(Own(Receiver), t)'
    <3>1. Exact(t) /\ AddsUp(Own(Receiver), t)
      BY <2>1, <2>3, ExactBefore, Roles DEF BalanceInv, Sides
    <3>2. (packetCount[t] - omittedCount[t]) - (cntError[t] - omittedError[t])
             = Cardinality(received[t] \ atReset[t])
      BY <3>1, ReceiverOwn
    <3>3. CASE t # s
      <4>1. packetCount'[t] = packetCount[t] /\ cntError'[t] = cntError[t]
        BY <1>2, <3>3 DEF Count, TypeOK
      <4>2. /\ omittedCount'[t] = omittedCount[t] /\ omittedError'[t] = omittedError[t]
            /\ received'[t] = received[t] /\ atReset'[t] = atReset[t]
        BY <1>2, <3>3 DEF Receive, omitVars, TypeOK
      <4>. QED  BY <2>1, <3>2, <4>1, <4>2, Roles, RolesKept DEF AddsUp, Own
    <3>4. CASE t = s
      <4>1. n \in Nat /\ n >= 1 /\ n < CounterMod
        BY <3>1, <3>4, CounterAssumption DEF TypeOK, NoWrap, Exact
      <4>2. Count(s, n)
        BY <1>2, <4>1, PcountSame
      <4>3. received'[s] = received[s] \cup {n} /\ n \notin received[s]
        <5>1. duplicates'[s] = IF n \in received[s] THEN duplicates[s] + 1 ELSE duplicates[s]
          BY <1>2 DEF TypeOK
        <5>2. duplicates'[s] = 0 /\ duplicates[s] = 0
          BY <2>3, <3>1, <3>4 DEF Exact
        <5>. QED  BY <1>2, <5>1, <5>2 DEF TypeOK
      <4>4. Accounted(s) /\ NoWrap(s) /\ duplicates[s] = 0 /\ UNCHANGED omitVars
        BY <3>1, <3>4 DEF LossInv, Exact, Receive
      <4>5. (packetCount'[s] - omittedCount'[s]) - (cntError'[s] - omittedError'[s])
               = Cardinality(received'[s] \ atReset'[s])
        BY <3>2, <3>4, <4>1, <4>2, <4>3, <4>4, CountBalance DEF BalanceInv
      <4>. QED  BY <2>1, <3>4, <4>5, Roles, RolesKept DEF AddsUp, Own
    <3>. QED  BY <3>3, <3>4
  <2>. QED  BY <2>1, <2>2, <2>3, Roles DEF BalanceInv, PrintedAddsUp, Sides
<1>. QED  BY <1>1, <1>2 DEF Receive

LEMMA ResetBalance ==
    ASSUME TypeOK, ReportInv, BalanceInv, [Next]_vars, NEW side \in Sides, ResetStats(side)
    PROVE  BalanceInv'
<1>. USE DEF Sides
<1>1. /\ UNCHANGED countVars /\ state' = state /\ results' = results /\ printed' = printed
      /\ Receiver' = Receiver
  BY RolesKept DEF ResetStats, reportVars
<1>2. CASE side = Sender
  BY <1>1, <1>2, QuietBalance DEF ResetStats
<1>3. CASE side = Receiver /\ state[side] = "TEST_RUNNING"
  <2>1. omittedCount' = packetCount /\ omittedError' = cntError /\ atReset' = received
    BY <1>3, Roles DEF ResetStats
  <2>2. \A s \in Streams : AddsUp(Own(Receiver), s)'
    <3>. SUFFICES ASSUME NEW s \in Streams
                  PROVE  AddsUp(Own(Receiver), s)'
      OBVIOUS
    <3>1. packetCount'[s] \in Nat /\ cntError'[s] \in Nat
      BY <1>1 DEF TypeOK, countVars
    <3>2. received'[s] \ atReset'[s] = {}
      BY <1>1, <2>1 DEF countVars
    <3>3. omittedCount'[s] = packetCount'[s] /\ omittedError'[s] = cntError'[s]
      BY <1>1, <2>1 DEF countVars
    <3>4. (packetCount'[s] - omittedCount'[s]) - (cntError'[s] - omittedError'[s])
             = Cardinality(received'[s] \ atReset'[s])
      <4>1. Cardinality(received'[s] \ atReset'[s]) = 0
        BY <3>2, FS_EmptySet, Zenon
      <4>. QED  BY <3>1, <3>3, <4>1
    <3>. QED  BY <1>1, <3>4, Roles, RolesKept DEF AddsUp, Own
  <2>3. Receiver = "server" => state'["server"] # "DISPLAY_RESULTS"
    BY <1>1, <1>3
  <2>4. \A s \in Streams : atReset'[s] \subseteq received'[s]
    BY <1>1, <2>1 DEF countVars
  <2>5. PrintedAddsUp'
    BY <1>1, <1>3 DEF ReportInv, PrintedAddsUp
  <2>. QED  BY <1>1, <2>2, <2>3, <2>4, <2>5 DEF BalanceInv
<1>4. CASE side = Receiver /\ state[side] # "TEST_RUNNING"
  <2>1. Receiver = "server" /\ state["server"] = "DISPLAY_RESULTS" /\ atReset' = atReset
    BY <1>4, Roles DEF ResetStats
  <2>2. \A s \in Streams : /\ received'[s] = received[s] /\ atReset'[s] = atReset[s]
                           /\ Exact(s)' => Exact(s)
    BY <1>1, <2>1, ExactBefore DEF countVars
  <2>3. \A s \in Streams : AddsUp(results["server"], s)' <=> AddsUp(results["server"], s)
    BY <1>1, <2>2 DEF AddsUp
  <2>4. PrintedAddsUp'
    BY <1>1, <2>2 DEF BalanceInv, PrintedAddsUp, Exact
  <2>. QED  BY <1>1, <2>1, <2>2, <2>3, <2>4 DEF BalanceInv
<1>. QED  BY <1>2, <1>3, <1>4, Roles

LEMMA DisplayBalance ==
    ASSUME TypeOK, ReportInv, BalanceInv, [Next]_vars, ClientDisplays
    PROVE  BalanceInv'
<1>1. /\ UNCHANGED <<countVars, omitVars, senderVars>> /\ results' = results
      /\ state["server"] = "DISPLAY_RESULTS" /\ state'["server"] = "DISPLAY_RESULTS"
  BY DEF ClientDisplays, ReportInv, TypeOK, Sides
<1>2. \A s \in Streams : /\ received'[s] = received[s] /\ atReset'[s] = atReset[s]
                         /\ Exact(s)' => Exact(s)
  BY <1>1, ExactBefore DEF countVars, omitVars
<1>3. \A s \in Streams : /\ AddsUp(Own(Receiver), s) => AddsUp(Own(Receiver), s)'
                         /\ AddsUp(results["server"], s) => AddsUp(results["server"], s)'
  BY <1>1, <1>2, RolesKept DEF AddsUp, Own, countVars, omitVars, senderVars, Sender, Receiver
<1>. DEFINE shown == IF Sender = "client" THEN results["server"] ELSE Own("client")
<1>4. printed'["client"].receiver = ReceiverLine(shown)
  BY DEF ClientDisplays, ReportInv, Sides
<1>5. \A s \in Streams : Exact(s) => AddsUp(shown, s)
  BY <1>1, Roles DEF BalanceInv
<1>6. shown \in Report
  BY OwnType DEF ClientDisplays, TypeOK, Sides
<1>. HIDE DEF shown
<1>7. PrintedAddsUp'
  <2>. SUFFICES ASSUME NEW s \in Streams, NoWrap(s)', duplicates'[s] = 0
                PROVE  printed'["client"].receiver[s].total - printed'["client"].receiver[s].lost
                          = Cardinality(received'[s] \ atReset'[s])
    BY DEF PrintedAddsUp
  <2>1. AddsUp(shown, s)
    BY <1>2, <1>5 DEF Exact
  <2>2. /\ ReceiverLine(shown)[s].total = shown[s].packets - shown[s].omitted
        /\ ReceiverLine(shown)[s].lost = shown[s].errors - shown[s].omittedErrors
    BY DEF ReceiverLine
  <2>3. /\ printed'["client"].receiver[s].total = shown[s].packets - shown[s].omitted
        /\ printed'["client"].receiver[s].lost = shown[s].errors - shown[s].omittedErrors
    BY <1>4, <2>2
  <2>. QED  BY <1>2, <2>1, <2>3 DEF AddsUp
<1>8. \A s \in Streams : atReset'[s] \subseteq received'[s]
  BY <1>2 DEF BalanceInv
<1>. QED  BY <1>1, <1>2, <1>3, <1>7, <1>8, RolesKept DEF BalanceInv

LEMMA BalanceInductive ==
    TypeOK /\ LossInv /\ ReportInv /\ BalanceInv /\ [Next]_vars => BalanceInv'
<1>. SUFFICES ASSUME TypeOK, LossInv, ReportInv, BalanceInv, [Next]_vars
              PROVE  BalanceInv'
  OBVIOUS
<1>. USE DEF Sides
<1>1. state \in [Sides -> States] /\ results \in [Sides -> Report \cup {<< >>}]
  BY DEF TypeOK
<1>2. CASE UNCHANGED vars
  BY <1>2, QuietBalance DEF vars, reportVars
<1>3. ASSUME NEW s \in Streams, Send(s)
      PROVE  BalanceInv'
  BY <1>3, QuietBalance DEF Send, reportVars
<1>4. CASE ClientEnds
  BY <1>1, <1>4, QuietBalance DEF ClientEnds, reportVars
<1>5. CASE ServerEnds
  <2>1. /\ state["server"] # "DISPLAY_RESULTS" /\ state'["server"] # "DISPLAY_RESULTS"
        /\ printed'["client"] = printed["client"] /\ UNCHANGED <<countVars, omitVars, senderVars>>
    BY <1>1, <1>5 DEF ServerEnds, ReportInv
  <2>2. \A s \in Streams : /\ received'[s] = received[s] /\ atReset'[s] = atReset[s]
                           /\ Exact(s)' => Exact(s)
    BY <2>1, ExactBefore DEF countVars, omitVars
  <2>3. \A s \in Streams : AddsUp(Own(Receiver), s) => AddsUp(Own(Receiver), s)'
    BY <2>1, <2>2, RolesKept DEF AddsUp, Own, countVars, omitVars, senderVars, Sender, Receiver
  <2>4. PrintedAddsUp'
    BY <2>1, <2>2 DEF BalanceInv, PrintedAddsUp, Exact
  <2>. QED  BY <2>1, <2>2, <2>3, <2>4, RolesKept DEF BalanceInv
<1>6. CASE ClientSendsResults
  BY <1>1, <1>6, QuietBalance DEF ClientSendsResults
<1>7. CASE ServerSendsResults
  BY <1>1, <1>7, QuietBalance DEF ServerSendsResults
<1>. QED  BY <1>2, <1>3, <1>4, <1>5, <1>6, <1>7, ReceiveBalance, ResetBalance, DisplayBalance
          DEF Next

(* The client's line of the receiving side adds up: without duplicates its *)
(* total less its losses is the number of packets counted since the        *)
(* omitted period.                                                         *)
THEOREM PrintedAddsUpAlways == Spec => []PrintedAddsUp
<1>1. BalanceInv => PrintedAddsUp
  BY DEF BalanceInv
<1>. QED  BY <1>1, InitType, TypeInductive, InitLoss, LossInductive, InitReport,
             ReportInductive, InitBalance, BalanceInductive, PTL DEF Spec

===============================================================================
