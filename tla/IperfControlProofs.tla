-------------------------- MODULE IperfControlProofs --------------------------
(***************************************************************************)
(* The control protocol of iperf3, for every set of clients, number of     *)
(* streams, choice of options and number of faults: it implements          *)
(* IperfTest, and a client's success is mutual.  What a step does to the   *)
(* channel to a client is stated once (ChannelStep) and used for both.     *)
(* Then the streams: a second invariant, of what the listener's queue      *)
(* holds and of where a client and the server are together, shows that     *)
(* streams are paired and that strangers do no harm.  A third one, which   *)
(* no fault disturbs, shows that nobody waits in vain.                     *)
(***************************************************************************)
EXTENDS IperfControl, SequenceTheorems, TLAPS

Ends == {"results", "DISPLAY_RESULTS"}

(* The parts of the inductive invariant: what is on the way to a client    *)
(* says that the server has its results, and puts the server's own before  *)
(* DISPLAY_RESULTS.                                                        *)
ResultsAreAnswers ==
    \A c \in Clients : \A i \in 1..Len(toClient[c]) : toClient[c][i] \in Ends => c \in serverGot
ResultsComeFirst ==
    \A c \in Clients :
        \/ Gone(c)
        \/ c \in clientGot
        \/ \A i \in 1..Len(toClient[c]) : toClient[c][i] = "DISPLAY_RESULTS" =>
              \E j \in 1..(i - 1) : toClient[c][j] = "results"

IInv == TypeOK /\ ResultsAreAnswers /\ ResultsComeFirst /\ SuccessIsMutual

-----------------------------------------------------------------------------
LEMMA EmptyIsSeq == \A S : << >> \in Seq(S)
OBVIOUS

LEMMA MessageSeqs ==
    /\ \A m \in Messages : <<m>> \in Seq(Messages)
    /\ \A m, n \in Messages : <<m, n>> \in Seq(Messages)
    /\ States \subseteq Messages
    /\ {"params", "results"} \subseteq Messages
BY DEF Messages

(* A message sequence appended to a channel leaves every channel one.      *)
LEMMA TellType ==
    ASSUME toServer \in [Clients -> Seq(Messages)], NEW c \in Clients,
           NEW m \in Seq(Messages), Tell(c, m)
    PROVE  toServer' \in [Clients -> Seq(Messages)]
BY ConcatProperties DEF Tell

LEMMA AnswerType ==
    ASSUME toClient \in [Clients -> Seq(Messages)], NEW c \in Clients,
           NEW m \in Seq(Messages), Answer(c, m)
    PROVE  toClient' \in [Clients -> Seq(Messages)]
BY ConcatProperties DEF Answer

LEMMA AnswerOnType ==
    ASSUME toClient \in [Clients -> Seq(Messages)], NEW k \in Connection,
           NEW m \in Seq(Messages), AnswerOn(k, m)
    PROVE  toClient' \in [Clients -> Seq(Messages)]
<1>1. k[1] \in Clients
  BY DEF Connection
<1>. QED  BY <1>1, AnswerType DEF AnswerOn

LEMMA TailType ==
    ASSUME NEW S, NEW f \in [Clients -> Seq(S)], NEW c \in Clients, f[c] # << >>
    PROVE  /\ [f EXCEPT ![c] = Tail(@)] \in [Clients -> Seq(S)]
           /\ Head(f[c]) \in S
BY HeadTailProperties

LEMMA TypeInit == Init => TypeOK
BY EmptyIsSeq, StreamsAssumption DEF Init, TypeOK, States, Connection

(* What the shared parts of the clients' actions preserve.                 *)
ClientTypeOK ==
    /\ cpc \in [Clients -> {"start", "select", "streams", "reply", "results"} \cup Final]
    /\ cstate \in [Clients -> States]
    /\ opened \in [Clients -> Nat]
    /\ clientGot \subseteq Clients
    /\ toServer \in [Clients -> Seq(Messages)]

LEMMA ClientFailsType ==
    ASSUME TypeOK, NEW c \in Clients, NEW state \in Messages, ClientFails(c, state)
    PROVE  ClientTypeOK'
<1>1. "IPERF_DONE" \in States /\ <<"IPERF_DONE">> \in Seq(Messages)
  BY MessageSeqs DEF States
<1>2. toServer' \in [Clients -> Seq(Messages)]
  BY <1>1, TellType DEF ClientFails, TypeOK
<1>3. {"0", "ACCESS_DENIED", "SERVER_ERROR"} \subseteq States
  BY DEF States
<1>. QED  BY <1>1, <1>2, <1>3 DEF ClientFails, TypeOK, ClientTypeOK, Final

LEMMA WritesType ==
    ASSUME TypeOK, NEW c \in Clients, NEW state \in States, NEW msg \in Messages,
           NEW next \in {"select", "results"}, Writes(c, state, msg, next)
    PROVE  ClientTypeOK'
<1>1. CASE ClientFails(c, state)
  BY <1>1, ClientFailsType, MessageSeqs
<1>2. CASE /\ Tell(c, <<msg>>)
           /\ cstate' = [cstate EXCEPT ![c] = state]
           /\ cpc' = [cpc EXCEPT ![c] = next]
           /\ UNCHANGED <<opened, clientGot>>
  <2>1. toServer' \in [Clients -> Seq(Messages)]
    BY <1>2, TellType, MessageSeqs DEF TypeOK
  <2>. QED  BY <1>2, <2>1 DEF TypeOK, ClientTypeOK
<1>. QED  BY <1>1, <1>2 DEF Writes

LEMMA StreamConnectedType ==
    ASSUME TypeOK, NEW c \in Clients, StreamConnected(c)
    PROVE  ClientTypeOK'
<1>1. opened[c] + 1 \in Nat
  BY DEF TypeOK
<1>. QED  BY <1>1 DEF TypeOK, ClientTypeOK, StreamConnected

(* The server's sockets after ServerReturns.                               *)
ServerTypeOK ==
    /\ spc \in {"closed", "select", "params", "results", "exit"}
    /\ sstate \in States
    /\ ctrl \in Connection \cup {None}
    /\ streams \in Seq([conn : Connection, sender : BOOLEAN])
    /\ backlog \in Seq(Connection)
    /\ datagrams \in Seq(Connection)
    /\ spc \in {"params", "results"} => ctrl # None
    /\ ctrl # None => spc \in {"select", "params", "results"}
    /\ sstate = "CREATE_STREAMS" => ctrl # None

LEMMA ServerReturnsType == ServerReturns => ServerTypeOK'
BY EmptyIsSeq DEF ServerReturns, ServerTypeOK, States

LEMMA AddStreamType ==
    ASSUME TypeOK, spc = "select", ctrl # None, NEW k \in Connection, AddStream(k),
           protocol[ctrl[1]] = "udp" => datagrams # << >>,
           protocol[ctrl[1]] # "udp" => backlog # << >>
    PROVE  ServerTypeOK' /\ toClient' \in [Clients -> Seq(Messages)]
<1>. DEFINE c == ctrl[1]
            n == Len(streams) + 1
            r == [conn |-> k, sender |-> ServerSends(c, n)]
<1>1. ctrl \in Connection /\ c \in Clients
  BY DEF TypeOK, Connection
<1>2. ServerSends(c, n) \in BOOLEAN
  BY DEF ServerSends
<1>3. streams' \in Seq([conn : Connection, sender : BOOLEAN])
  <2>1. r \in [conn : Connection, sender : BOOLEAN]
    BY <1>2
  <2>2. streams' = Append(streams, r)
    BY DEF AddStream
  <2>. QED  BY <2>1, <2>2, AppendProperties DEF TypeOK
<1>4. backlog' \in Seq(Connection) /\ datagrams' \in Seq(Connection)
  BY EmptyIsSeq, HeadTailProperties DEF AddStream, TypeOK
<1>5. sstate' \in States /\ spc' = spc /\ ctrl' = ctrl
  BY DEF AddStream, TypeOK, States
<1>6. toClient' \in [Clients -> Seq(Messages)]
  <2>1. CASE Answer(c, <<"TEST_START", "TEST_RUNNING">>)
    <3>1. "TEST_START" \in Messages /\ "TEST_RUNNING" \in Messages
      BY DEF Messages, States
    <3>. QED  BY <1>1, <2>1, <3>1, AnswerType, MessageSeqs DEF TypeOK
  <2>2. CASE UNCHANGED toClient
    BY <2>2 DEF TypeOK
  <2>. QED  BY <2>1, <2>2 DEF AddStream
<1>. QED  BY <1>1, <1>3, <1>4, <1>5, <1>6 DEF ServerTypeOK, TypeOK

(* TypeOK in the parts the actions change: the clients' side, the server's *)
(* side, and the rest.                                                     *)
RestTypeOK ==
    /\ protocol \in [Clients -> Protocols]
    /\ mode \in [Clients -> Modes]
    /\ replied \subseteq Connection
    /\ toClient \in [Clients -> Seq(Messages)]
    /\ serverGot \subseteq Clients
    /\ faults \in 0..MaxFaults

LEMMA TypeParts == TypeOK <=> ClientTypeOK /\ ServerTypeOK /\ RestTypeOK
BY DEF TypeOK, ClientTypeOK, ServerTypeOK, RestTypeOK

LEMMA StreamConn == \A c \in Clients, n \in Nat : <<c, n>> \in Connection
BY DEF Connection

LEMMA TypeClient ==
    ASSUME TypeOK, NEW c \in Clients, ClientStep(c) \/ ClientSigend(c) \/ ClientTimeout(c)
    PROVE  TypeOK'
<1>. USE DEF options, clientVars, serverVars, netVars
<1>1. ClientTypeOK /\ ServerTypeOK /\ RestTypeOK /\ cstate[c] \in States
  BY TypeParts DEF TypeOK
<1>2. Connect(c) => ClientTypeOK' /\ ServerTypeOK' /\ RestTypeOK'
  <2>. SUFFICES ASSUME Connect(c) PROVE ClientTypeOK' /\ ServerTypeOK' /\ RestTypeOK'
    OBVIOUS
  <2>1. CASE ClientFails(c, "0") /\ UNCHANGED backlog
    <3>1. "0" \in Messages
      BY DEF Messages, States
    <3>2. ClientTypeOK'
      BY <2>1, <3>1, ClientFailsType
    <3>. QED  BY <1>1, <2>1, <3>2 DEF Connect, ServerTypeOK, RestTypeOK
  <2>2. CASE ~(spc \in {"closed", "exit"})
    <3>1. <<c, 0>> \in Connection /\ backlog \in Seq(Connection)
      BY <1>1, StreamConn DEF ServerTypeOK
    <3>2. backlog' = Append(backlog, <<c, 0>>)
      BY <2>2 DEF Connect
    <3>3. backlog' \in Seq(Connection)
      BY <3>1, <3>2, AppendProperties
    <3>. QED  BY <1>1, <2>2, <3>3 DEF Connect, ClientTypeOK, ServerTypeOK, RestTypeOK
  <2>. QED  BY <2>1, <2>2 DEF Connect
<1>3. HandleMessageClient(c) => ClientTypeOK' /\ ServerTypeOK' /\ RestTypeOK'
  <2>. SUFFICES ASSUME HandleMessageClient(c) PROVE ClientTypeOK' /\ ServerTypeOK' /\ RestTypeOK'
    OBVIOUS
  <2>. DEFINE m == Head(toClient[c])
  <2>1. m \in Messages /\ toClient' \in [Clients -> Seq(Messages)]
    BY <1>1, TailType DEF HandleMessageClient, RestTypeOK
  <2>2. ServerTypeOK' /\ RestTypeOK'
    BY <1>1, <2>1 DEF HandleMessageClient, ServerTypeOK, RestTypeOK
  <2>3. CASE m = "PARAM_EXCHANGE" /\ Writes(c, m, "params", "select")
    BY <2>2, <2>3, WritesType, MessageSeqs DEF States
  <2>4. CASE /\ m \in {"CREATE_STREAMS", "TEST_START", "TEST_RUNNING"}
             /\ cstate' = [cstate EXCEPT ![c] = m]
             /\ cpc' = [cpc EXCEPT ![c] = IF m = "CREATE_STREAMS" THEN "streams" ELSE @]
             /\ UNCHANGED <<opened, clientGot, toServer>>
    BY <1>1, <2>2, <2>4 DEF ClientTypeOK, States
  <2>5. CASE m = "EXCHANGE_RESULTS" /\ Writes(c, m, "results", "results")
    BY <2>2, <2>5, WritesType, MessageSeqs DEF States
  <2>6. CASE /\ cpc' = [cpc EXCEPT ![c] = "ok"]
             /\ cstate' = [cstate EXCEPT ![c] = "IPERF_DONE"]
             /\ Tell(c, <<"IPERF_DONE">>)
             /\ UNCHANGED <<opened, clientGot>>
    <3>1. "IPERF_DONE" \in States /\ "IPERF_DONE" \in Messages
      BY DEF States, Messages
    <3>2. toServer' \in [Clients -> Seq(Messages)]
      BY <1>1, <2>6, <3>1, TellType, MessageSeqs DEF ClientTypeOK
    <3>. QED  BY <1>1, <2>2, <2>6, <3>1, <3>2 DEF ClientTypeOK, Final
  <2>7. CASE ClientFails(c, m)
    BY <2>1, <2>2, <2>7, ClientFailsType
  <2>. QED  BY <2>3, <2>4, <2>5, <2>6, <2>7 DEF HandleMessageClient
<1>4. ServerLost(c) => ClientTypeOK' /\ ServerTypeOK' /\ RestTypeOK'
  BY <1>1, ClientFailsType, MessageSeqs DEF ServerLost, ServerTypeOK, RestTypeOK
<1>5. CreateStream(c) => ClientTypeOK' /\ ServerTypeOK' /\ RestTypeOK'
  <2>. SUFFICES ASSUME CreateStream(c) PROVE ClientTypeOK' /\ ServerTypeOK' /\ RestTypeOK'
    OBVIOUS
  <2>. DEFINE stream == <<c, opened[c] + 1>>
  <2>1. stream \in Connection
    BY <1>1, StreamConn DEF ClientTypeOK
  <2>2. CASE protocol[c] = "udp"
    <3>1. datagrams' \in {datagrams, Append(datagrams, stream)}
      BY <2>2 DEF CreateStream
    <3>2. datagrams' \in Seq(Connection)
      <4>1. datagrams \in Seq(Connection)
        BY <1>1 DEF ServerTypeOK
      <4>2. Append(datagrams, stream) \in Seq(Connection)
        BY <4>1, <2>1, AppendProperties
      <4>. QED  BY <3>1, <4>1, <4>2
    <3>3. /\ cpc' = [cpc EXCEPT ![c] = "reply"]
          /\ cstate' = cstate /\ opened' = opened /\ clientGot' = clientGot
          /\ backlog' = backlog /\ toServer' = toServer
      BY <2>2 DEF CreateStream
    <3>4. ClientTypeOK'
      BY <1>1, <3>3 DEF ClientTypeOK
    <3>5. UNCHANGED <<options, serverVars, replied, toClient, faults>>
      BY DEF CreateStream
    <3>. QED  BY <1>1, <3>2, <3>3, <3>4, <3>5 DEF ServerTypeOK, RestTypeOK
  <2>3. CASE protocol[c] # "udp" /\ ClientFails(c, cstate[c]) /\ UNCHANGED backlog
    <3>1. ClientTypeOK'
      BY <1>1, <2>3, ClientFailsType, MessageSeqs
    <3>. QED  BY <1>1, <2>3, <3>1 DEF CreateStream, ServerTypeOK, RestTypeOK
  <2>4. CASE protocol[c] # "udp" /\ StreamConnected(c) /\ backlog' = Append(backlog, stream)
    <3>1. ClientTypeOK'
      BY <2>4, StreamConnectedType
    <3>2. backlog' \in Seq(Connection)
      BY <1>1, <2>1, <2>4, AppendProperties DEF ServerTypeOK
    <3>. QED  BY <1>1, <2>4, <3>1, <3>2 DEF CreateStream, ServerTypeOK, RestTypeOK
  <2>. QED  BY <2>2, <2>3, <2>4 DEF CreateStream
<1>6. UdpReply(c) => ClientTypeOK' /\ ServerTypeOK' /\ RestTypeOK'
  BY <1>1, ClientFailsType, StreamConnectedType, MessageSeqs DEF UdpReply, ServerTypeOK, RestTypeOK
<1>7. SendTestEnd(c) => ClientTypeOK' /\ ServerTypeOK' /\ RestTypeOK'
  <2>1. "TEST_END" \in States /\ "TEST_END" \in Messages
    BY DEF States, Messages
  <2>. QED  BY <1>1, <2>1, WritesType DEF SendTestEnd, ServerTypeOK, RestTypeOK
<1>8. ClientGetsResults(c) => ClientTypeOK' /\ ServerTypeOK' /\ RestTypeOK'
  <2>. SUFFICES ASSUME ClientGetsResults(c) PROVE ClientTypeOK' /\ ServerTypeOK' /\ RestTypeOK'
    OBVIOUS
  <2>1. toClient' \in [Clients -> Seq(Messages)]
    BY <1>1, TailType DEF ClientGetsResults, RestTypeOK
  <2>2. ServerTypeOK' /\ RestTypeOK'
    BY <1>1, <2>1 DEF ClientGetsResults, ServerTypeOK, RestTypeOK
  <2>3. CASE ClientFails(c, cstate[c])
    BY <1>1, <2>2, <2>3, ClientFailsType, MessageSeqs
  <2>4. CASE /\ clientGot' = clientGot \cup {c}
             /\ cpc' = [cpc EXCEPT ![c] = "select"]
             /\ UNCHANGED <<cstate, opened, toServer>>
    BY <1>1, <2>2, <2>4 DEF ClientTypeOK
  <2>. QED  BY <2>3, <2>4 DEF ClientGetsResults
<1>9. ClientSigend(c) => ClientTypeOK' /\ ServerTypeOK' /\ RestTypeOK'
  <2>. SUFFICES ASSUME ClientSigend(c) PROVE ClientTypeOK' /\ ServerTypeOK' /\ RestTypeOK'
    OBVIOUS
  <2>1. "CLIENT_TERMINATE" \in Messages
    BY DEF Messages, States
  <2>2. toServer' \in [Clients -> Seq(Messages)]
    BY <1>1, <2>1, TellType, MessageSeqs DEF ClientSigend, ClientTypeOK
  <2>3. faults' \in 0..MaxFaults
    BY <1>1, StreamsAssumption DEF ClientSigend, Fault, RestTypeOK
  <2>. QED  BY <1>1, <2>2, <2>3 DEF ClientSigend, ClientTypeOK, ServerTypeOK, RestTypeOK, Final
<1>10. ClientTimeout(c) => ClientTypeOK' /\ ServerTypeOK' /\ RestTypeOK'
  <2>. SUFFICES ASSUME ClientTimeout(c) PROVE ClientTypeOK' /\ ServerTypeOK' /\ RestTypeOK'
    OBVIOUS
  <2>1. ClientTypeOK'
    BY <1>1, ClientFailsType, MessageSeqs DEF ClientTimeout
  <2>2. faults' \in 0..MaxFaults
    BY <1>1, StreamsAssumption DEF ClientTimeout, Fault, RestTypeOK
  <2>. QED  BY <1>1, <2>1, <2>2 DEF ClientTimeout, ServerTypeOK, RestTypeOK
<1>11. ClientTypeOK' /\ ServerTypeOK' /\ RestTypeOK'
  BY <1>2, <1>3, <1>4, <1>5, <1>6, <1>7, <1>8, <1>9, <1>10 DEF ClientStep
<1>12. TypeOK' <=> ClientTypeOK' /\ ServerTypeOK' /\ RestTypeOK'
  BY DEF TypeOK, ClientTypeOK, ServerTypeOK, RestTypeOK
<1>. QED  BY <1>11, <1>12

(* What every server action leaves well typed: only the server's side and  *)
(* the channels change.                                                    *)
LEMMA ServerKeepsRest ==
    ASSUME TypeOK, UNCHANGED <<options, clientVars>>, ServerTypeOK',
           replied' \subseteq Connection, serverGot' \subseteq Clients, faults' \in 0..MaxFaults,
           toServer' \in [Clients -> Seq(Messages)], toClient' \in [Clients -> Seq(Messages)]
    PROVE  TypeOK'
BY DEF TypeOK, ServerTypeOK, options, clientVars

LEMMA TypeServer ==
    ASSUME TypeOK, ServerStep \/ ServerTimeout \/ ServerSigend
    PROVE  TypeOK'
<1>. USE DEF options, clientVars, serverVars, netVars
<1>1. /\ ServerTypeOK
      /\ toServer \in [Clients -> Seq(Messages)] /\ toClient \in [Clients -> Seq(Messages)]
      /\ replied \subseteq Connection /\ serverGot \subseteq Clients /\ faults \in 0..MaxFaults
      /\ \A k \in Connection : k[1] \in Clients
  BY DEF TypeOK, ServerTypeOK, Connection
<1>2. /\ {"PARAM_EXCHANGE", "ACCESS_DENIED", "CREATE_STREAMS", "SERVER_ERROR", "EXCHANGE_RESULTS",
         "DISPLAY_RESULTS", "results", "SERVER_TERMINATE"} \subseteq Messages
      /\ {"0", "IPERF_START", "PARAM_EXCHANGE", "CREATE_STREAMS", "EXCHANGE_RESULTS",
         "DISPLAY_RESULTS"} \subseteq States
  BY DEF Messages, States
<1>3. /\ <<"PARAM_EXCHANGE">> \in Seq(Messages) /\ <<"ACCESS_DENIED">> \in Seq(Messages)
      /\ <<"CREATE_STREAMS">> \in Seq(Messages) /\ <<"SERVER_ERROR">> \in Seq(Messages)
      /\ <<"EXCHANGE_RESULTS">> \in Seq(Messages) /\ <<"SERVER_TERMINATE">> \in Seq(Messages)
      /\ <<"results", "DISPLAY_RESULTS">> \in Seq(Messages)
  BY <1>2, MessageSeqs
<1>4. Listen => TypeOK'
  <2>. SUFFICES ASSUME Listen PROVE TypeOK'
    OBVIOUS
  <2>1. ServerTypeOK'
    BY <1>1, <1>2 DEF Listen, ServerTypeOK
  <2>. QED  BY <1>1, <2>1, ServerKeepsRest DEF Listen
<1>5. Accept => TypeOK'
  <2>. SUFFICES ASSUME Accept PROVE TypeOK'
    OBVIOUS
  <2>. DEFINE k == Head(backlog)
  <2>1. k \in Connection /\ Tail(backlog) \in Seq(Connection)
    BY <1>1, HeadTailProperties DEF Accept, ServerTypeOK
  <2>2. /\ replied' = replied /\ serverGot' = serverGot /\ faults' = faults /\ toServer' = toServer
        /\ UNCHANGED <<options, clientVars>> /\ spc = "select"
    BY DEF Accept
  <2>3. k # None
    BY <2>1, NoneAssumption DEF Connection
  <2>4. CASE /\ ctrl' = k /\ sstate' = "PARAM_EXCHANGE" /\ spc' = "params"
             /\ AnswerOn(k, <<"PARAM_EXCHANGE">>) /\ backlog' = Tail(backlog)
             /\ UNCHANGED <<streams, datagrams>>
    <3>1. toClient' \in [Clients -> Seq(Messages)]
      BY <1>1, <1>3, <2>1, <2>4, AnswerOnType
    <3>2. ServerTypeOK'
      BY <1>1, <1>2, <2>1, <2>3, <2>4 DEF ServerTypeOK
    <3>. QED  BY <1>1, <2>2, <3>1, <3>2, ServerKeepsRest
  <2>5. CASE ServerReturns /\ UNCHANGED toClient
    BY <1>1, <2>2, <2>5, ServerReturnsType, ServerKeepsRest
  <2>6. CASE /\ AnswerOn(k, <<"ACCESS_DENIED">>) /\ backlog' = Tail(backlog)
             /\ UNCHANGED <<ctrl, sstate, spc, streams, datagrams>>
    <3>1. toClient' \in [Clients -> Seq(Messages)]
      BY <1>1, <1>3, <2>1, <2>6, AnswerOnType
    <3>2. ServerTypeOK'
      BY <1>1, <2>1, <2>6 DEF ServerTypeOK
    <3>. QED  BY <1>1, <2>2, <3>1, <3>2, ServerKeepsRest
  <2>. QED  BY <2>4, <2>5, <2>6 DEF Accept
<1>6. ExchangeParameters => TypeOK'
  <2>. SUFFICES ASSUME ExchangeParameters PROVE TypeOK'
    OBVIOUS
  <2>. DEFINE c == ctrl[1]
  <2>1. /\ replied' = replied /\ serverGot' = serverGot /\ UNCHANGED <<options, clientVars>>
        /\ spc = "params" /\ ctrl # None /\ c \in Clients
    BY <1>1 DEF ExchangeParameters, ServerTypeOK
  <2>2. toServer' \in [Clients -> Seq(Messages)]
    <3>1. toServer[c] # << >> => [toServer EXCEPT ![c] = Tail(@)] \in [Clients -> Seq(Messages)]
      BY <1>1, <2>1, TailType
    <3>. QED  BY <1>1, <3>1 DEF ExchangeParameters
  <2>3. CASE /\ Answer(c, <<"CREATE_STREAMS">>) /\ sstate' = "CREATE_STREAMS" /\ spc' = "select"
             /\ backlog' \in {backlog, << >>} /\ UNCHANGED <<ctrl, streams, datagrams, faults>>
    <3>1. toClient' \in [Clients -> Seq(Messages)]
      BY <1>1, <1>3, <2>1, <2>3, AnswerType
    <3>2. ServerTypeOK'
      BY <1>1, <1>2, <2>1, <2>3, EmptyIsSeq DEF ServerTypeOK
    <3>. QED  BY <1>1, <2>1, <2>2, <2>3, <3>1, <3>2, ServerKeepsRest
  <2>4. CASE ServerReturns /\ Answer(c, <<"SERVER_ERROR">>) /\ faults < MaxFaults /\ faults' = faults + 1
    <3>1. toClient' \in [Clients -> Seq(Messages)]
      BY <1>1, <1>3, <2>1, <2>4, AnswerType
    <3>2. faults' \in 0..MaxFaults
      BY <1>1, <2>4, StreamsAssumption
    <3>. QED  BY <1>1, <2>1, <2>2, <2>4, <3>1, <3>2, ServerReturnsType, ServerKeepsRest
  <2>5. CASE ServerReturns /\ UNCHANGED <<toClient, faults>>
    BY <1>1, <2>1, <2>2, <2>5, ServerReturnsType, ServerKeepsRest
  <2>. QED  BY <2>3, <2>4, <2>5 DEF ExchangeParameters
<1>7. AcceptTcpStream => TypeOK'
  <2>. SUFFICES ASSUME AcceptTcpStream PROVE TypeOK'
    OBVIOUS
  <2>. DEFINE k == Head(backlog)
  <2>1. k \in Connection /\ Tail(backlog) \in Seq(Connection)
    BY <1>1, HeadTailProperties DEF AcceptTcpStream, ServerTypeOK
  <2>2. /\ replied' = replied /\ serverGot' = serverGot /\ faults' = faults /\ toServer' = toServer
        /\ UNCHANGED <<options, clientVars>> /\ spc = "select"
    BY DEF AcceptTcpStream
  <2>3. CASE k[1] = ctrl[1] /\ AddStream(k)
    <3>1. ctrl # None /\ protocol[ctrl[1]] = "tcp" /\ backlog # << >>
      BY <1>1, <2>3 DEF AcceptTcpStream, ServerTypeOK
    <3>. QED  BY <1>1, <2>1, <2>2, <2>3, <3>1, AddStreamType, ServerKeepsRest
  <2>4. CASE AnswerOn(k, <<"ACCESS_DENIED">>) /\ ServerReturns
    <3>1. toClient' \in [Clients -> Seq(Messages)]
      BY <1>1, <1>3, <2>1, <2>4, AnswerOnType
    <3>. QED  BY <1>1, <2>2, <2>4, <3>1, ServerReturnsType, ServerKeepsRest
  <2>5. CASE /\ AnswerOn(k, <<"ACCESS_DENIED">>) /\ backlog' = Tail(backlog)
             /\ UNCHANGED <<spc, sstate, ctrl, streams, datagrams>>
    <3>1. toClient' \in [Clients -> Seq(Messages)]
      BY <1>1, <1>3, <2>1, <2>5, AnswerOnType
    <3>2. ServerTypeOK'
      BY <1>1, <2>1, <2>5 DEF ServerTypeOK
    <3>. QED  BY <1>1, <2>2, <3>1, <3>2, ServerKeepsRest
  <2>. QED  BY <2>3, <2>4, <2>5 DEF AcceptTcpStream
<1>8. AcceptUdpStream => TypeOK'
  <2>. SUFFICES ASSUME AcceptUdpStream PROVE TypeOK'
    OBVIOUS
  <2>. DEFINE k == Head(datagrams)
  <2>1. k \in Connection /\ protocol[ctrl[1]] = "udp" /\ ctrl # None
    BY <1>1, HeadTailProperties DEF AcceptUdpStream, ServerTypeOK, UdpListening
  <2>2. replied' \subseteq Connection
    BY <1>1, <2>1 DEF AcceptUdpStream
  <2>3. ServerTypeOK' /\ toClient' \in [Clients -> Seq(Messages)]
    <3>1. AddStream(k) /\ spc = "select" /\ datagrams # << >>
      BY DEF AcceptUdpStream
    <3>. QED  BY <2>1, <3>1, AddStreamType
  <2>. QED  BY <1>1, <2>2, <2>3, ServerKeepsRest DEF AcceptUdpStream
<1>9. HandleMessageServer => TypeOK'
  <2>. SUFFICES ASSUME HandleMessageServer PROVE TypeOK'
    OBVIOUS
  <2>. DEFINE c == ctrl[1]
  <2>1. /\ replied' = replied /\ serverGot' = serverGot /\ faults' = faults
        /\ UNCHANGED <<options, clientVars>> /\ spc = "select" /\ ctrl # None /\ c \in Clients
    BY <1>1 DEF HandleMessageServer, ServerTypeOK
  <2>2. toServer' \in [Clients -> Seq(Messages)]
    BY <1>1, <2>1, TailType DEF HandleMessageServer
  <2>3. CASE /\ Answer(c, <<"EXCHANGE_RESULTS">>) /\ sstate' = "EXCHANGE_RESULTS"
             /\ spc' = "results" /\ UNCHANGED <<ctrl, streams, backlog, datagrams>>
    <3>1. toClient' \in [Clients -> Seq(Messages)]
      BY <1>1, <1>3, <2>1, <2>3, AnswerType
    <3>2. ServerTypeOK'
      BY <1>1, <1>2, <2>1, <2>3 DEF ServerTypeOK
    <3>. QED  BY <1>1, <2>1, <2>2, <3>1, <3>2, ServerKeepsRest
  <2>4. CASE ServerReturns /\ UNCHANGED toClient
    BY <1>1, <2>1, <2>2, <2>4, ServerReturnsType, ServerKeepsRest
  <2>. QED  BY <2>3, <2>4 DEF HandleMessageServer
<1>10. ClientLost => TypeOK'
  BY <1>1, ServerReturnsType, ServerKeepsRest DEF ClientLost
<1>11. ExchangeResults => TypeOK'
  <2>. SUFFICES ASSUME ExchangeResults PROVE TypeOK'
    OBVIOUS
  <2>. DEFINE c == ctrl[1]
  <2>1. /\ replied' = replied /\ faults' = faults
        /\ UNCHANGED <<options, clientVars>> /\ spc = "results" /\ ctrl # None /\ c \in Clients
    BY <1>1 DEF ExchangeResults, ServerTypeOK
  <2>2. toServer' \in [Clients -> Seq(Messages)] /\ serverGot' \subseteq Clients
    <3>1. toServer[c] # << >> => [toServer EXCEPT ![c] = Tail(@)] \in [Clients -> Seq(Messages)]
      BY <1>1, <2>1, TailType
    <3>. QED  BY <1>1, <2>1, <3>1 DEF ExchangeResults
  <2>3. CASE /\ Answer(c, <<"results", "DISPLAY_RESULTS">>) /\ sstate' = "DISPLAY_RESULTS"
             /\ spc' = "select" /\ UNCHANGED <<ctrl, streams, backlog, datagrams>>
    <3>1. toClient' \in [Clients -> Seq(Messages)]
      BY <1>1, <1>3, <2>1, <2>3, AnswerType
    <3>2. ServerTypeOK'
      BY <1>1, <1>2, <2>1, <2>3 DEF ServerTypeOK
    <3>. QED  BY <1>1, <2>1, <2>2, <3>1, <3>2, ServerKeepsRest
  <2>4. CASE ServerReturns /\ UNCHANGED toClient
    BY <1>1, <2>1, <2>2, <2>4, ServerReturnsType, ServerKeepsRest
  <2>. QED  BY <2>3, <2>4 DEF ExchangeResults
<1>12. faults < MaxFaults /\ faults' = faults + 1 => faults' \in 0..MaxFaults
  BY <1>1, StreamsAssumption
<1>13. ServerTimeout => TypeOK'
  BY <1>1, <1>12, ServerReturnsType, ServerKeepsRest DEF ServerTimeout, Fault
<1>14. ServerSigend => TypeOK'
  <2>. SUFFICES ASSUME ServerSigend PROVE TypeOK'
    OBVIOUS
  <2>1. toClient' \in [Clients -> Seq(Messages)]
    BY <1>1, <1>3, AnswerOnType DEF ServerSigend, ServerTypeOK
  <2>2. ServerTypeOK'
    BY <1>2, EmptyIsSeq DEF ServerSigend, ServerTypeOK
  <2>. QED  BY <1>1, <1>12, <2>1, <2>2, ServerKeepsRest DEF ServerSigend, Fault
<1>. QED
  BY <1>4, <1>5, <1>6, <1>7, <1>8, <1>9, <1>10, <1>11, <1>13, <1>14 DEF ServerStep

(* Every step keeps the states, channels and connections well typed.       *)
LEMMA TypeNext == TypeOK /\ [Next]_vars => TypeOK'
<1>1. TypeOK /\ Next => TypeOK'
  BY TypeClient, TypeServer DEF Next
<1>2. TypeOK /\ UNCHANGED vars => TypeOK'
  BY DEF TypeOK, vars, options, clientVars, serverVars, netVars
<1>. QED  BY <1>1, <1>2

(* Type correctness, for every instance.                                   *)
THEOREM TypeCorrect == Spec => []TypeOK
BY TypeInit, TypeNext, PTL DEF Spec
-----------------------------------------------------------------------------
(* What a step may do to the channel to c: nothing; add messages that are  *)
(* no results; add the server's results once it has c's; or let c read.    *)
ChannelStep(c) ==
    \/ toClient'[c] = toClient[c]
    \/ \E m \in Seq(Messages \ Ends) : toClient'[c] = toClient[c] \o m
    \/ c \in serverGot' /\ toClient'[c] = toClient[c] \o <<"results", "DISPLAY_RESULTS">>
    \/ /\ toClient[c] # << >>
       /\ toClient'[c] = Tail(toClient[c])
       /\ Head(toClient[c]) = "DISPLAY_RESULTS" => Gone(c)'
       /\ Head(toClient[c]) = "results" => c \in clientGot' \/ Gone(c)'

(* What any step of a client does, and what any step of the server does.   *)
ClientMove(d) ==
    /\ UNCHANGED <<ctrl, serverGot>>
    /\ clientGot \subseteq clientGot'
    /\ ~Gone(d)
    /\ \A c \in Clients : ChannelStep(c) /\ (c # d => cpc'[c] = cpc[c])
    /\ cpc'[d] = "ok" => toClient[d] # << >> /\ Head(toClient[d]) = "DISPLAY_RESULTS"

ServerMove ==
    /\ UNCHANGED <<cpc, clientGot>>
    /\ \A c \in Clients : ChannelStep(c)
    /\ serverGot \subseteq serverGot'
    /\ \/ UNCHANGED <<ctrl, serverGot>>
       \/ ctrl = None /\ ctrl' \in Connection /\ UNCHANGED serverGot
       \/ ctrl' = None /\ \A c \in serverGot' \ serverGot : Gone(c)
       \/ ctrl # None /\ UNCHANGED ctrl /\ serverGot' = serverGot \cup {ctrl[1]}

LEMMA NoEnds ==
    /\ \A m \in States \ Ends : <<m>> \in Seq(Messages \ Ends)
    /\ \A m, n \in States \ Ends : <<m, n>> \in Seq(Messages \ Ends)
BY DEF Messages

LEMMA QuietChannels ==
    ASSUME UNCHANGED toClient  PROVE \A c \in Clients : ChannelStep(c)
BY DEF ChannelStep

LEMMA AnswerChannels ==
    ASSUME toClient \in [Clients -> Seq(Messages)], NEW k \in Clients,
           NEW m \in Seq(Messages \ Ends), Answer(k, m)
    PROVE  \A c \in Clients : ChannelStep(c)
BY DEF ChannelStep, Answer

LEMMA AnswerOnChannels ==
    ASSUME toClient \in [Clients -> Seq(Messages)], NEW k \in Connection,
           NEW m \in Seq(Messages \ Ends), AnswerOn(k, m)
    PROVE  \A c \in Clients : ChannelStep(c)
<1>1. k[1] \in Clients
  BY DEF Connection
<1>. QED  BY <1>1, AnswerChannels, QuietChannels DEF AnswerOn

LEMMA ReadChannels ==
    ASSUME toClient \in [Clients -> Seq(Messages)], NEW d \in Clients, toClient[d] # << >>,
           toClient' = [toClient EXCEPT ![d] = Tail(@)],
           Head(toClient[d]) = "DISPLAY_RESULTS" => Gone(d)',
           Head(toClient[d]) = "results" => d \in clientGot' \/ Gone(d)'
    PROVE  \A c \in Clients : ChannelStep(c)
BY DEF ChannelStep

LEMMA FailsMoves ==
    ASSUME TypeOK, NEW c \in Clients, NEW state, ClientFails(c, state)
    PROVE  /\ cpc' = [cpc EXCEPT ![c] = "failed"] /\ Gone(c)'
           /\ clientGot' = clientGot
BY DEF ClientFails, TypeOK, Gone, Final

LEMMA ClientMoves ==
    ASSUME TypeOK, NEW d \in Clients, ClientStep(d) \/ ClientSigend(d) \/ ClientTimeout(d)
    PROVE  ClientMove(d)
<1>. USE DEF options, clientVars, serverVars, netVars, Final, Gone
<1>1. cpc \in [Clients -> {"start", "select", "streams", "reply", "results", "ok", "failed"}]
  BY DEF TypeOK
<1>2. ASSUME NEW x \in {"select", "streams", "reply", "results", "failed"},
             cpc' = [cpc EXCEPT ![d] = x], UNCHANGED <<ctrl, serverGot, clientGot, toClient>>,
             ~Gone(d)
      PROVE  ClientMove(d)
  BY <1>1, <1>2, QuietChannels DEF ClientMove
<1>3. Connect(d) => ClientMove(d)
  BY <1>1, <1>2, FailsMoves DEF Connect
<1>4. HandleMessageClient(d) => ClientMove(d)
  <2>. SUFFICES ASSUME HandleMessageClient(d) PROVE ClientMove(d)
    OBVIOUS
  <2>1. PICK x \in {"select", "results", "failed", "streams", "ok"} :
           /\ cpc' = [cpc EXCEPT ![d] = x]
           /\ x = "ok" <=> Head(toClient[d]) = "DISPLAY_RESULTS"
           /\ Head(toClient[d]) = "results" => x = "failed"
    BY <1>1 DEF HandleMessageClient, Writes, ClientFails
  <2>2. clientGot' = clientGot
    BY DEF HandleMessageClient, Writes, ClientFails
  <2>3. \A c \in Clients : ChannelStep(c)
    BY <1>1, <2>1, ReadChannels DEF HandleMessageClient, TypeOK
  <2>4. UNCHANGED <<ctrl, serverGot>> /\ toClient[d] # << >> /\ cpc[d] = "select"
    BY DEF HandleMessageClient
  <2>. QED  BY <1>1, <2>1, <2>2, <2>3, <2>4 DEF ClientMove
<1>5. ServerLost(d) => ClientMove(d)
  BY <1>1, <1>2, FailsMoves DEF ServerLost
<1>6. CreateStream(d) => ClientMove(d)
  BY <1>1, <1>2, FailsMoves DEF CreateStream, StreamConnected
<1>7. UdpReply(d) => ClientMove(d)
  BY <1>1, <1>2, FailsMoves DEF UdpReply, StreamConnected
<1>8. SendTestEnd(d) => ClientMove(d)
  BY <1>1, <1>2, FailsMoves DEF SendTestEnd, Writes
<1>9. ClientGetsResults(d) => ClientMove(d)
  <2>. SUFFICES ASSUME ClientGetsResults(d) PROVE ClientMove(d)
    OBVIOUS
  <2>1. \/ /\ Head(toClient[d]) = "results" /\ clientGot' = clientGot \cup {d}
           /\ cpc' = [cpc EXCEPT ![d] = "select"]
        \/ cpc' = [cpc EXCEPT ![d] = "failed"] /\ clientGot' = clientGot
    BY DEF ClientGetsResults, ClientFails
  <2>2. \A c \in Clients : ChannelStep(c)
    BY <1>1, <2>1, ReadChannels DEF ClientGetsResults, TypeOK
  <2>3. UNCHANGED <<ctrl, serverGot>> /\ cpc[d] = "results"
    BY DEF ClientGetsResults
  <2>. QED  BY <1>1, <2>1, <2>2, <2>3 DEF ClientMove
<1>10. ClientSigend(d) => ClientMove(d)
  BY <1>1, <1>2 DEF ClientSigend
<1>11. ClientTimeout(d) => ClientMove(d)
  BY <1>1, <1>2, FailsMoves DEF ClientTimeout
<1>. QED  BY <1>3, <1>4, <1>5, <1>6, <1>7, <1>8, <1>9, <1>10, <1>11 DEF ClientStep

LEMMA ServerMoves ==
    ASSUME TypeOK, ServerStep \/ ServerTimeout \/ ServerSigend
    PROVE  ServerMove
<1>. USE DEF options, clientVars, serverVars, netVars
<1>1. /\ toClient \in [Clients -> Seq(Messages)]
      /\ \A k \in Connection : k[1] \in Clients
      /\ ctrl # None => ctrl \in Connection /\ ctrl[1] \in Clients
  BY DEF TypeOK, Connection
<1>2. /\ <<"PARAM_EXCHANGE">> \in Seq(Messages \ Ends) /\ <<"ACCESS_DENIED">> \in Seq(Messages \ Ends)
      /\ <<"CREATE_STREAMS">> \in Seq(Messages \ Ends) /\ <<"SERVER_ERROR">> \in Seq(Messages \ Ends)
      /\ <<"EXCHANGE_RESULTS">> \in Seq(Messages \ Ends)
      /\ <<"SERVER_TERMINATE">> \in Seq(Messages \ Ends)
      /\ <<"TEST_START", "TEST_RUNNING">> \in Seq(Messages \ Ends)
  BY NoEnds DEF States, Ends
<1>3. ServerReturns => ctrl' = None
  BY DEF ServerReturns
<1>4. ASSUME UNCHANGED <<cpc, clientGot, serverGot>>, \A c \in Clients : ChannelStep(c),
             UNCHANGED ctrl \/ ctrl' = None
      PROVE  ServerMove
  BY <1>4 DEF ServerMove
<1>5. Listen => ServerMove
  BY <1>4, QuietChannels DEF Listen
<1>6. Accept => ServerMove
  <2>. SUFFICES ASSUME Accept PROVE ServerMove
    OBVIOUS
  <2>. DEFINE k == Head(backlog)
  <2>1. k \in Connection /\ UNCHANGED <<cpc, clientGot, serverGot>>
    BY HeadTailProperties DEF Accept, TypeOK
  <2>2. CASE ctrl = None /\ ctrl' = k /\ AnswerOn(k, <<"PARAM_EXCHANGE">>)
    BY <1>1, <1>2, <2>1, <2>2, AnswerOnChannels DEF ServerMove
  <2>3. CASE ServerReturns /\ UNCHANGED toClient
    BY <1>3, <1>4, <2>1, <2>3, QuietChannels
  <2>4. CASE AnswerOn(k, <<"ACCESS_DENIED">>) /\ UNCHANGED ctrl
    BY <1>1, <1>2, <1>4, <2>1, <2>4, AnswerOnChannels
  <2>. QED  BY <2>2, <2>3, <2>4 DEF Accept
<1>7. ExchangeParameters => ServerMove
  <2>. SUFFICES ASSUME ExchangeParameters PROVE ServerMove
    OBVIOUS
  <2>1. UNCHANGED <<cpc, clientGot, serverGot>> /\ ctrl[1] \in Clients
    BY <1>1 DEF ExchangeParameters, TypeOK
  <2>2. CASE Answer(ctrl[1], <<"CREATE_STREAMS">>) /\ UNCHANGED ctrl
    BY <1>1, <1>2, <1>4, <2>1, <2>2, AnswerChannels
  <2>3. CASE Answer(ctrl[1], <<"SERVER_ERROR">>) /\ ServerReturns
    BY <1>1, <1>2, <1>3, <1>4, <2>1, <2>3, AnswerChannels
  <2>4. CASE ServerReturns /\ UNCHANGED toClient
    BY <1>3, <1>4, <2>1, <2>4, QuietChannels
  <2>. QED  BY <2>2, <2>3, <2>4 DEF ExchangeParameters
<1>8. ASSUME NEW k, AddStream(k), ctrl # None, UNCHANGED <<cpc, clientGot, serverGot>>
      PROVE  ServerMove
  <2>1. Answer(ctrl[1], <<"TEST_START", "TEST_RUNNING">>) \/ UNCHANGED toClient
    BY <1>8 DEF AddStream
  <2>2. \A c \in Clients : ChannelStep(c)
    BY <1>1, <1>2, <1>8, <2>1, AnswerChannels, QuietChannels
  <2>. QED  BY <1>4, <1>8, <2>2 DEF AddStream
<1>9. AcceptTcpStream => ServerMove
  <2>. SUFFICES ASSUME AcceptTcpStream PROVE ServerMove
    OBVIOUS
  <2>. DEFINE k == Head(backlog)
  <2>1. k \in Connection /\ UNCHANGED <<cpc, clientGot, serverGot>> /\ ctrl # None
    BY HeadTailProperties DEF AcceptTcpStream, TypeOK
  <2>2. CASE AddStream(k)
    BY <1>8, <2>1, <2>2
  <2>3. CASE AnswerOn(k, <<"ACCESS_DENIED">>) /\ (ServerReturns \/ UNCHANGED ctrl)
    BY <1>1, <1>2, <1>3, <1>4, <2>1, <2>3, AnswerOnChannels
  <2>. QED  BY <2>2, <2>3 DEF AcceptTcpStream
<1>10. AcceptUdpStream => ServerMove
  <2>. SUFFICES ASSUME AcceptUdpStream PROVE ServerMove
    OBVIOUS
  <2>1. /\ AddStream(Head(datagrams)) /\ ctrl # None
        /\ UNCHANGED <<cpc, clientGot, serverGot>>
    BY DEF AcceptUdpStream, UdpListening, TypeOK
  <2>. QED  BY <1>8, <2>1
<1>11. HandleMessageServer => ServerMove
  <2>. SUFFICES ASSUME HandleMessageServer PROVE ServerMove
    OBVIOUS
  <2>1. UNCHANGED <<cpc, clientGot, serverGot>> /\ ctrl[1] \in Clients
    BY <1>1 DEF HandleMessageServer
  <2>2. CASE Answer(ctrl[1], <<"EXCHANGE_RESULTS">>) /\ UNCHANGED ctrl
    BY <1>1, <1>2, <1>4, <2>1, <2>2, AnswerChannels
  <2>3. CASE ServerReturns /\ UNCHANGED toClient
    BY <1>3, <1>4, <2>1, <2>3, QuietChannels
  <2>. QED  BY <2>2, <2>3 DEF HandleMessageServer
<1>12. ClientLost => ServerMove
  BY <1>3, <1>4, QuietChannels DEF ClientLost
<1>13. ExchangeResults => ServerMove
  <2>. SUFFICES ASSUME ExchangeResults PROVE ServerMove
    OBVIOUS
  <2>. DEFINE c == ctrl[1]
  <2>1. UNCHANGED <<cpc, clientGot>> /\ ctrl # None /\ c \in Clients
    BY <1>1 DEF ExchangeResults, TypeOK
  <2>2. CASE /\ serverGot' = serverGot \cup {c} /\ UNCHANGED ctrl
             /\ Answer(c, <<"results", "DISPLAY_RESULTS">>)
    <3>1. \A d \in Clients : ChannelStep(d)
      BY <1>1, <2>1, <2>2 DEF ChannelStep, Answer
    <3>. QED  BY <2>1, <2>2, <3>1 DEF ServerMove
  <2>3. CASE serverGot' = serverGot \cup {c} /\ Gone(c) /\ ServerReturns /\ UNCHANGED toClient
    BY <1>3, <2>1, <2>3, QuietChannels DEF ServerMove
  <2>4. CASE ServerReturns /\ UNCHANGED <<toClient, serverGot>>
    BY <1>3, <1>4, <2>1, <2>4, QuietChannels
  <2>. QED  BY <2>2, <2>3, <2>4 DEF ExchangeResults
<1>14. ServerTimeout => ServerMove
  BY <1>3, <1>4, QuietChannels DEF ServerTimeout
<1>15. ServerSigend => ServerMove
  <2>. SUFFICES ASSUME ServerSigend PROVE ServerMove
    OBVIOUS
  <2>1. \A c \in Clients : ChannelStep(c)
    BY <1>1, <1>2, AnswerOnChannels, QuietChannels DEF ServerSigend
  <2>. QED  BY <1>4, <2>1 DEF ServerSigend
<1>. QED
  BY <1>5, <1>6, <1>7, <1>9, <1>10, <1>11, <1>12, <1>13, <1>14, <1>15 DEF ServerStep

-----------------------------------------------------------------------------
(* The inductive invariant                                                 *)
LEMMA ChannelParts ==
    ASSUME NEW s \in Seq(Messages), NEW t \in Seq(Messages)
    PROVE  /\ Len(s \o t) = Len(s) + Len(t)
           /\ \A i \in 1..Len(s) : (s \o t)[i] = s[i]
           /\ \A i \in 1..Len(t) : (s \o t)[Len(s) + i] = t[i]
           /\ \A i \in 1..Len(s \o t) :
                 i \in 1..Len(s) \/ \E j \in 1..Len(t) : i = Len(s) + j /\ (s \o t)[i] = t[j]
<1>1. Len(s) \in Nat /\ Len(t) \in Nat /\ Len(s \o t) = Len(s) + Len(t)
  BY ConcatProperties, LenProperties
<1>2. \A i \in 1..Len(t) : (s \o t)[Len(s) + i] = t[i]
  BY <1>1, ConcatProperties
<1>3. ASSUME NEW i \in 1..Len(s \o t), i \notin 1..Len(s)
      PROVE  \E j \in 1..Len(t) : i = Len(s) + j /\ (s \o t)[i] = t[j]
  <2>1. i - Len(s) \in 1..Len(t) /\ i = Len(s) + (i - Len(s))
    BY <1>1, <1>3
  <2>. QED  BY <1>2, <2>1
<1>4. \A i \in 1..Len(s) : (s \o t)[i] = s[i]
  BY <1>1, ConcatProperties
<1>. QED  BY <1>1, <1>2, <1>3, <1>4

LEMMA TailParts ==
    ASSUME NEW s \in Seq(Messages), s # << >>
    PROVE  /\ Len(s) \in Nat \ {0} /\ Len(Tail(s)) = Len(s) - 1
           /\ Head(s) = s[1]
           /\ \A i \in 1..Len(Tail(s)) : Tail(s)[i] = s[i + 1]
BY HeadTailProperties, LenProperties, EmptySeq
(* Reads off what a channel step allows of the new channel.                *)
LEMMA ChannelCases ==
    ASSUME TypeOK, NEW c \in Clients, ChannelStep(c)
    PROVE  \A i \in 1..Len(toClient'[c]) : toClient'[c][i] \in Ends =>
              \/ /\ i \in 1..Len(toClient[c])
                 /\ \A j \in 1..Len(toClient[c]) : toClient'[c][j] = toClient[c][j]
              \/ /\ c \in serverGot' /\ Len(toClient'[c]) = Len(toClient[c]) + 2
                 /\ toClient'[c][Len(toClient[c]) + 1] = "results"
                 /\ i > Len(toClient[c])
              \/ /\ i + 1 \in 1..Len(toClient[c]) /\ toClient'[c][i] = toClient[c][i + 1]
                 /\ toClient[c] # << >> /\ toClient'[c] = Tail(toClient[c])
                 /\ Head(toClient[c]) \in Ends => c \in clientGot' \/ Gone(c)'
<1>. DEFINE s == toClient[c]  t == toClient'[c]
<1>1. s \in Seq(Messages) /\ Len(s) \in Nat
  BY LenProperties DEF TypeOK
<1>2. CASE t = s
  BY <1>2
<1>3. ASSUME NEW m \in Seq(Messages \ Ends), t = s \o m
      PROVE  /\ \A i \in 1..Len(t) : t[i] \in Ends => i \in 1..Len(s)
             /\ \A j \in 1..Len(s) : t[j] = s[j]
  <2>1. m \in Seq(Messages) /\ \A j \in 1..Len(m) : m[j] \notin Ends
    BY <1>3, ElementOfSeq
  <2>. QED  BY <1>1, <1>3, <2>1, ChannelParts
<1>4. CASE c \in serverGot' /\ t = s \o <<"results", "DISPLAY_RESULTS">>
  <2>. DEFINE m == <<"results", "DISPLAY_RESULTS">>
  <2>1. m \in Seq(Messages) /\ Len(m) = 2 /\ m[1] = "results"
    BY DEF Messages, States
  <2>2. Len(t) = Len(s) + 2 /\ t[Len(s) + 1] = "results"
    BY <1>1, <1>4, <2>1, ChannelParts
  <2>3. \A i \in 1..Len(s) : t[i] = s[i]
    BY <1>1, <1>4, <2>1, ChannelParts
  <2>. QED  BY <1>1, <1>4, <2>2, <2>3
<1>5. CASE /\ s # << >> /\ t = Tail(s)
           /\ Head(s) = "DISPLAY_RESULTS" => Gone(c)'
           /\ Head(s) = "results" => c \in clientGot' \/ Gone(c)'
  <2>1. Len(t) = Len(s) - 1 /\ \A i \in 1..Len(t) : t[i] = s[i + 1]
    BY <1>1, <1>5, TailParts
  <2>2. Head(s) \in Ends => c \in clientGot' \/ Gone(c)'
    BY <1>5 DEF Ends
  <2>. QED  BY <1>1, <1>5, <2>1, <2>2
<1>. QED  BY <1>2, <1>3, <1>4, <1>5 DEF ChannelStep

(* What every step keeps: results are only ever gained, and a process that *)
(* ended stays ended.                                                      *)
LEMMA Moves ==
    ASSUME TypeOK, Next
    PROVE  /\ serverGot \subseteq serverGot' /\ clientGot \subseteq clientGot'
           /\ \A c \in Clients :
                 /\ ChannelStep(c)
                 /\ Gone(c) => cpc'[c] = cpc[c]
                 /\ cpc'[c] = "ok" => \/ cpc[c] = "ok"
                                      \/ /\ ~Gone(c) /\ toClient[c] # << >>
                                         /\ Head(toClient[c]) = "DISPLAY_RESULTS"
<1>1. CASE ServerStep \/ ServerTimeout \/ ServerSigend
  BY <1>1, ServerMoves DEF ServerMove
<1>2. ASSUME NEW d \in Clients, ClientStep(d) \/ ClientSigend(d) \/ ClientTimeout(d)
      PROVE  /\ serverGot \subseteq serverGot' /\ clientGot \subseteq clientGot'
             /\ \A c \in Clients :
                   /\ ChannelStep(c)
                   /\ Gone(c) => cpc'[c] = cpc[c]
                   /\ cpc'[c] = "ok" => \/ cpc[c] = "ok"
                                        \/ /\ ~Gone(c) /\ toClient[c] # << >>
                                           /\ Head(toClient[c]) = "DISPLAY_RESULTS"
  BY <1>2, ClientMoves DEF ClientMove
<1>. QED  BY <1>1, <1>2 DEF Next

LEMMA InvInit == Init => IInv
<1>. SUFFICES ASSUME Init PROVE IInv
  OBVIOUS
<1>1. \A c \in Clients : toClient[c] = << >> /\ cpc[c] = "start"
  BY DEF Init
<1>. QED  BY <1>1, TypeInit DEF IInv, ResultsAreAnswers, ResultsComeFirst, SuccessIsMutual

(* Every step keeps the invariant.                                         *)
LEMMA InvNext == IInv /\ [Next]_vars => IInv'
<1>. SUFFICES ASSUME IInv, [Next]_vars PROVE IInv'
  OBVIOUS
<1>0. TypeOK /\ TypeOK' /\ ResultsAreAnswers /\ ResultsComeFirst /\ SuccessIsMutual
  BY TypeNext DEF IInv
<1>1. CASE UNCHANGED vars
  BY <1>0, <1>1 DEF vars, options, clientVars, serverVars, netVars, IInv, ResultsAreAnswers,
                    ResultsComeFirst, SuccessIsMutual, Gone
<1>2. CASE Next
  <2>1. ResultsAreAnswers'
    <3>. SUFFICES ASSUME NEW c \in Clients, NEW i \in 1..Len(toClient'[c]),
                         toClient'[c][i] \in Ends
                  PROVE  c \in serverGot'
      BY DEF ResultsAreAnswers
    <3>. QED  BY <1>0, <1>2, ChannelCases, Moves DEF ResultsAreAnswers
  <2>2. ResultsComeFirst'
    <3>. SUFFICES ASSUME NEW c \in Clients, ~Gone(c)', c \notin clientGot',
                         NEW i \in 1..Len(toClient'[c]), toClient'[c][i] = "DISPLAY_RESULTS"
                  PROVE  \E j \in 1..(i - 1) : toClient'[c][j] = "results"
      BY DEF ResultsComeFirst
    <3>1. toClient[c] \in Seq(Messages) /\ toClient'[c] \in Seq(Messages)
      BY <1>0 DEF TypeOK
    <3>2. ~Gone(c) /\ c \notin clientGot /\ ChannelStep(c) /\ toClient'[c][i] \in Ends
      BY <1>0, <1>2, Moves DEF Gone, Ends
    <3>3. \A k \in 1..Len(toClient[c]) : toClient[c][k] = "DISPLAY_RESULTS" =>
              \E j \in 1..(k - 1) : toClient[c][j] = "results"
      BY <1>0, <3>2 DEF ResultsComeFirst
    <3>. DEFINE s == toClient[c]  t == toClient'[c]
    <3>4. Len(s) \in Nat /\ Len(t) \in Nat
      BY <3>1, LenProperties
    <3>5. CASE i \in 1..Len(s) /\ \A j \in 1..Len(s) : t[j] = s[j]
      <4>1. PICK j \in 1..(i - 1) : s[j] = "results"
        BY <3>3, <3>5
      <4>. QED  BY <3>4, <3>5, <4>1
    <3>6. CASE /\ Len(t) = Len(s) + 2 /\ t[Len(s) + 1] = "results" /\ i > Len(s)
      <4>1. i # Len(s) + 1
        BY <3>6
      <4>2. Len(s) + 1 \in 1..(i - 1)
        BY <3>4, <3>6, <4>1
      <4>. QED  BY <3>6, <4>2
    <3>7. CASE /\ i + 1 \in 1..Len(s) /\ t[i] = s[i + 1] /\ s # << >> /\ t = Tail(s)
               /\ Head(s) \in Ends => c \in clientGot' \/ Gone(c)'
      <4>1. PICK j \in 1..i : s[j] = "results"
        BY <3>3, <3>7
      <4>2. /\ Len(t) = Len(s) - 1 /\ Head(s) = s[1]
            /\ \A k \in 1..Len(t) : t[k] = s[k + 1]
        BY <3>1, <3>7, TailParts
      <4>3. j # 1
        BY <3>7, <4>1, <4>2 DEF Ends
      <4>4. j - 1 \in 1..(i - 1) /\ j - 1 \in 1..Len(t)
        BY <3>4, <3>7, <4>1, <4>2, <4>3
      <4>5. t[j - 1] = s[(j - 1) + 1]
        BY <4>2, <4>4
      <4>. QED  BY <4>1, <4>4, <4>5
    <3>. QED  BY <1>0, <3>2, <3>5, <3>6, <3>7, ChannelCases
  <2>3. SuccessIsMutual'
    <3>. SUFFICES ASSUME NEW c \in Clients, cpc'[c] = "ok"
                  PROVE  c \in serverGot' /\ c \in clientGot'
      BY DEF SuccessIsMutual
    <3>1. CASE cpc[c] = "ok"
      BY <1>0, <1>2, <3>1, Moves DEF SuccessIsMutual
    <3>2. CASE ~Gone(c) /\ toClient[c] # << >> /\ Head(toClient[c]) = "DISPLAY_RESULTS"
      <4>1. 1 \in 1..Len(toClient[c]) /\ toClient[c][1] = "DISPLAY_RESULTS"
        BY <1>0, <3>2, TailParts DEF TypeOK
      <4>2. c \in serverGot
        BY <1>0, <4>1 DEF ResultsAreAnswers, Ends
      <4>3. c \in clientGot
        BY <1>0, <3>2, <4>1 DEF ResultsComeFirst
      <4>. QED  BY <1>0, <1>2, <4>2, <4>3, Moves
    <3>. QED  BY <1>0, <1>2, <3>1, <3>2, Moves
  <2>. QED  BY <1>0, <2>1, <2>2, <2>3 DEF IInv
<1>. QED  BY <1>1, <1>2

(* A client that reports success has the server's results, and the server  *)
(* has its, for every number of clients, streams and faults.               *)
THEOREM SuccessIsMutualAlways == Spec => []SuccessIsMutual
<1>1. IInv => SuccessIsMutual
  BY DEF IInv
<1>. QED  BY <1>1, InvInit, InvNext, PTL DEF Spec

-----------------------------------------------------------------------------
(* Refinement: each step of iperf3 is a step of IperfTest or stutters.     *)
LEMMA OwnerOf == TypeOK => /\ ctrl # None => ctrl \in Connection /\ Owner = ctrl[1] /\ Owner \in Clients
                           /\ ctrl = None <=> Owner = None
BY NoneAssumption DEF TypeOK, Owner, Connection

LEMMA StepRefines == IInv /\ [Next]_vars => [Test!Next]_(Test!vars)
<1>. SUFFICES ASSUME IInv, [Next]_vars PROVE [Test!Next]_(Test!vars)
  OBVIOUS
<1>. USE DEF Test!vars, Test!Next
<1>0. TypeOK /\ TypeOK' /\ ResultsAreAnswers
  BY TypeNext DEF IInv
<1>1. CASE UNCHANGED vars
  BY <1>1 DEF vars, options, clientVars, serverVars, netVars, Owner, Phase, Gone
<1>2. CASE ServerStep \/ ServerTimeout \/ ServerSigend
  <2>1. ServerMove
    BY <1>0, <1>2, ServerMoves
  <2>2. cpc' = cpc /\ \A c \in Clients : Gone(c)' <=> Gone(c)
    BY <2>1 DEF ServerMove, Gone
  <2>3. UNCHANGED serverGot => Phase' = Phase
    BY <2>2 DEF Phase
  <2>4. CASE UNCHANGED <<ctrl, serverGot>>
    BY <2>3, <2>4 DEF Owner
  <2>5. CASE ctrl = None /\ ctrl' \in Connection /\ UNCHANGED serverGot
    <3>1. Owner = None /\ Owner' \in Clients
      BY <1>0, <2>5, NoneAssumption DEF Owner, Connection
    <3>. QED  BY <2>3, <2>5, <3>1 DEF Test!Take
  <2>6. CASE ctrl' = None /\ \A c \in serverGot' \ serverGot : Gone(c)
    <3>1. Phase' = Phase
      <4>1. \A c \in Clients : ~Gone(c) => (c \in serverGot' <=> c \in serverGot)
        BY <2>1, <2>6 DEF ServerMove
      <4>2. \A c \in Clients :
               (IF Gone(c)' THEN cpc'[c] ELSE IF c \in serverGot' THEN "agreed" ELSE "running")
               = IF Gone(c) THEN cpc[c] ELSE IF c \in serverGot THEN "agreed" ELSE "running"
        BY <2>2, <4>1
      <4>. QED  BY <4>2 DEF Phase
    <3>2. Owner' = None
      BY <2>6 DEF Owner
    <3>. QED  BY <3>1, <3>2 DEF Test!Release
  <2>7. CASE ctrl # None /\ UNCHANGED ctrl /\ serverGot' = serverGot \cup {ctrl[1]}
    <3>. DEFINE c == ctrl[1]
    <3>1. Owner = c /\ Owner' = Owner /\ c \in Clients
      BY <1>0, <2>7, OwnerOf DEF Owner
    <3>2. CASE Gone(c) \/ c \in serverGot
      <4>1. \A d \in Clients :
               (IF Gone(d)' THEN cpc'[d] ELSE IF d \in serverGot' THEN "agreed" ELSE "running")
               = IF Gone(d) THEN cpc[d] ELSE IF d \in serverGot THEN "agreed" ELSE "running"
        BY <2>2, <2>7, <3>2
      <4>. QED  BY <3>1, <4>1 DEF Phase
    <3>3. CASE ~Gone(c) /\ c \notin serverGot
      <4>1. Phase[c] = "running" /\ c \in serverGot'
        BY <2>7, <3>1, <3>3 DEF Phase
      <4>2. Phase' = [Phase EXCEPT ![c] = "agreed"]
        BY <2>2, <2>7, <3>1, <3>3 DEF Phase
      <4>. QED  BY <3>1, <4>1, <4>2 DEF Test!Agree
    <3>. QED  BY <3>2, <3>3
  <2>. QED  BY <2>1, <2>4, <2>5, <2>6, <2>7 DEF ServerMove
<1>3. ASSUME NEW d \in Clients, ClientStep(d) \/ ClientSigend(d) \/ ClientTimeout(d)
      PROVE  [Test!Next]_(Test!vars)
  <2>1. ClientMove(d)
    BY <1>0, <1>3, ClientMoves
  <2>2. Owner' = Owner /\ serverGot' = serverGot /\ ~Gone(d)
    BY <2>1 DEF ClientMove, Owner
  <2>3. \A c \in Clients : c # d => cpc'[c] = cpc[c] /\ (Gone(c)' <=> Gone(c))
    BY <2>1 DEF ClientMove, Gone
  <2>4. CASE ~Gone(d)'
    BY <2>2, <2>3, <2>4 DEF Phase
  <2>5. CASE Gone(d)'
    <3>1. Phase' = [Phase EXCEPT ![d] = cpc'[d]] /\ Phase[d] \in {"running", "agreed"}
      BY <2>2, <2>3, <2>5 DEF Phase
    <3>2. CASE cpc'[d] = "failed"
      BY <2>2, <3>1, <3>2 DEF Test!Fail
    <3>3. CASE cpc'[d] = "ok"
      <4>1. 1 \in 1..Len(toClient[d]) /\ toClient[d][1] = "DISPLAY_RESULTS"
        BY <1>0, <2>1, <3>3, TailParts DEF TypeOK, ClientMove
      <4>2. Phase[d] = "agreed"
        BY <1>0, <2>2, <4>1 DEF ResultsAreAnswers, Ends, Phase
      <4>. QED  BY <2>2, <3>1, <3>3, <4>2 DEF Test!Succeed
    <3>. QED  BY <2>5, <3>2, <3>3 DEF Gone, Final
  <2>. QED  BY <2>4, <2>5
<1>. QED  BY <1>1, <1>2, <1>3 DEF Next

LEMMA InitRefines == Init => Test!Init
BY DEF Init, Test!Init, Owner, Phase, Gone, Final

(* iperf3 gives its server to one client at a time, and its clients report *)
(* success only for a test both sides agree on.                            *)
THEOREM IperfControlImplementsIperfTest == Spec => ImplementsIperfTest
BY InvInit, InvNext, InitRefines, StepRefines, PTL DEF Spec, ImplementsIperfTest, Test!Spec

-----------------------------------------------------------------------------
(* Streams and strangers.  A second inductive invariant: first what the    *)
(* listener's queue holds, in four parts.                                  *)

(* The connections of each client come in the order it made them; none is  *)
(* there before the client connected, nor one made before ctrl_sck.        *)
Ordered(s) ==
    \A i, j \in 1..Len(s) : i < j /\ s[i][1] = s[j][1] => s[i][2] < s[j][2]
InOrder ==
    /\ Ordered(backlog)
    /\ \A k \in Range(backlog) :
          /\ cpc[k[1]] # "start"
          /\ k[2] <= opened[k[1]]
          /\ ctrl # None /\ ctrl[1] = k[1] => ctrl[2] < k[2]
    /\ ctrl # None => cpc[ctrl[1]] # "start" /\ ctrl[2] <= opened[ctrl[1]]

(* A client whose parameters the server has not read has made no stream,   *)
(* and has not been asked to (Invites).                                    *)
Invites == {c \in Clients : "CREATE_STREAMS" \in Range(toClient[c])}
Unserved(c) ==
    \/ cpc[c] = "start"
    \/ <<c, 0>> \in Range(backlog)
    \/ Controls(c) /\ spc = "params"
NotInvited ==
    \A c \in Clients : Unserved(c) =>
        /\ opened[c] = 0
        /\ cpc[c] \notin {"streams", "reply"}
        /\ c \notin Invites
        /\ \A k \in replied \cup Range(datagrams) : k[1] # c

(* While a TCP test creates its streams, those the client has made are the *)
(* accepted ones and those in the queue.                                   *)
NoGap ==
    sstate = "CREATE_STREAMS" /\ protocol[ctrl[1]] = "tcp" =>
        /\ Len(streams) <= opened[ctrl[1]]
        /\ \A n \in 1..opened[ctrl[1]] : n > Len(streams) => <<ctrl[1], n>> \in Range(backlog)
        /\ \A k \in Range(backlog) : k[1] = ctrl[1] => k[2] > Len(streams)

(* When the server's sockets are open, and who waits for a UDP reply.      *)
Sockets ==
    /\ \A c \in Clients : cpc[c] = "reply" => protocol[c] = "udp"
    /\ ctrl = None \/ spc = "params" => streams = << >> /\ datagrams = << >>
    /\ spc = "params" => sstate = "PARAM_EXCHANGE"
    /\ ctrl # None /\ ctrl[2] # 0 => spc = "params"
    /\ sstate = "CREATE_STREAMS" => spc = "select"

(* Then where a client and the server are, seen together.  The client the  *)
(* server has not taken waits, has been turned away, or is done.           *)
Quiet(c) == toServer[c] = << >> /\ toClient[c] = << >>
Outside(c) ==
    /\ ~Controls(c)
    /\ \/ cpc[c] \in {"start", "select"} /\ cstate[c] = "0" /\ Quiet(c)
       \/ /\ ~Held(<<c, 0>>)
          /\ \/ /\ cpc[c] = "select" /\ cstate[c] = "0"
                /\ toServer[c] = << >> /\ toClient[c] = <<"ACCESS_DENIED">>
             \/ cpc[c] = "failed" /\ cstate[c] \in {"0", "ACCESS_DENIED"}
             \/ cpc[c] = "ok"

(* The client the server has taken: server and client are in step.         *)
At(c, place, state, sent, coming) ==
    cpc[c] = place /\ cstate[c] = state /\ toServer[c] = sent /\ toClient[c] = coming

Exchanging(c) ==
    /\ spc = "params" /\ sstate = "PARAM_EXCHANGE"
    /\ \/ At(c, "select", "0", << >>, <<"PARAM_EXCHANGE">>)
       \/ At(c, "select", "PARAM_EXCHANGE", <<"params">>, << >>)

Creating(c) ==
    /\ spc = "select" /\ sstate = "CREATE_STREAMS"
    /\ \/ /\ At(c, "select", "PARAM_EXCHANGE", << >>, <<"CREATE_STREAMS">>)
          /\ opened[c] = 0 /\ streams = << >> /\ datagrams = << >>
       \/ /\ At(c, "streams", "CREATE_STREAMS", << >>, << >>)
          /\ opened[c] < Total(c)
          /\ protocol[c] = "udp" => Len(streams) = opened[c] /\ datagrams = << >>
       \/ /\ At(c, "reply", "CREATE_STREAMS", << >>, << >>)
          /\ protocol[c] = "udp" /\ opened[c] < Total(c)
          /\ \/ Len(streams) = opened[c] /\ datagrams = <<<<c, opened[c] + 1>>>>
             \/ /\ Len(streams) = opened[c] + 1 /\ opened[c] + 1 < Total(c)
                /\ datagrams = << >> /\ <<c, opened[c] + 1>> \in replied
       \/ /\ At(c, "select", "CREATE_STREAMS", << >>, << >>)
          /\ protocol[c] = "tcp" /\ opened[c] = Total(c)
    /\ protocol[c] = "udp" => \A k \in replied : k[1] = c => k[2] <= Len(streams)

Testing(c) ==
    /\ spc = "select" /\ sstate = "TEST_RUNNING"
    /\ \/ /\ At(c, "reply", "CREATE_STREAMS", << >>, <<"TEST_START", "TEST_RUNNING">>)
          /\ opened[c] + 1 = Total(c) /\ <<c, opened[c] + 1>> \in replied
       \/ At(c, "select", "CREATE_STREAMS", << >>, <<"TEST_START", "TEST_RUNNING">>)
       \/ At(c, "select", "TEST_START", << >>, <<"TEST_RUNNING">>)
       \/ At(c, "select", "TEST_RUNNING", << >>, << >>)
       \/ At(c, "select", "TEST_END", <<"TEST_END">>, << >>)

Finishing(c) ==
    /\ spc = "results" /\ sstate = "EXCHANGE_RESULTS"
    /\ \/ At(c, "select", "TEST_END", << >>, <<"EXCHANGE_RESULTS">>)
       \/ At(c, "results", "EXCHANGE_RESULTS", <<"results">>, << >>)

Displaying(c) ==
    /\ spc = "select" /\ sstate = "DISPLAY_RESULTS"
    /\ \/ At(c, "results", "EXCHANGE_RESULTS", << >>, <<"results", "DISPLAY_RESULTS">>)
       \/ At(c, "select", "EXCHANGE_RESULTS", << >>, <<"DISPLAY_RESULTS">>)
       \/ At(c, "ok", "IPERF_DONE", <<"IPERF_DONE">>, << >>)

Inside(c) ==
    /\ Controls(c)
    /\ Exchanging(c) \/ Creating(c) \/ Testing(c) \/ Finishing(c) \/ Displaying(c)

(* Without faults every client is in step, except that a denied stranger   *)
(* ends a TCP test with a type of service.                                 *)
Undisturbed(c) == faults = 0 /\ (protocol[c] = "udp" \/ ~Tos)
InStep == \A c \in Clients : Undisturbed(c) => Outside(c) \/ Inside(c)

StreamsInv ==
    TypeOK /\ InOrder /\ NotInvited /\ NoGap /\ Sockets /\ InStep /\ StreamsArePaired

-----------------------------------------------------------------------------
(* Queues                                                                  *)
LEMMA RangeParts ==
    ASSUME NEW S, NEW s \in Seq(S)
    PROVE  /\ Range(<< >>) = {}
           /\ Range(s) \subseteq S
           /\ \A i \in 1..Len(s) : s[i] \in Range(s)
           /\ \A x \in S : Range(Append(s, x)) = Range(s) \cup {x}
           /\ s # << >> => Head(s) \in S /\ Range(s) = {Head(s)} \cup Range(Tail(s))
<1>. USE DEF Range
<1>1. Len(s) \in Nat /\ DOMAIN s = 1..Len(s) /\ \A i \in 1..Len(s) : s[i] \in S
  BY LenProperties, ElementOfSeq
<1>2. Range(<< >>) = {}
  BY EmptySeq
<1>3. ASSUME NEW x \in S  PROVE Range(Append(s, x)) = Range(s) \cup {x}
  <2>. DEFINE t == Append(s, x)
  <2>1. /\ Len(t) = Len(s) + 1 /\ DOMAIN t = 1..Len(t) /\ t[Len(s) + 1] = x
        /\ \A i \in 1..Len(s) : t[i] = s[i]
    BY <1>1, AppendProperties, LenProperties
  <2>. QED  BY <1>1, <2>1
<1>4. ASSUME s # << >>  PROVE Head(s) \in S /\ Range(s) = {Head(s)} \cup Range(Tail(s))
  <2>. DEFINE t == Tail(s)
  <2>1. /\ Head(s) = s[1] /\ Len(s) >= 1 /\ Len(t) = Len(s) - 1 /\ DOMAIN t = 1..Len(t)
        /\ \A i \in 1..Len(t) : t[i] = s[i + 1]
    BY <1>1, <1>4, HeadTailProperties, LenProperties, EmptySeq
  <2>2. ASSUME NEW i \in 1..Len(s), i # 1  PROVE s[i] \in Range(t)
    <3>1. i - 1 \in 1..Len(t) /\ (i - 1) + 1 = i
      BY <1>1, <2>1, <2>2
    <3>. QED  BY <2>1, <3>1
  <2>3. Range(t) \subseteq Range(s) /\ Head(s) \in Range(s)
    <3>1. \A i \in 1..Len(t) : i + 1 \in 1..Len(s)
      BY <1>1, <2>1
    <3>. QED  BY <1>1, <2>1, <3>1
  <2>4. Range(s) \subseteq {Head(s)} \cup Range(t)
    BY <1>1, <2>1, <2>2
  <2>. QED  BY <1>1, <2>1, <2>3, <2>4
<1>. QED  BY <1>1, <1>2, <1>3, <1>4

LEMMA RangeAppend ==
    \A s \in Seq(Connection), d \in Clients, n \in Nat :
        Range(Append(s, <<d, n>>)) = Range(s) \cup {<<d, n>>}
<1>. SUFFICES ASSUME NEW s \in Seq(Connection), NEW d \in Clients, NEW n \in Nat
              PROVE  Range(Append(s, <<d, n>>)) = Range(s) \cup {<<d, n>>}
  OBVIOUS
<1>1. <<d, n>> \in Connection
  BY DEF Connection
<1>. QED  BY <1>1, RangeParts

LEMMA OrderedParts ==
    ASSUME NEW s \in Seq(Connection), Ordered(s)
    PROVE  /\ Ordered(<< >>)
           /\ \A x \in Connection :
                 (\A k \in Range(s) : k[1] = x[1] => k[2] < x[2]) => Ordered(Append(s, x))
           /\ s # << >> => /\ Ordered(Tail(s))
                           /\ \A k \in Range(Tail(s)) : k[1] = Head(s)[1] => Head(s)[2] < k[2]
<1>1. Len(s) \in Nat /\ \A i \in 1..Len(s) : s[i] \in Range(s)
  BY LenProperties, RangeParts
<1>2. Ordered(<< >>)
  BY EmptySeq DEF Ordered
<1>3. ASSUME NEW x \in Connection, \A k \in Range(s) : k[1] = x[1] => k[2] < x[2]
      PROVE  Ordered(Append(s, x))
  <2>1. /\ Len(Append(s, x)) = Len(s) + 1 /\ Append(s, x)[Len(s) + 1] = x
        /\ \A i \in 1..Len(s) : Append(s, x)[i] = s[i]
    BY AppendProperties
  <2>2. ASSUME NEW i \in 1..(Len(s) + 1), NEW j \in 1..(Len(s) + 1), i < j,
               Append(s, x)[i][1] = Append(s, x)[j][1]
        PROVE  Append(s, x)[i][2] < Append(s, x)[j][2]
    <3>1. i \in 1..Len(s)
      BY <1>1, <2>2
    <3>2. CASE j \in 1..Len(s)
      BY <2>1, <2>2, <3>1, <3>2 DEF Ordered
    <3>3. CASE j = Len(s) + 1
      BY <1>1, <1>3, <2>1, <2>2, <3>1, <3>3
    <3>. QED  BY <1>1, <3>2, <3>3
  <2>. QED  BY <2>1, <2>2 DEF Ordered
<1>4. ASSUME s # << >>
      PROVE  /\ Ordered(Tail(s))
             /\ \A k \in Range(Tail(s)) : k[1] = Head(s)[1] => Head(s)[2] < k[2]
  <2>1. /\ Head(s) = s[1] /\ Len(s) >= 1 /\ Len(Tail(s)) = Len(s) - 1
        /\ DOMAIN Tail(s) = 1..Len(Tail(s))
        /\ \A i \in 1..Len(Tail(s)) : Tail(s)[i] = s[i + 1]
    BY <1>1, <1>4, HeadTailProperties, LenProperties, EmptySeq
  <2>2. \A i \in 1..Len(Tail(s)) : i + 1 \in 1..Len(s) /\ 1 < i + 1 /\ 1 \in 1..Len(s)
    BY <1>1, <2>1
  <2>3. Ordered(Tail(s))
    BY <1>1, <2>1, <2>2 DEF Ordered
  <2>4. ASSUME NEW k \in Range(Tail(s)), k[1] = Head(s)[1]  PROVE Head(s)[2] < k[2]
    <3>1. PICK i \in 1..Len(Tail(s)) : k = s[i + 1]
      BY <2>1 DEF Range
    <3>. QED  BY <2>1, <2>2, <2>4, <3>1 DEF Ordered
  <2>. QED  BY <2>3, <2>4
<1>. QED  BY <1>2, <1>3, <1>4

-----------------------------------------------------------------------------
(* What a step of the server does to the connections, and what it says.    *)
ServerWork ==
    /\ UNCHANGED <<protocol, mode, cpc, cstate, opened>>
    /\ \/ UNCHANGED <<ctrl, backlog>>
       \/ UNCHANGED ctrl /\ backlog' = << >>
       \/ UNCHANGED ctrl /\ backlog # << >> /\ backlog' = Tail(backlog)
       \/ ctrl' = None /\ backlog' = << >> /\ spc' # "params"
       \/ /\ ctrl = None /\ backlog # << >>
          /\ ctrl' = Head(backlog) /\ backlog' = Tail(backlog)
    /\ ctrl' = ctrl /\ spc' = "params" => spc = "params"
    /\ replied' \cup Range(datagrams') \subseteq replied \cup Range(datagrams)
    /\ \/ Invites' \subseteq Invites
       \/ /\ UNCHANGED ctrl /\ ctrl # None /\ ctrl[2] = 0 /\ spc = "params" /\ spc' = "select"
          /\ Invites' \subseteq Invites \cup {ctrl[1]}

(* And a step of a client d.                                               *)
ClientWork(d) ==
    /\ UNCHANGED <<protocol, mode, spc, sstate, ctrl, streams, replied>>
    /\ \A c \in Clients \ {d} :
          /\ cpc'[c] = cpc[c] /\ cstate'[c] = cstate[c] /\ opened'[c] = opened[c]
          /\ toServer'[c] = toServer[c] /\ toClient'[c] = toClient[c]
    /\ cpc'[d] # "start"
    /\ \/ opened'[d] = opened[d]
       \/ cpc[d] \in {"streams", "reply"} /\ opened'[d] = opened[d] + 1
    /\ \/ cpc'[d] \notin {"streams", "reply"}
       \/ cpc[d] \in {"streams", "reply"}
       \/ d \in Invites
    /\ Invites' \subseteq Invites
    /\ \/ backlog' = backlog
       \/ cpc[d] = "start" /\ UNCHANGED opened /\ backlog' = Append(backlog, <<d, 0>>)
       \/ /\ cpc[d] = "streams" /\ opened'[d] = opened[d] + 1
          /\ backlog' = Append(backlog, <<d, opened[d] + 1>>)
    /\ cpc[d] = "streams" /\ opened'[d] # opened[d] => backlog' = Append(backlog, <<d, opened[d] + 1>>)
    /\ cpc'[d] = "reply" => protocol[d] = "udp"
    /\ \/ datagrams' = datagrams
       \/ /\ cpc[d] = "streams" /\ protocol[d] = "udp" /\ UdpListening
          /\ datagrams' = Append(datagrams, <<d, opened[d] + 1>>)

LEMMA BacklogType ==
    TypeOK => /\ backlog \in Seq(Connection) /\ datagrams \in Seq(Connection)
              /\ ctrl # None => ctrl \in Connection /\ ctrl[1] \in Clients /\ ctrl[2] \in Nat
              /\ \A k \in Connection : k[1] \in Clients /\ k[2] \in Nat /\ k # None
              /\ \A c \in Clients : opened[c] \in Nat /\ <<c, opened[c] + 1>> \in Connection
BY NoneAssumption DEF TypeOK, Connection

LEMMA RangeConcat ==
    ASSUME NEW S, NEW s \in Seq(S), NEW t \in Seq(S)
    PROVE  Range(s \o t) = Range(s) \cup Range(t)
<1>1. /\ Len(s) \in Nat /\ Len(t) \in Nat /\ Len(s \o t) = Len(s) + Len(t)
      /\ DOMAIN s = 1..Len(s) /\ DOMAIN t = 1..Len(t) /\ DOMAIN (s \o t) = 1..(Len(s) + Len(t))
      /\ \A i \in 1..(Len(s) + Len(t)) :
            (s \o t)[i] = IF i <= Len(s) THEN s[i] ELSE t[i - Len(s)]
  BY ConcatProperties, LenProperties
<1>2. ASSUME NEW i \in 1..(Len(s) + Len(t))  PROVE (s \o t)[i] \in Range(s) \cup Range(t)
  <2>1. i <= Len(s) => i \in 1..Len(s)
    BY <1>1
  <2>2. ~(i <= Len(s)) => i - Len(s) \in 1..Len(t)
    BY <1>1
  <2>. QED  BY <1>1, <2>1, <2>2 DEF Range
<1>3. ASSUME NEW i \in 1..Len(s)  PROVE s[i] \in Range(s \o t)
  <2>1. i \in 1..(Len(s) + Len(t)) /\ i <= Len(s)
    BY <1>1
  <2>. QED  BY <1>1, <2>1 DEF Range
<1>4. ASSUME NEW i \in 1..Len(t)  PROVE t[i] \in Range(s \o t)
  <2>1. /\ Len(s) + i \in 1..(Len(s) + Len(t)) /\ ~(Len(s) + i <= Len(s))
        /\ (Len(s) + i) - Len(s) = i
    BY <1>1
  <2>. QED  BY <1>1, <2>1 DEF Range
<1>. QED  BY <1>1, <1>2, <1>3, <1>4 DEF Range

LEMMA RangeOf ==
    /\ \A x : Range(<<x>>) = {x}
    /\ \A x, y : Range(<<x, y>>) = {x, y}
<1>1. ASSUME NEW x  PROVE Range(<<x>>) = {x}
  BY DEF Range
<1>2. ASSUME NEW x, NEW y  PROVE Range(<<x, y>>) = {x, y}
  <2>1. DOMAIN <<x, y>> = {1, 2}
    OBVIOUS
  <2>. QED  BY <2>1 DEF Range
<1>. QED  BY <1>1, <1>2

(* Messages other than CREATE_STREAMS invite nobody.                       *)
LEMMA AnswerInvites ==
    ASSUME TypeOK, NEW c \in Clients, NEW m \in Seq(Messages), Answer(c, m),
           "CREATE_STREAMS" \notin Range(m)
    PROVE  Invites' \subseteq Invites
<1>1. toClient[c] \in Seq(Messages)
  BY DEF TypeOK
<1>2. Range(toClient'[c]) = Range(toClient[c]) \cup Range(m)
  BY <1>1, RangeConcat DEF Answer, TypeOK
<1>3. \A d \in Clients \ {c} : toClient'[d] = toClient[d]
  BY DEF Answer, TypeOK
<1>. QED  BY <1>2, <1>3 DEF Invites

LEMMA AnswerOnInvites ==
    ASSUME TypeOK, NEW k \in Connection, NEW m \in Seq(Messages), AnswerOn(k, m),
           "CREATE_STREAMS" \notin Range(m)
    PROVE  Invites' \subseteq Invites
BY AnswerInvites, BacklogType DEF AnswerOn, Invites

LEMMA Says ==
    /\ <<"PARAM_EXCHANGE">> \in Seq(Messages) /\ "CREATE_STREAMS" \notin Range(<<"PARAM_EXCHANGE">>)
    /\ <<"ACCESS_DENIED">> \in Seq(Messages) /\ "CREATE_STREAMS" \notin Range(<<"ACCESS_DENIED">>)
    /\ <<"SERVER_ERROR">> \in Seq(Messages) /\ "CREATE_STREAMS" \notin Range(<<"SERVER_ERROR">>)
    /\ <<"SERVER_TERMINATE">> \in Seq(Messages) /\ "CREATE_STREAMS" \notin Range(<<"SERVER_TERMINATE">>)
    /\ <<"EXCHANGE_RESULTS">> \in Seq(Messages) /\ "CREATE_STREAMS" \notin Range(<<"EXCHANGE_RESULTS">>)
    /\ <<"TEST_START", "TEST_RUNNING">> \in Seq(Messages)
    /\ "CREATE_STREAMS" \notin Range(<<"TEST_START", "TEST_RUNNING">>)
    /\ <<"results", "DISPLAY_RESULTS">> \in Seq(Messages)
    /\ "CREATE_STREAMS" \notin Range(<<"results", "DISPLAY_RESULTS">>)
    /\ <<"CREATE_STREAMS">> \in Seq(Messages)
BY RangeOf, MessageSeqs DEF Messages, States

LEMMA AddStreamWorks ==
    ASSUME TypeOK, NEW k, AddStream(k), sstate = "CREATE_STREAMS", spc = "select",
           UNCHANGED <<protocol, mode, cpc, cstate, opened>>,
           protocol[ctrl[1]] # "udp" => backlog # << >>,
           protocol[ctrl[1]] = "udp" => datagrams # << >>,
           replied' \subseteq replied \cup Range(datagrams)
    PROVE  ServerWork
<1>1. ctrl \in Connection /\ ctrl[1] \in Clients
  BY BacklogType DEF TypeOK
<1>2. \/ backlog' = backlog
      \/ backlog' = << >>
      \/ backlog # << >> /\ backlog' = Tail(backlog)
  BY DEF AddStream
<1>3. Range(datagrams') \subseteq Range(datagrams)
  <2>1. \/ datagrams' = datagrams \/ datagrams' = << >>
        \/ datagrams # << >> /\ datagrams' = Tail(datagrams)
    BY DEF AddStream
  <2>2. /\ Range(<< >>) = {}
        /\ datagrams # << >> => Range(datagrams) = {Head(datagrams)} \cup Range(Tail(datagrams))
    BY BacklogType, RangeParts
  <2>. QED  BY <2>1, <2>2
<1>4. Invites' \subseteq Invites
  BY <1>1, Says, AnswerInvites DEF AddStream, Invites
<1>. QED  BY <1>2, <1>3, <1>4 DEF ServerWork, AddStream

LEMMA ServerWorks ==
    ASSUME TypeOK, Sockets, ServerStep \/ ServerTimeout \/ ServerSigend
    PROVE  ServerWork
<1>. USE DEF options, clientVars, serverVars, netVars
<1>1. /\ datagrams \in Seq(Connection) /\ backlog \in Seq(Connection)
      /\ ctrl # None => ctrl \in Connection /\ ctrl[1] \in Clients
  BY BacklogType
<1>2. ServerReturns => /\ ctrl' = None /\ backlog' = << >> /\ datagrams' = << >> /\ spc' = "closed"
                       /\ Range(datagrams') = {}
  BY <1>1, RangeParts DEF ServerReturns
<1>3. ASSUME ServerReturns, UNCHANGED <<protocol, mode, cpc, cstate, opened, replied>>,
             Invites' \subseteq Invites
      PROVE  ServerWork
  BY <1>2, <1>3 DEF ServerWork
<1>4. UNCHANGED toClient => Invites' = Invites
  BY DEF Invites
<1>5. Listen => ServerWork
  BY <1>4 DEF Listen, ServerWork
<1>6. Accept => ServerWork
  <2>. SUFFICES ASSUME Accept PROVE ServerWork
    OBVIOUS
  <2>. DEFINE k == Head(backlog)
  <2>1. k \in Connection /\ UNCHANGED <<protocol, mode, cpc, cstate, opened, replied>> /\ backlog # << >>
    BY <1>1, RangeParts DEF Accept
  <2>2. CASE /\ ctrl = None /\ ctrl' = k /\ AnswerOn(k, <<"PARAM_EXCHANGE">>)
             /\ backlog' = Tail(backlog) /\ UNCHANGED datagrams
    <3>1. Invites' \subseteq Invites
      BY <2>1, <2>2, Says, AnswerOnInvites
    <3>2. ctrl' # ctrl
      BY <2>1, <2>2, BacklogType
    <3>. QED  BY <2>1, <2>2, <3>1, <3>2 DEF ServerWork
  <2>3. CASE ServerReturns /\ UNCHANGED toClient
    BY <1>3, <1>4, <2>1, <2>3
  <2>4. CASE /\ AnswerOn(k, <<"ACCESS_DENIED">>) /\ backlog' = Tail(backlog)
             /\ UNCHANGED <<ctrl, sstate, spc, streams, datagrams>>
    <3>1. Invites' \subseteq Invites
      BY <2>1, <2>4, Says, AnswerOnInvites
    <3>. QED  BY <2>1, <2>4, <3>1 DEF ServerWork
  <2>. QED  BY <2>2, <2>3, <2>4 DEF Accept
<1>7. ExchangeParameters => ServerWork
  <2>. SUFFICES ASSUME ExchangeParameters PROVE ServerWork
    OBVIOUS
  <2>. DEFINE c == ctrl[1]
  <2>1. /\ UNCHANGED <<protocol, mode, cpc, cstate, opened, replied>> /\ spc = "params"
        /\ ctrl # None /\ c \in Clients
    BY <1>1 DEF ExchangeParameters, TypeOK
  <2>2. CASE /\ Controls(c) /\ Answer(c, <<"CREATE_STREAMS">>) /\ spc' = "select"
             /\ UNCHANGED backlog \/ backlog' = << >>
             /\ UNCHANGED <<ctrl, streams, datagrams>>
    <3>1. \A d \in Clients \ {c} : toClient'[d] = toClient[d]
      BY <2>2 DEF Answer, TypeOK
    <3>2. Invites' \subseteq Invites \cup {c} /\ ctrl[2] = 0
      BY <2>1, <2>2, <3>1 DEF Invites, Controls
    <3>. QED  BY <2>1, <2>2, <3>2 DEF ServerWork
  <2>3. CASE Answer(c, <<"SERVER_ERROR">>) /\ ServerReturns
    BY <1>3, <2>1, <2>3, Says, AnswerInvites
  <2>4. CASE ServerReturns /\ UNCHANGED toClient
    BY <1>3, <1>4, <2>1, <2>4
  <2>. QED  BY <2>2, <2>3, <2>4 DEF ExchangeParameters
<1>8. AcceptTcpStream => ServerWork
  <2>. SUFFICES ASSUME AcceptTcpStream PROVE ServerWork
    OBVIOUS
  <2>. DEFINE k == Head(backlog)
  <2>1. /\ k \in Connection /\ UNCHANGED <<protocol, mode, cpc, cstate, opened, replied>>
        /\ backlog # << >> /\ protocol[ctrl[1]] = "tcp" /\ sstate = "CREATE_STREAMS" /\ spc = "select"
    BY <1>1, RangeParts DEF AcceptTcpStream
  <2>2. CASE AddStream(k)
    BY <2>1, <2>2, AddStreamWorks
  <2>3. CASE AnswerOn(k, <<"ACCESS_DENIED">>) /\ ServerReturns
    BY <1>3, <2>1, <2>3, Says, AnswerOnInvites
  <2>4. CASE /\ AnswerOn(k, <<"ACCESS_DENIED">>) /\ backlog' = Tail(backlog)
             /\ UNCHANGED <<spc, sstate, ctrl, streams, datagrams>>
    <3>1. Invites' \subseteq Invites
      BY <2>1, <2>4, Says, AnswerOnInvites
    <3>. QED  BY <2>1, <2>4, <3>1 DEF ServerWork
  <2>. QED  BY <2>2, <2>3, <2>4 DEF AcceptTcpStream
<1>9. AcceptUdpStream => ServerWork
  <2>. SUFFICES ASSUME AcceptUdpStream PROVE ServerWork
    OBVIOUS
  <2>1. replied' \subseteq replied \cup Range(datagrams)
    BY <1>1, RangeParts DEF AcceptUdpStream
  <2>. QED  BY <2>1, AddStreamWorks DEF AcceptUdpStream, UdpListening
<1>10. HandleMessageServer => ServerWork
  <2>. SUFFICES ASSUME HandleMessageServer PROVE ServerWork
    OBVIOUS
  <2>1. UNCHANGED <<protocol, mode, cpc, cstate, opened, replied>> /\ ctrl[1] \in Clients
    BY <1>1 DEF HandleMessageServer
  <2>2. CASE /\ Answer(ctrl[1], <<"EXCHANGE_RESULTS">>) /\ spc' = "results"
             /\ UNCHANGED <<ctrl, streams, backlog, datagrams>>
    <3>1. Invites' \subseteq Invites
      BY <2>1, <2>2, Says, AnswerInvites
    <3>. QED  BY <2>1, <2>2, <3>1 DEF ServerWork
  <2>3. CASE ServerReturns /\ UNCHANGED toClient
    BY <1>3, <1>4, <2>1, <2>3
  <2>. QED  BY <2>2, <2>3 DEF HandleMessageServer
<1>11. ClientLost => ServerWork
  BY <1>3, <1>4 DEF ClientLost
<1>12. ExchangeResults => ServerWork
  <2>. SUFFICES ASSUME ExchangeResults PROVE ServerWork
    OBVIOUS
  <2>1. UNCHANGED <<protocol, mode, cpc, cstate, opened, replied>> /\ ctrl[1] \in Clients
    BY <1>1 DEF ExchangeResults, TypeOK
  <2>2. CASE /\ Answer(ctrl[1], <<"results", "DISPLAY_RESULTS">>) /\ spc' = "select"
             /\ UNCHANGED <<ctrl, streams, backlog, datagrams>>
    <3>1. Invites' \subseteq Invites
      BY <2>1, <2>2, Says, AnswerInvites
    <3>. QED  BY <2>1, <2>2, <3>1 DEF ServerWork
  <2>3. CASE ServerReturns /\ UNCHANGED toClient
    BY <1>3, <1>4, <2>1, <2>3
  <2>. QED  BY <2>2, <2>3 DEF ExchangeResults
<1>13. ServerTimeout => ServerWork
  BY <1>3, <1>4 DEF ServerTimeout
<1>14. ServerSigend => ServerWork
  <2>. SUFFICES ASSUME ServerSigend PROVE ServerWork
    OBVIOUS
  <2>1. Invites' \subseteq Invites
    BY <1>1, <1>4, Says, AnswerOnInvites DEF ServerSigend
  <2>2. Range(datagrams') = {}
    BY RangeParts, EmptyIsSeq DEF ServerSigend
  <2>. QED  BY <2>1, <2>2 DEF ServerSigend, ServerWork
<1>. QED  BY <1>5, <1>6, <1>7, <1>8, <1>9, <1>10, <1>11, <1>12, <1>13, <1>14 DEF ServerStep

LEMMA ReadInvites ==
    ASSUME TypeOK, NEW d \in Clients, toClient[d] # << >>,
           toClient' = [toClient EXCEPT ![d] = Tail(@)]
    PROVE  /\ Invites' \subseteq Invites
           /\ Head(toClient[d]) = "CREATE_STREAMS" => d \in Invites
<1>1. toClient[d] \in Seq(Messages)
  BY DEF TypeOK
<1>2. Range(toClient[d]) = {Head(toClient[d])} \cup Range(Tail(toClient[d]))
  BY <1>1, RangeParts
<1>3. toClient'[d] = Tail(toClient[d]) /\ \A c \in Clients \ {d} : toClient'[c] = toClient[c]
  BY DEF TypeOK
<1>. QED  BY <1>2, <1>3 DEF Invites

LEMMA ClientWorks ==
    ASSUME TypeOK, Sockets, NEW d \in Clients, ClientStep(d) \/ ClientSigend(d) \/ ClientTimeout(d)
    PROVE  ClientWork(d)
<1>. USE DEF options, clientVars, serverVars, netVars
<1>1. /\ cpc \in [Clients -> {"start", "select", "streams", "reply", "results", "ok", "failed"}]
      /\ cstate \in [Clients -> States] /\ opened \in [Clients -> Nat]
      /\ toServer \in [Clients -> Seq(Messages)] /\ toClient \in [Clients -> Seq(Messages)]
  BY DEF TypeOK, Final
<1>2. UNCHANGED toClient => Invites' = Invites
  BY DEF Invites
<1>3. ASSUME NEW state, ClientFails(d, state)
      PROVE  /\ cpc'[d] = "failed" /\ opened' = opened
             /\ \A c \in Clients \ {d} :
                   cpc'[c] = cpc[c] /\ cstate'[c] = cstate[c] /\ toServer'[c] = toServer[c]
  BY <1>1, <1>3 DEF ClientFails, Tell
<1>4. Connect(d) => ClientWork(d)
  BY <1>1, <1>2, <1>3 DEF Connect, ClientWork
<1>5. HandleMessageClient(d) => ClientWork(d)
  <2>. SUFFICES ASSUME HandleMessageClient(d) PROVE ClientWork(d)
    OBVIOUS
  <2>1. /\ Invites' \subseteq Invites
        /\ Head(toClient[d]) = "CREATE_STREAMS" => d \in Invites
        /\ \A c \in Clients \ {d} : toClient'[c] = toClient[c]
    BY <1>1, ReadInvites DEF HandleMessageClient
  <2>2. /\ cpc[d] = "select" /\ opened' = opened
        /\ UNCHANGED <<options, serverVars, backlog, datagrams, replied, faults>>
    BY DEF HandleMessageClient, Writes, ClientFails
  <2>3. /\ cpc'[d] \in {"select", "streams", "results", "ok", "failed"}
        /\ cpc'[d] = "streams" => Head(toClient[d]) = "CREATE_STREAMS"
        /\ \A c \in Clients \ {d} :
              cpc'[c] = cpc[c] /\ cstate'[c] = cstate[c] /\ toServer'[c] = toServer[c]
    <3>. DEFINE m == Head(toClient[d])
    <3>1. CASE m = "PARAM_EXCHANGE" /\ Writes(d, m, "params", "select")
      BY <1>1, <1>3, <3>1 DEF Writes, Tell
    <3>2. CASE /\ m \in {"CREATE_STREAMS", "TEST_START", "TEST_RUNNING"}
               /\ cstate' = [cstate EXCEPT ![d] = m]
               /\ cpc' = [cpc EXCEPT ![d] = IF m = "CREATE_STREAMS" THEN "streams" ELSE @]
               /\ UNCHANGED toServer
      BY <1>1, <2>2, <3>2
    <3>3. CASE m = "EXCHANGE_RESULTS" /\ Writes(d, m, "results", "results")
      BY <1>1, <1>3, <3>3 DEF Writes, Tell
    <3>4. CASE /\ cpc' = [cpc EXCEPT ![d] = "ok"] /\ cstate' = [cstate EXCEPT ![d] = "IPERF_DONE"]
               /\ Tell(d, <<"IPERF_DONE">>)
      BY <1>1, <3>4 DEF Tell
    <3>5. CASE ClientFails(d, m)
      BY <1>3, <3>5
    <3>. QED  BY <3>1, <3>2, <3>3, <3>4, <3>5 DEF HandleMessageClient
  <2>. QED  BY <2>1, <2>2, <2>3 DEF ClientWork
<1>6. ServerLost(d) => ClientWork(d)
  BY <1>1, <1>2, <1>3 DEF ServerLost, ClientWork
<1>7. CreateStream(d) => ClientWork(d)
  <2>. SUFFICES ASSUME CreateStream(d) PROVE ClientWork(d)
    OBVIOUS
  <2>1. CASE ClientFails(d, cstate[d]) /\ UNCHANGED <<backlog, datagrams>>
    BY <1>2, <1>3, <2>1 DEF CreateStream, ClientWork
  <2>2. CASE protocol[d] # "udp" /\ StreamConnected(d) /\ backlog' = Append(backlog, <<d, opened[d] + 1>>)
    BY <1>1, <1>2, <2>2 DEF CreateStream, StreamConnected, ClientWork
  <2>3. CASE protocol[d] = "udp"
    BY <1>1, <1>2, <2>3 DEF CreateStream, ClientWork
  <2>. QED  BY <2>1, <2>2, <2>3 DEF CreateStream
<1>8. UdpReply(d) => ClientWork(d)
  <2>. SUFFICES ASSUME UdpReply(d) PROVE ClientWork(d)
    OBVIOUS
  <2>1. CASE StreamConnected(d)
    BY <1>1, <1>2, <2>1 DEF UdpReply, StreamConnected, ClientWork
  <2>2. CASE ClientFails(d, cstate[d])
    BY <1>2, <1>3, <2>2 DEF UdpReply, ClientWork
  <2>. QED  BY <2>1, <2>2 DEF UdpReply
<1>9. SendTestEnd(d) => ClientWork(d)
  <2>. SUFFICES ASSUME SendTestEnd(d) PROVE ClientWork(d)
    OBVIOUS
  <2>1. CASE ClientFails(d, "TEST_END")
    BY <1>2, <1>3, <2>1 DEF SendTestEnd, ClientWork
  <2>2. CASE Tell(d, <<"TEST_END">>) /\ cstate' = [cstate EXCEPT ![d] = "TEST_END"]
             /\ cpc' = [cpc EXCEPT ![d] = "select"] /\ UNCHANGED opened
    BY <1>1, <1>2, <2>2 DEF SendTestEnd, Tell, ClientWork
  <2>. QED  BY <2>1, <2>2 DEF SendTestEnd, Writes
<1>10. ClientGetsResults(d) => ClientWork(d)
  <2>. SUFFICES ASSUME ClientGetsResults(d) PROVE ClientWork(d)
    OBVIOUS
  <2>1. Invites' \subseteq Invites /\ \A c \in Clients \ {d} : toClient'[c] = toClient[c]
    BY <1>1, ReadInvites DEF ClientGetsResults
  <2>2. CASE ClientFails(d, cstate[d])
    BY <1>3, <2>1, <2>2 DEF ClientGetsResults, ClientWork
  <2>3. CASE cpc' = [cpc EXCEPT ![d] = "select"] /\ UNCHANGED <<cstate, opened, toServer>>
    BY <1>1, <2>1, <2>3 DEF ClientGetsResults, ClientWork
  <2>. QED  BY <2>2, <2>3 DEF ClientGetsResults
<1>11. ClientSigend(d) => ClientWork(d)
  BY <1>1, <1>2 DEF ClientSigend, Tell, ClientWork
<1>12. ClientTimeout(d) => ClientWork(d)
  BY <1>1, <1>2, <1>3 DEF ClientTimeout, ClientWork
<1>. QED
  BY <1>4, <1>5, <1>6, <1>7, <1>8, <1>9, <1>10, <1>11, <1>12 DEF ClientStep

-----------------------------------------------------------------------------
(* Every step keeps the queue in order.                                    *)
LEMMA InOrderNext ==
    ASSUME TypeOK, TypeOK', Sockets, InOrder, Next
    PROVE  InOrder'
<1>1. /\ backlog \in Seq(Connection) /\ Ordered(backlog) /\ opened \in [Clients -> Nat]
      /\ \A k \in Range(backlog) : k \in Connection /\ k[1] \in Clients /\ k[2] \in Nat
      /\ ctrl # None => ctrl[1] \in Clients /\ ctrl[2] \in Nat
      /\ \A k \in Connection : k # None
  BY BacklogType, RangeParts DEF InOrder, TypeOK
<1>2. ASSUME NEW d \in Clients, ClientWork(d)  PROVE InOrder'
  <2>1. /\ \A c \in Clients : opened[c] <= opened'[c] /\ (cpc'[c] = "start" => cpc[c] = "start")
        /\ \A c \in Clients : opened'[c] \in Nat
        /\ ctrl' = ctrl
    BY <1>1, <1>2 DEF ClientWork
  <2>2. ctrl' # None => cpc'[ctrl'[1]] # "start" /\ ctrl'[2] <= opened'[ctrl'[1]]
    BY <1>1, <2>1 DEF InOrder
  <2>3. \A k \in Range(backlog) :
           cpc'[k[1]] # "start" /\ k[2] <= opened'[k[1]] /\ (ctrl' # None /\ ctrl'[1] = k[1] => ctrl'[2] < k[2])
    BY <1>1, <2>1 DEF InOrder
  <2>4. CASE backlog' = backlog
    BY <1>1, <2>2, <2>3, <2>4 DEF InOrder
  <2>5. ASSUME NEW n \in Nat, backlog' = Append(backlog, <<d, n>>), cpc'[d] # "start", n <= opened'[d],
               \A k \in Range(backlog) : k[1] = d => k[2] < n,
               ctrl # None /\ ctrl[1] = d => ctrl[2] < n
        PROVE  InOrder'
    <3>1. <<d, n>> \in Connection /\ <<d, n>>[1] = d /\ <<d, n>>[2] = n
      BY DEF Connection
    <3>2. Range(backlog') = Range(backlog) \cup {<<d, n>>}
      BY <1>1, <2>5, <3>1, RangeParts
    <3>3. Ordered(backlog')
      BY <1>1, <2>5, <3>1, OrderedParts
    <3>. QED  BY <2>1, <2>2, <2>3, <2>5, <3>1, <3>2, <3>3 DEF InOrder
  <2>6. CASE cpc[d] = "start" /\ UNCHANGED opened /\ backlog' = Append(backlog, <<d, 0>>)
    <3>1. \A k \in Range(backlog) : k[1] # d
      BY <2>6 DEF InOrder
    <3>2. ctrl # None => ctrl[1] # d
      BY <2>6 DEF InOrder
    <3>. QED  BY <1>1, <1>2, <2>5, <2>6, <3>1, <3>2 DEF ClientWork
  <2>7. CASE opened'[d] = opened[d] + 1 /\ backlog' = Append(backlog, <<d, opened[d] + 1>>)
    <3>1. \A k \in Range(backlog) : k[1] = d => k[2] < opened[d] + 1
      BY <1>1 DEF InOrder
    <3>2. ctrl # None /\ ctrl[1] = d => ctrl[2] < opened[d] + 1
      BY <1>1 DEF InOrder
    <3>3. opened[d] + 1 \in Nat /\ opened[d] + 1 <= opened'[d] /\ cpc'[d] # "start"
      BY <1>1, <1>2, <2>1, <2>7 DEF ClientWork
    <3>. QED  BY <2>5, <2>7, <3>1, <3>2, <3>3
  <2>. QED  BY <1>2, <2>4, <2>6, <2>7 DEF ClientWork
<1>3. ASSUME ServerWork  PROVE InOrder'
  <2>1. cpc' = cpc /\ opened' = opened
    BY <1>3 DEF ServerWork
  <2>2. /\ Ordered(<< >>) /\ Range(<< >>) = {}
        /\ backlog # << >> => /\ Ordered(Tail(backlog))
                              /\ Range(backlog) = {Head(backlog)} \cup Range(Tail(backlog))
                              /\ \A k \in Range(Tail(backlog)) :
                                    k[1] = Head(backlog)[1] => Head(backlog)[2] < k[2]
    BY <1>1, OrderedParts, RangeParts
  <2>3. CASE ctrl' = ctrl /\ Ordered(backlog') /\ Range(backlog') \subseteq Range(backlog)
    BY <2>1, <2>3 DEF InOrder
  <2>4. CASE ctrl' = None /\ backlog' = << >>
    BY <2>2, <2>4 DEF InOrder
  <2>5. CASE backlog # << >> /\ ctrl' = Head(backlog) /\ backlog' = Tail(backlog)
    <3>1. Head(backlog) \in Range(backlog) /\ Range(backlog') \subseteq Range(backlog)
      BY <2>2, <2>5
    <3>2. cpc'[ctrl'[1]] # "start" /\ ctrl'[2] <= opened'[ctrl'[1]]
      BY <2>1, <2>5, <3>1 DEF InOrder
    <3>. QED  BY <2>1, <2>2, <2>5, <3>1, <3>2 DEF InOrder
  <2>. QED  BY <1>1, <1>3, <2>2, <2>3, <2>4, <2>5 DEF ServerWork
<1>. QED  BY <1>2, <1>3, ServerWorks, ClientWorks DEF Next

(* Nobody has streams before the server reads his parameters.              *)
LEMMA NotInvitedNext ==
    ASSUME TypeOK, TypeOK', Sockets, InOrder, NotInvited, Next
    PROVE  NotInvited'
<1>1. /\ backlog \in Seq(Connection) /\ datagrams \in Seq(Connection)
      /\ ctrl # None => ctrl[1] \in Clients
      /\ \A c \in Clients : opened[c] \in Nat /\ <<c, opened[c] + 1>> \in Connection
      /\ \A c \in Clients : <<c, 0>> \in Connection /\ <<c, 0>> # None
  BY BacklogType DEF Connection
<1>2. ASSUME NEW d \in Clients, ClientWork(d)  PROVE NotInvited'
  <2>. SUFFICES ASSUME NEW c \in Clients, Unserved(c)'
                PROVE  /\ opened'[c] = 0 /\ cpc'[c] \notin {"streams", "reply"} /\ c \notin Invites'
                       /\ \A k \in replied' \cup Range(datagrams') : k[1] # c
    BY DEF NotInvited
  <2>0. \A n \in Nat : <<d, n>> \in Connection /\ opened[d] + 1 \in Nat /\ 0 \in Nat
    BY <1>1 DEF Connection
  <2>8. \A n \in Nat : /\ Range(Append(backlog, <<d, n>>)) = Range(backlog) \cup {<<d, n>>}
                       /\ Range(Append(datagrams, <<d, n>>)) = Range(datagrams) \cup {<<d, n>>}
    BY <1>1, RangeAppend
  <2>1. \/ Range(backlog') = Range(backlog)
        \/ cpc[d] = "start" /\ Range(backlog') = Range(backlog) \cup {<<d, 0>>}
        \/ Range(backlog') = Range(backlog) \cup {<<d, opened[d] + 1>>}
    BY <1>2, <2>0, <2>8 DEF ClientWork
  <2>2. \/ Range(datagrams') = Range(datagrams)
        \/ cpc[d] = "streams" /\ Range(datagrams') = Range(datagrams) \cup {<<d, opened[d] + 1>>}
    BY <1>2, <2>0, <2>8 DEF ClientWork
  <2>3. <<c, 0>> \in Range(backlog') => <<c, 0>> \in Range(backlog) \/ cpc[c] = "start"
    <3>1. opened[d] \in Nat
      BY DEF TypeOK
    <3>. QED  BY <2>1, <3>1
  <2>4. Unserved(c)
    BY <1>2, <2>3 DEF Unserved, ClientWork, Controls
  <2>5. /\ opened[c] = 0 /\ cpc[c] \notin {"streams", "reply"} /\ c \notin Invites
        /\ \A k \in replied \cup Range(datagrams) : k[1] # c
    BY <2>4 DEF NotInvited
  <2>6. opened'[c] = 0 /\ cpc'[c] \notin {"streams", "reply"} /\ c \notin Invites'
    BY <1>2, <2>5 DEF ClientWork
  <2>7. replied' = replied
    BY <1>2 DEF ClientWork
  <2>. QED  BY <2>2, <2>5, <2>6, <2>7
<1>3. ASSUME ServerWork  PROVE NotInvited'
  <2>. SUFFICES ASSUME NEW c \in Clients, Unserved(c)'
                PROVE  /\ opened'[c] = 0 /\ cpc'[c] \notin {"streams", "reply"} /\ c \notin Invites'
                       /\ \A k \in replied' \cup Range(datagrams') : k[1] # c
    BY DEF NotInvited
  <2>0. /\ Range(<< >>) = {}
        /\ backlog # << >> => Range(backlog) = {Head(backlog)} \cup Range(Tail(backlog))
    BY <1>1, RangeParts
  <2>1. /\ Range(backlog') \subseteq Range(backlog)
        /\ backlog # << >> => Head(backlog) \in Range(backlog)
    BY <1>3, <2>0 DEF ServerWork
  <2>2. Unserved(c)
    BY <1>1, <1>3, <2>1 DEF Unserved, ServerWork, Controls
  <2>3. /\ opened[c] = 0 /\ cpc[c] \notin {"streams", "reply"} /\ c \notin Invites
        /\ \A k \in replied \cup Range(datagrams) : k[1] # c
    BY <2>2 DEF NotInvited
  <2>4. c \notin Invites'
    <3>1. SUFFICES ASSUME UNCHANGED ctrl, ctrl # None, ctrl[2] = 0, spc' = "select", c = ctrl[1]  PROVE FALSE
      BY <1>3, <2>3 DEF ServerWork
    <3>2. cpc'[c] # "start"
      BY <1>3, <3>1 DEF ServerWork, InOrder
    <3>3. <<c, 0>> \notin Range(backlog)
      BY <3>1 DEF InOrder
    <3>. QED  BY <2>1, <3>1, <3>2, <3>3 DEF Unserved
  <2>. QED  BY <1>3, <2>3, <2>4 DEF ServerWork
<1>. QED  BY <1>2, <1>3, ServerWorks, ClientWorks DEF Next

LEMMA SocketsNext ==
    ASSUME TypeOK, Sockets, Next
    PROVE  Sockets'
<1>1. ASSUME NEW d \in Clients, ClientWork(d)  PROVE Sockets'
  <2>1. ctrl = None \/ spc = "params" => datagrams' = datagrams
    BY <1>1 DEF ClientWork, Sockets, UdpListening, TypeOK
  <2>2. \A c \in Clients : cpc'[c] = "reply" => protocol'[c] = "udp"
    BY <1>1 DEF ClientWork, Sockets
  <2>3. UNCHANGED <<spc, sstate, ctrl, streams>>
    BY <1>1 DEF ClientWork
  <2>. QED  BY <2>1, <2>2, <2>3 DEF Sockets
<1>. USE DEF options, clientVars, serverVars, netVars
<1>2. cpc' = cpc /\ protocol' = protocol /\ ServerReturns => Sockets'
  BY DEF Sockets, ServerReturns
<1>3. ASSUME ServerStep \/ ServerTimeout \/ ServerSigend  PROVE Sockets'
  <2>0. ServerWork
    BY <1>3, ServerWorks
  <2>1. cpc' = cpc /\ protocol' = protocol
    BY <2>0 DEF ServerWork
  <2>2. Listen => Sockets'
    BY <2>1 DEF Listen, Sockets, TypeOK
  <2>3. Accept => Sockets'
    BY <1>2, <2>1 DEF Accept, Sockets
  <2>4. ExchangeParameters => Sockets'
    BY <1>2, <2>1 DEF ExchangeParameters, Sockets, Controls
  <2>5. AcceptTcpStream => Sockets'
    BY <1>2, <2>1 DEF AcceptTcpStream, AddStream, Sockets, TypeOK
  <2>6. AcceptUdpStream => Sockets'
    BY <2>1 DEF AcceptUdpStream, AddStream, UdpListening, Sockets, TypeOK
  <2>7. HandleMessageServer => Sockets'
    BY <1>2, <2>1 DEF HandleMessageServer, Sockets, Controls
  <2>8. ClientLost => Sockets'
    BY <1>2, <2>1 DEF ClientLost
  <2>9. ExchangeResults => Sockets'
    BY <1>2, <2>1 DEF ExchangeResults, Sockets, TypeOK
  <2>10. ServerTimeout => Sockets'
    BY <1>2, <2>1 DEF ServerTimeout
  <2>11. ServerSigend => Sockets'
    BY <2>1 DEF ServerSigend, Sockets
  <2>. QED
    BY <1>3, <2>2, <2>3, <2>4, <2>5, <2>6, <2>7, <2>8, <2>9, <2>10, <2>11 DEF ServerStep
<1>. QED  BY <1>1, <1>3, ClientWorks DEF Next

(* AddStream accepts the stream the client made next: its n-th connection  *)
(* is the n-th of the test.                                                *)
LEMMA NextInQueue ==
    ASSUME TypeOK, InOrder, NoGap, AcceptTcpStream, Head(backlog)[1] = ctrl[1]
    PROVE  /\ Head(backlog) = <<ctrl[1], Len(streams) + 1>>
           /\ Len(streams) + 1 <= opened[ctrl[1]]
<1>. DEFINE c == ctrl[1]  k == Head(backlog)  n == Len(streams) + 1
<1>1. /\ backlog # << >> /\ sstate = "CREATE_STREAMS" /\ protocol[c] = "tcp" /\ k[1] = c
      /\ backlog \in Seq(Connection) /\ c \in Clients /\ opened[c] \in Nat /\ Len(streams) \in Nat
  BY BacklogType, LenProperties DEF AcceptTcpStream, TypeOK
<1>2. k \in Connection /\ Range(backlog) = {k} \cup Range(Tail(backlog))
  BY <1>1, RangeParts
<1>3. k = <<c, k[2]>> /\ k[2] \in Nat
  BY <1>1, <1>2 DEF Connection
<1>4. k[2] > Len(streams) /\ k[2] <= opened[c]
  BY <1>1, <1>2 DEF NoGap, InOrder
<1>5. n \in 1..opened[c] /\ n > Len(streams)
  BY <1>1, <1>3, <1>4
<1>6. <<c, n>> \in Range(backlog)
  BY <1>1, <1>5 DEF NoGap
<1>7. \A j \in Range(Tail(backlog)) : j[1] = c => k[2] < j[2]
  BY <1>1, OrderedParts DEF InOrder
<1>8. <<c, n>> = k
  <2>. SUFFICES ASSUME <<c, n>> # k PROVE FALSE
    OBVIOUS
  <2>1. k[2] < n
    BY <1>2, <1>6, <1>7
  <2>. QED  BY <1>1, <1>3, <1>4, <2>1
<1>. QED  BY <1>5, <1>8

(* Accepting and connecting leave no gap.                                  *)
LEMMA NoGapNext ==
    ASSUME TypeOK, TypeOK', Sockets, InOrder, NotInvited, NoGap, Next
    PROVE  NoGap'
<1>. USE DEF options, clientVars, serverVars, netVars
<1>1. /\ backlog \in Seq(Connection)
      /\ ctrl # None => ctrl[1] \in Clients /\ ctrl[2] \in Nat /\ ctrl = <<ctrl[1], ctrl[2]>>
      /\ Len(streams) \in Nat
  <2>1. backlog \in Seq(Connection) /\ (ctrl # None => ctrl \in Clients \X Nat)
    BY DEF TypeOK, Connection
  <2>2. Len(streams) \in Nat
    BY LenProperties DEF TypeOK
  <2>. QED  BY <2>1, <2>2
<1>2. ASSUME NEW d \in Clients, ClientWork(d)  PROVE NoGap'
  <2>. DEFINE c == ctrl[1]
  <2>. SUFFICES ASSUME sstate' = "CREATE_STREAMS", protocol'[ctrl'[1]] = "tcp"
                PROVE  /\ Len(streams') <= opened'[ctrl'[1]]
                       /\ \A n \in 1..opened'[ctrl'[1]] :
                             n > Len(streams') => <<ctrl'[1], n>> \in Range(backlog')
                       /\ \A k \in Range(backlog') : k[1] = ctrl'[1] => k[2] > Len(streams')
    BY DEF NoGap
  <2>1. /\ ctrl' = ctrl /\ streams' = streams /\ c \in Clients /\ ctrl # None
        /\ protocol[c] = "tcp" /\ sstate = "CREATE_STREAMS"
    BY <1>1, <1>2 DEF ClientWork, TypeOK
  <2>2. /\ opened[d] \in Nat /\ opened[c] \in Nat
        /\ Range(Append(backlog, <<d, 0>>)) = Range(backlog) \cup {<<d, 0>>}
        /\ Range(Append(backlog, <<d, opened[d] + 1>>)) = Range(backlog) \cup {<<d, opened[d] + 1>>}
    <3>1. opened[d] \in Nat /\ opened[c] \in Nat /\ opened[d] + 1 \in Nat /\ 0 \in Nat
      <4>1. opened \in [Clients -> Nat]
        BY DEF TypeOK
      <4>. QED  BY <2>1, <4>1
    <3>. QED  BY <1>1, <3>1, RangeAppend
  <2>3. /\ Len(streams) <= opened[c]
        /\ \A n \in 1..opened[c] : n > Len(streams) => <<c, n>> \in Range(backlog)
        /\ \A k \in Range(backlog) : k[1] = c => k[2] > Len(streams)
    BY <2>1 DEF NoGap
  <2>4. \/ backlog' = backlog
        \/ cpc[d] = "start" /\ backlog' = Append(backlog, <<d, 0>>)
        \/ opened'[d] = opened[d] + 1 /\ backlog' = Append(backlog, <<d, opened[d] + 1>>)
    BY <1>2 DEF ClientWork
  <2>5. CASE c # d
    <3>1. opened'[c] = opened[c]
      BY <1>2, <2>1, <2>5 DEF ClientWork
    <3>2. /\ Range(backlog) \subseteq Range(backlog')
          /\ \A k \in Range(backlog') : k[1] = c => k \in Range(backlog)
      <4>1. PICK n \in {0, opened[d] + 1} :
               Range(backlog') = Range(backlog) \/ Range(backlog') = Range(backlog) \cup {<<d, n>>}
        BY <2>2, <2>4
      <4>2. <<d, n>>[1] = d
        OBVIOUS
      <4>. QED  BY <2>5, <4>1, <4>2
    <3>. QED  BY <2>1, <2>3, <3>1, <3>2
  <2>6. CASE c = d
    <3>1. cpc[d] # "start" /\ cpc[d] # "reply"
      BY <2>1, <2>6 DEF InOrder, Sockets
    <3>2. CASE opened'[d] = opened[d]
      <4>1. backlog' = backlog
        BY <2>2, <2>4, <3>1, <3>2
      <4>. QED  BY <2>1, <2>3, <2>6, <3>2, <4>1
    <3>3. CASE opened'[d] = opened[d] + 1
      <4>0. opened'[d] # opened[d] /\ cpc[d] = "streams"
        BY <1>2, <2>2, <3>1, <3>3 DEF ClientWork
      <4>1. Range(backlog') = Range(backlog) \cup {<<d, opened[d] + 1>>}
        BY <1>2, <2>2, <4>0 DEF ClientWork
      <4>2. \A n \in 1..(opened[d] + 1) : n \in 1..opened[d] \/ n = opened[d] + 1
        BY <2>2
      <4>. QED  BY <1>1, <2>1, <2>2, <2>3, <2>6, <3>3, <4>1, <4>2
    <3>. QED  BY <1>2, <3>2, <3>3 DEF ClientWork
  <2>. QED  BY <2>5, <2>6
<1>3. ASSUME ServerStep \/ ServerTimeout \/ ServerSigend, sstate' = "CREATE_STREAMS",
             protocol'[ctrl'[1]] = "tcp"
      PROVE  ExchangeParameters \/ AcceptTcpStream
  BY <1>3 DEF ServerStep, Listen, Accept, AcceptUdpStream, AddStream, UdpListening, HandleMessageServer,
              ClientLost, ExchangeResults, ServerTimeout, ServerSigend, ServerReturns, Sockets
<1>4. ASSUME ExchangeParameters, sstate' = "CREATE_STREAMS"  PROVE NoGap'
  <2>. DEFINE c == ctrl[1]
  <2>1. /\ Controls(c) /\ spc = "params" /\ ctrl' = ctrl /\ streams' = streams /\ opened' = opened
        /\ backlog' = backlog \/ backlog' = << >>
    BY <1>4 DEF ExchangeParameters, ServerReturns
  <2>2. ctrl # None /\ streams = << >> /\ c \in Clients /\ ctrl[2] = 0
    BY <1>1, <2>1 DEF Sockets, Controls, TypeOK
  <2>3. opened[c] = 0
    BY <2>1, <2>2 DEF NotInvited, Unserved
  <2>4. \A k \in Range(backlog) : k[1] = c => k[2] > 0
    <3>1. \A k \in Range(backlog) : k[2] \in Nat
      BY <1>1, RangeParts, BacklogType
    <3>. QED  BY <2>2, <3>1 DEF InOrder
  <2>5. Range(backlog') \subseteq Range(backlog)
    BY <2>1, <1>1, RangeParts
  <2>6. Len(streams) = 0
    BY <2>2, EmptySeq
  <2>. QED  BY <2>1, <2>2, <2>3, <2>4, <2>5, <2>6 DEF NoGap
<1>5. ASSUME AcceptTcpStream, sstate' = "CREATE_STREAMS"  PROVE NoGap'
  <2>. DEFINE c == ctrl[1]  k == Head(backlog)
  <2>1. /\ backlog # << >> /\ sstate = "CREATE_STREAMS" /\ protocol[c] = "tcp"
        /\ UNCHANGED <<protocol, opened>> /\ c \in Clients /\ opened[c] \in Nat
    BY <1>1, <1>5 DEF AcceptTcpStream, TypeOK
  <2>2. /\ Range(backlog) = {k} \cup Range(Tail(backlog))
        /\ \A j \in Range(Tail(backlog)) : j[1] = k[1] => k[2] < j[2]
    BY <1>1, <2>1, RangeParts, OrderedParts DEF InOrder
  <2>3. /\ Len(streams) <= opened[c]
        /\ \A n \in 1..opened[c] : n > Len(streams) => <<c, n>> \in Range(backlog)
        /\ \A j \in Range(backlog) : j[1] = c => j[2] > Len(streams)
    BY <2>1 DEF NoGap
  <2>4. CASE k[1] = c
    <3>1. k = <<c, Len(streams) + 1>> /\ Len(streams) + 1 <= opened[c]
      BY <1>5, <2>4, NextInQueue
    <3>2. ctrl' = ctrl /\ backlog' = Tail(backlog) /\ Len(streams') = Len(streams) + 1
      <4>1. AddStream(k) /\ sstate' # "TEST_RUNNING"
        BY <1>5, <2>4 DEF AcceptTcpStream
      <4>. QED  BY <2>1, <4>1, AppendProperties DEF AddStream, TypeOK
    <3>3. \A j \in Range(Tail(backlog)) : j[1] = c => j[2] > Len(streams) + 1
      BY <2>2, <3>1
    <3>. QED  BY <1>1, <2>1, <2>2, <2>3, <3>1, <3>2, <3>3 DEF NoGap
  <2>5. CASE k[1] # c
    <3>1. ctrl' = ctrl /\ backlog' = Tail(backlog) /\ streams' = streams
      BY <1>5, <2>5 DEF AcceptTcpStream, ServerReturns
    <3>. QED  BY <2>1, <2>2, <2>3, <2>5, <3>1 DEF NoGap
  <2>. QED  BY <2>4, <2>5
<1>6. ServerStep \/ ServerTimeout \/ ServerSigend => NoGap'
  BY <1>3, <1>4, <1>5 DEF NoGap
<1>. QED  BY <1>2, <1>6, ClientWorks DEF Next

-----------------------------------------------------------------------------
(* In step: what the other clients, the client itself and the server do to *)
(* a client.                                                               *)
LEMMA ShortSeqs ==
    \A x, y : /\ Head(<<x>>) = x /\ Tail(<<x>>) = << >> /\ <<x>> # << >>
              /\ Head(<<x, y>>) = x /\ Tail(<<x, y>>) = <<y>> /\ <<x, y>> # << >>
              /\ << >> \o <<x>> = <<x>> /\ << >> \o <<x, y>> = <<x, y>>
              /\ Append(<< >>, x) = <<x>> /\ Len(<< >>) = 0
OBVIOUS

LEMMA TotalFacts ==
    TypeOK => \A c \in Clients : Total(c) \in Nat /\ Total(c) > 0
BY StreamsAssumption DEF Total, TypeOK

LEMMA HeldParts ==
    ASSUME TypeOK, NEW c \in Clients
    PROVE  /\ Held(<<c, 0>>) <=> Controls(c) \/ <<c, 0>> \in Range(backlog)
           /\ Controls(c) => ctrl # None /\ ctrl[1] = c /\ ctrl[2] = 0
           /\ ctrl # None /\ ctrl[1] = c /\ ctrl[2] = 0 => Controls(c)
<1>1. <<c, 0>> # None /\ (ctrl # None => ctrl \in Clients \X Nat)
  BY NoneAssumption DEF TypeOK, Connection
<1>. QED  BY <1>1 DEF Held, Controls

(* Another client's step leaves c where it is.                             *)
LEMMA OthersStep ==
    ASSUME TypeOK, InStep, NEW c \in Clients, NEW d \in Clients, c # d, faults = 0, ClientWork(d)
    PROVE  /\ Outside(c) => Outside(c)'
           /\ Inside(c) => Inside(c)'
<1>1. /\ UNCHANGED <<protocol, mode, spc, sstate, ctrl, streams, replied>>
      /\ cpc'[c] = cpc[c] /\ cstate'[c] = cstate[c] /\ opened'[c] = opened[c]
      /\ toServer'[c] = toServer[c] /\ toClient'[c] = toClient[c]
  BY DEF ClientWork
<1>2. <<c, 0>> \in Range(backlog') => <<c, 0>> \in Range(backlog)
  <2>1. /\ backlog \in Seq(Connection) /\ opened[d] \in Nat
    BY BacklogType
  <2>2. /\ Range(Append(backlog, <<d, 0>>)) = Range(backlog) \cup {<<d, 0>>}
        /\ Range(Append(backlog, <<d, opened[d] + 1>>)) = Range(backlog) \cup {<<d, opened[d] + 1>>}
    BY <2>1, RangeAppend
  <2>3. \/ backlog' = backlog \/ backlog' = Append(backlog, <<d, 0>>)
        \/ backlog' = Append(backlog, <<d, opened[d] + 1>>)
    BY DEF ClientWork
  <2>4. \A n \in Nat : <<c, 0>> # <<d, n>>
    OBVIOUS
  <2>5. 0 \in Nat /\ opened[d] + 1 \in Nat
    BY <2>1
  <2>. QED  BY <2>2, <2>3, <2>4, <2>5
<1>3. Outside(c) => Outside(c)'
  BY <1>1, <1>2 DEF Outside, Quiet, Held, Controls
<1>4. Inside(c) => datagrams' = datagrams
  <2>. SUFFICES ASSUME Controls(c), cpc[d] = "streams", protocol[d] = "udp"  PROVE FALSE
    BY DEF ClientWork, Inside
  <2>1. ~Controls(d) /\ Undisturbed(d)
    BY DEF Controls, Undisturbed
  <2>. QED  BY <2>1 DEF InStep, Outside, Inside
<1>5. Inside(c) => Inside(c)'
  BY <1>1, <1>4 DEF Inside, Controls, At, Exchanging, Creating, Testing, Finishing, Displaying, Total
<1>. QED  BY <1>3, <1>5

LEMMA OwnOutside ==
    ASSUME TypeOK, InOrder, NEW c \in Clients, Outside(c), ClientStep(c)
    PROVE  Outside(c)'
<1>. USE DEF options, clientVars, serverVars, netVars
<1>1. /\ cpc \in [Clients -> {"start", "select", "streams", "reply", "results", "ok", "failed"}]
      /\ cstate \in [Clients -> States]
  BY DEF TypeOK, Final
<1>2. ~Controls(c) /\ cpc[c] \notin {"streams", "reply", "results"}
      /\ (cpc[c] = "select" => cstate[c] = "0")
  BY DEF Outside
<1>3. ASSUME NEW state \in {"0", "ACCESS_DENIED"}, ClientFails(c, state),
             <<c, 0>> \notin Range(backlog), UNCHANGED <<ctrl, backlog>>
      PROVE  Outside(c)'
  <2>1. cpc'[c] = "failed" /\ cstate'[c] = state
    BY <1>1, <1>3 DEF ClientFails
  <2>. QED  BY <1>2, <1>3, <2>1 DEF Outside, Held, Controls
<1>4. Connect(c) => Outside(c)'
  <2>. SUFFICES ASSUME Connect(c) PROVE Outside(c)'
    OBVIOUS
  <2>1. cpc[c] = "start" /\ cstate[c] = "0" /\ Quiet(c) /\ UNCHANGED <<ctrl, toClient>>
    BY DEF Connect, Outside
  <2>2. <<c, 0>> \notin Range(backlog)
    BY <2>1 DEF InOrder
  <2>3. CASE ClientFails(c, "0") /\ UNCHANGED backlog
    BY <1>3, <2>1, <2>2, <2>3
  <2>4. CASE cpc' = [cpc EXCEPT ![c] = "select"] /\ UNCHANGED <<cstate, toServer>>
    BY <1>1, <1>2, <2>1, <2>4 DEF Outside, Quiet, Controls
  <2>. QED  BY <2>3, <2>4 DEF Connect
<1>5. HandleMessageClient(c) => Outside(c)'
  <2>. SUFFICES ASSUME HandleMessageClient(c) PROVE Outside(c)'
    OBVIOUS
  <2>1. cpc[c] = "select" /\ toClient[c] # << >> /\ UNCHANGED <<ctrl, backlog>>
    BY DEF HandleMessageClient
  <2>2. toClient[c] = <<"ACCESS_DENIED">> /\ ~Held(<<c, 0>>)
    BY <2>1 DEF Outside, Quiet
  <2>3. Head(toClient[c]) = "ACCESS_DENIED"
    BY <2>2, ShortSeqs
  <2>4. ClientFails(c, "ACCESS_DENIED")
    BY <2>3 DEF HandleMessageClient
  <2>. QED  BY <1>3, <2>1, <2>2, <2>4 DEF Held
<1>6. ServerLost(c) => Outside(c)'
  BY <1>2, <1>3 DEF ServerLost, Held
<1>. QED
  BY <1>2, <1>4, <1>5, <1>6 DEF ClientStep, CreateStream, UdpReply, SendTestEnd, ClientGetsResults

(* A client whose connection the server holds can write on it, and reads   *)
(* the messages one by one.                                                *)
LEMMA WritesHeld ==
    ASSUME TypeOK, NEW c \in Clients, Held(<<c, 0>>), toServer[c] = << >>,
           NEW state, NEW msg, NEW next, Writes(c, state, msg, next)
    PROVE  cpc'[c] = next /\ cstate'[c] = state /\ toServer'[c] = <<msg>> /\ opened' = opened
BY ShortSeqs DEF Writes, Tell, TypeOK

LEMMA ReadsMessage ==
    ASSUME TypeOK, NEW c \in Clients, Held(<<c, 0>>), HandleMessageClient(c)
    PROVE  /\ cpc[c] = "select" /\ toClient[c] # << >> /\ toClient'[c] = Tail(toClient[c])
           /\ datagrams' = datagrams
           /\ LET m == Head(toClient[c]) IN
                 /\ toServer[c] = << >> /\ m = "PARAM_EXCHANGE" =>
                       cpc'[c] = "select" /\ cstate'[c] = m /\ toServer'[c] = <<"params">>
                 /\ m = "CREATE_STREAMS" =>
                       cpc'[c] = "streams" /\ cstate'[c] = m /\ toServer' = toServer /\ opened' = opened
                 /\ m \in {"TEST_START", "TEST_RUNNING"} =>
                       cpc'[c] = "select" /\ cstate'[c] = m /\ toServer' = toServer
                 /\ toServer[c] = << >> /\ m = "EXCHANGE_RESULTS" =>
                       cpc'[c] = "results" /\ cstate'[c] = m /\ toServer'[c] = <<"results">>
                 /\ toServer[c] = << >> /\ m = "DISPLAY_RESULTS" =>
                       cpc'[c] = "ok" /\ cstate'[c] = "IPERF_DONE" /\ toServer'[c] = <<"IPERF_DONE">>
<1>. DEFINE m == Head(toClient[c])
<1>1. /\ cpc \in [Clients -> {"start", "select", "streams", "reply", "results", "ok", "failed"}]
      /\ cstate \in [Clients -> States]
      /\ toServer \in [Clients -> Seq(Messages)] /\ toClient \in [Clients -> Seq(Messages)]
  BY DEF TypeOK, Final
<1>2. /\ cpc[c] = "select" /\ toClient[c] # << >> /\ toClient'[c] = Tail(toClient[c])
      /\ datagrams' = datagrams
  BY <1>1 DEF HandleMessageClient
<1>3. CASE m = "PARAM_EXCHANGE"
  <2>1. Writes(c, m, "params", "select")
    BY <1>3 DEF HandleMessageClient
  <2>. QED  BY <1>2, <1>3, <2>1, WritesHeld
<1>4. CASE m \in {"CREATE_STREAMS", "TEST_START", "TEST_RUNNING"}
  BY <1>1, <1>2, <1>4 DEF HandleMessageClient
<1>5. CASE m = "EXCHANGE_RESULTS"
  <2>1. Writes(c, m, "results", "results")
    BY <1>5 DEF HandleMessageClient
  <2>. QED  BY <1>2, <1>5, <2>1, WritesHeld
<1>6. CASE m = "DISPLAY_RESULTS"
  BY <1>1, <1>2, <1>6, ShortSeqs DEF HandleMessageClient, Tell
<1>. QED  BY <1>2, <1>3, <1>4, <1>5, <1>6

(* A client the server has taken goes from phase to phase.                 *)
LEMMA OwnInside ==
    ASSUME TypeOK, NEW c \in Clients, Inside(c), ClientStep(c)
    PROVE  Inside(c)'
<1>. USE DEF options, clientVars, serverVars, netVars
<1>1. /\ cpc \in [Clients -> {"start", "select", "streams", "reply", "results", "ok", "failed"}]
      /\ cstate \in [Clients -> States] /\ opened \in [Clients -> Nat] /\ opened[c] \in Nat
      /\ toServer \in [Clients -> Seq(Messages)] /\ toClient \in [Clients -> Seq(Messages)]
  BY DEF TypeOK, Final
<1>2. /\ Controls(c) /\ Held(<<c, 0>>) /\ ctrl[1] = c
      /\ Total(c) \in Nat /\ Total(c) > 0
  BY HeldParts, TotalFacts DEF Inside
<1>3. UNCHANGED <<protocol, mode, spc, sstate, ctrl, streams, replied>> /\ Total(c)' = Total(c)
  BY DEF ClientStep, Connect, HandleMessageClient, ServerLost, CreateStream, UdpReply,
         SendTestEnd, ClientGetsResults, Total
<1>4. ~Connect(c) /\ ~ServerLost(c)
  BY <1>2 DEF Connect, ServerLost, Inside, Exchanging, Creating, Testing, Finishing, Displaying, At
<1>7. CASE Exchanging(c)
  <2>1. HandleMessageClient(c)
    BY <1>4, <1>7 DEF Exchanging, At, ClientStep, CreateStream, UdpReply, SendTestEnd, ClientGetsResults
  <2>2. toClient[c] = <<"PARAM_EXCHANGE">> /\ toServer[c] = << >>
    BY <1>7, <2>1 DEF Exchanging, At, HandleMessageClient
  <2>3. Head(toClient[c]) = "PARAM_EXCHANGE" /\ Tail(toClient[c]) = << >>
    BY <2>2, ShortSeqs
  <2>4. At(c, "select", "PARAM_EXCHANGE", <<"params">>, << >>)'
    BY <1>2, <2>1, <2>2, <2>3, ReadsMessage DEF At
  <2>. QED  BY <1>2, <1>3, <1>7, <2>4 DEF Inside, Exchanging, Controls
<1>8. CASE Creating(c)
  <2>0. /\ spc = "select" /\ sstate = "CREATE_STREAMS"
        /\ protocol[c] = "udp" => \A k \in replied : k[1] = c => k[2] <= Len(streams)
    BY <1>8 DEF Creating
  <2>1. HandleMessageClient(c) \/ CreateStream(c) \/ UdpReply(c)
    BY <1>4, <1>8 DEF Creating, At, ClientStep, SendTestEnd, ClientGetsResults
  <2>2. CASE HandleMessageClient(c)
    <3>1. /\ toClient[c] = <<"CREATE_STREAMS">> /\ toServer[c] = << >> /\ opened[c] = 0
          /\ streams = << >> /\ datagrams = << >>
      BY <1>8, <2>2 DEF Creating, At, HandleMessageClient
    <3>2. At(c, "streams", "CREATE_STREAMS", << >>, << >>)' /\ opened'[c] = 0 /\ datagrams' = << >>
      <4>1. Head(toClient[c]) = "CREATE_STREAMS" /\ Tail(toClient[c]) = << >>
        BY <3>1, ShortSeqs
      <4>. QED  BY <1>2, <2>2, <3>1, <4>1, ReadsMessage DEF At
    <3>3. Creating(c)'
      BY <1>2, <1>3, <2>0, <3>1, <3>2, ShortSeqs DEF Creating
    <3>. QED  BY <1>2, <1>3, <3>3 DEF Inside, Controls
  <2>3. CASE CreateStream(c)
    <3>1. /\ cstate[c] = "CREATE_STREAMS" /\ toServer[c] = << >> /\ toClient[c] = << >>
          /\ opened[c] < Total(c) /\ cpc[c] = "streams" /\ toClient' = toClient
          /\ protocol[c] = "udp" => Len(streams) = opened[c] /\ datagrams = << >>
      BY <1>8, <2>3 DEF Creating, At, CreateStream
    <3>2. CASE protocol[c] = "udp"
      <4>0. UdpListening
        BY <1>2, <2>0, <3>2 DEF UdpListening
      <4>3. datagrams' = Append(datagrams, <<c, opened[c] + 1>>)
        BY <2>3, <3>2, <4>0 DEF CreateStream
      <4>4. opened' = opened /\ At(c, "reply", "CREATE_STREAMS", << >>, << >>)'
        BY <1>1, <2>3, <3>1, <3>2 DEF CreateStream, At
      <4>1. /\ datagrams' = <<<<c, opened[c] + 1>>>> /\ opened' = opened
            /\ At(c, "reply", "CREATE_STREAMS", << >>, << >>)'
        BY <3>1, <3>2, <4>3, <4>4, ShortSeqs
      <4>2. Creating(c)'
        BY <1>3, <2>0, <3>1, <3>2, <4>1 DEF Creating
      <4>. QED  BY <1>2, <1>3, <4>2 DEF Inside, Controls
    <3>3. CASE protocol[c] # "udp"
      <4>1. protocol[c] = "tcp"
        BY <3>3, OptionsAssumption DEF TypeOK
      <4>2. StreamConnected(c)
        BY <2>0, <2>3, <3>3 DEF CreateStream
      <4>3. /\ opened'[c] = opened[c] + 1 /\ cstate' = cstate /\ toServer' = toServer
            /\ cpc'[c] = IF opened[c] + 1 = Total(c) THEN "select" ELSE "streams"
        BY <1>1, <4>2 DEF StreamConnected
      <4>4. CASE opened[c] + 1 = Total(c)
        <5>1. At(c, "select", "CREATE_STREAMS", << >>, << >>)'
          BY <3>1, <4>3, <4>4 DEF At
        <5>2. Creating(c)'
          BY <1>3, <2>0, <4>1, <4>3, <4>4, <5>1 DEF Creating
        <5>. QED  BY <1>2, <1>3, <5>2 DEF Inside, Controls
      <4>5. CASE opened[c] + 1 # Total(c)
        <5>1. At(c, "streams", "CREATE_STREAMS", << >>, << >>)' /\ opened'[c] < Total(c)
          BY <1>1, <1>2, <3>1, <4>3, <4>5 DEF At
        <5>2. Creating(c)'
          BY <1>3, <2>0, <4>1, <5>1 DEF Creating
        <5>. QED  BY <1>2, <1>3, <5>2 DEF Inside, Controls
      <4>. QED  BY <4>4, <4>5
    <3>. QED  BY <3>2, <3>3
  <2>4. CASE UdpReply(c)
    <3>1. /\ cstate[c] = "CREATE_STREAMS" /\ toServer[c] = << >> /\ toClient[c] = << >>
          /\ protocol[c] = "udp" /\ opened[c] < Total(c) /\ UNCHANGED <<toClient, datagrams>>
          /\ \/ Len(streams) = opened[c] /\ datagrams = <<<<c, opened[c] + 1>>>>
             \/ /\ Len(streams) = opened[c] + 1 /\ opened[c] + 1 < Total(c)
                /\ datagrams = << >> /\ <<c, opened[c] + 1>> \in replied
      BY <1>8, <2>4 DEF Creating, At, UdpReply
    <3>2. CASE Len(streams) = opened[c] /\ datagrams = <<<<c, opened[c] + 1>>>>
      <4>1. <<c, opened[c] + 1>> \in Range(datagrams)
        BY <3>2, RangeOf
      <4>2. <<c, opened[c] + 1>> \notin replied
        <5>. SUFFICES ASSUME <<c, opened[c] + 1>> \in replied PROVE FALSE
          OBVIOUS
        <5>1. <<c, opened[c] + 1>>[2] <= opened[c]
          BY <2>0, <3>1, <3>2
        <5>. QED  BY <1>1, <5>1
      <4>. QED  BY <2>4, <4>1, <4>2 DEF UdpReply
    <3>3. CASE /\ Len(streams) = opened[c] + 1 /\ opened[c] + 1 < Total(c)
               /\ datagrams = << >> /\ <<c, opened[c] + 1>> \in replied
      <4>1. StreamConnected(c)
        BY <2>4, <3>3 DEF UdpReply
      <4>2. opened'[c] = opened[c] + 1 /\ At(c, "streams", "CREATE_STREAMS", << >>, << >>)'
        BY <1>1, <1>2, <3>1, <3>3, <4>1 DEF StreamConnected, At
      <4>3. Creating(c)'
        BY <1>3, <2>0, <3>1, <3>3, <4>2 DEF Creating
      <4>. QED  BY <1>2, <1>3, <4>3 DEF Inside, Controls
    <3>. QED  BY <3>1, <3>2, <3>3
  <2>. QED  BY <2>1, <2>2, <2>3, <2>4
<1>9. CASE Testing(c)
  <2>1. HandleMessageClient(c) \/ UdpReply(c) \/ SendTestEnd(c)
    BY <1>4, <1>9 DEF Testing, At, ClientStep, CreateStream, ClientGetsResults
  <2>2. CASE HandleMessageClient(c)
    <3>1. /\ toServer[c] = << >>
          /\ \/ toClient[c] = <<"TEST_START", "TEST_RUNNING">> \/ toClient[c] = <<"TEST_RUNNING">>
      BY <1>9, <2>2 DEF Testing, At, HandleMessageClient
    <3>2. \/ At(c, "select", "TEST_START", << >>, <<"TEST_RUNNING">>)'
          \/ At(c, "select", "TEST_RUNNING", << >>, << >>)'
      <4>1. CASE toClient[c] = <<"TEST_START", "TEST_RUNNING">>
        <5>1. Head(toClient[c]) = "TEST_START" /\ Tail(toClient[c]) = <<"TEST_RUNNING">>
          BY <4>1, ShortSeqs
        <5>. QED  BY <1>2, ReadsMessage, <2>2, <3>1, <5>1 DEF At
      <4>2. CASE toClient[c] = <<"TEST_RUNNING">>
        <5>1. Head(toClient[c]) = "TEST_RUNNING" /\ Tail(toClient[c]) = << >>
          BY <4>2, ShortSeqs
        <5>. QED  BY <1>2, ReadsMessage, <2>2, <3>1, <5>1 DEF At
      <4>. QED  BY <3>1, <4>1, <4>2
    <3>. QED  BY <1>2, <1>3, <1>9, <3>2 DEF Testing, Inside, Controls
  <2>3. CASE UdpReply(c)
    <3>1. /\ At(c, "reply", "CREATE_STREAMS", << >>, <<"TEST_START", "TEST_RUNNING">>)
          /\ opened[c] + 1 = Total(c) /\ <<c, opened[c] + 1>> \in replied
      BY <1>9, <2>3 DEF Testing, At, UdpReply
    <3>2. StreamConnected(c) /\ toClient' = toClient
      BY <2>3, <3>1 DEF UdpReply
    <3>3. At(c, "select", "CREATE_STREAMS", << >>, <<"TEST_START", "TEST_RUNNING">>)'
      BY <1>1, <3>1, <3>2 DEF StreamConnected, At
    <3>. QED  BY <1>2, <1>3, <1>9, <3>3 DEF Testing, Inside, Controls
  <2>4. CASE SendTestEnd(c)
    <3>1. toServer[c] = << >> /\ toClient[c] = << >> /\ toClient' = toClient
      BY <1>9, <2>4 DEF Testing, At, SendTestEnd
    <3>2. At(c, "select", "TEST_END", <<"TEST_END">>, << >>)'
      BY <1>2, <2>4, <3>1, WritesHeld DEF SendTestEnd, At
    <3>. QED  BY <1>2, <1>3, <1>9, <3>2 DEF Testing, Inside, Controls
  <2>. QED  BY <2>1, <2>2, <2>3, <2>4
<1>10. CASE Finishing(c)
  <2>1. HandleMessageClient(c)
    BY <1>4, <1>10 DEF Finishing, At, ClientStep, CreateStream, UdpReply, SendTestEnd, ClientGetsResults
  <2>2. toClient[c] = <<"EXCHANGE_RESULTS">> /\ toServer[c] = << >>
    BY <1>10, <2>1 DEF Finishing, At, HandleMessageClient
  <2>3. At(c, "results", "EXCHANGE_RESULTS", <<"results">>, << >>)'
    <3>1. Head(toClient[c]) = "EXCHANGE_RESULTS" /\ Tail(toClient[c]) = << >>
      BY <2>2, ShortSeqs
    <3>. QED  BY <1>2, <2>1, <2>2, <3>1, ReadsMessage DEF At
  <2>. QED  BY <1>2, <1>3, <1>10, <2>3 DEF Finishing, Inside, Controls
<1>11. CASE Displaying(c)
  <2>1. HandleMessageClient(c) \/ ClientGetsResults(c)
    BY <1>4, <1>11 DEF Displaying, At, ClientStep, CreateStream, UdpReply, SendTestEnd
  <2>2. CASE HandleMessageClient(c)
    <3>1. toServer[c] = << >> /\ toClient[c] = <<"DISPLAY_RESULTS">>
      BY <1>11, <2>2 DEF Displaying, At, HandleMessageClient
    <3>2. At(c, "ok", "IPERF_DONE", <<"IPERF_DONE">>, << >>)'
      <4>1. Head(toClient[c]) = "DISPLAY_RESULTS" /\ Tail(toClient[c]) = << >>
        BY <3>1, ShortSeqs
      <4>. QED  BY <1>2, <2>2, <3>1, <4>1, ReadsMessage DEF At
    <3>. QED  BY <1>2, <1>3, <1>11, <3>2 DEF Displaying, Inside, Controls
  <2>3. CASE ClientGetsResults(c)
    <3>1. At(c, "results", "EXCHANGE_RESULTS", << >>, <<"results", "DISPLAY_RESULTS">>)
      BY <1>11, <2>3 DEF Displaying, At, ClientGetsResults
    <3>2. At(c, "select", "EXCHANGE_RESULTS", << >>, <<"DISPLAY_RESULTS">>)'
      BY <1>1, <2>3, <3>1, ShortSeqs DEF At, ClientGetsResults
    <3>. QED  BY <1>2, <1>3, <1>11, <3>2 DEF Displaying, Inside, Controls
  <2>. QED  BY <2>1, <2>2, <2>3
<1>. QED  BY <1>7, <1>8, <1>9, <1>10, <1>11 DEF Inside

(* What the server does to a client it has not taken: it takes it, denies  *)
(* it, or lets it wait.                                                    *)
LEMMA AnswerElse ==
    ASSUME TypeOK, NEW c \in Clients, NEW k \in Connection, NEW msg
    PROVE  /\ k # <<c, 0>> /\ AnswerOn(k, <<msg>>) => toClient'[c] = toClient[c]
           /\ k = <<c, 0>> /\ AnswerOn(k, <<msg>>) /\ toClient[c] = << >> => toClient'[c] = <<msg>>
<1>1. k = <<k[1], k[2]>> /\ k[1] \in Clients
  BY DEF Connection
<1>2. k # <<c, 0>> /\ AnswerOn(k, <<msg>>) => toClient'[c] = toClient[c]
  BY <1>1 DEF AnswerOn, Answer, TypeOK
<1>3. k = <<c, 0>> /\ AnswerOn(k, <<msg>>) /\ toClient[c] = << >> => toClient'[c] = <<msg>>
  BY ShortSeqs DEF AnswerOn, Answer, TypeOK
<1>. QED  BY <1>2, <1>3

LEMMA ServerOutside ==
    ASSUME TypeOK, Sockets, InOrder, NEW c \in Clients, Outside(c), ServerStep, faults' = faults
    PROVE  Outside(c)' \/ Inside(c)'
<1>. USE DEF options, clientVars, serverVars, netVars
<1>1. /\ cpc' = cpc /\ cstate' = cstate /\ ~Controls(c)
      /\ <<c, 0>> \in Connection /\ <<c, 0>> # None /\ backlog \in Seq(Connection)
      /\ ctrl # None => ctrl[1] \in Clients
  BY BacklogType, ServerWorks DEF Outside, ServerWork, Connection
<1>2. Range(<< >>) = {} /\ ServerReturns => ~Held(<<c, 0>>)' /\ ~Controls(c)'
  BY <1>1 DEF ServerReturns, Held, Controls
<1>3. Range(<< >>) = {}
  BY <1>1, RangeParts
<1>4. ASSUME toServer'[c] = toServer[c], toClient'[c] = toClient[c], ~Controls(c)',
             Range(backlog') \subseteq Range(backlog)
      PROVE  Outside(c)'
  BY <1>1, <1>4 DEF Outside, Quiet, Held, Controls
<1>5. ASSUME ServerReturns, toServer'[c] = toServer[c], toClient'[c] = toClient[c]
      PROVE  Outside(c)'
  <2>1. backlog' = << >>
    BY <1>5 DEF ServerReturns
  <2>. QED  BY <1>2, <1>3, <1>4, <1>5, <2>1
<1>6. ASSUME backlog # << >>
      PROVE  /\ Range(backlog) = {Head(backlog)} \cup Range(Tail(backlog))
             /\ Head(backlog) \in Connection
             /\ Head(backlog) = <<c, 0>> =>
                   /\ <<c, 0>> \notin Range(Tail(backlog))
                   /\ cpc[c] = "select" /\ cstate[c] = "0" /\ Quiet(c)
  <2>1. Range(backlog) = {Head(backlog)} \cup Range(Tail(backlog)) /\ Head(backlog) \in Connection
    BY <1>1, <1>6, RangeParts
  <2>. SUFFICES ASSUME Head(backlog) = <<c, 0>>
                PROVE  /\ <<c, 0>> \notin Range(Tail(backlog))
                       /\ cpc[c] = "select" /\ cstate[c] = "0" /\ Quiet(c)
    BY <2>1
  <2>2. cpc[c] # "start"
    BY <2>1 DEF InOrder
  <2>3. \A k \in Range(Tail(backlog)) : k[1] = Head(backlog)[1] => Head(backlog)[2] < k[2]
    BY <1>1, <1>6, OrderedParts DEF InOrder
  <2>4. <<c, 0>> \notin Range(Tail(backlog))
    <3>. SUFFICES ASSUME <<c, 0>> \in Range(Tail(backlog)) PROVE FALSE
      OBVIOUS
    <3>1. <<c, 0>>[2] < <<c, 0>>[2]
      BY <2>3
    <3>. QED  BY <3>1
  <2>5. Held(<<c, 0>>)
    BY <2>1 DEF Held
  <2>. QED  BY <2>2, <2>4, <2>5 DEF Outside
<1>7. ASSUME backlog # << >>, AnswerOn(Head(backlog), <<"ACCESS_DENIED">>), toServer'[c] = toServer[c],
             ServerReturns \/ (ctrl' = ctrl /\ backlog' = Tail(backlog))
      PROVE  Outside(c)'
  <2>0. ~Controls(c)' /\ Range(backlog') \subseteq Range(Tail(backlog))
    BY <1>1, <1>2, <1>3, <1>7 DEF ServerReturns, Controls
  <2>1. CASE Head(backlog) = <<c, 0>>
    <3>1. toClient'[c] = <<"ACCESS_DENIED">> /\ toServer'[c] = << >>
      BY <1>1, <1>6, <1>7, <2>1, AnswerElse DEF Quiet
    <3>2. ~Held(<<c, 0>>)'
      BY <1>6, <1>7, <2>0, <2>1 DEF Held, Controls
    <3>. QED  BY <1>1, <1>6, <1>7, <2>0, <2>1, <3>1, <3>2 DEF Outside
  <2>2. CASE Head(backlog) # <<c, 0>>
    <3>1. toClient'[c] = toClient[c]
      BY <1>6, <1>7, <2>2, AnswerElse
    <3>. QED  BY <1>4, <1>6, <1>7, <2>0, <3>1
  <2>. QED  BY <2>1, <2>2
<1>8. Listen => Outside(c)'
  BY <1>1, <1>4 DEF Listen, Controls
<1>9. Accept => Outside(c)' \/ Inside(c)'
  <2>. SUFFICES ASSUME Accept PROVE Outside(c)' \/ Inside(c)'
    OBVIOUS
  <2>. DEFINE k == Head(backlog)
  <2>1. backlog # << >> /\ toServer' = toServer
    BY DEF Accept
  <2>2. CASE /\ ctrl' = k /\ sstate' = "PARAM_EXCHANGE" /\ spc' = "params"
             /\ AnswerOn(k, <<"PARAM_EXCHANGE">>) /\ backlog' = Tail(backlog)
    <3>1. CASE k = <<c, 0>>
      <4>1. toClient'[c] = <<"PARAM_EXCHANGE">> /\ toServer'[c] = << >>
        BY <1>1, <1>6, <2>1, <2>2, <3>1, AnswerElse DEF Quiet
      <4>. QED  BY <1>1, <1>6, <2>1, <2>2, <3>1, <4>1 DEF Inside, Exchanging, At, Controls
    <3>2. CASE k # <<c, 0>>
      <4>1. toClient'[c] = toClient[c] /\ ~Controls(c)'
        BY <1>6, <2>1, <2>2, <3>2, AnswerElse DEF Controls
      <4>. QED  BY <1>4, <1>6, <2>1, <2>2, <4>1
    <3>. QED  BY <3>1, <3>2
  <2>3. CASE ServerReturns /\ UNCHANGED toClient
    BY <1>5, <2>1, <2>3
  <2>4. CASE AnswerOn(k, <<"ACCESS_DENIED">>) /\ ctrl' = ctrl /\ backlog' = Tail(backlog)
    BY <1>7, <2>1, <2>4
  <2>. QED  BY <2>2, <2>3, <2>4 DEF Accept
<1>10. ASSUME NEW d \in Clients, NEW m, Answer(d, m), d # c
       PROVE  toClient'[c] = toClient[c]
  BY <1>10 DEF Answer, TypeOK
<1>11. ExchangeParameters => Outside(c)'
  <2>. SUFFICES ASSUME ExchangeParameters PROVE Outside(c)'
    OBVIOUS
  <2>. DEFINE d == ctrl[1]
  <2>1. d \in Clients /\ (Controls(d) => d # c)
    BY <1>1 DEF ExchangeParameters, TypeOK
  <2>2. CASE /\ Controls(d) /\ toServer' = [toServer EXCEPT ![d] = Tail(@)]
             /\ Answer(d, <<"CREATE_STREAMS">>) /\ ctrl' = ctrl /\ backlog' \in {backlog, << >>}
    <3>1. toServer'[c] = toServer[c] /\ toClient'[c] = toClient[c]
      BY <1>10, <2>1, <2>2 DEF TypeOK
    <3>. QED  BY <1>1, <1>3, <1>4, <2>2, <3>1 DEF Controls
  <2>3. CASE /\ Controls(d) /\ toServer' = [toServer EXCEPT ![d] = Tail(@)]
             /\ ServerReturns /\ UNCHANGED toClient
    <3>1. toServer'[c] = toServer[c]
      BY <2>1, <2>3 DEF TypeOK
    <3>. QED  BY <1>5, <2>3, <3>1
  <2>4. CASE ServerReturns /\ UNCHANGED <<toServer, toClient>>
    BY <1>5, <2>4
  <2>5. faults' # faults + 1
    BY DEF TypeOK
  <2>. QED  BY <2>2, <2>3, <2>4, <2>5 DEF ExchangeParameters
<1>12. ASSUME NEW k, AddStream(k), sstate = "CREATE_STREAMS", toServer'[c] = toServer[c],
              protocol[ctrl[1]] # "udp" => backlog # << >>
       PROVE  Outside(c)'
  <2>1. ctrl # None /\ ctrl[1] # c /\ ctrl[1] \in Clients
    BY <1>1, <1>12, HeldParts DEF Sockets, TypeOK
  <2>2. toClient'[c] = toClient[c] /\ ctrl' = ctrl /\ backlog' \in {backlog, << >>, Tail(backlog)}
    BY <1>10, <1>12, <2>1 DEF AddStream
  <2>3. Range(backlog') \subseteq Range(backlog)
    BY <1>3, <1>6, <1>12, <2>2 DEF AddStream
  <2>. QED  BY <1>1, <1>4, <1>12, <2>2, <2>3 DEF Controls
<1>13. AcceptTcpStream => Outside(c)'
  BY <1>7, <1>12 DEF AcceptTcpStream
<1>14. AcceptUdpStream => Outside(c)'
  BY <1>12 DEF AcceptUdpStream, UdpListening
<1>15. HandleMessageServer => Outside(c)'
  <2>. SUFFICES ASSUME HandleMessageServer PROVE Outside(c)'
    OBVIOUS
  <2>. DEFINE d == ctrl[1]
  <2>1. d \in Clients /\ d # c /\ toServer'[c] = toServer[c]
    BY <1>1 DEF HandleMessageServer, TypeOK
  <2>2. CASE Answer(d, <<"EXCHANGE_RESULTS">>) /\ UNCHANGED <<ctrl, backlog>>
    BY <1>1, <1>4, <1>10, <2>1, <2>2 DEF Controls
  <2>3. CASE ServerReturns /\ UNCHANGED toClient
    BY <1>5, <2>1, <2>3
  <2>. QED  BY <2>2, <2>3 DEF HandleMessageServer
<1>16. ClientLost => Outside(c)'
  BY <1>5 DEF ClientLost
<1>17. ExchangeResults => Outside(c)'
  <2>. SUFFICES ASSUME ExchangeResults PROVE Outside(c)'
    OBVIOUS
  <2>. DEFINE d == ctrl[1]
  <2>1. d \in Clients /\ d # c
    BY <1>1, HeldParts DEF ExchangeResults, Sockets, TypeOK
  <2>2. toServer'[c] = toServer[c]
    BY <2>1 DEF ExchangeResults, TypeOK
  <2>3. CASE Answer(d, <<"results", "DISPLAY_RESULTS">>) /\ UNCHANGED <<ctrl, backlog>>
    BY <1>1, <1>4, <1>10, <2>1, <2>2, <2>3 DEF Controls
  <2>4. CASE ServerReturns /\ UNCHANGED toClient
    BY <1>5, <2>2, <2>4
  <2>. QED  BY <2>3, <2>4 DEF ExchangeResults
<1>. QED
  BY <1>8, <1>9, <1>11, <1>13, <1>14, <1>15, <1>16, <1>17 DEF ServerStep

(* What it does to the client it has taken.                                *)
LEMMA ServerInside ==
    ASSUME TypeOK, Sockets, InOrder, NotInvited, NoGap, NEW c \in Clients, Inside(c),
           protocol[c] = "udp" \/ ~Tos, ServerStep, faults' = faults
    PROVE  Outside(c)' \/ Inside(c)'
<1>. USE DEF options, clientVars, serverVars, netVars
<1>1. /\ cpc' = cpc /\ cstate' = cstate /\ opened' = opened /\ protocol' = protocol /\ mode' = mode
      /\ Controls(c) /\ ctrl # None /\ ctrl[1] = c /\ ctrl[2] = 0
      /\ Total(c)' = Total(c) /\ Total(c) \in Nat /\ Total(c) > 0 /\ opened[c] \in Nat
      /\ backlog \in Seq(Connection) /\ datagrams \in Seq(Connection)
      /\ toServer \in [Clients -> Seq(Messages)] /\ toClient \in [Clients -> Seq(Messages)]
  BY BacklogType, ServerWorks, HeldParts, TotalFacts DEF Inside, ServerWork, Total, TypeOK
<1>2. /\ spc = "params" => Exchanging(c)
      /\ spc = "results" => Finishing(c)
      /\ spc = "select" /\ sstate = "CREATE_STREAMS" => Creating(c)
      /\ spc = "select" /\ sstate # "CREATE_STREAMS" => Testing(c) \/ Displaying(c)
      /\ spc # "closed"
  BY DEF Inside, Exchanging, Creating, Testing, Finishing, Displaying
<1>3. Gone(c) => Displaying(c) /\ At(c, "ok", "IPERF_DONE", <<"IPERF_DONE">>, << >>)
  BY DEF Inside, Gone, Final, Exchanging, Creating, Testing, Finishing, Displaying, At
<1>4. ~Listen
  BY <1>2 DEF Listen
<1>5. ASSUME backlog # << >>
      PROVE  Head(backlog) \in Connection /\ Head(backlog) # <<c, 0>>
  <2>1. Head(backlog) \in Connection /\ Head(backlog) \in Range(backlog)
    BY <1>1, <1>5, RangeParts
  <2>2. Head(backlog)[1] = c => 0 < Head(backlog)[2]
    BY <1>1, <2>1 DEF InOrder
  <2>. QED  BY <2>1, <2>2
<1>6. Accept => Inside(c)'
  <2>. SUFFICES ASSUME Accept PROVE Inside(c)'
    OBVIOUS
  <2>1. /\ backlog # << >> /\ AnswerOn(Head(backlog), <<"ACCESS_DENIED">>) /\ toServer' = toServer
        /\ UNCHANGED <<ctrl, sstate, spc, streams>> /\ spc = "select" /\ sstate # "CREATE_STREAMS"
        /\ replied' = replied
    BY <1>1 DEF Accept
  <2>2. toClient'[c] = toClient[c]
    BY <1>5, <2>1, AnswerElse
  <2>3. Testing(c) \/ Displaying(c)
    BY <1>2, <2>1
  <2>. QED  BY <1>1, <2>1, <2>2, <2>3 DEF Inside, Testing, Displaying, At, Controls
<1>7. ExchangeParameters => Inside(c)'
  <2>. SUFFICES ASSUME ExchangeParameters PROVE Inside(c)'
    OBVIOUS
  <2>1. Exchanging(c) /\ ~Gone(c) /\ faults' # faults + 1 /\ spc = "params"
    BY <1>2, <1>3 DEF ExchangeParameters, Exchanging, Displaying, TypeOK
  <2>2. toServer[c] # << >>
    BY <1>1, <2>1 DEF ExchangeParameters
  <2>3. At(c, "select", "PARAM_EXCHANGE", <<"params">>, << >>)
    BY <2>1, <2>2 DEF Exchanging, At
  <2>4. Head(toServer[c]) = "params"
    BY <2>3, ShortSeqs DEF At
  <2>5. /\ toServer' = [toServer EXCEPT ![c] = Tail(@)] /\ Answer(c, <<"CREATE_STREAMS">>)
        /\ sstate' = "CREATE_STREAMS" /\ spc' = "select" /\ UNCHANGED <<ctrl, streams, datagrams, replied>>
    BY <1>1, <2>1, <2>4 DEF ExchangeParameters
  <2>6. At(c, "select", "PARAM_EXCHANGE", << >>, <<"CREATE_STREAMS">>)'
    BY <1>1, <2>3, <2>5, ShortSeqs DEF At, Answer
  <2>7. streams = << >> /\ datagrams = << >>
    BY <2>1 DEF Sockets
  <2>8. opened[c] = 0 /\ \A k \in replied : k[1] # c
    BY <1>1, <2>1 DEF NotInvited, Unserved
  <2>9. Creating(c)'
    BY <1>1, <2>5, <2>6, <2>7, <2>8 DEF Creating
  <2>. QED  BY <1>1, <2>5, <2>9 DEF Inside, Controls
<1>8. AcceptTcpStream => Inside(c)'
  <2>. SUFFICES ASSUME AcceptTcpStream PROVE Inside(c)'
    OBVIOUS
  <2>. DEFINE k == Head(backlog)  n == Len(streams) + 1
  <2>1. /\ Creating(c) /\ protocol[c] = "tcp" /\ backlog # << >> /\ ~Tos
        /\ spc = "select" /\ sstate = "CREATE_STREAMS" /\ UNCHANGED <<toServer, replied>>
    BY <1>1, <1>2 DEF AcceptTcpStream
  <2>2. CASE k[1] = c
    <3>1. n <= opened[c] /\ n \in Nat /\ n > 0
      <4>1. n <= opened[c]
        BY <1>1, <2>2, NextInQueue
      <4>2. Len(streams) \in Nat
        BY LenProperties DEF TypeOK
      <4>. QED  BY <4>1, <4>2
    <3>2. AddStream(k)
      BY <1>1, <2>2 DEF AcceptTcpStream
    <3>3. \/ At(c, "streams", "CREATE_STREAMS", << >>, << >>) /\ opened[c] < Total(c)
          \/ At(c, "select", "CREATE_STREAMS", << >>, << >>) /\ opened[c] = Total(c)
      BY <1>1, <2>1, <3>1 DEF Creating
    <3>4. CASE n = Total(c)
      <4>1. At(c, "select", "CREATE_STREAMS", << >>, << >>)
        BY <1>1, <3>1, <3>3, <3>4
      <4>2. /\ Answer(c, <<"TEST_START", "TEST_RUNNING">>) /\ sstate' = "TEST_RUNNING"
            /\ UNCHANGED <<spc, ctrl>>
        BY <1>1, <3>2, <3>4 DEF AddStream
      <4>3. At(c, "select", "CREATE_STREAMS", << >>, <<"TEST_START", "TEST_RUNNING">>)'
        BY <1>1, <2>1, <4>1, <4>2, ShortSeqs DEF At, Answer
      <4>. QED  BY <1>1, <2>1, <4>2, <4>3 DEF Inside, Testing, Controls
    <3>5. CASE n # Total(c)
      <4>1. UNCHANGED <<sstate, toClient, spc, ctrl>>
        BY <1>1, <3>2, <3>5 DEF AddStream
      <4>2. \/ At(c, "streams", "CREATE_STREAMS", << >>, << >>)' /\ opened[c] < Total(c)
            \/ At(c, "select", "CREATE_STREAMS", << >>, << >>)' /\ opened[c] = Total(c)
        BY <1>1, <2>1, <3>3, <4>1 DEF At
      <4>3. Creating(c)'
        BY <1>1, <2>1, <4>1, <4>2 DEF Creating
      <4>. QED  BY <1>1, <4>1, <4>3 DEF Inside, Controls
    <3>. QED  BY <3>4, <3>5
  <2>3. CASE k[1] # c
    <3>1. AnswerOn(k, <<"ACCESS_DENIED">>) /\ UNCHANGED <<spc, sstate, ctrl, streams, datagrams>>
      BY <1>1, <2>1, <2>3 DEF AcceptTcpStream
    <3>2. toClient'[c] = toClient[c]
      BY <1>5, <2>1, <3>1, AnswerElse
    <3>. QED  BY <1>1, <2>1, <3>1, <3>2 DEF Inside, Creating, At, Controls
  <2>. QED  BY <2>2, <2>3
<1>9. AcceptUdpStream => Inside(c)'
  <2>. SUFFICES ASSUME AcceptUdpStream PROVE Inside(c)'
    OBVIOUS
  <2>. DEFINE k == <<c, opened[c] + 1>>
  <2>1. /\ Creating(c) /\ protocol[c] = "udp" /\ datagrams # << >>
        /\ spc = "select" /\ sstate = "CREATE_STREAMS" /\ toServer' = toServer
        /\ \A j \in replied : j[1] = c => j[2] <= Len(streams)
    BY <1>1, <1>2 DEF AcceptUdpStream, UdpListening, Creating
  <2>2. /\ At(c, "reply", "CREATE_STREAMS", << >>, << >>) /\ opened[c] < Total(c)
        /\ Len(streams) = opened[c] /\ datagrams = <<k>>
    BY <2>1 DEF Creating
  <2>3. Head(datagrams) = k /\ Tail(datagrams) = << >>
    BY <2>2, ShortSeqs
  <2>4. AddStream(k) /\ replied' = replied \cup {k}
    BY <2>3 DEF AcceptUdpStream
  <2>5. Len(streams') = opened[c] + 1 /\ UNCHANGED <<spc, ctrl>>
    BY <2>2, <2>4, AppendProperties DEF AddStream, TypeOK
  <2>6. CASE opened[c] + 1 = Total(c)
    <3>1. Answer(c, <<"TEST_START", "TEST_RUNNING">>) /\ sstate' = "TEST_RUNNING"
      BY <1>1, <2>2, <2>4, <2>6 DEF AddStream
    <3>2. At(c, "reply", "CREATE_STREAMS", << >>, <<"TEST_START", "TEST_RUNNING">>)'
      BY <1>1, <2>1, <2>2, <3>1, ShortSeqs DEF At, Answer
    <3>. QED  BY <1>1, <2>1, <2>4, <2>5, <2>6, <3>1, <3>2 DEF Inside, Testing, Controls
  <2>7. CASE opened[c] + 1 # Total(c)
    <3>1. UNCHANGED <<sstate, toClient>> /\ datagrams' = << >>
      BY <1>1, <2>1, <2>2, <2>3, <2>4, <2>7 DEF AddStream
    <3>2. At(c, "reply", "CREATE_STREAMS", << >>, << >>)' /\ opened[c] + 1 < Total(c)
      BY <1>1, <2>1, <2>2, <2>7, <3>1 DEF At
    <3>3. \A j \in replied' : j[1] = c => j[2] <= Len(streams')
      <4>1. k[2] = opened[c] + 1
        OBVIOUS
      <4>2. \A j \in replied : j[1] = c => j[2] <= opened[c] /\ j[2] \in Nat
        BY <2>1, <2>2, BacklogType DEF TypeOK
      <4>. QED  BY <1>1, <2>4, <2>5, <4>1, <4>2
    <3>4. Creating(c)'
      BY <1>1, <2>1, <2>2, <2>4, <2>5, <3>1, <3>2, <3>3 DEF Creating
    <3>. QED  BY <1>1, <2>5, <3>4 DEF Inside, Controls
  <2>. QED  BY <2>6, <2>7
<1>10. HandleMessageServer => Outside(c)' \/ Inside(c)'
  <2>. SUFFICES ASSUME HandleMessageServer PROVE Outside(c)' \/ Inside(c)'
    OBVIOUS
  <2>1. spc = "select" /\ toServer[c] # << >> /\ toServer' = [toServer EXCEPT ![c] = Tail(@)]
    BY <1>1 DEF HandleMessageServer
  <2>2. \/ Testing(c) /\ At(c, "select", "TEST_END", <<"TEST_END">>, << >>)
        \/ Displaying(c) /\ At(c, "ok", "IPERF_DONE", <<"IPERF_DONE">>, << >>)
    BY <1>2, <2>1 DEF Creating, Testing, Displaying, At
  <2>3. CASE At(c, "select", "TEST_END", <<"TEST_END">>, << >>)
    <3>1. Head(toServer[c]) = "TEST_END" /\ ~Gone(c)
      BY <2>3, ShortSeqs DEF At, Gone, Final
    <3>2. /\ Answer(c, <<"EXCHANGE_RESULTS">>) /\ sstate' = "EXCHANGE_RESULTS" /\ spc' = "results"
          /\ ctrl' = ctrl
      BY <1>1, <3>1 DEF HandleMessageServer
    <3>3. At(c, "select", "TEST_END", << >>, <<"EXCHANGE_RESULTS">>)'
      BY <1>1, <2>1, <2>3, <3>2, ShortSeqs DEF At, Answer
    <3>. QED  BY <1>1, <3>2, <3>3 DEF Inside, Finishing, Controls
  <2>4. CASE At(c, "ok", "IPERF_DONE", <<"IPERF_DONE">>, << >>)
    <3>1. Head(toServer[c]) = "IPERF_DONE"
      BY <2>4, ShortSeqs DEF At
    <3>2. ServerReturns
      BY <1>1, <3>1 DEF HandleMessageServer
    <3>3. ~Held(<<c, 0>>)' /\ ~Controls(c)'
      <4>1. Range(<< >>) = {} /\ <<c, 0>> # None
        BY <1>1, RangeParts, NoneAssumption
      <4>. QED  BY <3>2, <4>1 DEF ServerReturns, Held, Controls
    <3>. QED  BY <1>1, <2>4, <3>3 DEF Outside, At
  <2>. QED  BY <2>2, <2>3, <2>4
<1>11. ~ClientLost
  BY <1>1, <1>3, ShortSeqs DEF ClientLost, Displaying, At
<1>12. ExchangeResults => Inside(c)'
  <2>. SUFFICES ASSUME ExchangeResults PROVE Inside(c)'
    OBVIOUS
  <2>1. Finishing(c) /\ ~Gone(c) /\ spc = "results"
    BY <1>2, <1>3 DEF ExchangeResults, Finishing, Displaying
  <2>2. toServer[c] # << >>
    BY <1>1, <2>1 DEF ExchangeResults
  <2>3. At(c, "results", "EXCHANGE_RESULTS", <<"results">>, << >>)
    BY <2>1, <2>2 DEF Finishing, At
  <2>4. Head(toServer[c]) = "results"
    BY <2>3, ShortSeqs DEF At
  <2>5. /\ toServer' = [toServer EXCEPT ![c] = Tail(@)] /\ Answer(c, <<"results", "DISPLAY_RESULTS">>)
        /\ sstate' = "DISPLAY_RESULTS" /\ spc' = "select" /\ ctrl' = ctrl
    BY <1>1, <2>1, <2>4 DEF ExchangeResults
  <2>6. At(c, "results", "EXCHANGE_RESULTS", << >>, <<"results", "DISPLAY_RESULTS">>)'
    BY <1>1, <2>3, <2>5, ShortSeqs DEF At, Answer
  <2>. QED  BY <1>1, <2>5, <2>6 DEF Inside, Displaying, Controls
<1>. QED
  BY <1>4, <1>6, <1>7, <1>8, <1>9, <1>10, <1>11, <1>12 DEF ServerStep

-----------------------------------------------------------------------------
(* The two properties                                                      *)
LEMMA FaultsNext ==
    ASSUME TypeOK, Next, faults' = 0
    PROVE  /\ faults = 0
           /\ ServerStep \/ \E d \in Clients : ClientStep(d)
<1>1. faults \in Nat /\ faults + 1 # 0
  BY StreamsAssumption DEF TypeOK
<1>2. ServerStep => faults' \in {faults, faults + 1}
  BY DEF ServerStep, Listen, Accept, ExchangeParameters, AcceptTcpStream, AcceptUdpStream,
         HandleMessageServer, ClientLost, ExchangeResults
<1>3. \A d \in Clients : ClientStep(d) => faults' = faults
  BY DEF ClientStep, Connect, HandleMessageClient, ServerLost, CreateStream, UdpReply,
         SendTestEnd, ClientGetsResults
<1>4. ~Fault
  BY <1>1 DEF Fault
<1>. QED
  BY <1>1, <1>2, <1>3, <1>4 DEF Next, ClientSigend, ClientTimeout, ServerTimeout, ServerSigend

(* The stream added is the client's next one, and the modes of the two     *)
(* ends are opposite.                                                      *)
LEMMA AddPaired ==
    ASSUME TypeOK, StreamsArePaired, NEW k \in Connection, AddStream(k),
           UNCHANGED <<protocol, mode>>, ctrl # None, faults' = 0 => faults = 0,
           protocol[ctrl[1]] = "tcp" \/ faults' = 0 => k = <<ctrl[1], Len(streams) + 1>>
    PROVE  StreamsArePaired'
<1>. DEFINE c == ctrl[1]  n == Len(streams) + 1
<1>1. /\ c \in Clients /\ ctrl' = ctrl /\ Len(streams) \in Nat /\ n \in Nat
      /\ DOMAIN streams = 1..Len(streams)
      /\ streams' = Append(streams, [conn |-> k, sender |-> ServerSends(c, n)])
  BY BacklogType, LenProperties DEF AddStream, TypeOK
<1>2. /\ DOMAIN streams' = 1..n
      /\ streams'[n] = [conn |-> k, sender |-> ServerSends(c, n)]
      /\ \A i \in 1..Len(streams) : streams'[i] = streams[i]
  <2>1. ServerSends(c, n) \in BOOLEAN
    BY DEF ServerSends
  <2>2. [conn |-> k, sender |-> ServerSends(c, n)] \in [conn : Connection, sender : BOOLEAN]
    BY <2>1
  <2>. HIDE DEF n
  <2>3. n = Len(streams) + 1
    BY DEF n
  <2>. QED  BY <1>1, <2>2, <2>3, AppendProperties, LenProperties DEF TypeOK
<1>3. ServerSends(c, n) # ClientSends(c, n)
  <2>1. mode[c] \in {"SENDER", "RECEIVER", "BIDIRECTIONAL"} /\ NumStreams \in Nat
    BY <1>1, OptionsAssumption, StreamsAssumption DEF TypeOK
  <2>. QED  BY <1>1, <2>1 DEF ServerSends, ClientSends
<1>4. SUFFICES ASSUME NEW i \in 1..n, protocol[c] = "tcp" \/ faults' = 0
               PROVE  /\ streams'[i].conn = <<c, i>>
                      /\ streams'[i].sender # ClientSends(c, i)
  BY <1>1, <1>2 DEF StreamsArePaired, ClientSends
<1>5. CASE i = n
  BY <1>2, <1>3, <1>4, <1>5
<1>6. CASE i # n
  <2>1. i \in 1..Len(streams)
    BY <1>1, <1>6
  <2>. QED  BY <1>1, <1>2, <1>4, <2>1 DEF StreamsArePaired
<1>. QED  BY <1>5, <1>6

LEMMA PairedNext ==
    ASSUME TypeOK, InOrder, NoGap, Sockets, InStep, StreamsArePaired, Next
    PROVE  StreamsArePaired'
<1>. USE DEF options, clientVars, serverVars, netVars
<1>1. ASSUME UNCHANGED <<streams, ctrl, protocol, mode>>
      PROVE  StreamsArePaired'
  BY <1>1, FaultsNext DEF StreamsArePaired, ClientSends
<1>2. ASSUME streams' = << >>  PROVE StreamsArePaired'
  <2>1. DOMAIN streams' = {}
    BY <1>2
  <2>. QED  BY <2>1 DEF StreamsArePaired
<1>3. ServerReturns => StreamsArePaired'
  BY <1>2 DEF ServerReturns
<1>4. ASSUME NEW d \in Clients, ClientWork(d)  PROVE StreamsArePaired'
  BY <1>1, <1>4 DEF ClientWork
<1>5. Accept => StreamsArePaired'
  BY <1>1, <1>2, <1>3 DEF Accept, Sockets
<1>6. Listen => StreamsArePaired'
  BY <1>1 DEF Listen
<1>7. ExchangeParameters => StreamsArePaired'
  BY <1>1, <1>3 DEF ExchangeParameters
<1>8. AcceptTcpStream => StreamsArePaired'
  <2>. SUFFICES ASSUME AcceptTcpStream PROVE StreamsArePaired'
    OBVIOUS
  <2>1. backlog # << >> /\ ctrl # None /\ UNCHANGED <<protocol, mode>>
    BY DEF AcceptTcpStream, TypeOK
  <2>2. CASE Head(backlog)[1] = ctrl[1]
    <3>1. Head(backlog) \in Connection /\ AddStream(Head(backlog))
      BY <2>1, <2>2, RangeParts DEF AcceptTcpStream, TypeOK
    <3>. QED  BY <2>1, <2>2, <3>1, NextInQueue, AddPaired, FaultsNext
  <2>3. CASE Head(backlog)[1] # ctrl[1]
    BY <1>1, <1>3, <2>3 DEF AcceptTcpStream
  <2>. QED  BY <2>2, <2>3
<1>9. AcceptUdpStream => StreamsArePaired'
  <2>. SUFFICES ASSUME AcceptUdpStream PROVE StreamsArePaired'
    OBVIOUS
  <2>. DEFINE c == ctrl[1]  k == Head(datagrams)
  <2>1. /\ datagrams # << >> /\ ctrl # None /\ UNCHANGED <<protocol, mode>> /\ AddStream(k)
        /\ sstate = "CREATE_STREAMS" /\ spc = "select" /\ protocol[c] = "udp" /\ c \in Clients
        /\ k \in Connection
    BY BacklogType, RangeParts DEF AcceptUdpStream, UdpListening, TypeOK
  <2>2. ASSUME faults' = 0  PROVE k = <<c, Len(streams) + 1>>
    <3>1. Controls(c)
      BY <2>1, HeldParts DEF Sockets
    <3>2. Inside(c)
      BY <2>1, <2>2, <3>1, FaultsNext DEF InStep, Undisturbed, Outside
    <3>3. Creating(c)
      BY <2>1, <3>2 DEF Inside, Exchanging, Testing, Finishing, Displaying
    <3>4. Len(streams) = opened[c] /\ datagrams = <<<<c, opened[c] + 1>>>>
      BY <2>1, <3>3 DEF Creating
    <3>. QED  BY <3>4, ShortSeqs
  <2>3. protocol[c] # "tcp" /\ (faults' = 0 => faults = 0)
    BY <2>1, FaultsNext
  <2>. HIDE DEF k
  <2>. QED  BY <2>1, <2>2, <2>3, AddPaired
<1>10. HandleMessageServer => StreamsArePaired'
  BY <1>1, <1>3 DEF HandleMessageServer
<1>11. ClientLost => StreamsArePaired'
  BY <1>3 DEF ClientLost
<1>12. ExchangeResults => StreamsArePaired'
  BY <1>1, <1>3 DEF ExchangeResults
<1>13. ServerTimeout \/ ServerSigend => StreamsArePaired'
  BY <1>2, <1>3 DEF ServerTimeout, ServerSigend
<1>. QED
  BY <1>4, <1>5, <1>6, <1>7, <1>8, <1>9, <1>10, <1>11, <1>12, <1>13, ClientWorks
     DEF Next, ServerStep

LEMMA InStepNext ==
    ASSUME TypeOK, InOrder, NotInvited, NoGap, Sockets, InStep, Next
    PROVE  InStep'
<1>. SUFFICES ASSUME NEW c \in Clients, Undisturbed(c)'
              PROVE  Outside(c)' \/ Inside(c)'
  BY DEF InStep
<1>1. /\ faults' = 0 /\ faults = 0
      /\ ServerStep \/ \E d \in Clients : ClientStep(d)
  BY FaultsNext DEF Undisturbed
<1>2. protocol' = protocol
  BY <1>1, ServerWorks, ClientWorks DEF ServerWork, ClientWork
<1>3. (protocol[c] = "udp" \/ ~Tos) /\ (Outside(c) \/ Inside(c))
  BY <1>1, <1>2 DEF Undisturbed, InStep
<1>4. CASE ServerStep
  BY <1>1, <1>3, <1>4, ServerOutside, ServerInside
<1>5. ASSUME NEW d \in Clients, ClientStep(d)
      PROVE  Outside(c)' \/ Inside(c)'
  <2>1. CASE d = c
    BY <1>3, <1>5, <2>1, OwnOutside, OwnInside
  <2>2. CASE d # c
    BY <1>1, <1>3, <1>5, <2>2, ClientWorks, OthersStep
  <2>. QED  BY <2>1, <2>2
<1>. QED  BY <1>1, <1>4, <1>5

LEMMA StreamsInit == Init => StreamsInv
<1>. SUFFICES ASSUME Init PROVE StreamsInv
  OBVIOUS
<1>1. TypeOK
  BY TypeInit
<1>2. Range(<< >>) = {} /\ Len(<< >>) = 0 /\ DOMAIN << >> = {}
  BY BacklogType, <1>1, RangeParts
<1>3. InOrder /\ NotInvited /\ NoGap /\ Sockets /\ StreamsArePaired
  BY <1>2 DEF Init, InOrder, Ordered, NotInvited, Unserved, Invites, NoGap, Sockets,
              StreamsArePaired
<1>4. InStep
  BY <1>1, <1>2, NoneAssumption DEF Init, InStep, Outside, Quiet, Controls
<1>. QED  BY <1>1, <1>3, <1>4 DEF StreamsInv

LEMMA StreamsNext == StreamsInv /\ [Next]_vars => StreamsInv'
<1>. SUFFICES ASSUME StreamsInv, [Next]_vars PROVE StreamsInv'
  OBVIOUS
<1>1. TypeOK'
  BY TypeNext DEF StreamsInv
<1>2. CASE Next
  BY <1>1, <1>2, InOrderNext, NotInvitedNext, NoGapNext, SocketsNext, InStepNext, PairedNext
     DEF StreamsInv
<1>3. CASE UNCHANGED vars
  <2>. USE <1>3 DEF vars, options, clientVars, serverVars, netVars
  <2>1. InOrder' /\ NotInvited' /\ NoGap' /\ Sockets'
    BY DEF StreamsInv, InOrder, Ordered, NotInvited, Unserved, Invites, NoGap, Sockets,
           Controls, Total
  <2>2. StreamsArePaired'
    BY DEF StreamsInv, StreamsArePaired, ClientSends
  <2>3. ASSUME NEW c \in Clients  PROVE Outside(c)' = Outside(c) /\ Inside(c)' = Inside(c)
    BY DEF Outside, Quiet, Controls, Held, Inside, At, Exchanging, Creating, Testing,
           Finishing, Displaying, Total
  <2>4. InStep'
    BY <2>3 DEF StreamsInv, InStep, Undisturbed
  <2>. QED  BY <1>1, <2>1, <2>2, <2>4 DEF StreamsInv
<1>. QED  BY <1>2, <1>3

(* The n-th stream the server accepts is the n-th its client made, and of  *)
(* its two ends exactly one sends: for any number of clients, streams and  *)
(* faults (iperf_tcp_accept(), iperf_udp_accept(), iperf_run_server()).    *)
THEOREM StreamsArePairedAlways == Spec => []StreamsArePaired
<1>1. StreamsInv => StreamsArePaired
  BY DEF StreamsInv
<1>. QED  BY <1>1, StreamsInit, StreamsNext, PTL DEF Spec

(* A client the server has taken fails of nothing the other clients do,    *)
(* when no TCP test sets a type of service: with one, a stranger's         *)
(* connection in the queue ends the test (iperf_tcp_accept() closes the    *)
(* socket iperf_common_sockopts() then works on).                          *)
THEOREM StrangersDoNoHarmAlways ==
    ASSUME ~Tos \/ "tcp" \notin Protocols
    PROVE  Spec => []StrangersDoNoHarm
<1>1. StreamsInv => StrangersDoNoHarm
  <2>. SUFFICES ASSUME StreamsInv, faults = 0, NEW c \in Clients, cpc[c] = "failed"
                PROVE  cstate[c] \in {"0", "ACCESS_DENIED"}
    BY DEF StrangersDoNoHarm
  <2>0. protocol[c] = "udp" \/ ~Tos
    BY OptionsAssumption DEF StreamsInv, TypeOK
  <2>1. Outside(c) \/ Inside(c)
    BY <2>0 DEF StreamsInv, InStep, Undisturbed
  <2>2. ~Inside(c)
    BY DEF Inside, Exchanging, Creating, Testing, Finishing, Displaying, At
  <2>. QED  BY <2>1, <2>2 DEF Outside
<1>. QED  BY <1>1, StreamsInit, StreamsNext, PTL DEF Spec

-----------------------------------------------------------------------------
(* Nobody waits in vain: a third invariant, that no fault disturbs.        *)

(* Whoever the server has not taken yet has said nothing, and been told    *)
(* nothing, since it started.                                              *)
Fresh ==
    \A c \in Clients :
        /\ cpc[c] = "start" => cstate[c] = "0" /\ Quiet(c)
        /\ <<c, 0>> \in Range(backlog) /\ ~Gone(c) => At(c, "select", "0", << >>, << >>)

(* A server that does not listen has no queue, and the socket of UDP       *)
(* connect messages is gone when the test runs.                            *)
Closed ==
    /\ spc \in {"closed", "exit"} => backlog = << >>
    /\ sstate = "TEST_RUNNING" => datagrams = << >>

(* The streams that are not accepted yet are not connected either, or they *)
(* are in the queue (NoGap): those a UDP client has replies for, or has    *)
(* asked for, are no more than the server's, strangers' datagrams included.*)
Counted ==
    sstate = "CREATE_STREAMS" =>
        /\ Len(streams) < Total(ctrl[1])
        /\ protocol[ctrl[1]] = "udp" =>
              /\ opened[ctrl[1]] <= Len(streams)
              /\ \A k \in replied : k[1] = ctrl[1] => k[2] <= Len(streams)
              /\ \A k \in Range(datagrams) : k[1] = ctrl[1] => k[2] <= opened[ctrl[1]] + 1

(* Where a client and the server are, when strangers' datagrams may have   *)
(* started the test before the client has made its streams.                *)
LooselyCreating(c) ==
    /\ spc = "select" /\ sstate = "CREATE_STREAMS"
    /\ \/ At(c, "select", "PARAM_EXCHANGE", << >>, <<"CREATE_STREAMS">>) /\ opened[c] < Total(c)
       \/ At(c, "streams", "CREATE_STREAMS", << >>, << >>) /\ opened[c] < Total(c)
       \/ At(c, "reply", "CREATE_STREAMS", << >>, << >>) /\ opened[c] < Total(c)
       \/ At(c, "select", "CREATE_STREAMS", << >>, << >>) /\ opened[c] = Total(c)

LooselyTesting(c) ==
    /\ spc = "select" /\ sstate = "TEST_RUNNING"
    /\ \/ At(c, "select", "PARAM_EXCHANGE", << >>, <<"CREATE_STREAMS", "TEST_START", "TEST_RUNNING">>)
       \/ At(c, "streams", "CREATE_STREAMS", << >>, <<"TEST_START", "TEST_RUNNING">>)
       \/ At(c, "reply", "CREATE_STREAMS", << >>, <<"TEST_START", "TEST_RUNNING">>)
       \/ At(c, "select", "CREATE_STREAMS", << >>, <<"TEST_START", "TEST_RUNNING">>)
       \/ At(c, "select", "TEST_START", << >>, <<"TEST_RUNNING">>)
       \/ At(c, "select", "TEST_RUNNING", << >>, << >>)
       \/ At(c, "select", "TEST_END", <<"TEST_END">>, << >>)

LooselyInside(c) ==
    Exchanging(c) \/ LooselyCreating(c) \/ LooselyTesting(c) \/ Finishing(c) \/ Displaying(c)
Together == \A c \in Clients : Controls(c) /\ ~Gone(c) => LooselyInside(c)

WaitInv == Fresh /\ Closed /\ Counted /\ Together

(* No client connects twice, or is answered while it is in the queue.      *)
LEMMA QueuedOnce ==
    ASSUME TypeOK, InOrder, NEW c \in Clients, cpc[c] = "start" \/ <<c, 0>> \in Range(backlog)
    PROVE  /\ ctrl # None => ctrl[1] # c
           /\ backlog # << >> =>
                 /\ Head(backlog) \in Connection
                 /\ Range(Tail(backlog)) \subseteq Range(backlog)
                 /\ cpc[c] = "start" \/ <<c, 0>> \in Range(Tail(backlog)) => Head(backlog) # <<c, 0>>
<1>1. /\ backlog \in Seq(Connection) /\ Ordered(backlog)
      /\ ctrl # None => ctrl[1] \in Clients /\ ctrl[2] \in Nat
  BY BacklogType DEF InOrder
<1>2. ASSUME ctrl # None, ctrl[1] = c  PROVE FALSE
  <2>1. <<c, 0>> \in Range(backlog)
    BY <1>2 DEF InOrder
  <2>2. ctrl[2] < <<c, 0>>[2]
    BY <1>2, <2>1 DEF InOrder
  <2>. QED  BY <1>1, <1>2, <2>2
<1>3. ASSUME backlog # << >>
      PROVE  /\ Head(backlog) \in Connection
             /\ Range(backlog) = {Head(backlog)} \cup Range(Tail(backlog))
             /\ \A k \in Range(Tail(backlog)) : k[1] = Head(backlog)[1] => Head(backlog)[2] < k[2]
  BY <1>1, <1>3, RangeParts, OrderedParts
<1>4. ASSUME backlog # << >>, Head(backlog) = <<c, 0>>
      PROVE  cpc[c] # "start" /\ <<c, 0>> \notin Range(Tail(backlog))
  <2>1. cpc[c] # "start"
    BY <1>3, <1>4 DEF InOrder
  <2>2. <<c, 0>> \in Range(Tail(backlog)) => <<c, 0>>[2] < <<c, 0>>[2]
    BY <1>3, <1>4
  <2>. QED  BY <2>1, <2>2
<1>. QED  BY <1>2, <1>3, <1>4

(* The server's own steps leave the channels of such a client alone.       *)
LEMMA ServerLeaves ==
    ASSUME TypeOK, InOrder, Sockets, NEW c \in Clients, ServerStep \/ ServerTimeout \/ ServerSigend,
           cpc[c] = "start" \/ (<<c, 0>> \in Range(backlog) /\ <<c, 0>> \in Range(backlog'))
    PROVE  toServer'[c] = toServer[c] /\ toClient'[c] = toClient[c]
<1>. USE DEF options, clientVars, serverVars, netVars
<1>1. /\ ctrl # None => ctrl[1] # c /\ ctrl[1] \in Clients /\ ctrl \in Connection /\ ctrl # <<c, 0>>
      /\ backlog # << >> => Head(backlog) \in Connection
      /\ backlog # << >> /\ (cpc[c] = "start" \/ <<c, 0>> \in Range(Tail(backlog))) =>
            Head(backlog) # <<c, 0>>
      /\ <<c, 0>> \notin Range(<< >>)
  <2>1. backlog \in Seq(Connection)
    BY BacklogType
  <2>. QED  BY <2>1, QueuedOnce, BacklogType, RangeParts
<1>2. /\ toServer \in [Clients -> Seq(Messages)] /\ toClient \in [Clients -> Seq(Messages)]
  BY DEF TypeOK
<1>3. ASSUME NEW d \in Clients, d # c, NEW m, Answer(d, m)  PROVE toClient'[c] = toClient[c]
  BY <1>2, <1>3 DEF Answer
<1>4. ASSUME backlog # << >>, NEW m, AnswerOn(Head(backlog), <<m>>),
             backlog' = Tail(backlog) \/ backlog' = << >>
      PROVE  toClient'[c] = toClient[c]
  BY <1>1, <1>4, AnswerElse
<1>5. spc \in {"params", "results"} => ctrl # None
  BY DEF TypeOK
<1>6. Listen => toServer' = toServer /\ toClient' = toClient
  BY DEF Listen
<1>7. Accept => toServer' = toServer /\ toClient'[c] = toClient[c]
  BY <1>4 DEF Accept
<1>8. ExchangeParameters => toServer'[c] = toServer[c] /\ toClient'[c] = toClient[c]
  <2>. SUFFICES ASSUME ExchangeParameters
                PROVE  toServer'[c] = toServer[c] /\ toClient'[c] = toClient[c]
    OBVIOUS
  <2>1. ctrl[1] \in Clients /\ ctrl[1] # c
    BY <1>1, <1>5 DEF ExchangeParameters
  <2>. QED  BY <1>2, <1>3, <2>1 DEF ExchangeParameters
<1>9. ASSUME NEW k, AddStream(k), ctrl # None  PROVE toClient'[c] = toClient[c]
  BY <1>1, <1>3, <1>9 DEF AddStream
<1>10. AcceptTcpStream => toServer' = toServer /\ toClient'[c] = toClient[c]
  <2>. SUFFICES ASSUME AcceptTcpStream PROVE toServer' = toServer /\ toClient'[c] = toClient[c]
    OBVIOUS
  <2>1. ctrl # None /\ backlog # << >>
    BY DEF AcceptTcpStream, TypeOK
  <2>. QED  BY <1>4, <1>9, <2>1 DEF AcceptTcpStream, ServerReturns
<1>11. AcceptUdpStream => toServer' = toServer /\ toClient'[c] = toClient[c]
  <2>. SUFFICES ASSUME AcceptUdpStream PROVE toServer' = toServer /\ toClient'[c] = toClient[c]
    OBVIOUS
  <2>1. ctrl # None
    BY DEF AcceptUdpStream, UdpListening, TypeOK
  <2>. QED  BY <1>9, <2>1 DEF AcceptUdpStream
<1>12. HandleMessageServer => toServer'[c] = toServer[c] /\ toClient'[c] = toClient[c]
  BY <1>1, <1>2, <1>3 DEF HandleMessageServer
<1>13. ClientLost => toServer' = toServer /\ toClient' = toClient
  BY DEF ClientLost
<1>14. ExchangeResults => toServer'[c] = toServer[c] /\ toClient'[c] = toClient[c]
  <2>. SUFFICES ASSUME ExchangeResults
                PROVE  toServer'[c] = toServer[c] /\ toClient'[c] = toClient[c]
    OBVIOUS
  <2>1. ctrl[1] \in Clients /\ ctrl[1] # c
    BY <1>1, <1>5 DEF ExchangeResults
  <2>. QED  BY <1>2, <1>3, <2>1 DEF ExchangeResults
<1>15. ServerTimeout => toServer' = toServer /\ toClient' = toClient
  BY DEF ServerTimeout
<1>16. ServerSigend => toServer' = toServer /\ toClient'[c] = toClient[c]
  BY <1>1, AnswerElse DEF ServerSigend
<1>. QED  BY <1>6, <1>7, <1>8, <1>10, <1>11, <1>12, <1>13, <1>14, <1>15, <1>16 DEF ServerStep

(* What another client does leaves c and its place in the queue alone.     *)
LEMMA OthersLeave ==
    ASSUME TypeOK, NEW c \in Clients, NEW d \in Clients, c # d, ClientWork(d)
    PROVE  /\ cpc'[c] = cpc[c] /\ cstate'[c] = cstate[c] /\ opened'[c] = opened[c]
           /\ toServer'[c] = toServer[c] /\ toClient'[c] = toClient[c]
           /\ <<c, 0>> \in Range(backlog') => <<c, 0>> \in Range(backlog)
<1>1. \/ backlog' = backlog \/ backlog' = Append(backlog, <<d, 0>>)
      \/ backlog' = Append(backlog, <<d, opened[d] + 1>>)
  BY DEF ClientWork
<1>2. backlog \in Seq(Connection) /\ opened[d] + 1 \in Nat /\ 0 \in Nat
  BY BacklogType DEF TypeOK
<1>3. \A n \in Nat : Range(Append(backlog, <<d, n>>)) = Range(backlog) \cup {<<d, n>>}
  BY <1>2, RangeAppend
<1>4. \A n \in Nat : <<c, 0>> # <<d, n>>
  OBVIOUS
<1>. QED  BY <1>1, <1>2, <1>3, <1>4 DEF ClientWork

(* A client that has ended does nothing any more.                          *)
LEMMA StaysGone ==
    ASSUME TypeOK, Sockets, NEW c \in Clients, Next, Gone(c)
    PROVE  Gone(c)'
<1>1. ASSUME NEW d \in Clients, ClientStep(d) \/ ClientSigend(d) \/ ClientTimeout(d)
      PROVE  Gone(c)'
  <2>1. CASE d # c
    BY <1>1, <2>1, ClientWorks, OthersLeave DEF Gone
  <2>2. CASE d = c
    <3>1. cpc[c] \notin {"start", "select", "streams", "reply", "results"}
      BY DEF Gone, Final
    <3>. QED  BY <1>1, <2>2, <3>1
              DEF ClientStep, ClientSigend, ClientTimeout, Connect, HandleMessageClient, ServerLost,
                  CreateStream, UdpReply, SendTestEnd, ClientGetsResults
  <2>. QED  BY <2>1, <2>2
<1>2. ASSUME ServerStep \/ ServerTimeout \/ ServerSigend  PROVE Gone(c)'
  BY <1>2, ServerWorks DEF ServerWork, Gone
<1>. QED  BY <1>1, <1>2 DEF Next

LEMMA FreshNext ==
    ASSUME TypeOK, InOrder, Sockets, Fresh, Next
    PROVE  Fresh'
<1>. SUFFICES ASSUME NEW c \in Clients
              PROVE  /\ cpc'[c] = "start" => cstate'[c] = "0" /\ Quiet(c)'
                     /\ <<c, 0>> \in Range(backlog') /\ ~Gone(c)' => At(c, "select", "0", << >>, << >>)'
  BY DEF Fresh
<1>1. /\ cpc[c] = "start" => cstate[c] = "0" /\ Quiet(c)
      /\ <<c, 0>> \in Range(backlog) /\ ~Gone(c) => At(c, "select", "0", << >>, << >>)
      /\ Gone(c) => Gone(c)'
  BY StaysGone DEF Fresh
<1>2. CASE ServerStep \/ ServerTimeout \/ ServerSigend
  <2>1. /\ cpc' = cpc /\ cstate' = cstate
        /\ \/ backlog' = backlog \/ backlog' = << >>
           \/ backlog # << >> /\ backlog' = Tail(backlog)
    BY <1>2, ServerWorks DEF ServerWork
  <2>2. backlog \in Seq(Connection)
    BY BacklogType
  <2>3. Range(backlog') \subseteq Range(backlog)
    <3>1. /\ Range(<< >>) = {}
          /\ backlog # << >> => Range(backlog) = {Head(backlog)} \cup Range(Tail(backlog))
      BY <2>2, RangeParts
    <3>. QED  BY <2>1, <3>1
  <2>4. cpc[c] = "start" \/ <<c, 0>> \in Range(backlog') =>
            toServer'[c] = toServer[c] /\ toClient'[c] = toClient[c]
    BY <1>2, <2>3, ServerLeaves
  <2>. QED  BY <1>1, <2>1, <2>3, <2>4 DEF Quiet, At
<1>3. ASSUME NEW d \in Clients, d # c, ClientStep(d) \/ ClientSigend(d) \/ ClientTimeout(d)
      PROVE  /\ cpc'[c] = "start" => cstate'[c] = "0" /\ Quiet(c)'
             /\ <<c, 0>> \in Range(backlog') /\ ~Gone(c)' => At(c, "select", "0", << >>, << >>)'
  BY <1>1, <1>3, ClientWorks, OthersLeave DEF Quiet, At
<1>4. CASE ClientStep(c) \/ ClientSigend(c) \/ ClientTimeout(c)
  <2>1. cpc'[c] # "start" /\ cpc \in [Clients -> {"start", "select", "streams", "reply", "results", "ok", "failed"}]
    BY <1>4, ClientWorks DEF ClientWork, TypeOK, Final
  <2>. SUFFICES ASSUME <<c, 0>> \in Range(backlog'), ~Gone(c)'
                PROVE  At(c, "select", "0", << >>, << >>)'
    BY <2>1
  <2>2. ~ClientSigend(c) /\ ~ClientTimeout(c)
    BY <2>1 DEF ClientSigend, ClientTimeout, ClientFails, Gone, Final
  <2>3. CASE Connect(c)
    <3>1. cpc'[c] = "select" /\ cstate' = cstate /\ toServer' = toServer /\ toClient' = toClient
      BY <2>1, <2>3 DEF Connect, ClientFails, Gone, Final
    <3>. QED  BY <1>1, <2>3, <3>1 DEF Connect, Quiet, At
  <2>4. CASE ~Connect(c)
    <3>1. <<c, 0>> \in Range(backlog)
      <4>1. cpc[c] # "start"
        BY <1>4, <2>2, <2>4 DEF ClientStep, HandleMessageClient, ServerLost, CreateStream, UdpReply,
                                SendTestEnd, ClientGetsResults
      <4>2. backlog' = backlog \/ backlog' = Append(backlog, <<c, opened[c] + 1>>)
        BY <1>4, <4>1, ClientWorks DEF ClientWork
      <4>3. backlog \in Seq(Connection) /\ opened[c] + 1 \in Nat /\ opened[c] + 1 # 0
        BY BacklogType DEF TypeOK
      <4>4. Range(Append(backlog, <<c, opened[c] + 1>>)) = Range(backlog) \cup {<<c, opened[c] + 1>>}
        BY <4>3, RangeAppend
      <4>5. \A n \in Nat : n # 0 => <<c, 0>> # <<c, n>>
        OBVIOUS
      <4>. QED  BY <4>2, <4>3, <4>4, <4>5
    <3>2. At(c, "select", "0", << >>, << >>) /\ Held(<<c, 0>>)
      BY <1>1, <3>1 DEF Held
    <3>. QED  BY <1>4, <2>2, <2>4, <3>2
              DEF ClientStep, HandleMessageClient, ServerLost, CreateStream, UdpReply, SendTestEnd,
                  ClientGetsResults, At
  <2>. QED  BY <2>3, <2>4
<1>. QED  BY <1>2, <1>3, <1>4 DEF Next

LEMMA ClosedNext ==
    ASSUME TypeOK, Sockets, Closed, Next
    PROVE  Closed'
<1>. USE DEF options, clientVars, serverVars, netVars
<1>1. ServerReturns => Closed'
  BY DEF ServerReturns, Closed
<1>2. ASSUME NEW d \in Clients, ClientStep(d) \/ ClientSigend(d) \/ ClientTimeout(d)
      PROVE  Closed'
  <2>1. UNCHANGED <<spc, sstate>> /\ (datagrams' = datagrams \/ sstate = "CREATE_STREAMS")
    BY <1>2, ClientWorks DEF ClientWork, UdpListening
  <2>2. spc \in {"closed", "exit"} => backlog' = backlog
    BY <1>2 DEF ClientStep, ClientSigend, ClientTimeout, Connect, HandleMessageClient, ServerLost,
                CreateStream, UdpReply, SendTestEnd, ClientGetsResults
  <2>. QED  BY <2>1, <2>2 DEF Closed
<1>3. Listen => Closed'
  BY DEF Listen, Closed
<1>4. Accept => Closed'
  <2>. SUFFICES ASSUME Accept PROVE Closed'
    OBVIOUS
  <2>1. CASE sstate' = "PARAM_EXCHANGE" /\ spc' = "params"
    BY <2>1 DEF Closed
  <2>2. CASE UNCHANGED <<sstate, spc, datagrams>>
    BY <2>2 DEF Accept, Closed
  <2>. QED  BY <1>1, <2>1, <2>2 DEF Accept
<1>5. ExchangeParameters => Closed'
  <2>. SUFFICES ASSUME ExchangeParameters PROVE Closed'
    OBVIOUS
  <2>1. ServerReturns \/ (sstate' = "CREATE_STREAMS" /\ spc' = "select")
    BY DEF ExchangeParameters
  <2>. QED  BY <1>1, <2>1 DEF Closed
<1>6. ASSUME NEW k, AddStream(k), spc = "select", sstate = "CREATE_STREAMS"
      PROVE  Closed'
  BY <1>6 DEF AddStream, Closed
<1>7. AcceptTcpStream => Closed'
  <2>. SUFFICES ASSUME AcceptTcpStream PROVE Closed'
    OBVIOUS
  <2>1. CASE UNCHANGED <<spc, sstate, datagrams>>
    BY <2>1 DEF AcceptTcpStream, Closed
  <2>. QED  BY <1>1, <1>6, <2>1 DEF AcceptTcpStream
<1>8. AcceptUdpStream => Closed'
  BY <1>6 DEF AcceptUdpStream, UdpListening
<1>9. HandleMessageServer => Closed'
  <2>. SUFFICES ASSUME HandleMessageServer PROVE Closed'
    OBVIOUS
  <2>1. ServerReturns \/ (sstate' = "EXCHANGE_RESULTS" /\ spc' = "results")
    BY DEF HandleMessageServer
  <2>. QED  BY <1>1, <2>1 DEF Closed
<1>10. ExchangeResults => Closed'
  <2>. SUFFICES ASSUME ExchangeResults PROVE Closed'
    OBVIOUS
  <2>1. ServerReturns \/ (sstate' = "DISPLAY_RESULTS" /\ spc' = "select")
    BY DEF ExchangeResults
  <2>. QED  BY <1>1, <2>1 DEF Closed
<1>11. ClientLost \/ ServerTimeout => Closed'
  BY <1>1 DEF ClientLost, ServerTimeout
<1>12. ServerSigend => Closed'
  BY DEF ServerSigend, Closed
<1>. QED
  BY <1>2, <1>3, <1>4, <1>5, <1>7, <1>8, <1>9, <1>10, <1>11, <1>12 DEF Next, ServerStep

(* One more stream is accepted, or the test starts.                        *)
LEMMA AddCounted ==
    ASSUME TypeOK, Sockets, Counted, NEW k \in Connection, AddStream(k),
           sstate = "CREATE_STREAMS", UNCHANGED <<protocol, mode, opened>>,
           protocol[ctrl[1]] = "udp" =>
               datagrams # << >> /\ k = Head(datagrams) /\ replied' = replied \cup {k}
    PROVE  Counted'
<1>. DEFINE c == ctrl[1]  n == Len(streams) + 1
<1>1. /\ c \in Clients /\ Len(streams) \in Nat /\ opened[c] \in Nat /\ ctrl' = ctrl
      /\ Total(c) \in Nat /\ Total(c)' = Total(c) /\ Len(streams) < Total(c)
      /\ datagrams \in Seq(Connection) /\ replied \subseteq Connection
      /\ \A j \in Connection : j[2] \in Nat
  BY BacklogType, TotalFacts, LenProperties DEF TypeOK, AddStream, Counted, Total
<1>2. Len(streams') = n
  BY AppendProperties DEF AddStream, TypeOK
<1>. SUFFICES ASSUME sstate' = "CREATE_STREAMS"
              PROVE  /\ n < Total(c)
                     /\ protocol[c] = "udp" =>
                           /\ opened[c] <= n
                           /\ \A j \in replied' : j[1] = c => j[2] <= n
                           /\ \A j \in Range(datagrams') : j[1] = c => j[2] <= opened[c] + 1
  BY <1>1, <1>2 DEF Counted
<1>3. n # Total(c)
  BY DEF AddStream
<1>4. n < Total(c)
  BY <1>1, <1>3
<1>5. ASSUME protocol[c] = "udp"
      PROVE  /\ opened[c] <= n
             /\ \A j \in replied' : j[1] = c => j[2] <= n
             /\ \A j \in Range(datagrams') : j[1] = c => j[2] <= opened[c] + 1
  <2>1. /\ datagrams' = Tail(datagrams) /\ datagrams # << >> /\ replied' = replied \cup {k}
        /\ k = Head(datagrams)
    BY <1>3, <1>5 DEF AddStream
  <2>2. Range(datagrams) = {k} \cup Range(datagrams')
    BY <1>1, <2>1, RangeParts
  <2>3. /\ opened[c] <= Len(streams)
        /\ \A j \in replied : j[1] = c => j[2] <= Len(streams)
        /\ \A j \in Range(datagrams) : j[1] = c => j[2] <= opened[c] + 1
    BY <1>5 DEF Counted
  <2>4. k[1] = c => k[2] <= n
    BY <1>1, <2>2, <2>3
  <2>5. \A j \in replied : j[1] = c => j[2] <= n
    BY <1>1, <2>3
  <2>. QED  BY <1>1, <2>1, <2>2, <2>3, <2>4, <2>5
<1>. QED  BY <1>4, <1>5

LEMMA CountedNext ==
    ASSUME TypeOK, Sockets, NotInvited, Counted, Next
    PROVE  Counted'
<1>. USE DEF options, clientVars, serverVars, netVars
<1>1. ASSUME sstate' # "CREATE_STREAMS"  PROVE Counted'
  BY <1>1 DEF Counted
<1>2. ServerReturns => Counted'
  BY <1>1 DEF ServerReturns
<1>3. ASSUME UNCHANGED <<sstate, ctrl, streams, protocol, mode, opened, replied, datagrams>>
      PROVE  Counted'
  BY <1>3 DEF Counted, Total
<1>4. ASSUME NEW d \in Clients, ClientStep(d) \/ ClientSigend(d) \/ ClientTimeout(d)
      PROVE  Counted'
  <2>. SUFFICES ASSUME sstate = "CREATE_STREAMS" PROVE Counted'
    BY <1>1, <1>4, ClientWorks DEF ClientWork
  <2>. DEFINE c == ctrl[1]
  <2>1. /\ UNCHANGED <<protocol, mode, sstate, ctrl, streams, replied>>
        /\ c \in Clients /\ opened[c] \in Nat /\ opened[d] \in Nat /\ Total(c)' = Total(c)
        /\ datagrams \in Seq(Connection) /\ Len(streams) \in Nat
    BY <1>4, ClientWorks, BacklogType, LenProperties DEF ClientWork, TypeOK, Total
  <2>. SUFFICES ASSUME protocol[c] = "udp"
                PROVE  /\ opened'[c] <= Len(streams)
                       /\ \A j \in Range(datagrams') : j[1] = c => j[2] <= opened'[c] + 1
    BY <2>1 DEF Counted
  <2>2. /\ opened[c] <= Len(streams)
        /\ \A j \in replied : j[1] = c => j[2] <= Len(streams)
        /\ \A j \in Range(datagrams) : j[1] = c => j[2] <= opened[c] + 1 /\ j[2] \in Nat
    <3>1. Range(datagrams) \subseteq Connection
      BY <2>1, RangeParts
    <3>. QED  BY <3>1, BacklogType DEF Counted
  <2>3. \/ datagrams' = datagrams
        \/ cpc[d] = "streams" /\ datagrams' = Append(datagrams, <<d, opened[d] + 1>>)
    BY <1>4, ClientWorks DEF ClientWork
  <2>4. Range(datagrams') \subseteq Range(datagrams) \cup {<<d, opened[d] + 1>>}
    <3>1. Range(Append(datagrams, <<d, opened[d] + 1>>)) = Range(datagrams) \cup {<<d, opened[d] + 1>>}
      <4>1. opened[d] + 1 \in Nat
        BY <2>1
      <4>. QED  BY <2>1, <4>1, RangeAppend
    <3>. QED  BY <2>3, <3>1
  <2>5. CASE d # c
    <3>1. opened'[c] = opened[c]
      BY <1>4, <2>5, <2>1, ClientWorks, OthersLeave
    <3>. QED  BY <2>2, <2>4, <2>5, <3>1
  <2>6. CASE d = c
    <3>1. opened'[c] = opened[c] \/ (UdpReply(c) /\ StreamConnected(c) /\ <<c, opened[c] + 1>> \in replied)
      BY <1>4, <2>6 DEF ClientStep, ClientSigend, ClientTimeout, ClientFails, Connect, Writes,
             HandleMessageClient, ServerLost, CreateStream, UdpReply, SendTestEnd, ClientGetsResults
    <3>2. CASE opened'[c] = opened[c]
      BY <2>1, <2>2, <2>4, <2>6, <3>2
    <3>3. CASE UdpReply(c) /\ StreamConnected(c) /\ <<c, opened[c] + 1>> \in replied
      <4>1. opened'[c] = opened[c] + 1 /\ datagrams' = datagrams
        BY <2>1, <3>3 DEF StreamConnected, UdpReply, TypeOK
      <4>2. <<c, opened[c] + 1>>[2] <= Len(streams)
        BY <2>2, <3>3
      <4>. QED  BY <2>1, <2>2, <4>1, <4>2
    <3>. QED  BY <3>1, <3>2, <3>3
  <2>. QED  BY <2>5, <2>6
<1>5. Listen => Counted'
  BY <1>1 DEF Listen
<1>6. Accept => Counted'
  BY <1>1, <1>2 DEF Accept
<1>7. ExchangeParameters => Counted'
  <2>. SUFFICES ASSUME ExchangeParameters PROVE Counted'
    OBVIOUS
  <2>. DEFINE c == ctrl[1]
  <2>1. /\ spc = "params" /\ c \in Clients /\ streams = << >> /\ opened' = opened
        /\ UNCHANGED <<protocol, mode, replied>>
    BY BacklogType DEF ExchangeParameters, Sockets, TypeOK
  <2>2. CASE ServerReturns
    BY <1>2, <2>2
  <2>3. CASE Controls(c) /\ UNCHANGED <<ctrl, streams, datagrams>>
    <3>1. opened[c] = 0 /\ \A k \in replied \cup Range(datagrams) : k[1] # c
      BY <2>1, <2>3 DEF NotInvited, Unserved
    <3>2. Total(c)' = Total(c)
      BY <2>1, <2>3 DEF Total
    <3>3. Total(c) \in Nat /\ Total(c) > 0 /\ Len(streams) = 0
      BY <2>1, TotalFacts
    <3>. QED  BY <2>1, <2>3, <3>1, <3>2, <3>3 DEF Counted
  <2>. QED  BY <2>2, <2>3 DEF ExchangeParameters
<1>8. AcceptTcpStream => Counted'
  <2>. SUFFICES ASSUME AcceptTcpStream PROVE Counted'
    OBVIOUS
  <2>1. CASE UNCHANGED <<sstate, ctrl, streams, datagrams>>
    BY <1>3, <2>1 DEF AcceptTcpStream
  <2>2. CASE AddStream(Head(backlog))
    <3>1. Head(backlog) \in Connection
      BY BacklogType, RangeParts DEF AcceptTcpStream
    <3>. QED  BY <2>2, <3>1, AddCounted DEF AcceptTcpStream
  <2>. QED  BY <1>2, <2>1, <2>2 DEF AcceptTcpStream
<1>9. AcceptUdpStream => Counted'
  <2>. SUFFICES ASSUME AcceptUdpStream PROVE Counted'
    OBVIOUS
  <2>1. Head(datagrams) \in Connection
    BY BacklogType, RangeParts DEF AcceptUdpStream
  <2>. QED  BY <2>1, AddCounted DEF AcceptUdpStream, UdpListening
<1>10. HandleMessageServer => Counted'
  BY <1>1, <1>2 DEF HandleMessageServer
<1>11. ExchangeResults => Counted'
  BY <1>1, <1>2 DEF ExchangeResults
<1>12. ClientLost \/ ServerTimeout => Counted'
  BY <1>2 DEF ClientLost, ServerTimeout
<1>13. ServerSigend => Counted'
  BY <1>1 DEF ServerSigend
<1>. QED
  BY <1>4, <1>5, <1>6, <1>7, <1>8, <1>9, <1>10, <1>11, <1>12, <1>13 DEF Next, ServerStep

LEMMA ThreeSeq ==
    \A x, y, z : /\ Head(<<x, y, z>>) = x /\ Tail(<<x, y, z>>) = <<y, z>> /\ <<x, y, z>> # << >>
                 /\ <<x>> \o <<y, z>> = <<x, y, z>>
<1>. SUFFICES ASSUME NEW x, NEW y, NEW z
              PROVE  /\ Head(<<x, y, z>>) = x /\ Tail(<<x, y, z>>) = <<y, z>> /\ <<x, y, z>> # << >>
                     /\ <<x>> \o <<y, z>> = <<x, y, z>>
  OBVIOUS
<1>1. Head(<<x, y, z>>) = x /\ <<x, y, z>> # << >>
  OBVIOUS
<1>2. Tail(<<x, y, z>>) = <<y, z>>
  <2>. DEFINE S == {x, y, z}  s == <<x, y, z>>  t == Tail(s)  u == <<y, z>>
  <2>1. /\ s \in Seq(S) /\ Len(s) = 3 /\ s # << >> /\ s[2] = y /\ s[3] = z
        /\ u \in Seq(S) /\ Len(u) = 2 /\ u[1] = y /\ u[2] = z
    OBVIOUS
  <2>. HIDE DEF S, s, u
  <2>2. t \in Seq(S) /\ Len(t) = 2 /\ t[1] = s[2] /\ t[2] = s[3]
    <3>1. t \in Seq(S) /\ Len(t) = Len(s) - 1 /\ \A i \in 1..Len(t) : t[i] = s[i + 1]
      BY <2>1, HeadTailProperties
    <3>2. Len(t) = 2 /\ 1 \in 1..2 /\ 2 \in 1..2 /\ 1 + 1 = 2 /\ 2 + 1 = 3
      BY <2>1, <3>1
    <3>. QED  BY <3>1, <3>2
  <2>. HIDE DEF t
  <2>3. \A i \in 1..Len(t) : t[i] = u[i]
    <3>1. \A i \in 1..2 : i = 1 \/ i = 2
      OBVIOUS
    <3>. QED  BY <2>1, <2>2, <3>1
  <2>4. t = u
    BY <2>1, <2>2, <2>3, SeqEqual
  <2>. QED  BY <2>4 DEF t, s, u
<1>3. <<x>> \o <<y, z>> = <<x, y, z>>
  <2>. DEFINE S == {x, y, z}  s == <<x, y, z>>  t == <<x>>  u == <<y, z>>  w == t \o u
  <2>1. /\ s \in Seq(S) /\ Len(s) = 3 /\ s[1] = x /\ s[2] = y /\ s[3] = z
        /\ u \in Seq(S) /\ Len(u) = 2 /\ u[1] = y /\ u[2] = z
        /\ t \in Seq(S) /\ Len(t) = 1 /\ t[1] = x
    OBVIOUS
  <2>. HIDE DEF S, s, t, u
  <2>2. /\ w \in Seq(S) /\ Len(w) = 3
        /\ \A i \in 1..3 : w[i] = IF i <= 1 THEN t[i] ELSE u[i - 1]
    <3>1. /\ w \in Seq(S) /\ Len(w) = Len(t) + Len(u)
          /\ \A i \in 1..(Len(t) + Len(u)) :
                w[i] = IF i <= Len(t) THEN t[i] ELSE u[i - Len(t)]
      BY <2>1, ConcatProperties
    <3>2. Len(t) = 1 /\ Len(t) + Len(u) = 3
      BY <2>1
    <3>. QED  BY <3>1, <3>2
  <2>. HIDE DEF w
  <2>3. w[1] = x /\ w[2] = y /\ w[3] = z
    <3>1. /\ 1 \in 1..3 /\ 2 \in 1..3 /\ 3 \in 1..3 /\ 1 <= 1 /\ ~(2 <= 1) /\ ~(3 <= 1)
          /\ 2 - 1 = 1 /\ 3 - 1 = 2
      OBVIOUS
    <3>. QED  BY <2>1, <2>2, <3>1
  <2>4. \A i \in 1..Len(w) : w[i] = s[i]
    <3>1. \A i \in 1..3 : i = 1 \/ i = 2 \/ i = 3
      OBVIOUS
    <3>. QED  BY <2>1, <2>2, <2>3, <3>1
  <2>5. w = s
    BY <2>1, <2>2, <2>4, SeqEqual
  <2>. QED  BY <2>5 DEF w, t, u, s
<1>. QED  BY <1>1, <1>2, <1>3

(* The client's part: it makes its streams whenever it gets to it.         *)
LEMMA OwnTogether ==
    ASSUME TypeOK, Sockets, NEW c \in Clients, Controls(c), LooselyInside(c), ClientStep(c),
           ~Gone(c)'
    PROVE  LooselyInside(c)'
<1>. USE DEF options, clientVars, serverVars, netVars
<1>1. /\ cpc \in [Clients -> {"start", "select", "streams", "reply", "results", "ok", "failed"}]
      /\ cstate \in [Clients -> States] /\ opened \in [Clients -> Nat] /\ opened[c] \in Nat
      /\ toServer \in [Clients -> Seq(Messages)] /\ toClient \in [Clients -> Seq(Messages)]
  BY DEF TypeOK, Final
<1>2. Held(<<c, 0>>) /\ Total(c) \in Nat /\ Total(c) > 0
  BY HeldParts, TotalFacts
<1>3. UNCHANGED <<protocol, mode, spc, sstate, ctrl, streams, replied>> /\ Total(c)' = Total(c)
  BY DEF ClientStep, Connect, HandleMessageClient, ServerLost, CreateStream, UdpReply,
         SendTestEnd, ClientGetsResults, Total
<1>4. ~Connect(c) /\ ~ServerLost(c)
  BY <1>2 DEF Connect, ServerLost, LooselyInside, Exchanging, LooselyCreating, LooselyTesting,
              Finishing, Displaying, At
<1>5. ASSUME StreamConnected(c), toClient' = toClient, toServer[c] = << >>,
             cstate[c] = "CREATE_STREAMS"
      PROVE  IF opened[c] + 1 = Total(c)
             THEN At(c, "select", "CREATE_STREAMS", << >>, toClient[c])' /\ opened'[c] = Total(c)
             ELSE At(c, "streams", "CREATE_STREAMS", << >>, toClient[c])'
                  /\ opened'[c] = opened[c] + 1
  BY <1>1, <1>3, <1>5 DEF StreamConnected, At
<1>6. ~ClientFails(c, cstate[c])
  BY <1>1 DEF ClientFails, Gone, Final
<1>7. CASE Exchanging(c) \/ Finishing(c) \/ Displaying(c)
  <2>1. Inside(c)'
    BY <1>7, OwnInside DEF Inside
  <2>. QED  BY <1>3, <1>7, <2>1
            DEF Inside, LooselyInside, Exchanging, Creating, Testing, Finishing, Displaying
<1>8. CASE LooselyCreating(c)
  <2>1. HandleMessageClient(c) \/ CreateStream(c) \/ UdpReply(c)
    BY <1>4, <1>8 DEF LooselyCreating, At, ClientStep, SendTestEnd, ClientGetsResults
  <2>2. CASE HandleMessageClient(c)
    <3>1. toClient[c] = <<"CREATE_STREAMS">> /\ toServer[c] = << >> /\ opened[c] < Total(c)
      BY <1>8, <2>2 DEF LooselyCreating, At, HandleMessageClient
    <3>2. Head(toClient[c]) = "CREATE_STREAMS" /\ Tail(toClient[c]) = << >>
      BY <3>1, ShortSeqs
    <3>3. At(c, "streams", "CREATE_STREAMS", << >>, << >>)' /\ opened'[c] = opened[c]
      BY <1>2, <2>2, <3>1, <3>2, ReadsMessage DEF At
    <3>. QED  BY <1>3, <1>8, <3>1, <3>3 DEF LooselyInside, LooselyCreating
  <2>3. CASE CreateStream(c)
    <3>1. /\ At(c, "streams", "CREATE_STREAMS", << >>, << >>) /\ opened[c] < Total(c)
          /\ toClient' = toClient /\ spc = "select"
      BY <1>8, <2>3 DEF LooselyCreating, At, CreateStream
    <3>2. CASE cpc' = [cpc EXCEPT ![c] = "reply"] /\ UNCHANGED <<cstate, opened, toServer>>
      <4>1. At(c, "reply", "CREATE_STREAMS", << >>, << >>)' /\ opened'[c] = opened[c]
        BY <1>1, <3>1, <3>2 DEF At
      <4>. QED  BY <1>3, <1>8, <3>1, <4>1 DEF LooselyInside, LooselyCreating
    <3>3. CASE StreamConnected(c)
      <4>1. \/ At(c, "select", "CREATE_STREAMS", << >>, << >>)' /\ opened'[c] = Total(c)
            \/ At(c, "streams", "CREATE_STREAMS", << >>, << >>)' /\ opened'[c] < Total(c)
        BY <1>1, <1>2, <1>5, <3>1, <3>3 DEF At
      <4>. QED  BY <1>3, <1>8, <4>1 DEF LooselyInside, LooselyCreating
    <3>. QED  BY <2>3, <3>1, <3>2, <3>3 DEF CreateStream
  <2>4. CASE UdpReply(c)
    <3>1. /\ At(c, "reply", "CREATE_STREAMS", << >>, << >>) /\ opened[c] < Total(c)
          /\ toClient' = toClient /\ StreamConnected(c)
      BY <1>6, <1>8, <2>4 DEF LooselyCreating, At, UdpReply
    <3>2. \/ At(c, "select", "CREATE_STREAMS", << >>, << >>)' /\ opened'[c] = Total(c)
          \/ At(c, "streams", "CREATE_STREAMS", << >>, << >>)' /\ opened'[c] < Total(c)
      BY <1>1, <1>2, <1>5, <3>1 DEF At
    <3>. QED  BY <1>3, <1>8, <3>2 DEF LooselyInside, LooselyCreating
  <2>. QED  BY <2>1, <2>2, <2>3, <2>4
<1>9. CASE LooselyTesting(c)
  <2>1. HandleMessageClient(c) \/ CreateStream(c) \/ UdpReply(c) \/ SendTestEnd(c)
    BY <1>4, <1>9 DEF LooselyTesting, At, ClientStep, ClientGetsResults
  <2>2. CASE HandleMessageClient(c)
    <3>1. /\ toServer[c] = << >>
          /\ \/ toClient[c] = <<"CREATE_STREAMS", "TEST_START", "TEST_RUNNING">>
             \/ toClient[c] = <<"TEST_START", "TEST_RUNNING">>
             \/ toClient[c] = <<"TEST_RUNNING">>
      BY <1>9, <2>2 DEF LooselyTesting, At, HandleMessageClient
    <3>2. \/ At(c, "streams", "CREATE_STREAMS", << >>, <<"TEST_START", "TEST_RUNNING">>)'
          \/ At(c, "select", "TEST_START", << >>, <<"TEST_RUNNING">>)'
          \/ At(c, "select", "TEST_RUNNING", << >>, << >>)'
      <4>1. CASE toClient[c] = <<"CREATE_STREAMS", "TEST_START", "TEST_RUNNING">>
        <5>1. /\ Head(toClient[c]) = "CREATE_STREAMS"
              /\ Tail(toClient[c]) = <<"TEST_START", "TEST_RUNNING">>
          BY <4>1, ThreeSeq
        <5>. QED  BY <1>2, <2>2, <3>1, <5>1, ReadsMessage DEF At
      <4>2. CASE toClient[c] = <<"TEST_START", "TEST_RUNNING">>
        <5>1. Head(toClient[c]) = "TEST_START" /\ Tail(toClient[c]) = <<"TEST_RUNNING">>
          BY <4>2, ShortSeqs
        <5>. QED  BY <1>2, <2>2, <3>1, <5>1, ReadsMessage DEF At
      <4>3. CASE toClient[c] = <<"TEST_RUNNING">>
        <5>1. Head(toClient[c]) = "TEST_RUNNING" /\ Tail(toClient[c]) = << >>
          BY <4>3, ShortSeqs
        <5>. QED  BY <1>2, <2>2, <3>1, <5>1, ReadsMessage DEF At
      <4>. QED  BY <3>1, <4>1, <4>2, <4>3
    <3>. QED  BY <1>3, <1>9, <3>2 DEF LooselyInside, LooselyTesting
  <2>3. CASE CreateStream(c)
    <3>1. /\ At(c, "streams", "CREATE_STREAMS", << >>, <<"TEST_START", "TEST_RUNNING">>)
          /\ toClient' = toClient /\ spc = "select"
      BY <1>9, <2>3 DEF LooselyTesting, At, CreateStream
    <3>2. CASE cpc' = [cpc EXCEPT ![c] = "reply"] /\ UNCHANGED <<cstate, opened, toServer>>
      <4>1. At(c, "reply", "CREATE_STREAMS", << >>, <<"TEST_START", "TEST_RUNNING">>)'
        BY <1>1, <3>1, <3>2 DEF At
      <4>. QED  BY <1>3, <1>9, <4>1 DEF LooselyInside, LooselyTesting
    <3>3. CASE StreamConnected(c)
      <4>1. \/ At(c, "select", "CREATE_STREAMS", << >>, <<"TEST_START", "TEST_RUNNING">>)'
            \/ At(c, "streams", "CREATE_STREAMS", << >>, <<"TEST_START", "TEST_RUNNING">>)'
        BY <1>5, <3>1, <3>3 DEF At
      <4>. QED  BY <1>3, <1>9, <4>1 DEF LooselyInside, LooselyTesting
    <3>. QED  BY <2>3, <3>1, <3>2, <3>3 DEF CreateStream
  <2>4. CASE UdpReply(c)
    <3>1. /\ At(c, "reply", "CREATE_STREAMS", << >>, <<"TEST_START", "TEST_RUNNING">>)
          /\ toClient' = toClient /\ StreamConnected(c)
      BY <1>6, <1>9, <2>4 DEF LooselyTesting, At, UdpReply
    <3>2. \/ At(c, "select", "CREATE_STREAMS", << >>, <<"TEST_START", "TEST_RUNNING">>)'
          \/ At(c, "streams", "CREATE_STREAMS", << >>, <<"TEST_START", "TEST_RUNNING">>)'
      BY <1>5, <3>1 DEF At
    <3>. QED  BY <1>3, <1>9, <3>2 DEF LooselyInside, LooselyTesting
  <2>5. CASE SendTestEnd(c)
    <3>1. toServer[c] = << >> /\ toClient[c] = << >> /\ toClient' = toClient
      BY <1>9, <2>5 DEF LooselyTesting, At, SendTestEnd
    <3>2. At(c, "select", "TEST_END", <<"TEST_END">>, << >>)'
      BY <1>2, <2>5, <3>1, WritesHeld DEF SendTestEnd, At
    <3>. QED  BY <1>3, <1>9, <3>2 DEF LooselyInside, LooselyTesting
  <2>. QED  BY <2>1, <2>2, <2>3, <2>4, <2>5
<1>. QED  BY <1>7, <1>8, <1>9 DEF LooselyInside

(* The server's part: it takes the client, asks it for its streams, and    *)
(* starts the test when it has as many as it asked for.                    *)
LEMMA ServerTogether ==
    ASSUME TypeOK, InOrder, NotInvited, Sockets, Fresh, Together, NEW c \in Clients,
           ServerStep \/ ServerTimeout \/ ServerSigend, Controls(c)', ~Gone(c)'
    PROVE  LooselyInside(c)'
<1>. USE DEF options, clientVars, serverVars, netVars
<1>1. /\ cpc' = cpc /\ cstate' = cstate /\ opened' = opened /\ protocol' = protocol /\ mode' = mode
      /\ Total(c)' = Total(c) /\ Total(c) \in Nat /\ Total(c) > 0 /\ opened[c] \in Nat
      /\ backlog \in Seq(Connection) /\ <<c, 0>> # None /\ ctrl' = <<c, 0>>
      /\ toServer \in [Clients -> Seq(Messages)] /\ toClient \in [Clients -> Seq(Messages)]
  BY BacklogType, ServerWorks, TotalFacts, NoneAssumption
     DEF ServerWork, Total, TypeOK, Connection, Controls
<1>2. ~ServerReturns /\ ~ServerTimeout /\ ~ServerSigend /\ ~ClientLost
  BY <1>1 DEF ServerReturns, ServerTimeout, ServerSigend, ClientLost
<1>3. ~Gone(c)
  BY <1>1 DEF Gone
<1>4. CASE ~Controls(c)
  <2>1. ctrl' # ctrl
    BY <1>1, <1>4 DEF Controls
  <2>2. /\ Accept /\ Head(backlog) = <<c, 0>> /\ backlog # << >> /\ toServer' = toServer
        /\ sstate' = "PARAM_EXCHANGE" /\ spc' = "params"
        /\ AnswerOn(Head(backlog), <<"PARAM_EXCHANGE">>)
    BY <1>1, <1>2, <2>1 DEF ServerStep, Listen, Accept, ExchangeParameters, AcceptTcpStream,
          AcceptUdpStream, AddStream, HandleMessageServer, ExchangeResults
  <2>3. <<c, 0>> \in Range(backlog)
    <3>1. Range(backlog) = {Head(backlog)} \cup Range(Tail(backlog))
      BY <1>1, <2>2, RangeParts
    <3>. QED  BY <2>2, <3>1
  <2>4. At(c, "select", "0", << >>, << >>)
    BY <1>3, <2>3 DEF Fresh
  <2>5. <<c, 0>> \in Connection
    BY DEF Connection
  <2>6. toClient'[c] = <<"PARAM_EXCHANGE">>
    BY <2>2, <2>4, <2>5, AnswerElse DEF At
  <2>. QED  BY <1>1, <2>2, <2>4, <2>6 DEF LooselyInside, Exchanging, At
<1>5. CASE Controls(c)
  <2>1. /\ ctrl = <<c, 0>> /\ ctrl[1] = c /\ ctrl' = ctrl /\ ctrl # None /\ LooselyInside(c)
    BY <1>1, <1>3, <1>5 DEF Controls, Together
  <2>2. /\ spc = "params" => Exchanging(c)
        /\ spc = "results" => Finishing(c)
        /\ spc = "select" /\ sstate = "CREATE_STREAMS" => LooselyCreating(c)
        /\ spc = "select" /\ sstate # "CREATE_STREAMS" => LooselyTesting(c) \/ Displaying(c)
        /\ spc # "closed"
    BY <2>1 DEF LooselyInside, Exchanging, LooselyCreating, LooselyTesting, Finishing, Displaying
  <2>3. ASSUME backlog # << >>, NEW m, AnswerOn(Head(backlog), <<m>>)
        PROVE  toClient'[c] = toClient[c]
    <3>1. Head(backlog) \in Connection /\ Head(backlog) \in Range(backlog)
      BY <1>1, <2>3, RangeParts
    <3>2. Head(backlog)[1] = c => 0 < Head(backlog)[2]
      BY <2>1, <3>1 DEF InOrder
    <3>. QED  BY <2>3, <3>1, <3>2, AnswerElse
  <2>4. ASSUME UNCHANGED <<spc, sstate, toServer>>, toClient'[c] = toClient[c]
        PROVE  LooselyInside(c)'
    BY <1>1, <2>1, <2>4 DEF LooselyInside, Exchanging, LooselyCreating, LooselyTesting, Finishing,
                            Displaying, At
  <2>5. ~Listen
    BY <2>2 DEF Listen
  <2>6. Accept => LooselyInside(c)'
    BY <2>1, <2>3, <2>4 DEF Accept
  <2>7. ExchangeParameters => LooselyInside(c)'
    <3>. SUFFICES ASSUME ExchangeParameters PROVE LooselyInside(c)'
      OBVIOUS
    <3>1. /\ spc = "params" /\ toServer[c] # << >> /\ toServer' = [toServer EXCEPT ![c] = Tail(@)]
          /\ Answer(c, <<"CREATE_STREAMS">>) /\ sstate' = "CREATE_STREAMS" /\ spc' = "select"
      BY <1>2, <2>1 DEF ExchangeParameters
    <3>2. At(c, "select", "PARAM_EXCHANGE", <<"params">>, << >>)
      BY <2>2, <3>1 DEF Exchanging, At
    <3>3. At(c, "select", "PARAM_EXCHANGE", << >>, <<"CREATE_STREAMS">>)'
      BY <1>1, <3>1, <3>2, ShortSeqs DEF At, Answer
    <3>4. opened[c] = 0
      BY <1>5, <3>1 DEF NotInvited, Unserved
    <3>. QED  BY <1>1, <3>1, <3>3, <3>4 DEF LooselyInside, LooselyCreating
  <2>8. ASSUME NEW k, AddStream(k), spc = "select", sstate = "CREATE_STREAMS", toServer' = toServer
        PROVE  LooselyInside(c)'
    <3>1. LooselyCreating(c) /\ spc' = spc
      BY <2>2, <2>8 DEF AddStream
    <3>2. CASE Len(streams) + 1 = Total(c)
      <4>1. Answer(c, <<"TEST_START", "TEST_RUNNING">>) /\ sstate' = "TEST_RUNNING"
        BY <2>1, <2>8, <3>2 DEF AddStream
      <4>2. toClient'[c] = toClient[c] \o <<"TEST_START", "TEST_RUNNING">>
        BY <1>1, <4>1 DEF Answer
      <4>3. /\ toClient[c] = << >> => toClient'[c] = <<"TEST_START", "TEST_RUNNING">>
            /\ toClient[c] = <<"CREATE_STREAMS">> =>
                  toClient'[c] = <<"CREATE_STREAMS", "TEST_START", "TEST_RUNNING">>
        <5>1. << >> \o <<"TEST_START", "TEST_RUNNING">> = <<"TEST_START", "TEST_RUNNING">>
          BY ShortSeqs
        <5>2. <<"CREATE_STREAMS">> \o <<"TEST_START", "TEST_RUNNING">>
                = <<"CREATE_STREAMS", "TEST_START", "TEST_RUNNING">>
          BY ThreeSeq
        <5>. QED  BY <4>2, <5>1, <5>2
      <4>4. LooselyTesting(c)'
        BY <1>1, <2>8, <3>1, <4>1, <4>3 DEF LooselyCreating, LooselyTesting, At
      <4>. QED  BY <4>4 DEF LooselyInside
    <3>3. CASE Len(streams) + 1 # Total(c)
      BY <2>1, <2>4, <2>8, <3>3 DEF AddStream
    <3>. QED  BY <3>2, <3>3
  <2>9. AcceptTcpStream => LooselyInside(c)'
    BY <1>2, <2>3, <2>4, <2>8 DEF AcceptTcpStream
  <2>10. AcceptUdpStream => LooselyInside(c)'
    BY <2>8 DEF AcceptUdpStream, UdpListening
  <2>11. HandleMessageServer => LooselyInside(c)'
    <3>. SUFFICES ASSUME HandleMessageServer PROVE LooselyInside(c)'
      OBVIOUS
    <3>1. /\ spc = "select" /\ toServer[c] # << >> /\ toServer' = [toServer EXCEPT ![c] = Tail(@)]
          /\ Answer(c, <<"EXCHANGE_RESULTS">>) /\ sstate' = "EXCHANGE_RESULTS" /\ spc' = "results"
      BY <1>2, <2>1 DEF HandleMessageServer
    <3>2. At(c, "select", "TEST_END", <<"TEST_END">>, << >>)
      BY <1>3, <2>2, <3>1 DEF LooselyCreating, LooselyTesting, Displaying, At, Gone, Final
    <3>3. At(c, "select", "TEST_END", << >>, <<"EXCHANGE_RESULTS">>)'
      BY <1>1, <3>1, <3>2, ShortSeqs DEF At, Answer
    <3>. QED  BY <3>1, <3>3 DEF LooselyInside, Finishing
  <2>12. ExchangeResults => LooselyInside(c)'
    <3>. SUFFICES ASSUME ExchangeResults PROVE LooselyInside(c)'
      OBVIOUS
    <3>1. /\ spc = "results" /\ toServer[c] # << >> /\ toServer' = [toServer EXCEPT ![c] = Tail(@)]
          /\ Answer(c, <<"results", "DISPLAY_RESULTS">>)
          /\ sstate' = "DISPLAY_RESULTS" /\ spc' = "select"
      BY <1>2, <2>1 DEF ExchangeResults
    <3>2. At(c, "results", "EXCHANGE_RESULTS", <<"results">>, << >>)
      BY <2>2, <3>1 DEF Finishing, At
    <3>3. At(c, "results", "EXCHANGE_RESULTS", << >>, <<"results", "DISPLAY_RESULTS">>)'
      BY <1>1, <3>1, <3>2, ShortSeqs DEF At, Answer
    <3>. QED  BY <3>1, <3>3 DEF LooselyInside, Displaying
  <2>. QED
    BY <1>2, <2>5, <2>6, <2>7, <2>9, <2>10, <2>11, <2>12 DEF ServerStep
<1>. QED  BY <1>4, <1>5

LEMMA TogetherNext ==
    ASSUME TypeOK, InOrder, NotInvited, Sockets, Fresh, Together, Next
    PROVE  Together'
<1>. SUFFICES ASSUME NEW c \in Clients, Controls(c)', ~Gone(c)'
              PROVE  LooselyInside(c)'
  BY DEF Together
<1>1. CASE ServerStep \/ ServerTimeout \/ ServerSigend
  BY <1>1, ServerTogether
<1>2. ASSUME NEW d \in Clients, ClientStep(d) \/ ClientSigend(d) \/ ClientTimeout(d)
      PROVE  LooselyInside(c)'
  <2>1. ClientWork(d) /\ ctrl' = ctrl /\ UNCHANGED <<mode, spc, sstate>>
    BY <1>2, ClientWorks DEF ClientWork
  <2>2. LooselyInside(c) /\ Controls(c)
    <3>1. ~Gone(c)
      BY StaysGone
    <3>. QED  BY <2>1, <3>1 DEF Together, Controls
  <2>3. CASE d # c
    <3>1. /\ cpc'[c] = cpc[c] /\ cstate'[c] = cstate[c] /\ opened'[c] = opened[c]
          /\ toServer'[c] = toServer[c] /\ toClient'[c] = toClient[c]
      BY <2>1, <2>3, OthersLeave
    <3>. QED  BY <2>1, <2>2, <3>1
              DEF LooselyInside, Exchanging, LooselyCreating, LooselyTesting, Finishing, Displaying, At,
                  Total
  <2>4. CASE d = c
    <3>1. ~ClientSigend(c) /\ ~ClientTimeout(c)
      BY DEF ClientSigend, ClientTimeout, ClientFails, Gone, Final, TypeOK
    <3>. QED  BY <1>2, <2>2, <2>4, <3>1, OwnTogether
  <2>. QED  BY <2>3, <2>4
<1>. QED  BY <1>1, <1>2 DEF Next

LEMMA WaitInit == Init => WaitInv
<1>. SUFFICES ASSUME Init PROVE WaitInv
  OBVIOUS
<1>1. Range(<< >>) = {}
  BY BacklogType, TypeInit, RangeParts
<1>. QED  BY <1>1, NoneAssumption DEF Init, WaitInv, Fresh, Quiet, Closed, Counted, Together, Controls

LEMMA WaitNext == StreamsInv /\ WaitInv /\ [Next]_vars => WaitInv'
<1>. SUFFICES ASSUME StreamsInv, WaitInv, [Next]_vars PROVE WaitInv'
  OBVIOUS
<1>1. CASE Next
  BY <1>1, FreshNext, ClosedNext, CountedNext, TogetherNext DEF StreamsInv, WaitInv
<1>2. CASE UNCHANGED vars
  <2>. USE <1>2 DEF vars, options, clientVars, serverVars, netVars
  <2>1. Fresh' /\ Closed' /\ Counted'
    BY DEF WaitInv, Fresh, Quiet, Gone, At, Closed, Counted, Total
  <2>2. Together'
    BY DEF WaitInv, Together, Controls, Gone, At, LooselyInside, Exchanging, LooselyCreating,
           LooselyTesting, Finishing, Displaying, Total
  <2>. QED  BY <2>1, <2>2 DEF WaitInv
<1>. QED  BY <1>1, <1>2

(* A client whose connection is closed has nothing to wait for.            *)
LEMMA UnheldGoesOn ==
    ASSUME TypeOK, NEW c \in Clients, ~Gone(c), ~Held(<<c, 0>>), datagrams = << >>
    PROVE  ClientCanGoOn(c)
<1>1. Range(datagrams) = {}
  BY BacklogType, RangeParts
<1>2. cpc[c] \in {"start", "select", "streams", "reply", "results"}
  BY DEF TypeOK, Gone
<1>. QED  BY <1>1, <1>2 DEF ClientCanGoOn

(* When the server waits, the client it has taken does not.                *)
LEMMA TakenGoesOn ==
    ASSUME TypeOK, NoGap, Sockets, WaitInv, NEW c \in Clients, Controls(c), ~ServerCanGoOn
    PROVE  ClientCanGoOn(c)
<1>1. /\ ctrl # None /\ ctrl[1] = c /\ ~Gone(c) /\ toServer[c] = << >>
      /\ Total(c) \in Nat /\ opened[c] \in Nat /\ Len(streams) \in Nat
      /\ backlog \in Seq(Connection) /\ datagrams \in Seq(Connection)
      /\ protocol[c] \in {"tcp", "udp"}
  BY HeldParts, TotalFacts, BacklogType, LenProperties, OptionsAssumption DEF ServerCanGoOn, TypeOK
<1>2. Range(<< >>) = {}
  BY <1>1, RangeParts
<1>3. LooselyInside(c)
  BY <1>1 DEF WaitInv, Together
<1>4. \A x, y, z : <<x>> # << >> /\ <<x, y>> # << >> /\ <<x, y, z>> # << >>
  BY ShortSeqs, ThreeSeq
<1>5. CASE Exchanging(c) \/ Finishing(c) \/ Displaying(c)
  BY <1>1, <1>4, <1>5 DEF Exchanging, Finishing, Displaying, At, ClientCanGoOn, Gone, Final
<1>6. CASE LooselyTesting(c)
  <2>1. Range(datagrams) = {}
    BY <1>2, <1>6 DEF LooselyTesting, WaitInv, Closed
  <2>. QED  BY <1>1, <1>4, <1>6, <2>1 DEF LooselyTesting, At, ClientCanGoOn
<1>7. CASE LooselyCreating(c)
  <2>1. spc = "select" /\ sstate = "CREATE_STREAMS" /\ Len(streams) < Total(c)
    BY <1>1, <1>7 DEF LooselyCreating, WaitInv, Counted
  <2>2. CASE cpc[c] = "reply"
    <3>1. Range(datagrams) = {}
      BY <1>1, <1>2, <2>1, <2>2 DEF Sockets, ServerCanGoOn, UdpListening
    <3>. QED  BY <2>2, <3>1 DEF ClientCanGoOn
  <2>3. ~(At(c, "select", "CREATE_STREAMS", << >>, << >>) /\ opened[c] = Total(c))
    <3>. SUFFICES ASSUME opened[c] = Total(c) PROVE FALSE
      OBVIOUS
    <3>1. CASE protocol[c] = "udp"
      BY <1>1, <2>1, <3>1 DEF WaitInv, Counted
    <3>2. CASE protocol[c] = "tcp"
      <4>1. <<c, opened[c]>> \in Range(backlog)
        BY <1>1, <2>1, <3>2 DEF NoGap
      <4>2. backlog = << >>
        BY <1>1, <2>1, <3>2 DEF ServerCanGoOn
      <4>. QED  BY <1>2, <4>1, <4>2
    <3>. QED  BY <1>1, <3>1, <3>2
  <2>. QED  BY <1>4, <1>7, <2>2, <2>3 DEF LooselyCreating, At, ClientCanGoOn
<1>. QED  BY <1>3, <1>5, <1>6, <1>7 DEF LooselyInside

LEMMA SomebodyGoesOn ==
    ASSUME TypeOK, InOrder, NoGap, Sockets, WaitInv
    PROVE  NobodyWaitsInVain
<1>. SUFFICES ASSUME NEW c \in Clients, ~Gone(c), ~ServerCanGoOn
              PROVE  ClientCanGoOn(c) \/ (ctrl # None /\ ClientCanGoOn(ctrl[1]))
  BY DEF NobodyWaitsInVain
<1>1. /\ Range(<< >>) = {} /\ \A d \in Clients : <<d, 0>> # None
      /\ ctrl # None => ctrl[1] \in Clients /\ ctrl[2] \in Nat
  BY BacklogType, RangeParts, NoneAssumption DEF TypeOK, Connection
<1>2. CASE ctrl = None
  <2>1. backlog = << >> /\ datagrams = << >>
    BY <1>2 DEF TypeOK, Sockets, WaitInv, Closed, ServerCanGoOn
  <2>2. ~Held(<<c, 0>>)
    BY <1>1, <1>2, <2>1 DEF Held
  <2>. QED  BY <2>1, <2>2, UnheldGoesOn
<1>3. CASE ctrl # None
  <2>. DEFINE d == ctrl[1]
  <2>1. d \in Clients /\ ~Gone(d)
    BY <1>1, <1>3 DEF ServerCanGoOn
  <2>2. CASE ctrl[2] = 0
    BY <1>3, <2>1, <2>2, HeldParts, TakenGoesOn
  <2>3. CASE ctrl[2] # 0
    <3>1. datagrams = << >>
      BY <1>3, <2>3 DEF Sockets
    <3>2. <<d, 0>> \notin Range(backlog)
      <4>1. <<d, 0>> \in Range(backlog) => ctrl[2] < <<d, 0>>[2]
        BY <1>3 DEF InOrder
      <4>. QED  BY <1>1, <1>3, <4>1
    <3>3. ~Controls(d)
      BY <2>1, <2>3, HeldParts
    <3>4. ~Held(<<d, 0>>)
      BY <2>1, <3>2, <3>3, HeldParts
    <3>. QED  BY <1>3, <2>1, <3>1, <3>4, UnheldGoesOn
  <2>. QED  BY <2>2, <2>3
<1>. QED  BY <1>2, <1>3

(* The server and its clients never wait for each other: for any number of *)
(* clients, streams and faults, whoever is killed, denied, timed out or    *)
(* taken for another, one of the two ends can go on (select() of           *)
(* iperf_run_server() and iperf_run_client(), Nread() of the JSON texts,   *)
(* recv() of iperf_udp_connect()).                                         *)
THEOREM NobodyWaitsInVainAlways == Spec => []NobodyWaitsInVain
<1>1. StreamsInv /\ WaitInv => NobodyWaitsInVain
  BY SomebodyGoesOn DEF StreamsInv
<1>. QED  BY <1>1, StreamsInit, StreamsNext, WaitInit, WaitNext, PTL DEF Spec
===============================================================================
