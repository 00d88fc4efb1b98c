----------------------------- MODULE IperfControl -----------------------------
(***************************************************************************)
(* The control protocol of iperf-3.14: iperf_run_server() and the clients  *)
(* that come to it, each one process that runs one test.  A connection is  *)
(* <<client, n>>: n = 0 is its control connection, n >= 1 its n-th stream. *)
(* Each accepted control connection is a pair of FIFO channels; the        *)
(* messages are the state bytes and the two JSON texts.  Connecting and    *)
(* sending the cookie is one step.  The data of the streams is left out,   *)
(* and so is everything iperf3 prints.                                     *)
(***************************************************************************)
EXTENDS Naturals, Sequences, SequencesExt

CONSTANTS
    Clients,        \* the client processes
    None,           \* ctrl_sck = -1
    NumStreams,     \* -P: parallel streams of a test, in each direction
    Protocols,      \* what the clients may ask for: "tcp", "udp"
    Modes,          \* a client's mode: "SENDER", "RECEIVER", "BIDIRECTIONAL"
    Tos,            \* whether the tests set the type of service (-S)
    MaxFaults       \* bound on signals, kills, timeouts and failed listens

ASSUME NoneAssumption == None \notin Clients \cup (Clients \X Nat)
ASSUME StreamsAssumption == NumStreams \in Nat \ {0} /\ MaxFaults \in Nat
ASSUME OptionsAssumption ==
    /\ Protocols \subseteq {"tcp", "udp"}
    /\ Modes \subseteq {"SENDER", "RECEIVER", "BIDIRECTIONAL"}
    /\ Tos \in BOOLEAN

VARIABLES
    protocol, mode, \* what each client was started with
    cpc,            \* where a client is: start, select, streams, reply,
                    \* results, or its end: ok, failed
    cstate,         \* its test->state
    opened,         \* how many streams it has connected
    spc,            \* where the server is: closed, select, params, results, exit
    sstate,         \* its test->state
    ctrl,           \* the connection in its ctrl_sck, or None
    streams,        \* its streams, in the order accepted
    backlog,        \* connections the listener holds that are not accepted
    datagrams,      \* UDP connect messages its prot_listener holds
    replied,        \* UDP streams that got their UDP_CONNECT_REPLY
    toServer,       \* the two directions of the control connections
    toClient,
    serverGot,      \* clients whose results the server has
    clientGot,      \* clients that have the server's results
    faults          \* how many faults have happened

clientVars == <<cpc, cstate, opened, clientGot>>
serverVars == <<spc, sstate, ctrl, streams, serverGot>>
netVars == <<backlog, datagrams, replied, toServer, toClient>>
options == <<protocol, mode>>
vars == <<options, clientVars, serverVars, netVars, faults>>

Final == {"ok", "failed"}
Gone(c) == cpc[c] \in Final             \* a process that ended closed its sockets
Controls(c) == ctrl = <<c, 0>>
Held(k) == ctrl = k \/ k \in Range(backlog)    \* not closed at the server's end

Total(c) == IF mode[c] = "BIDIRECTIONAL" THEN 2 * NumStreams ELSE NumStreams
Connection == Clients \X Nat

Init ==
    /\ protocol \in [Clients -> Protocols]
    /\ mode \in [Clients -> Modes]
    /\ cpc = [c \in Clients |-> "start"]
    /\ cstate = [c \in Clients |-> "0"]
    /\ opened = [c \in Clients |-> 0]
    /\ spc = "closed"
    /\ sstate = "0"
    /\ ctrl = None
    /\ streams = << >>
    /\ backlog = << >>
    /\ datagrams = << >>
    /\ replied = {}
    /\ toServer = [c \in Clients |-> << >>]
    /\ toClient = [c \in Clients |-> << >>]
    /\ serverGot = {}
    /\ clientGot = {}
    /\ faults = 0

(* Which side sends on the n-th stream.  The client opens its sending      *)
(* streams first; the server fills its receiving ones first.               *)
ClientSends(c, n) ==
    \/ mode[c] = "SENDER"
    \/ mode[c] = "BIDIRECTIONAL" /\ n <= NumStreams
ServerSends(c, n) ==
    \/ mode[c] = "RECEIVER"
    \/ mode[c] = "BIDIRECTIONAL" /\ n > NumStreams

(***************************************************************************)
(* The clients                                                             *)
(***************************************************************************)
Tell(c, msgs) == toServer' = [toServer EXCEPT ![c] = @ \o msgs]

(* cleanup_and_fail: iperf_client_end() says IPERF_DONE unless the state   *)
(* is an error the server sent, or no message has come yet.                *)
ClientFails(c, state) ==
    /\ cpc' = [cpc EXCEPT ![c] = "failed"]
    /\ IF state \in {"0", "ACCESS_DENIED", "SERVER_ERROR"}
       THEN cstate' = [cstate EXCEPT ![c] = state] /\ UNCHANGED toServer
       ELSE cstate' = [cstate EXCEPT ![c] = "IPERF_DONE"] /\ Tell(c, <<"IPERF_DONE">>)
    /\ UNCHANGED <<opened, clientGot>>

(* A write on the control connection; it may fail once the server closed.  *)
Writes(c, state, msg, next) ==
    \/ /\ Tell(c, <<msg>>)
       /\ cstate' = [cstate EXCEPT ![c] = state]
       /\ cpc' = [cpc EXCEPT ![c] = next]
       /\ UNCHANGED <<opened, clientGot>>
    \/ ~Held(<<c, 0>>) /\ ClientFails(c, state)

(* iperf_connect()                                                         *)
Connect(c) ==
    /\ cpc[c] = "start"
    /\ IF spc \in {"closed", "exit"}
       THEN ClientFails(c, "0") /\ UNCHANGED backlog
       ELSE /\ cpc' = [cpc EXCEPT ![c] = "select"]
            /\ backlog' = Append(backlog, <<c, 0>>)
            /\ UNCHANGED <<cstate, opened, clientGot, toServer>>
    /\ UNCHANGED <<options, serverVars, datagrams, replied, toClient, faults>>

(* iperf_handle_message_client(): the byte read becomes the state.         *)
HandleMessageClient(c) ==
    /\ cpc[c] = "select"
    /\ toClient[c] # << >>
    /\ toClient' = [toClient EXCEPT ![c] = Tail(@)]
    /\ LET m == Head(toClient[c]) IN
          \/ m = "PARAM_EXCHANGE" /\ Writes(c, m, "params", "select")
          \/ /\ m \in {"CREATE_STREAMS", "TEST_START", "TEST_RUNNING"}
             /\ cstate' = [cstate EXCEPT ![c] = m]
             /\ cpc' = [cpc EXCEPT ![c] = IF m = "CREATE_STREAMS" THEN "streams" ELSE @]
             /\ UNCHANGED <<opened, clientGot, toServer>>
          \/ m = "EXCHANGE_RESULTS" /\ Writes(c, m, "results", "results")
          \/ /\ m = "DISPLAY_RESULTS"     \* iperf_client_end(), its result ignored
             /\ cpc' = [cpc EXCEPT ![c] = "ok"]
             /\ cstate' = [cstate EXCEPT ![c] = "IPERF_DONE"]
             /\ Tell(c, <<"IPERF_DONE">>)
             /\ UNCHANGED <<opened, clientGot>>
          \/ /\ m \notin {"PARAM_EXCHANGE", "CREATE_STREAMS", "TEST_START", "TEST_RUNNING",
                          "EXCHANGE_RESULTS", "DISPLAY_RESULTS"}
             /\ ClientFails(c, m)
    /\ UNCHANGED <<options, serverVars, backlog, datagrams, replied, faults>>

(* The server closed: read() returns 0, or, in a running test, a stream    *)
(* fails first.                                                            *)
ServerLost(c) ==
    /\ cpc[c] \in {"select", "results"}
    /\ ~Held(<<c, 0>>)
    /\ \/ toClient[c] = << >>
       \/ cpc[c] = "select" /\ cstate[c] = "TEST_RUNNING"
    /\ ClientFails(c, cstate[c])
    /\ UNCHANGED <<options, serverVars, backlog, datagrams, replied, toClient, faults>>

(* Mutant: the client of a two-way test opens its sending streams only.    *)
StreamConnectedOneWay(c) ==
    /\ opened' = [opened EXCEPT ![c] = @ + 1]
    /\ cpc' = [cpc EXCEPT ![c] = IF opened[c] + 1 = NumStreams THEN "select" ELSE "streams"]
    /\ UNCHANGED <<cstate, clientGot, toServer>>

StreamConnected(c) ==
    /\ opened' = [opened EXCEPT ![c] = @ + 1]
    /\ cpc' = [cpc EXCEPT ![c] = IF opened[c] + 1 = Total(c) THEN "select" ELSE "streams"]
    /\ UNCHANGED <<cstate, clientGot, toServer>>

(* prot_listener of a UDP test exists while the server creates streams.    *)
UdpListening ==
    /\ sstate = "CREATE_STREAMS"
    /\ protocol[ctrl[1]] = "udp"

(* iperf_create_streams(): iperf_tcp_connect(), or the connect message of  *)
(* iperf_udp_connect().                                                    *)
CreateStream(c) ==
    /\ cpc[c] = "streams"
    /\ LET stream == <<c, opened[c] + 1>> IN
       IF protocol[c] = "udp"
       THEN /\ cpc' = [cpc EXCEPT ![c] = "reply"]
            /\ datagrams' = IF UdpListening THEN Append(datagrams, stream) ELSE datagrams
            /\ UNCHANGED <<cstate, opened, clientGot, backlog, toServer>>
       ELSE /\ IF spc \in {"closed", "exit"}
               THEN ClientFails(c, cstate[c]) /\ UNCHANGED backlog
               ELSE StreamConnected(c) /\ backlog' = Append(backlog, stream)
            /\ UNCHANGED datagrams
    /\ UNCHANGED <<options, serverVars, replied, toClient, faults>>

(* iperf_udp_connect() has its reply, or gives up when the message is lost.*)
UdpReply(c) ==
    /\ cpc[c] = "reply"
    /\ LET stream == <<c, opened[c] + 1>> IN
          \/ stream \in replied /\ StreamConnected(c)
          \/ stream \notin replied \cup Range(datagrams) /\ ClientFails(c, cstate[c])
    /\ UNCHANGED <<options, serverVars, backlog, datagrams, replied, toClient, faults>>

(* The test timer fires or the amount is reached, out of omitting mode.    *)
SendTestEnd(c) ==
    /\ cpc[c] = "select"
    /\ cstate[c] = "TEST_RUNNING"
    /\ Writes(c, "TEST_END", "TEST_END", "select")
    /\ UNCHANGED <<options, serverVars, backlog, datagrams, replied, toClient, faults>>

(* get_results() of the client                                             *)
ClientGetsResults(c) ==
    /\ cpc[c] = "results"
    /\ toClient[c] # << >>
    /\ toClient' = [toClient EXCEPT ![c] = Tail(@)]
    /\ IF Head(toClient[c]) = "results"
       THEN /\ clientGot' = clientGot \cup {c}
            /\ cpc' = [cpc EXCEPT ![c] = "select"]
            /\ UNCHANGED <<cstate, opened, toServer>>
       ELSE ClientFails(c, cstate[c])
    /\ UNCHANGED <<options, serverVars, backlog, datagrams, replied, faults>>

(***************************************************************************)
(* The server                                                              *)
(***************************************************************************)
Answer(c, msgs) == toClient' = [toClient EXCEPT ![c] = @ \o msgs]

(* A message to a connection: only a control connection is read again.     *)
AnswerOn(k, msgs) ==
    IF k[2] = 0 THEN Answer(k[1], msgs) ELSE UNCHANGED toClient

(* cleanup_server() closes every socket and the run returns; main() then   *)
(* calls iperf_reset_test().                                               *)
ServerReturns ==
    /\ spc' = "closed"
    /\ sstate' = "0"
    /\ ctrl' = None
    /\ streams' = << >>
    /\ backlog' = << >>
    /\ datagrams' = << >>

(* iperf_server_listen()                                                   *)
Listen ==
    /\ spc = "closed"
    /\ spc' = "select"
    /\ sstate' = "IPERF_START"
    /\ UNCHANGED <<options, clientVars, ctrl, streams, serverGot, netVars, faults>>

(* Mutant: a busy server takes the connection all the same.                *)
AcceptAlways ==
    /\ spc = "select"
    /\ sstate # "CREATE_STREAMS"
    /\ backlog # << >>
    /\ ctrl' = Head(backlog)
    /\ sstate' = "PARAM_EXCHANGE"
    /\ spc' = "params"
    /\ AnswerOn(Head(backlog), <<"PARAM_EXCHANGE">>)
    /\ backlog' = Tail(backlog)
    /\ UNCHANGED <<streams, datagrams>>
    /\ UNCHANGED <<options, clientVars, serverGot, replied, toServer, faults>>

(* iperf_accept(): a free server takes the connection, whatever it is, and *)
(* a busy one denies it without reading from it.                           *)
Accept ==
    /\ spc = "select"
    /\ sstate # "CREATE_STREAMS"
    /\ backlog # << >>
    /\ LET k == Head(backlog) IN
          \/ /\ ctrl = None
             /\ ctrl' = k
             /\ sstate' = "PARAM_EXCHANGE"
             /\ spc' = "params"
             /\ AnswerOn(k, <<"PARAM_EXCHANGE">>)
             /\ backlog' = Tail(backlog)
             /\ UNCHANGED <<streams, datagrams>>
          \/ ctrl = None /\ Gone(k[1]) /\ ServerReturns /\ UNCHANGED toClient
          \/ /\ ctrl # None
             /\ AnswerOn(k, <<"ACCESS_DENIED">>)
             /\ backlog' = Tail(backlog)
             /\ UNCHANGED <<ctrl, sstate, spc, streams, datagrams>>
    /\ UNCHANGED <<options, clientVars, serverGot, replied, toServer, faults>>

(* Mutant: the end of the connection is not noticed in get_parameters().   *)
ExchangeParametersBlocked ==
    /\ spc = "params"
    /\ Controls(ctrl[1])
    /\ toServer[ctrl[1]] # << >>
    /\ Head(toServer[ctrl[1]]) = "params"
    /\ toServer' = [toServer EXCEPT ![ctrl[1]] = Tail(@)]
    /\ Answer(ctrl[1], <<"CREATE_STREAMS">>)
    /\ sstate' = "CREATE_STREAMS"
    /\ spc' = "select"
    /\ UNCHANGED <<backlog, ctrl, streams, datagrams, faults>>
    /\ UNCHANGED <<options, clientVars, serverGot, replied>>

(* The server's iperf_exchange_parameters(): get_parameters() waits for    *)
(* the client's; a TCP test with its own socket options makes a new        *)
(* listener, and what the old one held is reset.                           *)
ExchangeParameters ==
    /\ spc = "params"
    /\ LET c == ctrl[1] IN
          \/ /\ Controls(c) /\ toServer[c] # << >> /\ Head(toServer[c]) = "params"
             /\ toServer' = [toServer EXCEPT ![c] = Tail(@)]
             /\ \/ /\ Answer(c, <<"CREATE_STREAMS">>)
                   /\ sstate' = "CREATE_STREAMS"
                   /\ spc' = "select"
                   /\ \/ UNCHANGED backlog
                      \/ protocol[c] = "tcp" /\ backlog' = << >>
                   /\ UNCHANGED <<ctrl, streams, datagrams, faults>>
                \/ /\ faults < MaxFaults         \* protocol->listen() fails
                   /\ faults' = faults + 1
                   /\ Answer(c, <<"SERVER_ERROR">>)
                   /\ ServerReturns
                \/ Gone(c) /\ ServerReturns /\ UNCHANGED <<toClient, faults>>
          \/ /\ \/ Gone(c) /\ (~Controls(c) \/ toServer[c] = << >>)
                \/ Controls(c) /\ toServer[c] # << >> /\ Head(toServer[c]) # "params"
             /\ ServerReturns
             /\ UNCHANGED <<toServer, toClient, faults>>
    /\ UNCHANGED <<options, clientVars, serverGot, replied>>

(* The stream is the next of the test; with the last one the test starts.  *)
AddStream(k) ==
    LET c == ctrl[1]
        n == Len(streams) + 1
    IN  /\ streams' = Append(streams, [conn |-> k, sender |-> ServerSends(c, n)])
        /\ IF n = Total(c)
           THEN /\ Answer(c, <<"TEST_START", "TEST_RUNNING">>)
                /\ sstate' = "TEST_RUNNING"
                /\ datagrams' = << >>
                /\ \/ backlog' = IF protocol[c] = "udp" THEN backlog ELSE Tail(backlog)
                   \/ protocol[c] = "tcp" /\ backlog' = << >>
           ELSE /\ UNCHANGED <<sstate, toClient>>
                /\ datagrams' = IF protocol[c] = "udp" THEN Tail(datagrams) ELSE datagrams
                /\ backlog' = IF protocol[c] = "udp" THEN backlog ELSE Tail(backlog)
        /\ UNCHANGED <<spc, ctrl>>

(* Mutant: a denied connection counts as a stream, is_closed() not asked.  *)
AcceptTcpStreamUnchecked ==
    /\ spc = "select"
    /\ sstate = "CREATE_STREAMS"
    /\ protocol[ctrl[1]] = "tcp"
    /\ backlog # << >>
    /\ AddStream(Head(backlog))
    /\ UNCHANGED <<options, clientVars, serverGot, replied, toServer, faults>>

(* Mutant: a denied connection is an error of the test.                    *)
AcceptTcpStreamStrict ==
    /\ spc = "select"
    /\ sstate = "CREATE_STREAMS"
    /\ protocol[ctrl[1]] = "tcp"
    /\ backlog # << >>
    /\ LET k == Head(backlog) IN
       IF k[1] = ctrl[1] THEN AddStream(k) ELSE AnswerOn(k, <<"ACCESS_DENIED">>) /\ ServerReturns
    /\ UNCHANGED <<options, clientVars, serverGot, replied, toServer, faults>>

(* iperf_tcp_accept(): a connection with another cookie is denied and      *)
(* closed; iperf_common_sockopts() then fails on the closed socket if it   *)
(* has an option to set.                                                   *)
AcceptTcpStream ==
    /\ spc = "select"
    /\ sstate = "CREATE_STREAMS"
    /\ protocol[ctrl[1]] = "tcp"
    /\ backlog # << >>
    /\ LET k == Head(backlog) IN
       IF k[1] = ctrl[1] THEN AddStream(k)
       ELSE /\ AnswerOn(k, <<"ACCESS_DENIED">>)
            /\ IF Tos THEN ServerReturns
               ELSE backlog' = Tail(backlog) /\ UNCHANGED <<spc, sstate, ctrl, streams, datagrams>>
    /\ UNCHANGED <<options, clientVars, serverGot, replied, toServer, faults>>

(* iperf_udp_accept(): whoever sent the datagram is the stream's peer.     *)
AcceptUdpStream ==
    /\ spc = "select"
    /\ UdpListening
    /\ datagrams # << >>
    /\ AddStream(Head(datagrams))
    /\ replied' = replied \cup {Head(datagrams)}
    /\ UNCHANGED <<options, clientVars, serverGot, toServer, faults>>

(* Mutant: the server sends its results before it asks for the client's.   *)
HandleMessageServerEager ==
    /\ spc = "select"
    /\ ctrl # None
    /\ LET c == ctrl[1] IN
          /\ Controls(c)
          /\ toServer[c] # << >>
          /\ toServer' = [toServer EXCEPT ![c] = Tail(@)]
          /\ IF Head(toServer[c]) = "TEST_END"
             THEN /\ Answer(c, <<"EXCHANGE_RESULTS", "results", "DISPLAY_RESULTS">>)
                  /\ sstate' = "EXCHANGE_RESULTS"
                  /\ spc' = "results"
                  /\ UNCHANGED <<ctrl, streams, backlog, datagrams>>
             ELSE ServerReturns /\ UNCHANGED toClient
    /\ UNCHANGED <<options, clientVars, serverGot, replied, faults>>

(* iperf_handle_message_server(); a client that is gone closed its sockets *)
HandleMessageServer ==
    /\ spc = "select"
    /\ ctrl # None
    /\ LET c == ctrl[1] IN
          /\ Controls(c)
          /\ toServer[c] # << >>
          /\ toServer' = [toServer EXCEPT ![c] = Tail(@)]
          /\ \/ /\ Head(toServer[c]) = "TEST_END"
                /\ \/ /\ Answer(c, <<"EXCHANGE_RESULTS">>)
                      /\ sstate' = "EXCHANGE_RESULTS"
                      /\ spc' = "results"
                      /\ UNCHANGED <<ctrl, streams, backlog, datagrams>>
                   \/ Gone(c) /\ ServerReturns /\ UNCHANGED toClient
             \/ /\ Head(toServer[c]) # "TEST_END"
                /\ ServerReturns
                /\ UNCHANGED toClient
    /\ UNCHANGED <<options, clientVars, serverGot, replied, faults>>

(* Nread() returns 0, or a stream of a running test fails first.           *)
ClientLost ==
    /\ spc = "select"
    /\ ctrl # None
    /\ Gone(ctrl[1])
    /\ toServer[ctrl[1]] = << >> \/ sstate = "TEST_RUNNING"
    /\ ServerReturns
    /\ UNCHANGED <<options, clientVars, serverGot, replied, toServer, toClient, faults>>

(* The server's iperf_exchange_results() and DISPLAY_RESULTS               *)
ExchangeResults ==
    /\ spc = "results"
    /\ LET c == ctrl[1] IN
          \/ /\ toServer[c] # << >> /\ Head(toServer[c]) = "results"
             /\ toServer' = [toServer EXCEPT ![c] = Tail(@)]
             /\ serverGot' = serverGot \cup {c}
             /\ \/ /\ Answer(c, <<"results", "DISPLAY_RESULTS">>)
                   /\ sstate' = "DISPLAY_RESULTS"
                   /\ spc' = "select"
                   /\ UNCHANGED <<ctrl, streams, backlog, datagrams>>
                \/ Gone(c) /\ ServerReturns /\ UNCHANGED toClient
          \/ /\ \/ toServer[c] # << >> /\ Head(toServer[c]) # "results"
                \/ toServer[c] = << >> /\ Gone(c)
             /\ ServerReturns
             /\ UNCHANGED <<toServer, toClient, serverGot>>
    /\ UNCHANGED <<options, clientVars, replied, faults>>

(***************************************************************************)
(* Faults: what may happen at any time, MaxFaults times                    *)
(***************************************************************************)
Fault == faults < MaxFaults /\ faults' = faults + 1

(* iperf_got_sigend() of a client says CLIENT_TERMINATE; a killed one      *)
(* says nothing.                                                           *)
ClientSigend(c) ==
    /\ Fault
    /\ ~Gone(c)
    /\ cpc' = [cpc EXCEPT ![c] = "failed"]
    /\ \/ cpc[c] # "start" /\ Tell(c, <<"CLIENT_TERMINATE">>)
       \/ UNCHANGED toServer
    /\ UNCHANGED <<options, cstate, opened, clientGot, serverVars, backlog, datagrams, replied,
                   toClient>>

(* IENOMSG in a test in which the client receives; or the UDP reply does   *)
(* not come in 30 seconds.                                                 *)
ClientTimeout(c) ==
    /\ Fault
    /\ \/ cpc[c] = "reply"
       \/ cpc[c] = "select" /\ cstate[c] = "TEST_RUNNING" /\ mode[c] # "SENDER"
    /\ ClientFails(c, cstate[c])
    /\ UNCHANGED <<options, serverVars, backlog, datagrams, replied, toClient>>

(* IENOMSG in the server, when select() finds nothing in a test in which   *)
(* the server receives; or server_timer_proc() ends a test that is not     *)
(* done: the next select() then fails on the sockets it closed.            *)
ServerTimeout ==
    /\ Fault
    /\ spc = "select"
    /\ ctrl # None
    /\ \/ /\ mode[ctrl[1]] # "RECEIVER"
          /\ backlog = << >> \/ UdpListening
          /\ datagrams = << >>
          /\ toServer[ctrl[1]] = << >>
       \/ sstate = "TEST_RUNNING"
    /\ ServerReturns
    /\ UNCHANGED <<options, clientVars, serverGot, replied, toServer, toClient>>

(* iperf_got_sigend() of the server                                        *)
ServerSigend ==
    /\ Fault
    /\ spc # "exit"
    /\ IF ctrl = None THEN UNCHANGED toClient ELSE AnswerOn(ctrl, <<"SERVER_TERMINATE">>)
    /\ spc' = "exit"
    /\ sstate' = "0"
    /\ ctrl' = None
    /\ streams' = << >>
    /\ backlog' = << >>
    /\ datagrams' = << >>
    /\ UNCHANGED <<options, clientVars, serverGot, replied, toServer>>

(***************************************************************************)
ClientStep(c) ==
    \/ Connect(c) \/ HandleMessageClient(c) \/ ServerLost(c) \/ CreateStream(c)
    \/ UdpReply(c) \/ SendTestEnd(c) \/ ClientGetsResults(c)

ServerStep ==
    \/ Listen \/ Accept \/ ExchangeParameters \/ AcceptTcpStream \/ AcceptUdpStream
    \/ HandleMessageServer \/ ClientLost \/ ExchangeResults

Next ==
    \/ ServerStep
    \/ \E c \in Clients : ClientStep(c) \/ ClientSigend(c) \/ ClientTimeout(c)
    \/ ServerTimeout
    \/ ServerSigend

(* Both sides are scheduled, the test timer included; no fault has to come *)
Fairness == WF_vars(ServerStep) /\ \A c \in Clients : WF_vars(ClientStep(c))

Spec == Init /\ [][Next]_vars /\ Fairness

(***************************************************************************)
(* Properties                                                              *)
(***************************************************************************)
States == {"0", "IPERF_START", "PARAM_EXCHANGE", "CREATE_STREAMS", "TEST_START", "TEST_RUNNING",
           "TEST_END", "EXCHANGE_RESULTS", "DISPLAY_RESULTS", "IPERF_DONE",
           "SERVER_TERMINATE", "CLIENT_TERMINATE", "ACCESS_DENIED", "SERVER_ERROR"}
Messages == States \cup {"params", "results"}

(* Type invariant: states and channels hold the protocol's states, every   *)
(* connection belongs to a client, and a server with a control connection  *)
(* is in its loop or blocked on it.                                        *)
TypeOK ==
    /\ protocol \in [Clients -> Protocols]
    /\ mode \in [Clients -> Modes]
    /\ cpc \in [Clients -> {"start", "select", "streams", "reply", "results"} \cup Final]
    /\ cstate \in [Clients -> States]
    /\ opened \in [Clients -> Nat]
    /\ spc \in {"closed", "select", "params", "results", "exit"}
    /\ sstate \in States
    /\ ctrl \in Connection \cup {None}
    /\ streams \in Seq([conn : Connection, sender : BOOLEAN])
    /\ backlog \in Seq(Connection)
    /\ datagrams \in Seq(Connection)
    /\ replied \subseteq Connection
    /\ toServer \in [Clients -> Seq(Messages)]
    /\ toClient \in [Clients -> Seq(Messages)]
    /\ serverGot \subseteq Clients
    /\ clientGot \subseteq Clients
    /\ faults \in 0..MaxFaults
    /\ spc \in {"params", "results"} => ctrl # None
    /\ ctrl # None => spc \in {"select", "params", "results"}
    /\ sstate = "CREATE_STREAMS" => ctrl # None

(* A client that reports success has the server's results, and the server  *)
(* has those of that client: neither side shows figures of half a test.    *)
SuccessIsMutual ==
    \A c \in Clients : cpc[c] = "ok" => c \in serverGot /\ c \in clientGot

(* The two ends of every stream agree on who sends: the n-th stream the    *)
(* server accepts is the n-th the client made, although other clients'     *)
(* connections sit in the same queue.  UDP streams carry no cookie, so     *)
(* there only while no timeout has left a client behind.                   *)
StreamsArePaired ==
    \A n \in DOMAIN streams :
        LET c == ctrl[1] IN
        protocol[c] = "tcp" \/ faults = 0 =>
            /\ streams[n].conn = <<c, n>>
            /\ streams[n].sender # ClientSends(c, n)

(* Once the server has taken a client, the client fails only of a fault:   *)
(* no other client, however its connections fall, ends the test.           *)
StrangersDoNoHarm ==
    faults = 0 => \A c \in Clients :
        cpc[c] = "failed" => cstate[c] \in {"0", "ACCESS_DENIED"}

(* Every client ends: served, denied, refused, or cut off.                 *)
ClientsEnd == \A c \in Clients : <>Gone(c)

(* The server always gets back to an idle listener, unless a signal ended  *)
(* it: no client, dead or denied, holds it for ever.                       *)
ServerComesBack == []<>(spc = "exit" \/ (spc = "select" /\ ctrl = None))

(* Who can go on without waiting for the other side: a client that has no  *)
(* message to wait for, has one, or sees its connection closed; a server   *)
(* that has something to read or to accept, or whose client has ended.     *)
ClientCanGoOn(c) ==
    \/ cpc[c] \in {"start", "streams"}
    \/ /\ cpc[c] = "reply"
       /\ <<c, opened[c] + 1>> \in replied \/ <<c, opened[c] + 1>> \notin Range(datagrams)
    \/ cpc[c] \in {"select", "results"} /\ (toClient[c] # << >> \/ ~Held(<<c, 0>>))
    \/ cpc[c] = "select" /\ cstate[c] = "TEST_RUNNING"

ServerCanGoOn ==
    \/ spc = "closed"
    \/ /\ spc = "select" /\ backlog # << >>
       /\ sstate = "CREATE_STREAMS" => protocol[ctrl[1]] = "tcp"
    \/ spc = "select" /\ UdpListening /\ datagrams # << >>
    \/ ctrl # None /\ Controls(ctrl[1]) /\ toServer[ctrl[1]] # << >>
    \/ ctrl # None /\ Gone(ctrl[1])

(* The two sides never wait for each other: whatever gets lost or dies, a  *)
(* client that is still there can go on, or the server it waits for can,   *)
(* or the client can that has the server.                                  *)
NobodyWaitsInVain ==
    \A c \in Clients : Gone(c) \/ ClientCanGoOn(c) \/ ServerCanGoOn
                      \/ (ctrl # None /\ ClientCanGoOn(ctrl[1]))

(* Refinement: the server given to one client at a time, and success only  *)
(* for a test both sides agree on.                                         *)
Owner == IF ctrl = None THEN None ELSE ctrl[1]
Phase == [c \in Clients |->
             IF Gone(c) THEN cpc[c] ELSE IF c \in serverGot THEN "agreed" ELSE "running"]
Test == INSTANCE IperfTest WITH owner <- Owner, phase <- Phase
ImplementsIperfTest == Test!Spec
===============================================================================
