----------------------------- MODULE Iperfbench ------------------------------
(***************************************************************************)
(* iperf-3.14/src/iperfbench.cpp.  The fixture's SetUp truncates           *)
(* iperf_results.txt; every iteration appends the client's output and sets *)
(* both counters again, to the mean of all the [SUM] lines the file holds  *)
(* by then.  One sender and one receiver line come with each test; the     *)
(* module follows one of the two counters, either one.                     *)
(* The server's life is in NetworkOption.                                  *)
(***************************************************************************)
EXTENDS GBenchRun

VARIABLES
    iperfResults,   \* iperf_results.txt: its final [SUM] lines in Mbits/sec
    counters        \* each session's state.counters, sender or receiver

vars == <<runVars, iperfResults, counters>>

Init ==
    /\ RunInit
    /\ iperfResults = << >>
    /\ counters = [p \in Sessions |-> Nothing]

(* Type invariant: iperf_results.txt and the counters hold measurements of *)
(* known sessions, and no loop passes ->Iterations(n).                     *)
TypeOK ==
    /\ RunTypeOK({"start", "loop", "parse", "teardown"})
    /\ iperfResults \in Seq(Sample)
    /\ counters \in [Sessions -> Figure]

(* SetUp: truncate, then start the server.                                 *)
SetUp(p) ==
    /\ Goto(p, "start", "loop")
    /\ iperfResults' = << >>
    /\ UNCHANGED counters

(* RunIperfClient(): the output is appended; its status is ignored.        *)
RunIperfClient(p) ==
    /\ \E ok \in BOOLEAN :
          /\ Produce(p, "loop", ok, "parse")
          /\ iperfResults' = IF ok THEN Append(iperfResults, Current(p)) ELSE iperfResults
    /\ UNCHANGED counters

(* A faulty variant of ParseAverageBitrate, to validate KeepsPromise: the  *)
(* lines of one run only, instead of all the file's.                       *)
ParseLastBitrate ==
    IF iperfResults = << >> THEN NoData
    ELSE Mean(<<iperfResults[Len(iperfResults)]>>)

(* parseAverageBitrate(): the mean of the matching lines, 0.0 for none.    *)
ParseAverageBitrate ==
    IF iperfResults = << >> THEN NoData ELSE Mean(iperfResults)

(* The counters are overwritten in every iteration.                        *)
SetCounters(p) ==
    /\ NextIteration(p, "parse")
    /\ counters' = [counters EXCEPT ![p] = ParseAverageBitrate]
    /\ UNCHANGED iperfResults

EndLoop(p) == LoopEnds(p, "teardown") /\ UNCHANGED <<iperfResults, counters>>

PublishBitrates(p) ==
    /\ Publish(p, "teardown", counters[p])
    /\ UNCHANGED <<iperfResults, counters>>

Next ==
    \/ Launch("start") /\ UNCHANGED <<iperfResults, counters>>
    \/ \E p \in Sessions :
          \/ Kill(p) /\ UNCHANGED <<iperfResults, counters>>
          \/ SetUp(p)
          \/ RunIperfClient(p)
          \/ SetCounters(p)
          \/ EndLoop(p)
          \/ PublishBitrates(p)

Spec == Init /\ [][Next]_vars
==============================================================================
