# Verification of the microbenchmark suite

TLA+ specifications, TLC configurations and TLAPS proofs for the suite in this
repository: a driver (`BENCH.cpp`) that runs twelve benchmark tools through
shell scripts and Google Benchmark wrappers and prints a report, and the parts
of the bundled tools whose correctness hangs on concurrency and on messages:
ramsmp's processes, c-ray-mt's threads, iperf3's control protocol and UDP
counters, fio's work queue and its overlap check.

What can silently go wrong in such a suite is not a crash but a *wrong figure*:
one of another session, a mean over runs of two sessions, an average over times
of different rounds, a number under another label or in another unit. Most of
the properties here say that a published figure stands for exactly the
measurements it claims to stand for, or how far it may be from them.

## 1. Inventory

### Components, their state and their operations

| Component | State | Operations |
|---|---|---|
| `BENCH.cpp` (driver) | the option, the files `*_output.txt` written by `tee` | three (or two) `system("./x.sh \| tee file")` pipelines one after the other, then one `process<Option>Output(file, name)` per section |
| `*-test.sh`, `*.sh` | current directory | install, build, prepare files, run the wrapper; `exit 1` on a missing directory or binary |
| wrappers (`sockperfbench`, `ethrbench`, `iperfbench`, `bench`, `cacheebench`, `compile`, `WrapFioBenchmark`, `cray_bench`, `blake_bench`, `furmark_bench`, `unigine`) | Google Benchmark's `State`; a raw output file; a result file | truncate, loop `->Iterations(n)` over `system(tool >> raw)`, call the averaging script, read the result file, set the user counter |
| averaging scripts (`*.py`) | none; read the raw file, write the result file | mean of the lines they recognise |
| servers (`ethr -s`, `sockperf server`, `iperf3 -s`) | a port; the stdout they inherited | started in the background by the wrapper, killed by name |
| `ramsmp` | a System V segment: PIDs, ready flags, times; `2^n` processes | fork, find a slot, barrier, rounds of compute / report / average / release |
| `c-ray-mt` | `threads[]`, a mutex, a condition variable, the flag `start` | deal scanlines, create threads, open the gate, render, join |
| iperf3, control protocol | on each side `test->state`, the control connection, the streams; the listeners, the results of the other side | connect, exchange parameters, create and accept streams, run, end, exchange results; deny, time out, be signalled, reset for the next test |
| iperf3, UDP counters | per stream `packet_count`, `cnt_error`, `outoforder_packets` and their omitted counterparts | number and send, count an arrival, reset after the omitted period, send results, print |
| fio, work queue (`workqueue.c`) | per worker a list, a sequence number and the flags `IDLE RUNNING EXIT ACCOUNTED ERROR`; for the queue `work_seq`, `next_free_worker`, `wake_idle` | init, enqueue, flush, exit; a worker's loop |
| fio, overlap check (`rate-submit.c`, `ioengines.c`, `backend.c`) | the mutex `overlap_check`, each job's `runstate`, each I/O's range and `IO_U_F_FLIGHT` | check against every job's I/Os, submit, requeue, complete; end a job |
| the rest of the bundled tools (fio, iperf3, sockperf, cachebench, BLAKE2, compilebench, GpuTest, Unigine Heaven, sysbench) | their own | measured by the suite; black boxes |

### How they interact

```
BENCH --system()--> x.sh | tee f --> wrapper --system()--> tool >> raw.txt
  |                          |          |--system()--> average.py: raw.txt -> res.txt
  |                          |          '--reads res.txt, prints a row to stdout
  '--- reads f (the rows) <--'          (network) starts a server in the background
```

All communication is through files with fixed names and through inherited file
descriptors. Almost every exit status is ignored. Files survive sessions, so a
session finds whatever a killed or failed one left behind.

Processes survive sessions too. Each `-->` above marked `system()` is a wait in
which the caller ignores SIGINT and SIGQUIT, and in which nothing tells the child
when the caller is killed. So a tool or a script outlives a wrapper that is killed
(and appends to a file that the next session has already truncated), and a wrapper
that is in `system()` outlives a ^C in BENCH and goes on with its remaining clients,
its `killall` and its average beside BENCH's next stages and the next BENCH.

Inside the tools: iperf3's two ends speak over one TCP control connection (state
bytes and JSON texts), and the test's streams arrive at the same listener as
strangers do. fio's threads share memory: the owner of a queue and its workers
through a mutex and a condition variable each, and flags read without either;
the workers of all offload jobs through one global mutex.

### What is hard here

* stale files: which of them are truncated, rewritten on failure, or only on success;
* scripts that fail between two steps, and what their reader then publishes;
* a wrapper killed anywhere, the tool or the script it was waiting for going on, and
  the next session in the same directory at the same time;
* background servers that outlive their session, hold the port or hold the pipe
  `tee` reads from; a fixed sleep instead of a handshake;
* ^C, which `system()` makes BENCH ignore, and a wrapper if it is in `system()` just
  then, but neither `tee` nor, in general, the scripts and clients;
* rows of the table: columns addressed by position, suffixes, conversions to `int`,
  ERROR rows;
* `ramsmp`'s barrier: no locks, no atomic operations, flags summed one by one,
  slots claimed by test-then-set;
* `c-ray-mt`: shares computed by rounding, one of them corrected after its
  thread exists, a start gate with spurious wakeups and failing `pthread_create`;
* iperf3's server: one loop in which a second client, a vanished client, a
  signal, a time limit and a failed `listen` meet a test at any of its states;
* UDP losses derived from numbers that arrive late, twice or never, around a reset
  that each side makes at a time of its own;
* fio's queue: the flusher trusts flags it reads without a lock, workers go to
  sleep while the last one has to tell it, and any of them may not have started;
* fio's overlap check: a scan over other threads' I/Os that are submitted,
  completed and freed meanwhile, with a mutex handed from one function to another,
  and an error path that frees them without it.

Every one of these is in `PROJECT.json` under `hazards`, at its line, with the
properties that would catch it; the one without a property says why.

### What makes each component correct

* **wrapper**: the row of a session that ran alone is the mean of exactly the values
  it measured, each once and in order; no mean if there were none. Sessions that
  overlapped may be mixed up with each other, and with nothing else (module
  `Measurement`). Where the code does not keep that, what it still keeps: a fresh
  figure whenever the script had something to average, an old one whole.
* **driver**: the report shows rows of this run only; it comes to its END; a
  number stands under its own label and keeps its magnitude (those of the disk
  lose their fraction).
* **servers**: whatever server is alive was started after the last `killall` of its
  name.
* **ramsmp**: a printed average is over one time of every process, all of the
  same round; processes compute the same round at the same time; it terminates.
* **c-ray-mt**: every scanline is rendered exactly once before the time is
  printed, none before the clock is started, no two threads write the same
  pixels, and main ends.
* **iperf3, control protocol**: the server is one client's at a time, and a client
  reports success only for a test of which each side has the other's results
  (module `IperfTest`); the n-th stream is the same stream at both ends; a client
  that is turned away does not disturb the one being served; every client ends
  and the server comes back.
* **iperf3, UDP counters**: the losses reported are the packets that did not arrive,
  and what the two sides print about one test is the same.
* **fio, work queue**: every work is carried out once; flush and exit return, and
  only when everything enqueued is carried out and accounted (module `WorkQueue`).
* **fio, overlap check**: no two overlapping I/Os are at the device, no freed I/O is
  looked at unless its job was forcibly exited, and workers that look for each
  other's I/Os all go on.

## 2. Modules

| Module | Models | Code |
|---|---|---|
| `Figures` | what a result file or a row can hold: nothing, no data, an error, the mean of a sequence of samples `<<session, iteration>>` | |
| `GBenchRun` | what all wrappers share: sessions that may overlap, the loop `for (auto _ : state)`, the row, being killed, children that outlive the wrapper | Google Benchmark and `std::system()`, as the wrappers use them |
| `Measurement` | the promise of a wrapper (abstract specification) | |
| `Sockperfbench` | sockperf's wrapper and `sock-avg.py` | `sockperf-3.7/sockperfbench.cpp` |
| `Ethrbench` | ethr's wrapper and `ethr-average.py` | `ethr-bench/` |
| `Iperfbench` | iperf's fixture | `iperf-3.14/src/iperfbench.cpp` |
| `RamsmpBench` | both functions of ramsmp's wrapper, `average.py`, `avg.py` | `ramsmp-3.5.0/bench.cpp` |
| `Cacheebench` | cachebench's wrapper and its script | `llcbench/cachebench/` |
| `BlakeBench` | BLAKE2's wrapper | `BLAKE2-20170307/blake_bench.cpp` |
| `CompileBench` | compilebench's wrapper | `compilebench-0.6/compile.cpp` |
| `WrapFioBenchmark` | both copies of fio's wrapper and `PhoronixFio1.py` | `fio-3.35/`, `fio-sync/` |
| `CrayBench` | c-ray's wrapper | `c-ray-1.1/cray_bench.cpp` |
| `FurmarkBench` | GpuTest's wrapper, two functions with one log | `GpuTest_Linux_x64_0.7.0/furmark_bench.cpp` |
| `UnigineBench` | Unigine Heaven's wrapper | `unigine-heaven-4.0/unigine.cpp` |
| `Wrappers` | eleven wrappers over one set of variables, and the properties they share | |
| `NetworkOption` | `BENCH network`: pipelines, scripts, wrappers, servers, ^C and what survives it | `BENCH.cpp:651-668`, the three scripts and wrappers |
| `Report` | the sections of every option | `BENCH.cpp:67-561, 615-716` |
| `Ramsmp` | the processes of ramsmp | `ramsmp-3.5.0/ramsmp.c:334-577` |
| `CRayMt` | the threads of c-ray-mt | `c-ray-1.1/c-ray-mt.c:252-300, 656-671` |
| `IperfTest` | what a run of iperf3 promises (abstract specification) | |
| `IperfControl` | an iperf3 server and the clients that come to it | `iperf-3.14/src/iperf_server_api.c`, `iperf_client_api.c`, `iperf_api.c`, `iperf_tcp.c`, `iperf_udp.c` |
| `IperfUdp` | the counting, exchange and printing of a UDP test's packets | `iperf-3.14/src/iperf_udp.c`, `iperf_api.c` |
| `WorkQueue` | what fio's thread pool promises (abstract specification) | |
| `FioWorkqueue` | the owner of a queue and its workers | `fio-3.35/workqueue.c` |
| `FioOverlap` | jobs, their workers, the check for overlap in offload mode, the orderly and the forced end of a job | `fio-3.35/rate-submit.c`, `ioengines.c`, `backend.c` |
| `MCFioOverlap` | the jobs and workers of `FioOverlap`'s runs | |
| `WrappersProofs`, `NetworkOptionProofs`, `RamsmpProofs`, `CRayMtProofs`, `IperfControlProofs`, `IperfUdpProofs`, `FioWorkqueueProofs`, `FioOverlapProofs` | the theorems | |

**Composition.** Each wrapper module extends `GBenchRun`. `Wrappers` instantiates
eleven of them over one set of variables (`INSTANCE ... WITH` its own files), chooses
the wrapper in `Init`, and states once what they have in common: `KeepsPromise`
is `Measurement`'s specification under a refinement mapping that shows the
wrappers that keep it; `FunctionsKeepPromise` is the same for the executables with
two functions (ramsmp, GpuTest), each function a session of its own.
`NetworkOption` treats the inside of a wrapper as the number of its client runs; the
files inside the wrapper's directory are that wrapper's module. `Report` starts
from any table the stages may leave.

`IperfControl` implements `IperfTest` under a mapping that reads the server's
owner from `ctrl_sck` and a client's phase from its end and the results
exchanged. `IperfUdp` is the inside of the states `TEST_RUNNING` to
`DISPLAY_RESULTS` of that protocol for one UDP client that fails nowhere.
`FioWorkqueue` implements `WorkQueue`, which hides the workers altogether.
`FioOverlap` takes the queue between `do_io()` and a worker from that promise: a
worker takes up a work that was enqueued, and a job goes on once its queue is
flushed (`Flushed`).

**Correspondence.** State variables carry the names of the files or of the C
variables; actions the names of the functions. A benchmark function is cut into
steps where another party can intervene: at each `system()`, between two effects
on files, and, in a script, before it reads the measurements (`script`), before it
opens its result file, which empties it (`open`), and before it writes (`write`).
`Launch` starts a session in the same directory, whatever is still running there.

A session's place `pc[p]` is that of its wrapper or, after the wrapper's death, of the
child that goes on. A killed wrapper may take its child along (`Kill`: the session is
over at once) or leave it: then `Returns`, the end of the child, is the session's
last step, with the effect the child has on the files (`Iterate`, `Produce`,
`ScriptEnds`). A *spell* is a time, without a pause, in which some session runs: a
session launched when nothing runs begins one, any other joins the one that lasts.
Sessions are `Alone` in a spell when nobody ran beside them; this is what "ran
alone" means in the properties. `spell`, `undone` (whose script was cut short) and
`samples` (what a session's tool really produced) are history variables. Samples
are identities, not numbers, so the properties tell apart which runs a mean is made
of; where the code's numbers do matter they have a field or a set of their own
(`scale`, `whole` and `cut` in `Report`, `unreadable` in `Ethrbench`).

In `NetworkOption` every run of BENCH has a wrapper of each tool, with a place of its
own, so that those of earlier stages and runs can go on beside the current one;
`AfterInterrupt` says what ^C makes of a wrapper at each place, `widowed` holds the
wrappers that died while a child of theirs goes on.

In the tools, a step is what a thread does between two points where another can
intervene: a lock and its unlock, or one unlocked access of `workqueue.c`; one
memory access of `ramsmp`; one return of `select()` in iperf3, with everything
its handler writes. iperf3's sockets are FIFO channels of the messages' names,
its listeners queues of connections `<<client, n>>`; fio's works are numbers and
its I/Os intervals.

Definitions called "a faulty variant of ..." are not part of any specification.
Each is a plausible mistake in one definition (a truncation left out, a status
ignored, an off-by-one) with which the property named in its comment fails; they
show that the property depends on the code's being the way it is. The pairs are
in `PROJECT.json` under `mutants`.

## 3. Runs

All with two TLC workers; `CHECK_DEADLOCK FALSE` because every one of these
programs really stops (after `MaxSessions` sessions, at END, when all processes
have exited, when every packet or I/O of the bound is through).

| Run | Bounds | Shows |
|---|---|---|
| `Wrappers` | 2 iterations (`FnIterations`, those of the executables with two functions, and c-ray's, as registered, 1), 2 runs, 4 sessions, any of eleven wrappers; 1.1 million states | through kills, failing tools and scripts, and tools and scripts that go on beside the next session: sockperf, iperf, cachebench, BLAKE2, c-ray, ramsmp's INTmem and both GpuTest functions implement `Measurement`; ethr, compilebench, fio and ramsmp's FLOATmem are fresh whenever they ran alone and the script could do its work, and otherwise repeat a figure of an earlier spell; what Unigine's average really stands for |
| `NetworkOption` | 1 client run, 2 runs of BENCH, 1 fault: a wrapper dies or ^C, at any time | rows of this run only, whatever survives; old servers are removed; END is reached, except when a dead sockperf wrapper's server holds the pipe |
| `Report` | all options, every suffix, whole numbers and fractions | figures are of the row and the column their label names; those without suffix are shown as measured, the disk's cut to integers; END is reached |
| `Ramsmp` | 4 processes, 8 rounds over 4 areas | safety through every outcome of the slot race; no state in which all wait for each other, and termination, unless two clones share a slot |
| `CRayMt` | 6 scanlines, 3 threads, 2 spurious wakeups | a whole image, timed from the gate's opening, and no deadlock, through every rounding and every spawn failure |
| `IperfControl` | 2 clients, one stream in each direction, TCP or UDP and any of three modes each, 1 fault | the protocol implements `IperfTest`: success is mutual; streams are paired, denied clients do no harm; nobody waits in vain; every client ends and the server comes back |
| `IperfUdp` | 1 stream, 4 packets, a counter of 2 bits, 1 duplicate, either direction, with or without an omitted period | the loss is the number of packets missing, up to duplicates; the printed lines add up and are the same on both sides |
| `FioWorkqueue` | 2 workers, 3 works, failing starts and spurious wakeups | the queue implements `WorkQueue`; each work is carried out once; no wakeup is lost; flush and exit return; works are handled though nobody flushes |
| `FioOverlap` | 2 jobs, one with a ramp time, 3 workers, 3 I/Os over 2 blocks | no overlap at the device after ramp time; nothing freed is looked at, unless its job was forcibly exited; no I/O that waits is waited for; I/Os are submitted |
| `FioWorkqueueInit` | 2 workers, no works | counterexample, see below |
| `FioOverlapRamp` | as `FioOverlap` | counterexample, see below |
| `FioOverlapForced` | as `FioOverlap` | counterexample, see below |

**Why the bounds are enough.** A session meets another one through the one or two
files of the wrapper, left behind by it or still being written by it. Two sessions
are enough for both: one whose tool or script goes on and one that truncates, reads
and publishes meanwhile, or one after the other; two iterations make a mean too
short, too long, repeated, mixed or in another order; and one session leaves a
figure that another inherits, having measured nothing or having been cut short while
it replaced it. Each of the two runs of an executable with two functions is two
sessions, so that INTmem and FLOATmem of both runs, or both readers of GpuTest's log,
meet; there one iteration is enough, for it is the order of the functions that
matters. The theorems are for every number of iterations, of runs and of sessions. In `NetworkOption` two runs of BENCH are enough for a server or
a wrapper that outlives its run and one that meets it, one client run lets a wrapper
be interrupted before, during and after it, and one fault, a death or a ^C, leaves
such a survivor; what several faults do together is left to the theorems, which are
for every number of them, and `FinishesUnlessPipeHeld` is checked for one. Four
processes are the smallest number with a slot race (three clones; the default,
two processes, has one clone and none), and eight rounds over four areas, two
passes of `-b 3`, let every area be reused, so that a stale time could be
averaged. Six scanlines for three threads leave room for every rounding (a share
of 1, 2 or 3 lines) and for the correction of the last share to be needed.
Two clients of iperf3 are one that is served and one that meets it at every
state, in either order; a two-way test has two streams, enough to pair them
wrongly; a fault (a signal, a kill, a time limit, a failed `listen`) may come
anywhere. Four packets can be lost, overtake each other and straddle the reset
in every pattern the single counter distinguishes, and with a modulus of 4 the
fourth number wraps. With two workers one may fall asleep while the other is the
last to finish, and three works give one of them two. Two jobs, one with two
workers, have overlaps within a job and between jobs; two blocks allow equal,
contained and disjoint ranges.

**Fairness.** `NetworkOption` is weakly fair for what BENCH, the shell, the
wrappers and the clients do by themselves (`Proceed`), the survivors of a ^C among
them: the operating system schedules them, and each of their steps ends in bounded
time. They do finitely many steps, so BENCH cannot be kept from its own by them.
Nothing is assumed of users, of crashes, or of a server's becoming ready; readiness is
what the fixed sleep does not guarantee. `Report` is one sequential program. `Ramsmp` is
weakly fair for every process: the polling loops sleep 100 microseconds and are
scheduled again. `CRayMt` is weakly fair for main and for every thread, and
nothing is assumed of spurious wakeups except their bound. `IperfControl` is
weakly fair for the server and for each client, the timer that ends a test
included; no fault has to come, in particular no time limit, so no end is owed
to one. `FioWorkqueue` is weakly fair for the owner once it is in a call (it need
not make one) and for every worker, and strongly fair for a worker that wants to
tell the owner something under `flush_lock`: the owner takes and leaves that
mutex again and again, and POSIX mutexes are obtained in the end. It is the only
strong fairness here. `FioOverlap` is weakly fair for the workers, for the
device, for the release of the mutex by a finishing job, and for a job that has
freed its I/Os to become `TD_EXITED` (backend.c goes there without waiting for
anyone); the mutex needs nothing stronger, the I/Os of the bound being finite.

**What TLC refutes.** Three runs have a counterexample, each against a sentence
of the repository; `PROJECT.json` quotes them under `findings`:

* `FioWorkqueueInit`: `start_worker()` assigns `sw->flags` after the thread exists
  (`workqueue.c:297`). A worker that announced itself before loses `SW_F_RUNNING`,
  and `workqueue_init()`, which is to "Wait for them all to be started and
  initialized" (340), waits for ever. `MaxWorks = 0` keeps the run to the start.
* `FioOverlapRamp`: `check_overlap()` passes over jobs with
  `td->runstate <= TD_SETTING_UP` (`rate-submit.c:34`); `TD_RAMP` is 3 and
  `TD_SETTING_UP` 4 (`fio.h:675-676`), so an I/O of a job in its ramp time does
  not count, against `HOWTO.rst:3096-3098`. `SerializedAfterRamp` says what remains.
* `FioOverlapForced`: a job that cannot get `stat_sem` goes to `err`
  (`backend.c:1926-1929`) and frees its I/Os there (2018) without the mutex and still
  `TD_RUNNING`, while a worker of another job goes through them, against the
  comment that the mutex is taken for exactly this (1971-1975).
  `OnlyForcedIsCheckedFreed` says what remains.

The models contain further behaviours that a reader of the code may not expect.
No run is given to them; they are read off definitions that other runs use:

* ramsmp's two benchmarks are one executable, and INTmem aborts it when it has no
  average (`bench.cpp:81`, against the comment at 133);
* if compilebench's result file is empty (created by `compile_bench.sh`, or emptied
  by a session whose write was cut short), the wrapper publishes a `double` nobody
  has assigned (`compile.cpp`; `Garbage`);
* the disk's figures go through `std::stoi` (`BENCH.cpp:120-130`): compilebench's mean
  of 45.9 is reported as 45 (`cut` in `Report`);
* two ramsmp clones may take the same slot (`ramsmp.c:365`, against 361-362);
  `Terminates` makes its exception for them (`LocalNumbers`);
* the unit fio printed is cut off and the mean printed as MiB/s
  (`PhoronixFio1.py:10`, `BENCH.cpp:122`);
* every iteration of Unigine after the first returns the first one's FPS
  (`unigine.cpp:33`);
* the report's sender line prints the receiver's column (`BENCH.cpp:385`), and a
  latency above 1100 usec loses its `k` (381);
* with `-S`, iperf3's server sets options on the socket of a stream it has just
  denied and closed, and gives up the running test (`iperf_server_api.c:613`,
  `Tos` in `IperfControl`); the run has `Tos = FALSE`;
* in the JSON output of a UDP test the number of packets subtracts the receiver's
  omitted count from the sender's total (`iperf_api.c:3803-3804`), outside the
  lines that `ReportsAgree` is about.

## 4. Proofs

TLC checks small instances; these theorems hold for every value of the constants
that satisfies the named assumptions of the modules (`Iterations` positive and
`FnIterations` in `1..Iterations`; positive `Rounds`, `Areas`, `MaxWorkers`, `NumStreams`; `NProc = 2^FProc`; `YRes` positive
and `ThreadNum` in `1..YRes`; disjoint names; the switch statements,
registrations and reductions of the code justify them). Where the type
invariant is proved for every instance, the runs do not repeat it.

**`WrappersProofs`.** Every property of the run `Wrappers`, for any
number of iterations, of runs and of sessions, any number of them at a time.
`WrappersInvariant`: `Spec => []IInv`, where `IInv` is `RunInv`, what holds of sessions
whatever the wrapper, and one invariant for each wrapper of what its files and its
scripts hold. The idea is the spell: everything that is busy is of the current spell
(a part of `RunOK`), so whatever writes to a file now is of it, and a session with a
spell to itself is the only busy one as long as it lasts (`AloneIsAlone`). `RunOK` also
says that there is no row before the function returns and that the values of a
session are its own, in the order of its iterations. What the steps of all
wrappers do to sessions is classified once: `Walks` (control moves), `Works` (a tool
produces, or does not), `Iterates`, `Prints`, `Starts`, and `RunInv` is proved for these.
The six wrappers with a script (sockperf, ethr, cachebench, compilebench, fio, ramsmp)
are one abstract scripted wrapper, with one invariant, `ScriptInv`: after the
truncation the file of measurements holds values of this spell and, for a session that
is alone, exactly its samples; the result file is a whole figure, of this spell or
of an earlier session. iperf, c-ray and BLAKE2 (`FileInv`, `CounterInv`) read the
file of measurements themselves; Unigine (`TermsInv`) and GpuTest (`GpuInv`) have
invariants of their own. The refinements `WrappersKeepPromise` and
`WrappersFunctionsKeepPromise` map each step to `Begin`, `Measure`, `CutShort`, `Report` or
a stutter of `Measurement` (`PromiseStep`, `FunctionStep`). `WrappersTypeOK`,
`WrappersFreshWhenMeasured`, `WrappersWholeOrOldFigure` and
`WrappersFirstValueRepeated` follow from the invariant.

**`NetworkOptionProofs`.** `ShownIsThisSessionAlways` and
`NoServerBeforeLastStopAlways`, for any number of runs of BENCH, of client runs, of
deaths of wrappers and of ^C. The files are named alike in every run and
only `tee` empties them: `FilesOfThisRun` says that those of the stages already
begun are this run's (a wrapper that survived a ^C has no `tee`), `FileIsEmpty` that a
wrapper that may still publish finds its file empty; `NotBegun`, that stages ahead
have no wrapper yet. Survivors may start and kill servers at any time, so a server
cannot be told from another by its run alone; but wrappers only go forward
(`Forward`), and a run that a `killall` has swept is past the start of its server for
good (`SweptIsBegun`): whatever starts a server now, be it a survivor of an old run, is
not of the swept.

**`RamsmpProofs`.** `RamsmpInvariant`: `Spec => []IInv`, for any number of
processes, rounds and areas, and *including* the slot race. The argument: before
the master has passed its first barrier (`Started`) nobody computes, and every
raised flag has a clone waiting behind it (`GettingReady`). When the master
leaves that barrier the flags it summed are those of `NProc - 1` slots
(`Counting`), so every slot has a waiting clone; there are as many clones as
slots, so the map from clones to slots is a bijection (`OneToOne`, by a
pigeonhole lemma over finite sets). So in every execution in which anything is
measured at all, the race had no effect. From then on `ClonesInStep` says, for
each clone, which of the two sides of its flag it is on in the master's round,
`FlagsUp` what the raised flags mean for the master's sum, and
`AverageOverThisRound` itself is a conjunct of the invariant. From it follow
`RamsmpTypeOK`, `RamsmpAverageOverThisRound`, `RamsmpEveryCloneFindsASlot` and
`RamsmpWorkInStep`. `RamsmpNeverStuck` is read off the same invariant: before the
first barrier is left, every clone either can go on or has raised its flag, and when
all are raised the master sees them (no two clones on one number, `LocalNumbers`:
all slots have a clone, by the pigeonhole again); afterwards a clone that has to wait
has reported for the round the master counts (`ClonesInStep`), so that if all wait
the master has all its reports; `DoneAfterLastRound`, an invariant beside `IInv`,
excludes that somebody has left before. The theorem is about the time after the
forks: that `2^n` processes come of `n` forks needs an induction over `n`.

**`CRayMtProofs`.** `CRayInvariant`: `Spec => []IInv`. `Dealt` says that the
shares dealt so far follow one another without overlap and cover all lines up
to `Edge` (which moves to `YRes` with the correction of the last share); it
tolerates any rounding in `IntSl`. `Progress` ties the number of times a line
has been rendered to the loop indices of the threads, `Gate` the positions of
threads to the flag `start` and to main's join loop. `CRayWholeImage`,
`CRayNoLineTwice`, `CRayRenderingIsTimed` and `CRayTypeOK` follow. For
`CRayNeverStuck`, `MutexInv` adds who holds the mutex at which step and that nobody
waits at an open gate: whoever waits for the mutex waits for a holder that can
go on, and the thread main joins is past the gate or on its way to it. That is
the safety half of `Finishes`.

**`IperfControlProofs`.** `SuccessIsMutualAlways` and
`IperfControlImplementsIperfTest` (its safety part is all of `IperfTest!Spec`), for
any set of clients, streams and faults. A client learns of the server's side only
from what is on the way to it, so the invariant speaks of the channels:
`ResultsAreAnswers` says that results and `DISPLAY_RESULTS` are only ever on their
way to a client whose results the server has, `ResultsComeFirst` that the results
come before `DISPLAY_RESULTS`. `ChannelStep` states once what an action may do to
the channel to a client, and both are proved from it.
`StreamsArePairedAlways` and `StrangersDoNoHarmAlways` have a second invariant,
`StreamsInv`. Streams carry no number on the wire, so that the n-th one accepted is
the n-th one made is a matter of the listener's queue: `InOrder` keeps a client's
connections there in the order of their making, `NotInvited` says that a client
the server has not taken has made none, `NoGap` that of the client being served
those made are those accepted and those in the queue, and `Sockets` when there
are any. `InStep` pairs, for a client that met no fault, its place in the protocol
with the server's and with what is on the way between them; a denied client is
`Outside` it and cannot leave it. `StrangersDoNoHarmAlways` assumes that no TCP test
sets a type of service (`~Tos`, or no TCP): with `-S` the server of this version
does give up a test over a stranger, as said above.
`NobodyWaitsInVainAlways` has no such assumption. It needs a third invariant,
`WaitInv`, that holds through every fault. `InStep` cannot serve: after a fault
strangers' datagrams may fill the streams of a UDP test, which then starts before the
client has made its own. `Together` therefore allows the client to be as far behind
as its unread messages say. `Fresh` gives the state of a client in which the server
takes it, `Counted` bounds the replies a UDP client can have by the streams accepted
(so that it cannot be done while the server still waits for one; for TCP that is
`NoGap`), and `Closed` says when the queues are empty. If the server cannot go on,
the client it has taken is at a place where it can, or it has taken nobody and every
other client has been told or cut off. `ClientCanGoOn` and `ServerCanGoOn` are the
guards of `ClientStep` and `ServerStep`, of which the fairness of the run speaks.

**`IperfUdpProofs`.** For any number of streams and packets, any counter width
and any loss, reordering and duplication. `LossInv` is the heart of
`LossIsWhatIsMissingAlways`: a packet above the highest number adds exactly the
skipped ones to the missing set, one below removes at most one; `cnt_error`,
which knows only counts, follows with a slack of one for every duplicate.
`BalanceInv` ties the omitted counters to what had arrived at the reset
(`PrintedAddsUpAlways`); `ReportInv` says that what has been sent or printed is
what the counters still hold, since nothing counts after the state that allowed it
(`ReportsAgreeAlways`).

**`FioWorkqueueProofs`.** `IdleMeansNothingToDoAlways` and `ImplementsAlways`, for
any number of workers and works. Six named parts strengthen the type invariant:
`Started` (which workers exist), `Counting` (what the count of running workers
means when it is complete: all are up), `Quiet` (a worker not in its handling has
taken nothing; one that has left has an empty list), `Progress` (workers below
the flusher's or the joiner's index are idle, or gone), `IdleMeansNothingToDo`
and `Conserved` (every work enqueued is with some worker or accounted). The step
in which flush returns needs all of them: `Progress` puts every worker's flag up,
`IdleMeansNothingToDo` empties it, `Conserved` leaves only the accounted.
`CarriedOutOnceAlways` counts the places a work is in. `Numbered` says that the
numbers in a list grow (so that it has no work twice) and `Apart` that no two of the
lists and sets share one; then there is at most one place, and `Conserved` gives
one. `NoWakeupLostAlways` is the safety half of flush's and exit's termination: a
sleeping worker has nothing to do, and a sleeping flusher has a worker that will
tell it, because `wake_idle` stays up as long as the flush lasts (`WakeInv`).

**`FioOverlapProofs`.** `SerializedAfterRampAlways` and
`OnlyForcedIsCheckedFreedAlways`, for any number of jobs, workers and blocks.
`MutexInv` says who holds the mutex and where, `FlightInv` which I/Os carry the
flag, `JobInv` that a job that has ended or freed its I/Os has none, `ScanInv` that the
job being scanned is running or was forcibly exited, `FreedInv` that one which has
freed its I/Os was so or is finishing. `CheckedInv` is the loop invariant of the scan: what the
holder has found clear stays clear, because only the holder of the mutex raises a
flag. `PairInv` then holds for every pair of I/Os past the check.
`NoWaiterIsWaitedForAlways` is the safety half of `IosAreSubmitted`, from `FlightInv`.

**Only model-checked.** Every safety invariant that a run checks is a theorem,
except `FiguresAsMeasured` of `Report`: its module has no constants, and the run goes
through every table that can be, so that a proof would say nothing more.
Liveness is TLC's alone, since
the prover does not treat fairness; its part that is a safety property is proved:
`NeverStuck` of `CRayMt` and of `Ramsmp`, `NobodyWaitsInVain`, `NoWakeupLost` and
`NoWaiterIsWaitedFor`. `ReachesEnd` and `FinishesUnlessPipeHeld` are about one program
that waits for nobody, or for a pipe, and have no such part worth a theorem.

## 5. What is abstracted and what is not modelled

* The memory accesses of `ramsmp` are modelled one by one in program order. The
  segment is not `volatile`; that every poll reads it again follows from the
  call of `usleep` in each loop, and that the time is stored before the flag is
  what GCC at `-O2` emits, on a processor that does not reorder stores.
  `NProc = 1` is allowed and has no clones. A time is `<<process, round>>`; the
  kernels `intcp`, `intsc`, ... are one step. `-b 3` has four areas, the other
  memory benchmarks fewer; `Areas` covers them all.
* In `CRayMt` the running sum of doubles is known only up to one line below its
  exact value (`IntSl`), which covers the rounding of `-ffast-math`. If
  `pthread_create` fails, main returns and all threads with it.
* The headings of the two fio sections are not in `Report`. As read in the
  source, they are swapped: "1. Fio-Random_read_&_write" (`BENCH.cpp:622`) shows
  the run of `fio-3.35/mytest.fio`, whose job is `rw=readwrite`, and
  "2. Fio-sequential_read_&_write" (625) that of `fio-sync/mytest.fio`, `rw=randrw`.
* The reading of an eighth string that was never constructed
  (`BENCH.cpp:110`; the earlier version at 167, kept in a comment, asked for eight
  tokens first) either finds nothing or ends the program (`CrashOnToken7`).
* A failing tool leaves no recognisable line. The text of its error messages is
  not modelled; that a line of stderr could look like a cachebench result
  (`average-cache.py:9`) has no property.
* What overlaps. In the wrappers' modules sessions overlap in every way; each read
  of a file and each write to it is one step, its truncation by a script a step of
  its own. c-ray's tool writes at the same place of its file in every run, the others
  append. A fio that outlives its wrapper writes to a pipe without a reader and leaves
  nothing. GpuTest writes its log itself; how, is modelled from the wrapper's use of
  it. iperf's fixture publishes two counters (sender, receiver); the module follows one, either
  one. Of sessions that overlapped it is only promised that a row is of one spell:
  nothing in the code arbitrates between two of them, and within a spell a mean can
  mix the values of several sessions.
* `NetworkOption` has one BENCH at a time, with the wrappers earlier ones left. BENCH
  itself is killed (`Quit`) when it is not in `system()`; killing it inside leaves a whole
  pipeline behind, with a `tee` that could outlive the next BENCH's. The shell of
  `system()` returns at once after ^C (dash) or waits for the script: both are
  allowed (`PipelineEnds`). `sudo` is taken to run its command in the same terminal
  group (no `use_pty`), so that ^C reaches it.
* `ramsmp` without a failing `fork()`: the first one that fails leaves fewer
  processes than the barrier counts.
* A killed ramsmp process: the others wait for ever; there is no recovery to
  check.
* sysbench's wrapper exists only inside `sysbench-1.0.20.zip`; `Report` has its
  row.
* `IperfControl`: connecting and sending the cookie are one step, although a client
  that connects and never sends it, or sends a part of it, blocks the server
  (`iperf_tcp.c:129`); `iperf_server_listen()` does not fail (it would end the
  server); a hung process is not a fault of the model, though `JSON_read` waits for
  one without a time limit (`iperf_api.c:2670`). One-off mode, the idle timeout, the bitrate
  limit, authentication, SCTP and the streams' data are left out; the bound of the
  model is on faults, not on tests: each client runs one.
* `IperfUdp`: bytes, jitter, intervals and the JSON output are left out; a write
  that fails softly uses up its number and counts as lost, as in the code. A packet
  of the omitted period that arrives after the reset is counted, and may make the
  printed loss negative; `PrintedAddsUp` says the line still adds up. Once a 32-bit
  number wraps, every later packet is out of order; the loss properties stop there
  (`NoWrap`).
* `FioWorkqueue`: a locked section is one step; `Candidates` allows
  `get_submit_worker()` every worker its unlocked scan could return. What a work
  does is its users' (`rate-submit.c`, `iolog.c`). `iolog.c` does not look at the
  result of `workqueue_init()` for log compression.
* `FioOverlap`: jobs are threads. Forked jobs each have their own copy of
  `overlap_check`, so they are not serialised against each other. A final fsync
  (`end_fsync`) and the retry after `FIO_Q_BUSY` make `td_io_queue()` unlock a mutex
  that is not held, and its assertion ends the process (`ioengines.c:345`); this is
  the state `aborted`, of which no document promises anything.
* The rest of fio, iperf3, sockperf, sysbench, compilebench and cachebench (about
  300000 lines) is for the most part option parsing, statistics, I/O engines, data
  kernels, formatting and vendored code (cJSON, hash functions and their test
  vectors): sequential, without state that several parties share, and a model would
  only restate it. The share of the source that is mapped is small for that reason.
  What is worth modelling in it is in the plan below.

## 6. Plan

Done, in this order: wrappers and their promise; ramsmp; c-ray-mt; the network
option; the report; iperf3's control protocol; iperf3's UDP counters; fio's work
queue; fio's overlap check; the proofs above, those that nobody waits for everybody
last.

Next, most important first:

1. **`BenchOption`**: an option's stages (without servers) composed with its
   report, so that `disk`, `memory`, `cpu` and `gpu` are checked from the first
   `system()` to END, with the wrappers' promises as the contract of a stage.
2. **sockperf under-load** (`client.cpp`, `packet.h`): which replies enter the
   latency, with warm-up, cool-down, losses and duplicates.
3. **fio's job states** (`backend.c`): start-up with `stonewall`, termination of
   a job through its run states, and the reaping of jobs.
