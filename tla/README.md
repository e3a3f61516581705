# Formal models of replay-sim

replay-sim predicts how a vLLM server behaves under a request trace: it
simulates the engine (`replay_sim/simulator.py`), replays the same trace
against a real server (`bench.py`, driven by the shell queues of `scripts/`),
calibrates its cost model (`calibrate.py`) and scores its predictions
(`compare.py`, `verdict.py`, the reports). This directory holds TLA+ models of
the parts whose behaviour depends on the order of events or on rules that two
programs must share, what TLC checks of them, and theorems about them with
proofs checked by TLAPS.

Line numbers refer to the repository's files; `PROJECT.json` maps every
definition of the models to the lines it stands for.

## 1. The system

| Component | State | Operations | Interacts through | Hard to get right |
|---|---|---|---|---|
| prefix cache, `class Cache` | `pins` (block -> count), `lru` (unpinned blocks) | match_and_pin, publish, pin_existing, unpin, evict | called by `simulate()`; shares the block pool with it | reference counts kept in three places (pins, lru, each request's list) |
| scheduler, `simulate()` | pending / waiting / running, the fields of each `Req`, the clock | arrivals, admission, decode allocation with preemption, chunked prefill with re-match and publishing, first token, decode, release | reads a trace, returns the requests | requests share blocks and compete for the pool; preemption while a batch is being built; termination |
| command line and summary, `main()`, `summarize()` | none | dispatch gap, dropped requests, percentiles | before and after `simulate()` | the order the gap makes; which requests the summary leaves out |
| bench client, `bench.py` | results, semaphore, clock | dispatch loop, one task per request | HTTP to the server | tasks interleave; one failure among many; time measured after a wait |
| online calibration and saturation probe, `calibrate.py --mode online`, `satprobe.py` | points measured, the server's counter | probe, prefill contexts, decode points with repeats, the file | HTTP to the server | a window in which all streams run; a counter that cannot be read or is not on the page; streams that nobody cancels |
| trace makers, `workload*.py`, `make_*.py`, `scale_trace.py`, `run9_predict.py` | random generator, histories, clock | a request, a file, a change of the arrivals | trace files | prompts that share exactly what they should; two readers that drop the same requests |
| scoring, `compare.py`, `verdict.py` | none | delta gap, absolute error, two criteria | result files | two scripts that implement one rule |
| queues, `noise_queue.sh`, `ladder_queue.sh` | stage directories, promoted results, lock, counters | attempt, retry, skip, breaker, deadline, signal handler | start and stop the one server of the machine | failure at every step of an attempt, signals, two queues at once |
| server lifecycle, `serve*.sh`, `wait_ready.sh`, `stop_server.sh` | the server process, its memory, pid and log files | start, poll, kill, drain | port 8000, GPU memory | a server left behind by someone else; readiness of the wrong server |
| sweeps, `sweep.py`, `load_sweep.py`, `sweep2.py` | a process pool, rows as they complete | grid of `simulate()` runs, guards, ranking, capacities | result files | results in completion order, failures among them |
| noise, ladder, modes and load reports | the files one writes and the next reads | dispersion, noise band, split into modes, decision, banner | result files that arrive one by one | started on half a night's results; a missing dump; one run only |
| single-run drivers, `run_config*.sh`, `calibrate_online.sh`, `boot_matrix.sh` | pid, the loop of the matrix; servers, clients and samplers on the machine | stop, drain, start, wait, bench, stop | same server, one after the other | early exits; what a driver leaves that gives up or is interrupted |
| offline calibration, pool model, other reports, diagnosis, samplers | none | arithmetic, tables, logging | files | - |

What makes each of them correct:

* cache: a block is evicted only if nobody relies on it; every block nobody
  relies on can be evicted; pins equal holders.
* scheduler: requests are served in order of arrival, none is lost or served
  twice; the pool is never overcommitted and every token has a block; a
  preempted request starts over; every trace that can be served is served.
* bench client: every request is sent once, at its time, and reported once.
* calibration: a measurement comes from a window in which exactly B streams
  ran and the engine did not preempt.
* trace makers: what two prompts share is the prefix they are meant to share,
  and the simulator and the benchmark leave out the same first requests.
* queues and drivers: a published result comes from one clean attempt on a
  server of the expected configuration, and nothing is left running.
* sweeps: a ranking depends on the results, and on when they came only among
  equals; a capacity was survived; a file accounts for every job.
* scoring and reports: two scripts agree where their rules do, and a verdict
  follows from what was measured, however much of it there is.

## 2. The modules

The simulator:

* `PrefixCache` - the cache as a record `[pins, lru]` and one operator for each
  change of state its methods make. `match_and_pin` and the loops over a
  request's blocks are steps of the caller, one block each.
* `Scheduler` - `simulate()`. It is sequential; an action is one iteration of
  one of its loops, or the end of one, and `pc` names the loop.
  `pending`, `waiting`, `running`, the fields of `reqs`, `batch` (`decoding`,
  `alive` and `dec_batch` in turn), `budget` and `cache` are the variables of
  the code. `todo` is what is left of the list a `for` runs over, `ret` says
  who called `try_admit()` or `release()`, `matched` is `pinned` in
  `try_admit()`, `victim` is the request in `release()`.
* `Service` - the abstract specification: each request is pending, waiting,
  running or served; the earliest that waits is admitted, the latest that runs
  gives way. No pool, no cache, no steps of the engine.
* `SchedulerService` - the refinement mapping: `Place` reads off the queues where
  a request is, and `S == INSTANCE Service WITH place <- Place`.
* `MCScheduler` - the traces of its runs.

The benchmark:

* `BenchQueue` - `noise_queue.sh` and `ladder_queue.sh` with the scripts they
  call, any number of executions of either on one machine. An action is one
  command of the script, or the outcome of one; `pc` is the next command.
* `BenchClient` - `run()` and `one()` of `bench.py`. An action is what a
  coroutine does between two awaits; tasks move only while `run()` sleeps or
  gathers.
* `RunDrivers` - the drivers of a single run, one after the other: an action is one command
  of the script, and `script` selects which come. `servers`, `clients` and
  `samplers` are the processes on the machine, whoever started them; `pid`, `n`, `rc`,
  `pool` are the variables of the shell.
* `Calibration` - `calibrate.py --mode online` and `satprobe.py`, which share
  `_measure_point`, against an external engine that admits and preempts when it
  likes. `st` and `got` are the streams of the measurement in progress,
  `orphans` those of a failed one that nobody has cancelled.

What goes in and what comes out:

* `Traces` - every generator, `scale_trace.py`, the jitter, the dispatch gap, and
  the requests the three readers drop.
* `Sweep` - the three sweeps: jobs, pool of workers, failures, ranking, capacities.
* `Scoring` - `verdict.score` and `compare.main` as operators.
* `Reports` - result files that come one by one, and the scripts that read them at
  any time: `noise_analyze`, `noise_report`, `ladder_analyze`, `jmodes_analyze`,
  `load_report`, `loadsweep_report`.
* `StableSorting` - Python's `sorted()` with a key.
* `MCBenchQueue`, `MCBenchClient`, `MCCalibration`, `MCTraces`, `MCSweep`,
  `MCReports` - the instances of the runs.

Proofs: `SequenceLemmas`, `SchedulerProofs` (of `PrefixCache` and `Service` too),
`PoolProofs` (the pins and the pool of `Scheduler`), `BenchQueueProofs`, `BenchClientProofs`, `RunDriversProofs`,
`SweepProofs`, `CalibrationProofs`.

| Code | Actions |
|---|---|
| simulator.py main loop 229-239 | NextRound, Return, Arrive, NoneDue, IdleJump, Stuck |
| try_admit 209-227 | AdmitMatch, Admit, AdmitFails, Unmatch, Refuse, NoCandidate |
| decode batch 241-262 | BeginStep, PlanDecode, BeginAlloc, AllocNone, Alloc, Preempt, SelfPreempted, Stall |
| preempt_victim, release 179-207 | Preempt, ReleaseBlock, Requeue, Retired |
| prefill 264-306 | BeginPrefill, Rematch, PrefillChunk, PublishBlock, PublishDisabled, Published |
| tokens 308-354 | Elapse, FirstToken, BeginDecode, DecodeToken, PublishGen, Decoded, BeginFinish, Finish, EndStep |
| noise_queue.sh 33-55, ladder_queue.sh 28-44: lock, sampler, traps | Start, StartSampler, SetTraps |
| attempt() 75-136 | StopBefore, Drained, DrainFails, Serve, NoPid, Ready, NotReady, CheckPool, Bench, StopAfter, StopDirty |
| gate and promotion 138-185 | GatePassed, GateFailed, MoveSummary, MoveDump |
| main queue 191-220, ladder_queue.sh 143-173 | WarmedUp, Clean, Retry, SkipRepeat, NextRepeat, Deadline |
| cleanup(), on_signal() 45-55 | Signal, OnSignal, Cleanup, LastStop |
| the machine (external: vLLM; thermal_sample.sh) | BootDone, Crash, SleepEnds |
| bench.py run() 40-94 | Dispatch, Sleep, Wake, AllDispatched, Raise, Collect, Summarize, WriteDump |
| bench.py one() 18-38 | Begin, Granted, Accepted, FirstLine, Finish, Fail |
| run_config*.sh, calibrate_online.sh, probe_pool*.sh | Start, StopBefore, Drained, DrainGivesUp, Serve, Ready, NotReady, BootFails, ReadPool, Measure, Measured, LastStop |
| boot_matrix.sh | the same, NextBoot, MatrixDone |
| the terminal and the machine (external: bash, vLLM) | Break, Kill; BootDone, Crash, MemoryFalls, Succeeds, Fails |
| calibrate.py online_main, satprobe.py main | Probe, MeasurePrefill, ReadBefore, ReadAfter, Write |
| _measure_point | StartRep, EndsShort, StreamRaises, Measure |
| the engine (external: vLLM) | EngineStep |
| workload.gen | GenTurn |
| workload_modes, make_burst_trace, make_trace_M | Lift, GenSingle |
| end of each generator; scale_trace; jitter_trace; simulator.main | Write; Scale; Jittered; Serve |
| ProcessPoolExecutor and run_one of the sweeps | Take, SimEnds, RunOneRaises, EndsUnseen, PoolBreaks |
| the rest of their main() | Report |
| the queues, as the reports see them (external here) | Promote, SkipRepeat |
| main() of the six analyses and reports | Analyze, NoiseReport, LadderReport, JModes, LoadReport, LoadsweepReport |

`Scheduler`, `BenchQueue`, `BenchClient` and the others share no state in the
code either: they are processes that meet in files and exit codes. `BenchQueue`
sees a bench run as `Bench` (an answer or none) and the gate; `BenchClient` says
what a bench run that exits with 0 has written; `Reports` takes what a queue
promotes, including a run whose promotion a signal has cut short, as its input;
`Traces` ends with what `Scheduler` and `BenchClient` begin with: a file numbered
in order of arrival.

Abstractions of `Scheduler`, and why they lose nothing the properties tell apart:

* The clock is a rank among arrival times. A step moves it past any number of
  the arrivals still to come (`Elapse`), which covers every choice of the cost
  model `Perf` and every real step time.
* The hash of a block is the prefix of the prompt it stands for: `hash_chain`
  chains hashes, so two blocks are equal exactly if the prompts agree up to
  their ends, unless the hash function collides.
* `prompt_len` is the number of words of the prompt: every trace maker writes
  it that way (`make_burst_trace.py` 43-45, for one).
* A request is named by its place in the sorted trace; `r.rid` only makes names
  of generated blocks unique. `arrival` and the queues keep Python's stable
  order.
* Counters that nothing reads back (steps, gpu_busy, hits, preemptions) and the
  values of ttft and finish are left out; whether they are set is kept.

Abstractions of `BenchQueue`:

* A server is booting, up, gone, or gone with its memory held by a worker
  (`orphan`). It may get the published pool or another, and may die at any time.
  A server that cannot have the port because another answers on it stays in
  `booting`. `granted` and `pid` are the log and the pid file of the attempt: an attempt
  without the second (FAIL_NO_PID, 95) may have started a server, and leaves it to the next
  `stop_server.sh`.
* `stop_server.sh` succeeds: it kills by name, then with -9, then whatever
  `nvidia-smi` reports. `strict_drain` polls 120 times, so it may fail whatever
  the state.
* A lock is held as long as some process has file descriptor 9: the driver, the
  sampler, the sleep the sampler waits for, the server. Where the code kills the
  sampler's shell, the sleep stays, up to a minute.
* `stage` and `results` keep who measured, on whose server and with which pool;
  of the seven files of a promotion, the summary and the dump.
* Bash serves a signal after the command it waits for; before the traps are set
  the signal kills the shell.
* Left out: the log, the thermal record, `nvsample.sh` (killed with its sleep after
  each bench).

Abstractions of `BenchClient`: requests are named by `req_id`, which every trace
maker gives in order of arrival; the server answers with any timing, an error or
an empty stream; percentiles and the scrape of the hit rate are left out; httpx
keeps its own pool of connections, which is not modelled. The semaphore is that of
the standard library since Python 3.11: a newcomer waits behind those who wait and those
who were woken and have not gone on. `SentInOrder` needs that: with `LockedByCount`
a newcomer takes the slot that the next waiter was about to have.

Abstractions of `RunDrivers`: a person starts one driver when the last has ended,
because nothing in them takes a lock. `stop_server.sh` ends every server and every
calibration, as in `BenchQueue`, and goes on with whatever memory is left. The client
succeeds if the server it began with lives through it (`BenchClient` says what that takes). Ctrl-C
reaches the shell and its client, not what runs in the background nor what `timeout` runs; a
kill reaches the shell alone. Copies of logs, snapshots of metrics and the CSVs of
the probes and pools are left out; arguments that the scripts reject are not given.

Abstractions of `Calibration`: time is counted in steps of the engine, one token
for each stream it holds, so an interval between two tokens is a number of steps
and the average over streams is kept as their sum; the coefficients are left out and
the file holds which points were
fitted, which held out, and where `b_p` and `b_d` are from. A stream may end short
or raise (`MaxFail` times in all), and the engine preempt (`MaxPreempt` times). A reading of
the counter is the counter, None, or in `calibrate.py` 0.0, which `_preemptions` returns for a
page without that line, an error page among them (219). The tokens of prompts are not modelled: their heads are
drawn from one generator, so that within a run they differ but for chance; a second run with
the same seed (20260828 by default) against the same server would repeat them.

Abstractions of `Traces`: a word is the place of its draw (that two draws of the
vocabulary may agree by chance is left out); `make_burst_trace.py` has the seed of
`workload.py`, so its words are the same again; all other draws are choices. Times are
in half milliseconds, so that `round(t, 3)` rounds.

Abstractions of `Sweep`: a simulation is a table of its cost and p95, an error that
`run_one` returns, or an exception that it raises; a factor of 1.1 is 11/10. Abstractions of `Scoring` and `Reports`: a summary is a
number or nothing for each metric, and ratios are compared by multiplying out; a
CV is the square of it, as a fraction; a p95 is computed from the dump, as `bench.py`
has. Bootstrap, permutations, t quantiles, temperatures and wording are left out.

## 3. What is checked

| Run | Question |
|---|---|
| `any` | What holds for every trace. 258 traces: all mixes of prompt lengths on, before and after a block boundary, of shared and own prompts, of equal and distinct arrivals, plus one that meets a preemption inside a decode batch and one that never fits. Four blocks of two tokens, two sequences: admission fails, blocks are evicted, sequences preempt each other, themselves and stall, and every outcome (return, both errors) is reached. That `Scheduler` implements `Service` is checked here too. |
| `steady` | What holds where the defects below do not strike: traces with distinct arrivals, prompts one token past a full block, each request small enough for the pool alone. Exact reference counts, no overcommitment, a block for every token, never stuck, and every trace served. |
| `uncached` | Termination with prefix caching off, with a token budget below most prompts. |
| `queue` | Two executions of `noise_queue.sh`, at the same time or one after the other, two signals at any points, every failure of every attempt: one at a time is at the server, a promoted result is one the driver measured on its own server with the published pool, counts are right, and what it takes to leave a server behind. |
| `ladder` | One `ladder_queue.sh` through two repeats of both configs, with retries, skips, the breaker at three, the deadline and two signals: the deadline falls between pairs only, the queue always ends, and gives the lock back if it has left no server. |
| `bench` | `bench.py` with three and four requests, two slots, bursts, late wake-ups, a newcomer between the waking of a waiter and its turn, failures and empty answers: order, slots, completeness of a report, termination. |
| `drivers` | Two single-run drivers of any kind, one after the other, with servers that never answer, die or come up late, one Ctrl-C and one kill: whose server a result was measured on, what a driver leaves, and that it ends. |
| `calibrate` | Online calibration and the saturation probe against every admission order, a preemption at any step, a stream that fails or ends short, a counter that cannot be read: a point whose counter was read both times, and had not risen, was measured at exactly its batch. |
| `sweep` | The three sweeps with results in every order of completion and every subset of failures: ranking up to exact ties, capacities, and whether a file accounts for every job. |
| `traces` | Every generator and every change of a trace: prefixes shared, gap, dropped requests. |
| `reports` | Result files that come one by one, with the analyses and reports started at any time: scores, noise bands, modes, decision. |

The properties, and the hazard each one is about:

* `PinsCoverHolders`, `ColdBlocksListed` - no interleaving of matches,
  releases and evictions removes a block under a holder.
* `PrefixHeld` - what a running request skipped or computed stays reachable.
* `ArrivalOrder`, `EachInOnePlace`, `FirstComeFirstServed` - preemption and
  re-admission neither lose, duplicate nor overtake.
* `ServedInFull` - the outcome of `simulate()`.
* `PinsAreHolders`, `PoolWithinCapacity`, `TokensHaveBlocks`, `NeverStuck`, `Returns` - hold
  only where the defects below do not strike; `steady` and `uncached`
  check them there. `NeverStuck` (the error of line 238 is not raised) is what is safe about
  `Returns`, and what can be proved of it.
* `OneAtTheServer`, `PromotedIsClean` - nobody stops, measures or is measured on
  somebody else's server, through restarts and processes left behind.
* `CountsMatch`, `PairFinished` - retries, skips, breaker and deadline account
  for every repeat once and keep pairs together. (`queue` has one repeat; that repeats are
  settled in order is exercised where there are more, and proved for any number.)
* `NoServerLeft` - every way out of a queue stops the server, unless signals cut the cleanup short.
  The first signal is answered by a `cleanup()` that stops it, so it takes a second one. An
  attempt without a pid file leaves its server running (FAIL_NO_PID); if it is the last, `cleanup()` is
  entered as the EXIT trap with the server alive, and there one signal is enough.
* `LockGivenBack`, `Ends` (`BenchQueue`) - retries, breaker and deadline; a lock that the
  sampler's sleep still holds. A server that was left keeps the lock with it.
* `SentInOrder`, `SlotsExact`, `ReportIsWhole`, `Ends` (`BenchClient`) - tasks that
  wait, fail and hand slots over.
* `MeasuredOnOwn`, `ExitStops` - servers that come up after their driver has given up,
  with a readiness check that asks the port.
* `CalibrationsApart` - clients that outlive their driver.
* `Ends` (`RunDrivers`) - failed boots, deadline, servers that hang; `RowsAreBoots`, that
  each row of the matrix is a boot or a failed one, is proved (section 4).
* `CleanPointsAreExact` - the window opens at the latest and closes at the earliest
  of the streams' tokens: every step inside it ran at exactly B unless the
  counter rose, could not be read or was not on the page, or a stream failed. It is not said of
  all points of the fit: a point whose counter could not be read is among them
  (`uncounted.cfg`).
* `RankedUpToTies`, `CapacityIsEarned`, `GridIsAccounted` - `as_completed` order, failed
  rows, and jobs that raise instead of returning an error. Exact ties of (cost, p95) keep the
  order in which the simulations ended: the file of the published sweep has five at the top
  (4.575, 6.557), and which of them is "best" is the one that ended first.
* `PrefixesShared` - histories, cuts and lifts across files and generators.
* `SameRequestsScored` - three programs drop "the first n", each by another key;
  and a gap adds up along a burst, and no further.
* `VerdictsAgree` - None and 0 among four numbers, two implementations.
* `BandsNest` - a CV of one run is NaN, and `max` and `min` keep their first
  argument against a NaN. A row of J takes J's own CV in both tables, so it needs two runs of
  J; the other configurations need none.
* `ModesAreApart` - the largest gap, with ties. That a run without a dump is in neither
  mode is the filter of `Dumps`.
* `UsableIsEarned` - a report that looks for an answer in another report's file. The
  summaries of a study do not change and `load_report.py` runs once, so a report older than
  the results does not occur.

Every run that passes has a mutant for each of its properties (`PROJECT.json`,
"mutants"; the changed definitions stand next to the originals and are marked
as mutants): a plausible slip in the code that the property catches. The type
invariants of `BenchClient`, `RunDrivers`, `Sweep` and `Calibration`, and `RowsAreBoots`, are proved
(section 4) and in no run; that of `Traces` holds on the same instances
(`INVARIANT TypeOK`), and is in no regular run either.

Bounds of `Scheduler`. Three requests are what it takes for two to share a
prefix while a third competes for the pool. Prompts reach three to four blocks (a chain with a
root, a middle and a leaf), outputs cross a block boundary at least once. Block
sizes 2 and 3 have positions on, before and after a boundary. There is no bound
on the number of steps: the state space is finite as it is.

Bounds of `BenchQueue`. Two executions are what it takes to compete and to
restart; they are alike, so TLC may exchange them. For `ladder` one is enough: as long as the lock is
held another is refused, and does not take part in what the first does.
One repeat (`queue`) has both configs, both attempts and the warm-up;
two (`ladder`) have an order between repeats and a count above one.
`MaxConsecSkip` is 2 and 3, so that the breaker strikes in the middle of a
repeat and between two. `MaxSignals` is 2: a signal during the cleanup is served
by a second `on_signal`, whose `cleanup` returns at once, so the shell exits
before it has stopped the server; a third finds nothing that the second has left.

Bounds of `BenchClient`. Four requests for two slots: two hold a slot, one waits or was
just woken, and the fourth comes meanwhile; a failure may come before, while or
after any of them waits. The clock goes up to `MaxTime` = 2, and no property
looks at how late a request is.

Bounds of `RunDrivers`. Two drivers: one that leaves something and one that meets it. One pair of
boots has both regimes; `MaxBreaks` and `MaxKills` are 1, since a driver ends
with either.

Bounds of `Calibration`. Two streams are what it takes for one to begin late, be
preempted or fail while the other runs. `GenTokens` = 6 with one warm and one tail
token leaves windows of several steps; one of the two points is too long for the
pool, so that `gen_for` shortens it; two repeats, so that an orphan of the
first meets the second. `MaxPreempt` and `MaxFail` are 1.

Bounds of `Sweep`. Three configurations at two speeds with two workers: six jobs,
so that any may fail or be overtaken; the tables hold each p95 below, on and beyond
the guard, and costs that tie. Bounds of `Traces`. Two sessions of two turns
have a history and somebody else's turn in between; prompts shorter and longer
than the prefix; bursts of one and two; three requests where there are no sessions; a gap
between the two distances of arrivals. Bounds of `Reports`. A study per question:
all ratios below, on and beyond the bar with None and 0; up to two repeats of A and J with two
prediction rows; up to three repeats of J with ties, two equal gaps and a missing dump; and the four
configurations of the ladder.

Fairness. `Scheduler`: weak fairness of `Next`; `simulate()` is a function
that runs until it returns or raises. Nothing is assumed of the trace or of
the timing. `BenchQueue`: a script goes on to its next command, because every
command it waits for is bounded, by a number of polls (drain, stop, readiness)
or by `timeout` (bench); the sampler's sleep ends; nothing is assumed of servers,
signals or the start of a driver. `BenchClient`: the event loop runs what is ready,
time passes, and every request comes to an end because httpx fails a read after
600 s without an answer and an answer is finite. `RunDrivers`: a script goes on, since
the drain and the readiness check are bounded, and a client ends; nothing is assumed of
servers. `Calibration`, `Sweep`, `Traces` and
`Reports` state no fairness and no liveness: nothing in the code makes an
engine, a simulation or a person who starts a report go on (`sweep.py` 47 sets no timeout for a
simulator that `too_long` shows can run for ever).

### Disagreements with the repository's own statements

The regular run `ghost` ends with a counterexample (`PROJECT.json`, "findings", quotes the
statement): a sequence preempted by another member of its own decode batch stays in the
batch, and decodes a token while it waits (simulator.py 249-260, 331).

Further counterexamples, with a configuration each but not among the regular
runs (`tlc -config X.cfg M`):

| Configuration | What happens |
|---|---|
| `overcommit.cfg` (MCScheduler) | A prompt that fills its last block gets its first token without a block (324): cached and owned blocks exceed the pool. |
| `roots.cfg` (MCScheduler) | A failed admission gives its match back root first (216-217), which is the order v0.7 removed from `release()`. |
| `too_long.cfg` (MCScheduler) | The size guard looks at the prompt only (218): a request whose output does not fit is admitted and preempts itself for ever. |
| `burst.cfg` (MCScheduler) | With equal arrivals the victim is the first, not the last, of the ties (196): two requests preempt each other for ever. |
| `leak.cfg` (MCScheduler) | After `ghost`, the pins such a sequence takes are overwritten at its re-admission (221): blocks nobody can release. |
| `stuck.cfg` (MCScheduler) | Those blocks make an idle engine refuse a request that fits (238). |
| `port.cfg` (MCBenchQueue) | The two queue scripts lock different files (noise_queue.sh 34, ladder_queue.sh 28), so they run together and stop each other's servers. |
| `refused.cfg` (MCBenchQueue) | A queue started right after another has exited is refused ("another noise_queue.sh already holds", 36): the sampler's sleep still has the lock. |
| `dump.cfg` (MCBenchQueue) | A signal between the moves of a promotion (173-174) leaves a summary without its dump, where NOISE_PLAN.md:133 promises one for every clean run. |
| `unready.cfg` (RunDrivers) | calibrate_online.sh exits without stopping its server when that does not become ready (20); so do run_config.sh and run_config_diag.sh. |
| `leftover.cfg` (MCCalibration) | satprobe.py notes a failed repeat and goes on; the other streams of it still run, and the next window is measured at more than B (satprobe.py 62-67). `calibrate.py` ends at the first failure and is not affected. |
| `uncounted.cfg` (MCCalibration) | calibrate.py:203-204 says that a point that preempts is not a clean measurement, and therefore each point is bracketed by two readings of the counter. If one of them fails (None), or the second finds a page without the line (0.0, 219), the point counts as not preempted (304) and is fitted (365). |
| `ties.cfg` (MCSweep) | Configurations that tie exactly in cost and p95 are ranked in the order in which their simulations ended (sweep.py 82-83, 108-111); in the two capacity sweeps they keep the order of the grid. |
| `undrained.cfg` (RunDrivers) | The drain loop of run_config_generic.sh (16-18) falls through when its polls are used up: a "strict VRAM drain -> fresh server" run may start on memory in use. |
| `alone.cfg` (RunDrivers) | A bench.py whose driver was killed goes on with its trace (156 s) against the server of the next driver: stop_server.sh stops `replay_sim.calibrate` by name (25), but not `replay_sim.bench`. |
| `samplers.cfg` (RunDrivers) | nvsample.sh outlives an interrupted run_config.sh (28) and writes into the file of the next run of that configuration. |
| `lost.cfg` (MCReports) | noise_report.py 209-211 says that no repeat was lost, under the list of the queue's SKIP lines. |
| `reason.cfg` (MCReports) | load_report.py 65 says that all directions hold whenever no cost row fails, also when the decision is NO because one does not. |

Smaller things the models made visible:

* noise_queue.sh:40 says the thermal record is appended to; thermal_sample.sh:6
  opens it with `>`.
* `ladder_analyze.py` provides for a configuration with fewer than two runs (211) but
  rounds its bar first, which raises for a NaN (128); it also needs C, K and A to be there (139-141).
* `jmodes_analyze.py` raises for one run, for equal p95s, and if every request
  moves (106-108); `noise_report.py` divides by the CV of A (52).
* `verdict.py` skips a target that measured 0, `compare.py` scores it:
  `VerdictsAgree` holds with exactly that exception.
* If every point of a calibration was preempted, numpy raises before the file is written.

The final states of `Scheduler` were compared with the results of `simulate()`
itself on random traces, including ones that show these effects; the lock, the
orphaned sleep, the second signal, and what Ctrl-C and a kill leave of a driver were tried with
bash 5.2.

## 4. What is proved

For every block size, pool, batch limit and set of traces allowed by
`CfgAssumption` and `TracesAssumption` (`Scheduler`):

* `TypeCorrect` - `Spec => []TypeOK`: no counter goes below zero.
* `HeldBlocksStay` - `Spec => []PinsCoverHolders`: a block that a request or the
  match in progress relies on is cached and pinned at least once per holder.
* `LruListsColdBlocks` - `Spec => []ColdBlocksListed`: the LRU list is exactly
  the unpinned blocks, each once; `evict()` never meets a missing key and never
  deletes a block in use.
* `Invariance` - `Spec => []IInv`, from which they follow.
* `Implements` - `Spec => FirstComeFirstServed`: `simulate()` implements `Service`.
* `ServedInOrder` - `Spec => []ArrivalOrder`: nobody who waits or is to come
  arrived before somebody who runs.
* `NoneLostOrRepeated` - `Spec => []EachInOnePlace`: a request is in one place of
  one queue until it has finished, and in none after its release.
* `PrefixStays` - `Spec => []PrefixHeld`: what a running request has skipped or computed
  of its prompt stays cached under it, and one prompt token at least is computed.
* `AllServedInFull` - `Spec => []ServedInFull`: when `simulate()` returns, every request
  has exactly its output and holds no block.

Of `BenchQueue`, for any number of executions of either script, any number of repeats, of
signals and of crashes, and any breaker (`QueueAssumption`):

* `TypeCorrect` - `Spec => []TypeOK`: among others, no queue runs past its last repeat.
* `OneOfAScriptAtTheServer` - `Spec => []OneOfAScript`: `flock` keeps executions of one
  script apart.
* `OneAtATime`, `PromotedAreClean` - `OneAtTheServer` and `PromotedIsClean`, under the
  hypothesis that all executions are of one script. It is needed: the two scripts lock
  different files, and `port.cfg` shows what they do to each other.
* `CountsAlwaysMatch` - `Spec => []CountsMatch`.
* `PairsFinish` - `Spec => PairFinished`.
* `LeftServerCostsSignals` - `Spec => []NoServerLeft`: a server that a queue leaves
  behind has taken two signals, or one if its attempt had no pid file.
* `UndisturbedQueueStops` - `Spec => []ServerStopped` under the hypothesis `MaxSignals = 0`:
  a queue that is left alone has stopped its server when it exits, whatever fails.

Of `RunDrivers`, for every set of configurations and every number of pairs, runs,
interruptions and kills (`DriversAssumption`):

* `OwnServersMeasured` - `Spec => []MeasuredOnOwn`: what was left of earlier runs is in
  no result.
* `CalibrationsStopped` - `Spec => []CalibrationsApart`.
* `ExitsClean` - `Spec => []ExitStops`.
* `RowsKept` - `Spec => []RowsAreBoots`.
* `DriverTypes` - `Spec => []TypeOK`.

And of what `Scheduler` implements:

* `NobodyIsOvertaken` - `Spec => []S!NobodyOvertaken`: in `simulate()`, seen through the
  refinement mapping, nobody is overtaken. The lemma `FirstComeIsFirst` proves it of the
  steps of `Service` alone, that is of the three rules of admission, preemption and
  arrival; `Implements` carries it to the code.

Of the block pool of `Scheduler` (`PoolProofs`):

* `PoolKept` - `Spec => [](PinsAreHolders /\ PoolWithinCapacity /\ TokensHaveBlocks)`, if every
  prompt leaves room for two tokens in its last block and does not fill it
  (`RoomyPrompts`): for every such trace, pool and batch limit, a block has one pin per
  holder and no other, the pool is never exceeded, and every token has its block. Requests
  may decode while they wait (`ghost`), but the token they get neither needs nor
  fills a block. The traces of `steady` are of this kind.
* `PoolHoldsUncached` - `Spec => []PoolWithinCapacity` without prefix caching, for every
  trace: both defects need the cache to overdraw the pool.
* `RoomyIsNeverStuck`, `UncachedIsNeverStuck` - `Spec => []NeverStuck`, if the prompts are of
  that kind, or without prefix caching for every trace: an idle engine admits every request
  that fits the pool, and the error of line 238 is never raised. (`steady` checks
  it; `uncached` checks `Returns`, which implies it.)

For the other prompts the theorems have the defects as hypotheses, and nothing else:
`overcommit.cfg` shows what a prompt that fills its last block does to the pool
(`NoWholePrompts` excludes it), `leak.cfg` what a request that decodes and publishes while it waits
does to the pins (`WaitingIsReset`):

* `PinsExact` - `Spec /\ []WaitingIsReset => []PinsAreHolders`, for every trace.
* `PoolHolds`, `TokensAreHoused` - `PoolWithinCapacity` and `TokensHaveBlocks` likewise, if no
  prompt ends where a block ends.
* `ResetIsNeverStuck` - `Spec /\ []WaitingIsReset => []NeverStuck`, for every trace, pool and
  batch limit. The error is raised (`stuck.cfg`) only after such a request.

`WaitingIsReset` does not hold of the code in general. It is traced back to its
cause, and proved where the cause cannot occur:

* `OnlyBatchmatesLinger` - `Spec /\ [][SparesBatch]_vars => []WaitingIsReset`: the
  preemption of another member of the decode batch is the only way in which a request
  that waits comes to have a token or a block. A preemption that takes its own request, or
  one that is still in its prefill, leaves nothing behind.
* `AloneIsReset` - `Spec => []WaitingIsReset` if `MaxNumSeqs = 1`.
* `AloneIsNeverStuck` - `Spec => []NeverStuck` if `MaxNumSeqs = 1`, for every trace and pool.
* `PoolKeptAlone` - `Spec => [](PinsAreHolders /\ PoolWithinCapacity /\ TokensHaveBlocks)` if
  `MaxNumSeqs = 1` and no prompt ends where a block ends; no hypothesis on the behaviour is left.

Of `BenchClient`, for every set of traces in order of arrival, every number of slots and
of requests to drop (`BenchAssumption`):

* `ClientTypes` - `Spec => []TypeOK`.
* `ArrivalsRespected` - `Spec => []SentInOrder`: nobody is sent before its time or
  before somebody who arrived earlier.
* `SlotsKept` - `Spec => []SlotsExact`: slots are neither lost nor made, and nobody
  waits beside a free slot that nobody is about to hand over.
* `NothingLeftOut` - `Spec => []ReportIsWhole`.

Of `Sweep`, for every grid, set of speeds, number of workers, tables of results and guards
(`SweepAssumption`), every order of completion and every set of failures:

* `JobsPlaced` - `Spec => []TypeOK`: each job waits, is simulated or has come back, once.
* `EveryJobAccounted` - `Spec => []GridIsAccounted`.
* `Earned` - `Spec => []CapacityIsEarned`, for both anchors of `sweep2.py`.
* `RankedOnceEach` - `Spec => []RankedUpToTies`.

Of `Calibration`, for every grid, number of repeats, pool and number of tokens
(`CalibrationAssumption`), and whatever the engine admits, preempts or loses:

* `CalibrationTypes` - `Spec => []TypeOK`.
* `CleanIsExact` - `Spec => []CleanPointsAreExact`.

`PinsCoverHolders` is not inductive: that an unpin leaves enough pins for the
other holders needs that the releasing request held the block once
(`HeldOnce`); that a re-match or a publish adds a holder needs that the request
did not hold the block, which follows from its `inserted` counter
(`HeldOnce` again) and `PrefillBounded`; that `evict` takes only blocks without
holders needs `ColdBlocksListed`; and the steps inside `try_admit` and
`release` need to know what the locals mean (`LocalsOK`). `IInv` is the
conjunction. The argument counts holders: `NobodyGains`, `OneGains` and `OneLoses`
say how `Holds(h)` moves when the lists of pinned blocks change by one;
`PinOK`, `UnpinOK`, `PublishOK` and `EvictOK` say what each cache operation does to pins
and the LRU list;
each action that touches the cache then has one lemma (`ReleaseBlockStep`,
`RematchStep`, `AdmitStep`, ...) that puts the two together, and `QuietStep` covers
the actions that do not.

The order of service rests on `InLine` (`SchedulerProofs`): each queue is in
order of arrival and holds nobody twice, the three are disjoint, nobody in
`running` is later than anybody in `waiting`, nor either than `pending`, and while
`pc` is "preempt" the victim is a latest of those that run. The last part is what
makes it inductive: `Requeue` puts the victim before the whole of `waiting`, several
steps after `preempt_victim` has chosen it.

That nobody is lost rests on `Accounted` (`SchedulerProofs`), about the lists
of a step. A request is marked finished in one loop (331-348) and taken from
`running` in the next (350-354), so between the two `DoneOK` says where it
still is. `list.remove` would raise, and the mark be wrong, if the batch held
somebody who does not run any more, and it may: `GhostOK` says that such a sequence
has no token, so the one it decodes does not complete it, and `ShortOK` that a
request of one token, which one token would complete, is never in a batch.
Each loop has a lemma for each of its actions; `OuterStep`, `SameStep` and
`ListStep` cover those that change only `pc`, only blocks or only the lists.

`PrefixHeld` is inductive on top of `IInv` and `VictimAway`: the victim of a preemption has
left `running` by the time `victim` is set to 0 again, so whoever runs after a step ran
before it or has just been admitted (`RanBefore`). One lemma is about the request that is
admitted (`PrefixAdmitted`: it skips no more than it has matched) and one about the blocks
taken over and published later (`PrefixGrows`: each is the next of its prompt).

`ServedInFull` speaks of the end only; `Served` is what it needs before. `TokensOK`
ties the tokens to the mark: complete means finished, except between the last token and the
end of its publishing. `TurnsOK` says that nobody in a loop that gives out tokens or blocks has
finished, so a complete request gets no token more; with `DoneOK`, a preempted one is never
marked. `GivenBack` says that who has finished and left `running` holds nothing unless
`release()` is at work on it, and `AtDone` that the loop ends with empty queues.

The pins need no more than `IInv` and the places: each action that touches the cache moves
`pins[h]` and `Holds(h)` by the same amount (`PinsTaken`, `PinsKept` and the counting lemmas
above), except an admission that overwrites pins, and those exist only if a request has
published while it waited. The pool is harder, for
a publish turns an owned block into a cached one, and the code hides with `max(0, r.alloc - 1)`
that there may be none to turn. `PublisherPays` says that there is; `FitsStep` shows
that then no step overdraws the pool, with the sum of what requests own taken apart one
request at a time (`AllocAdds`, on the sums over finite sets of `SequenceLemmas`). That the
publisher pays follows from `RoomOK`, which is `TokensHaveBlocks` made inductive: a running
request has room for the tokens it holds and, once the allocation loop has
passed it, for the one still to come (`Covered`, `Ahead`), and what it has pinned is what its two
counters say was inserted. Blocks that are not yet
inserted are then owned, unless the prompt leaves no rest in its last block: here
`NoWholePrompts` is used. `Counted` bounds the two counters by what there is to publish. `Apart` and
`Fresh` are the invariant of `OnlyBatchmatesLinger`: who waits is in no batch that is to
decode, except for the moment between its own preemption and the end of its turn. `PoolKept`
does with less: `Bare` says that who waits has one token at most and no block, because
no block is ever given to it; its second part, that the request for which
somebody is being preempted is not waiting itself, is what the steps between
`preempt_victim` and `r.alloc += 1` need. `NeverStuck` follows from `EmptyFits`: with nobody
running, a request that is being turned away is larger than the pool, and when nothing is
left to do nobody waits. It is inductive because nobody then holds a block but the match in
progress (`NobodyHolds`, from `GivenBack`, `HoldNothing` and `NotCome`), so every other cached block is
cold (`RestIsCold`, from `PinsAreHolders`), and `reclaim` gets what is asked for or evicts all
of them (`EvictSize`).

The queues rest on four parts of `IInv` (`BenchQueueProofs`). `InPlan` says where an execution is
in its plan. `LockHolder`: one execution of a script at most is past `flock` and not
over, and whoever was ever past it is in `locked`, which is what the sampler inherits.
`Settled`: the repeats with an outcome are those before the attempt at hand, in the order of
`Following`, and `clean` counts the clean ones; `CountsMatch` and `PairFinished` follow.
`SignalsCost` follows the server of an attempt through the first signal, which
`cleanup()` answers by stopping it, and the second, which cuts `cleanup()` short; a server without
a pid file, the only one that outlives its attempt, may come to the EXIT trap with no signal
yet. Under the
hypothesis of one script `OwnServer` and `CleanFiles` are inductive too: from the stop before
it to the stop after it the attempt's server is alone, so what is measured is its own.

The order of the client rests on `Lined` (`BenchClientProofs`): of two requests the
later one has come no further than the earlier, as long as neither is sent (not created,
created, waiting, woken, sent), and the queue lists those who wait in that order. So the head
of the queue is the earliest that waits, and those who were woken go before it. The part of it that a
reader would miss is in `Locked`: a newcomer may take a free slot only if nobody
waits and nobody was woken. `Slots` counts the holders, `Dispatched` says that
every request before `next` has its time behind it, `Reported` what each stage after
`gather` has established. `InTurn`, the conjunction of the first four, is inductive.

`MeasuredOnOwn` rests on `OwnServer` (`RunDriversProofs`): from the stop to the measurement the
machine has no server but the driver's own, so that whoever answers on the port is that
one, and once it has answered its pool cannot change any more. `NoCalibration`, `Tidy` and
`Rows` say the same of calibrations, of clients and samplers, and of the rows, for each value of
`pc`.

The sweeps need little of an invariant: `Placed` says that no job is in two places and
`Complete` that none is in no place, so that a report is made of all of them (`SweepProofs`).
The rest is what a sort returns. `Ranks` (`SequenceLemmas`) is the heart of it: in a strict
total order of a finite set, the number of those before an element tells it from all others, so
`StablePlaces` has exactly one element for each place, and needs no induction over the
sequence; `SortedPlaces` adds that no smaller element comes after a larger one.
`CapIs` finds the highest speed that was survived, `RankedRows` what `RankedFeasible`
lists, and `RankingStands` counts configurations through the rows that stand for them.

`CleanPointsAreExact` speaks of a row that is written; `Steady` (`CalibrationProofs`) is what is
true before, as long as the point is `Quiet`: the counter has not risen above the first reading, and no
stream has failed. A first reading of 0 for want of the line is no danger: unless the counter is 0,
the point counts as preempted. Then a stream waits, and from its first token on has one in every step
(`Consecutive`), and a step's batch is the number of streams with a token in it; a preemption
would have raised the counter, and a stream left over by a failed measurement would have needed the
failure. So `Window` finds every stream in every step between the latest start and the earliest
end, and each stream's interval is one step. `RepsExact` carries this to the repeats of the
point: they agree, so their median is any of them (`MedianExact`). The sum over the streams is a fold, about which the
library states nothing; `EqualSum` gets by with the least number of a set of numbers
(`LeastNumber`) and the size of the set.

Only model-checked:

* liveness (`Returns`, `Ends`);
* the invariants of `Traces` (`PrefixesShared`, `SameRequestsScored`) and of `Reports`
  (`VerdictsAgree`, `BandsNest`, `ModesAreApart`, `UsableIsEarned`). Their definitions are selections,
  folds and recursive functions over data, and what those compute for every input is an
  induction over the data, which the provers here cannot be given: that a band is not
  negative, say, is a fact about a sum of squares. What could be had without induction, from the
  least element of a set or the rank in an order, is proved where it was needed
  (`Ranks`, `EqualSum`, `AllocAdds`).

## 5. Plan

All modules of the plan are written, and their safety invariants proved but for those of
`Traces` and `Reports`. What is left, in this order:

1. `ModesAreApart` of `Reports`, with `SortedPlaces` for its sorted sequences, then
   `UsableIsEarned` and `BandsNest`.
2. `PrefixesShared` of `Traces`.
3. What is left of `PoolKept` for prompts one token short of a full block, where
   `leak.cfg` breaks the pins: `PoolWithinCapacity` without `WaitingIsReset`.

## 6. Not modelled, and why

* The offline calibration (`offline_main`), the least-squares fits, the cost model
  `Perf`, the percentiles, `noise_stats.py` and the pool model are arithmetic on
  measured numbers: one pass over a file, and nothing that happens in an order.
* The other reports (`boot_matrix_report.py`, `burst_report.py`,
  `coldstart_report.py`, `satprobe_report.py`, `sweep_report.py`,
  `sweep2_report.py`) print tables of numbers, with fixed inputs.
* The diagnosis and prediction scripts, apart from the jitter and the requests
  they drop (`Traces`), call `simulate()` and compare numbers.
* What `nvsample.sh` and `thermal_sample.sh` write is read by no program that decides.
* The engine itself (vLLM) is external; what `simulate()` says of it cannot be
  compared with its source here.
* Crashes of the simulator or the client: neither keeps anything on disk before
  it ends. A driver killed with -9 runs no cleanup; the next `attempt` starts with
  `stop_server.sh`, but its lock may be held by the server that was left.
