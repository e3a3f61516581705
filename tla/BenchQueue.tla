----------------------------- MODULE BenchQueue -----------------------------
(***************************************************************************)
(* The overnight queues, scripts/noise_queue.sh and scripts/ladder_queue.sh *)
(* with the scripts they call, on the one machine they share.              *)
(*                                                                         *)
(* A driver is one execution of a queue script; there may be several, of   *)
(* one script or of both.  A step of a driver is a command of the script.  *)
(* A signal is served between two commands, as bash does.  The vLLM        *)
(* servers boot, crash and answer on their own; any of them that is up     *)
(* answers on the one port.                                                *)
(***************************************************************************)
EXTENDS Integers, Sequences, FiniteSets

CONSTANTS
  Drivers,         \* executions of a queue script
  Script,          \* the script of each: "noise" or "ladder"
  Repeats,         \* REPEATS
  MaxConsecSkip,   \* MAX_CONSEC_SKIP
  MaxSignals       \* a bound: signals sent to drivers

ASSUME QueueAssumption ==
  /\ Script \in [Drivers -> {"noise", "ladder"}]
  /\ Repeats \in Nat \ {0} /\ MaxConsecSkip \in Nat \ {0} /\ MaxSignals \in Nat

VARIABLES
  pc,        \* the next command of each driver
  at,        \* cfg, rep, att: the attempt a driver is at
  skips,     \* consec_skip
  clean,     \* clean_A and clean_J, or CLEAN
  outcome,   \* what the queue log says of each repeat: "none", "clean" or "skip"
  stopping,  \* STOPPING
  signalled, \* a signal waits for the current command to end
  locked,    \* the drivers whose flock succeeded
  sampler,   \* thermal_sample.sh: "none", "on" or, its last sleep left behind, "sleep"
  server,    \* the server a driver has started
  granted,   \* the KV pool in the server log of the attempt: "none", "published" or "other"
  pid,       \* the attempt has a pid file that names its server
  stage,     \* the stage directory of the current attempt
  results,   \* the files with canonical names, for each tag
  signals    \* signals sent so far

driver  == <<at, skips, clean, outcome>>
shell   == <<stopping, signalled, signals>>
machine == <<locked, sampler>>
files   == <<stage, results>>
log     == <<granted, pid>>
servers == <<server, log>>
vars    == <<pc, driver, shell, machine, files, servers>>

-----------------------------------------------------------------------------
Scripts == {"noise", "ladder"}
Configs == {1, 2}                    \* A and J, or K and C
Tags    == Scripts \X Configs \X (0..Repeats)
Nothing == [by |-> "nobody"]

Tag(d) == <<Script[d], at[d].cfg, at[d].rep>>

\* The first attempt of the discarded warm-up, attempt A 0 1.
WarmUp == [cfg |-> 1, rep |-> 0, att |-> 1]

\* Mutant of Following: the inner loop does not end.
FollowingConfig(a) == [cfg |-> a.cfg + 1, rep |-> a.rep, att |-> 1]

\* for rep in ... for cfg in ...: the repeat that follows.
Following(a) ==
  IF a.rep = 0 \/ a.cfg = 2 THEN [cfg |-> 1, rep |-> a.rep + 1, att |-> 1]
  ELSE [cfg |-> 2, rep |-> a.rep, att |-> 1]

Over == {"off", "refused", "killed", "exited"}

\* File descriptor 9 is inherited by what a driver starts in the background, so
\* these keep its lock: the driver itself, the sampler or its last sleep, and
\* the server.
Keeps(d) ==
  d \in locked /\ (pc[d] \notin Over \/ sampler[d] # "none" \/ server[d] \in {"booting", "up"})

\* Mutant of LockHeld: a driver that cleans up has given the lock back.
LockHeldInLoop(k) ==
  \E d \in Drivers : Script[d] = k /\ Keeps(d) /\ pc[d] \notin Over \cup {"cleanup", "last_stop"}

\* Each script has a lock file of its own.
LockHeld(k) == \E d \in Drivers : Script[d] = k /\ Keeps(d)

Init ==
  /\ pc = [d \in Drivers |-> "off"]
  /\ at = [d \in Drivers |-> WarmUp]
  /\ skips = [d \in Drivers |-> 0]
  /\ clean = [d \in Drivers |-> [c \in Configs |-> 0]]
  /\ outcome = [d \in Drivers |-> [t \in Configs \X (1..Repeats) |-> "none"]]
  /\ stopping = [d \in Drivers |-> FALSE] /\ signalled = [d \in Drivers |-> FALSE]
  /\ signals = 0
  /\ locked = {} /\ sampler = [d \in Drivers |-> "none"]
  /\ stage = [d \in Drivers |-> Nothing]
  /\ results = [t \in Tags |-> [summary |-> Nothing, dump |-> Nothing]]
  /\ server = [d \in Drivers |-> "none"] /\ granted = [d \in Drivers |-> "none"]
  /\ pid = [d \in Drivers |-> FALSE]

\* The next command is the one at p: no signal is waiting.
AtCommand(d, p)  == pc[d] = p /\ ~signalled[d]
Goto(d, p) == pc' = [pc EXCEPT ![d] = p]

-----------------------------------------------------------------------------
(* The head of the script: lock, sampler, traps.                           *)

Start(d) ==
  /\ pc[d] = "off"
  /\ IF LockHeld(Script[d])
     THEN Goto(d, "refused") /\ UNCHANGED locked
     ELSE Goto(d, "sampler") /\ locked' = locked \cup {d}
  /\ UNCHANGED <<driver, shell, sampler, files, servers>>

\* thermal_sample.sh, in the background.
StartSampler(d) ==
  /\ AtCommand(d, "sampler")
  /\ sampler' = [sampler EXCEPT ![d] = "on"]
  /\ Goto(d, "trap")
  /\ UNCHANGED <<driver, shell, locked, files, servers>>

\* From here on a signal runs on_signal.
SetTraps(d) ==
  /\ AtCommand(d, "trap")
  /\ Goto(d, "stop")
  /\ UNCHANGED <<driver, shell, machine, files, servers>>

-----------------------------------------------------------------------------
(* attempt cfg rep att.                                                    *)

\* stop_server.sh kills every server on the machine, whoever started it.
AllStopped == server' = [e \in Drivers |-> "none"]

\* An attempt has a log and a pid file of its own, and removes them when it has copied
\* the log.
NoLog(d) ==
  /\ granted' = [granted EXCEPT ![d] = "none"]
  /\ pid' = [pid EXCEPT ![d] = FALSE]

StopBefore(d) ==
  /\ AtCommand(d, "stop")
  /\ AllStopped /\ NoLog(d)
  /\ stage' = [stage EXCEPT ![d] = Nothing]
  /\ Goto(d, "drain")
  /\ UNCHANGED <<driver, shell, machine, results>>

\* strict_drain: memory is below DRAIN_MIB, so nobody's server holds any.
Drained(d) ==
  /\ AtCommand(d, "drain")
  /\ \A e \in Drivers : server[e] = "none"
  /\ Goto(d, "serve")
  /\ UNCHANGED <<driver, shell, machine, files, servers>>

\* FAIL_DRAIN, whatever holds the memory.
DrainFails(d) ==
  /\ AtCommand(d, "drain")
  /\ Goto(d, "dirty")
  /\ UNCHANGED <<driver, shell, machine, files, servers>>

\* serve_generic.sh starts the server in the background and writes its pid file.
Serve(d) ==
  /\ AtCommand(d, "serve")
  /\ server' = [server EXCEPT ![d] = "booting"]
  /\ pid' = [pid EXCEPT ![d] = TRUE]
  /\ Goto(d, "wait")
  /\ UNCHANGED <<driver, shell, machine, files, granted>>

\* FAIL_NO_PID: serve_generic.sh has failed before the start of the server, or after it,
\* at its pid file.  The attempt is given up, and whatever runs goes on running.
NoPid(d) ==
  /\ AtCommand(d, "serve")
  /\ server' \in {[server EXCEPT ![d] = s] : s \in {"none", "booting"}}
  /\ Goto(d, "dirty")
  /\ UNCHANGED <<driver, shell, machine, files, log>>

\* wait_ready.sh asks the port first, then the process, then the clock.
Ready(d) ==
  /\ AtCommand(d, "wait")
  /\ \E e \in Drivers : server[e] = "up"
  /\ Goto(d, "pool")
  /\ UNCHANGED <<driver, shell, machine, files, servers>>

\* FAIL_STARTUP: SERVER_DIED, or TIMEOUT, which may come at any time.
NotReady(d) ==
  /\ AtCommand(d, "wait")
  /\ \A e \in Drivers : server[e] # "up"
  /\ Goto(d, "stop_dirty")
  /\ UNCHANGED <<driver, shell, machine, files, servers>>

\* Mutant of PoolAsserted: recorded, not asserted.
PoolRecorded(d) == granted[d] # "none"

\* [ "$pool" != "$want" ], with the pool from the log of the driver's own server.
PoolAsserted(d) == granted[d] = "published"

CheckPool(d) ==
  /\ AtCommand(d, "pool")
  /\ Goto(d, IF PoolAsserted(d) THEN "bench" ELSE "stop_dirty")
  /\ UNCHANGED <<driver, shell, machine, files, servers>>

\* The bench fails, or talks to the server that is up until it has all answers.
Bench(d) ==
  /\ AtCommand(d, "bench")
  /\ \/ UNCHANGED stage
     \/ \E e \in Drivers :
          /\ server[e] = "up"
          /\ stage' = [stage EXCEPT ![d] =
                        [by |-> d, att |-> at[d].att, own |-> e = d, pool |-> granted[d]]]
  /\ Goto(d, "stop_after")
  /\ UNCHANGED <<driver, shell, machine, results, servers>>

StopAfter(d) ==
  /\ AtCommand(d, "stop_after")
  /\ AllStopped /\ NoLog(d)
  /\ Goto(d, "gate")
  /\ UNCHANGED <<driver, shell, machine, files>>

\* A failed start or a wrong pool: stop the server, then give up the attempt.
StopDirty(d) ==
  /\ AtCommand(d, "stop_dirty")
  /\ AllStopped
  /\ Goto(d, "dirty")
  /\ UNCHANGED <<driver, shell, machine, files, log>>

\* The cleanliness gate: exit code, log and summary of the bench.
GatePassed(d) ==
  /\ AtCommand(d, "gate") /\ stage[d] # Nothing
  /\ Goto(d, "mv_summary")
  /\ UNCHANGED <<driver, shell, machine, files, servers>>

GateFailed(d) ==
  /\ AtCommand(d, "gate")
  /\ Goto(d, "dirty")
  /\ UNCHANGED <<driver, shell, machine, files, servers>>

\* Promotion, one mv after the other.
MoveSummary(d) ==
  /\ AtCommand(d, "mv_summary")
  /\ results' = [results EXCEPT ![Tag(d)].summary = stage[d]]
  /\ Goto(d, "mv_dump")
  /\ UNCHANGED <<driver, shell, machine, stage, servers>>

MoveDump(d) ==
  /\ AtCommand(d, "mv_dump")
  /\ results' = [results EXCEPT ![Tag(d)].dump = stage[d]]
  /\ Goto(d, "clean")
  /\ UNCHANGED <<driver, shell, machine, stage, servers>>

-----------------------------------------------------------------------------
(* The main queue.                                                         *)

\* The warm-up is over, clean or dirty, and enters no count.
WarmedUp(d) ==
  /\ AtCommand(d, "clean") \/ AtCommand(d, "dirty")
  /\ at[d].rep = 0
  /\ at' = [at EXCEPT ![d] = Following(@)]
  /\ Goto(d, "next")
  /\ UNCHANGED <<skips, clean, outcome, shell, machine, files, servers>>

\* Mutant of Clean: a clean attempt does not break the loop over att.
CleanAgain(d) ==
  /\ AtCommand(d, "clean") /\ at[d].rep > 0
  /\ skips' = [skips EXCEPT ![d] = 0]
  /\ clean' = [clean EXCEPT ![d][at[d].cfg] = @ + 1]
  /\ outcome' = [outcome EXCEPT ![d][<<at[d].cfg, at[d].rep>>] = "clean"]
  /\ at' = [at EXCEPT ![d] = IF @.att = 1 THEN [@ EXCEPT !.att = 2] ELSE Following(@)]
  /\ Goto(d, IF at[d].att = 1 THEN "stop" ELSE "next")
  /\ UNCHANGED <<shell, machine, files, servers>>

Clean(d) ==
  /\ AtCommand(d, "clean") /\ at[d].rep > 0
  /\ skips' = [skips EXCEPT ![d] = 0]
  /\ clean' = [clean EXCEPT ![d][at[d].cfg] = @ + 1]
  /\ outcome' = [outcome EXCEPT ![d][<<at[d].cfg, at[d].rep>>] = "clean"]
  /\ at' = [at EXCEPT ![d] = Following(@)]
  /\ Goto(d, "next")
  /\ UNCHANGED <<shell, machine, files, servers>>

\* Mutant of Retry: att is not counted.
RetryForever(d) ==
  /\ AtCommand(d, "dirty") /\ at[d].rep > 0 /\ at[d].att = 1
  /\ Goto(d, "stop")
  /\ UNCHANGED <<driver, shell, machine, files, servers>>

Retry(d) ==
  /\ AtCommand(d, "dirty") /\ at[d].rep > 0 /\ at[d].att = 1
  /\ at' = [at EXCEPT ![d].att = 2]
  /\ Goto(d, "stop")
  /\ UNCHANGED <<skips, clean, outcome, shell, machine, files, servers>>

\* SKIP, and BREAKER at MAX_CONSEC_SKIP in a row.
SkipRepeat(d) ==
  /\ AtCommand(d, "dirty") /\ at[d].rep > 0 /\ at[d].att = 2
  /\ skips' = [skips EXCEPT ![d] = @ + 1]
  /\ outcome' = [outcome EXCEPT ![d][<<at[d].cfg, at[d].rep>>] = "skip"]
  /\ at' = [at EXCEPT ![d] = Following(@)]
  /\ Goto(d, IF skips[d] + 1 >= MaxConsecSkip THEN "cleanup" ELSE "next")
  /\ UNCHANGED <<clean, shell, machine, files, servers>>

NextRepeat(d) ==
  /\ AtCommand(d, "next")
  /\ Goto(d, IF at[d].rep <= Repeats THEN "stop" ELSE "cleanup")
  /\ UNCHANGED <<driver, shell, machine, files, servers>>

\* Mutant of MayStopHere: ladder_queue.sh looks at the clock before every config.
MayStopAnywhere(d) == at[d].rep <= Repeats

\* Where a queue looks at the clock: ladder_queue.sh before a pair.
MayStopHere(d) ==
  /\ at[d].rep <= Repeats
  /\ Script[d] = "ladder" => at[d].cfg = 1

Deadline(d) ==
  /\ AtCommand(d, "next") /\ MayStopHere(d)
  /\ Goto(d, "cleanup")
  /\ UNCHANGED <<driver, shell, machine, files, servers>>

-----------------------------------------------------------------------------
(* The end: cleanup(), as the EXIT trap or from on_signal.                 *)

\* Mutants of Cleanup: the server is not stopped; the sampler is not killed.
CleanupLeavesServer(d) ==
  /\ AtCommand(d, "cleanup")
  /\ stopping' = [stopping EXCEPT ![d] = TRUE]
  /\ sampler' = [sampler EXCEPT ![d] = "sleep"]
  /\ Goto(d, "exited")
  /\ UNCHANGED <<driver, signalled, signals, locked, files, servers>>
CleanupLeavesSampler(d) ==
  /\ AtCommand(d, "cleanup")
  /\ stopping' = [stopping EXCEPT ![d] = TRUE]
  /\ Goto(d, "last_stop")
  /\ UNCHANGED <<driver, signalled, signals, machine, files, servers>>

\* kill "$THERMPID" ends the sampler's shell; the sleep it waits for goes on.
Cleanup(d) ==
  /\ AtCommand(d, "cleanup")
  /\ stopping' = [stopping EXCEPT ![d] = TRUE]
  /\ sampler' = [sampler EXCEPT ![d] = "sleep"]
  /\ Goto(d, "last_stop")
  /\ UNCHANGED <<driver, signalled, signals, locked, files, servers>>

LastStop(d) ==
  /\ AtCommand(d, "last_stop")
  /\ AllStopped
  /\ Goto(d, "exited")
  /\ UNCHANGED <<driver, shell, machine, files, log>>

\* INT or TERM: the shell dies of it before its traps are set.
Signal(d) ==
  /\ signals < MaxSignals /\ pc[d] \notin Over
  /\ signals' = signals + 1
  /\ IF pc[d] \in {"sampler", "trap"}
     THEN Goto(d, "killed") /\ UNCHANGED signalled
     ELSE signalled' = [signalled EXCEPT ![d] = TRUE] /\ UNCHANGED pc
  /\ UNCHANGED <<driver, stopping, machine, files, servers>>

\* on_signal: cleanup returns at once if it has been entered before, then exit.
OnSignal(d) ==
  /\ pc[d] \notin Over /\ signalled[d]
  /\ signalled' = [signalled EXCEPT ![d] = FALSE]
  /\ Goto(d, IF stopping[d] THEN "exited" ELSE "cleanup")
  /\ UNCHANGED <<driver, stopping, signals, machine, files, servers>>

-----------------------------------------------------------------------------
(* The machine.                                                            *)

\* A server logs the pool it was granted and answers on the port, if it is free.
BootDone(d) ==
  /\ server[d] = "booting"
  /\ \A e \in Drivers : server[e] # "up"
  /\ server' = [server EXCEPT ![d] = "up"]
  /\ granted' \in {[granted EXCEPT ![d] = p] : p \in {"published", "other"}}
  /\ UNCHANGED <<pc, driver, shell, machine, files, pid>>

\* A server dies; its workers may keep the memory.
Crash(d) ==
  /\ server[d] \in {"booting", "up"}
  /\ server' \in {[server EXCEPT ![d] = s] : s \in {"none", "orphan"}}
  /\ UNCHANGED <<pc, driver, shell, machine, files, log>>

SleepEnds(d) ==
  /\ sampler[d] = "sleep"
  /\ sampler' = [sampler EXCEPT ![d] = "none"]
  /\ UNCHANGED <<pc, driver, shell, locked, files, servers>>

-----------------------------------------------------------------------------
Attempt(d) ==
  \/ StopBefore(d) \/ Drained(d) \/ DrainFails(d) \/ Serve(d) \/ NoPid(d)
  \/ Ready(d) \/ NotReady(d) \/ CheckPool(d) \/ Bench(d) \/ StopAfter(d) \/ StopDirty(d)
  \/ GatePassed(d) \/ GateFailed(d) \/ MoveSummary(d) \/ MoveDump(d)

Command(d) ==
  \/ StartSampler(d) \/ SetTraps(d) \/ Attempt(d) \/ WarmedUp(d) \/ Clean(d)
  \/ Retry(d) \/ SkipRepeat(d) \/ NextRepeat(d) \/ Deadline(d)
  \/ Cleanup(d) \/ LastStop(d) \/ OnSignal(d)

Next ==
  \E d \in Drivers :
    \/ Start(d) \/ Command(d) \/ Signal(d)
    \/ BootDone(d) \/ Crash(d) \/ SleepEnds(d)

Spec == Init /\ [][Next]_vars

\* A script that runs goes on to its next command: every command it waits for is
\* bounded by a number of polls or by timeout(1).  A sleep ends.
FairSpec ==
  /\ Spec
  /\ \A d \in Drivers : WF_vars(Command(d)) /\ WF_vars(SleepEnds(d))

-----------------------------------------------------------------------------
(* Properties.                                                             *)

Commands ==
  {"sampler", "trap", "stop", "drain", "serve", "wait", "pool", "bench",
   "stop_after", "stop_dirty", "gate", "mv_summary", "mv_dump", "clean",
   "dirty", "next", "cleanup", "last_stop"}

Measured ==
  [by : Drivers, att : {1, 2}, own : BOOLEAN, pool : {"none", "published", "other"}]
    \cup {Nothing}

\* The type invariant: every variable of the scripts and every file keeps its type,
\* and no driver is ever at a repeat that the plan does not have.
TypeOK ==
  /\ pc \in [Drivers -> Commands \cup Over]
  /\ at \in [Drivers -> [cfg : Configs, rep : 0..(Repeats + 1), att : {1, 2}]]
  /\ skips \in [Drivers -> 0..MaxConsecSkip]
  /\ clean \in [Drivers -> [Configs -> Nat]]
  /\ outcome \in [Drivers -> [Configs \X (1..Repeats) -> {"none", "clean", "skip"}]]
  /\ stopping \in [Drivers -> BOOLEAN] /\ signalled \in [Drivers -> BOOLEAN]
  /\ locked \subseteq Drivers /\ sampler \in [Drivers -> {"none", "on", "sleep"}]
  /\ server \in [Drivers -> {"none", "booting", "up", "orphan"}]
  /\ granted \in [Drivers -> {"none", "published", "other"}] /\ pid \in [Drivers -> BOOLEAN]
  /\ stage \in [Drivers -> Measured]
  /\ results \in [Tags -> [summary : Measured, dump : Measured]]
  /\ signals \in 0..MaxSignals

\* The commands between which a driver relies on being alone with the server.
AtServer(d) ==
  pc[d] \in {"stop", "drain", "serve", "wait", "pool", "bench", "stop_after",
             "stop_dirty", "last_stop"}

\* "two drivers would fight over port 8000": no two drivers start and stop servers
\* at a time, not even when one is on its way out.
OneAtTheServer ==
  \A d, e \in Drivers : AtServer(d) /\ AtServer(e) => d = e

\* A result with a canonical name was measured on the server its own attempt has
\* started, and that server had the pool that was published for the config: through
\* failed starts, crashes, retries, signals and restarts of the queue.
PromotedIsClean ==
  \A t \in Tags : \A f \in {results[t].summary, results[t].dump} :
    f # Nothing => f.own /\ f.pool = "published"

\* What a queue reports is what it did: its counts are its clean repeats, a repeat is
\* not attempted again once it is settled, and repeats are settled in order.
CountsMatch ==
  \A d \in Drivers :
    /\ \A c \in Configs :
         clean[d][c] = Cardinality({r \in 1..Repeats : outcome[d][<<c, r>>] = "clean"})
    /\ AtServer(d) /\ pc[d] # "last_stop" /\ at[d].rep > 0 =>
         outcome[d][<<at[d].cfg, at[d].rep>>] = "none"
    /\ \A r \in 1..Repeats :
         /\ outcome[d][<<1, r>>] = "none" => outcome[d][<<2, r>>] = "none"
         /\ r > 1 /\ outcome[d][<<2, r - 1>>] = "none" => outcome[d][<<1, r>>] = "none"

\* A queue that has exited with a server of its own left was signalled twice, the second
\* time in its cleanup; but once is enough, in its cleanup, where its last attempt was
\* given up with FAIL_NO_PID: no other exit of an attempt leaves the server to cleanup.
NoServerLeft ==
  \A d \in Drivers : pc[d] = "exited" /\ server[d] # "none" =>
    signals >= (IF pid[d] THEN 2 ELSE 1)

\* The deadline of the ladder lets the pair in flight finish: both configs of a
\* repeat have been settled, or neither.
PairFinished ==
  [][\A d \in Drivers : Script[d] = "ladder" /\ Deadline(d) =>
       \A r \in 1..Repeats :
         outcome[d][<<1, r>>] = "none" <=> outcome[d][<<2, r>>] = "none"]_vars

\* A queue is never blocked: whatever fails, it ends.
Ends == \A d \in Drivers : pc[d] # "off" ~> pc[d] \in Over

\* The lock of a queue that has stopped its server is free in the end, although the
\* sleep its sampler was in goes on and has inherited it.
LockGivenBack ==
  \A d \in Drivers : pc[d] = "exited" /\ server[d] = "none" ~> ~Keeps(d)

\* Who is refused is refused because another execution of the script is running.
RefusedByAnother ==
  [][\A d \in Drivers : pc[d] # "refused" /\ pc'[d] = "refused" =>
       \E e \in Drivers \ {d} : Script[e] = Script[d] /\ pc[e] \notin Over]_vars

\* Every promoted run has its per-request dump, unless it is being promoted.
DumpForEveryRun ==
  \A t \in Tags : results[t].summary # Nothing =>
    \/ results[t].dump # Nothing
    \/ \E d \in Drivers : pc[d] \in {"mv_dump"} /\ ~signalled[d] /\ Tag(d) = t
=============================================================================
