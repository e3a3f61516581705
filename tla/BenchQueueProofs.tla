-------------------------- MODULE BenchQueueProofs --------------------------
(***************************************************************************)
(* Theorems about BenchQueue, for any number of executions of either       *)
(* script, any number of repeats and any breaker.                          *)
(***************************************************************************)
EXTENDS BenchQueue, FiniteSetTheorems, TLAPS

\* The commands of an attempt and what follows its end, and those after which a
\* driver counts nothing any more.
Attempting == {"stop", "drain", "serve", "wait", "pool", "bench", "stop_after", "stop_dirty",
               "gate", "mv_summary", "mv_dump", "clean", "dirty"}
Ending     == {"cleanup", "last_stop", "refused", "killed", "exited"}

Pcs        == Commands \cup Over

\* Where a driver is in its plan: the breaker has not struck while it goes on, and no
\* attempt is beyond the last repeat.
InPlan ==
  \A d \in Drivers :
    /\ pc[d] \notin Ending => skips[d] < MaxConsecSkip
    /\ pc[d] \in {"off", "sampler", "trap"} => at[d] = WarmUp
    /\ pc[d] \in Attempting => at[d].rep <= Repeats
    /\ at[d].rep = 0 => at[d].cfg = 1

\* Who holds the lock of a script: one of its executions at most, and everyone that has
\* got past flock.
LockHolder ==
  /\ \A d, e \in Drivers : Script[d] = Script[e] /\ Keeps(d) /\ Keeps(e) => d = e
  /\ \A d \in Drivers : pc[d] \notin {"off", "refused"} => d \in locked

\* From the first stop to the last of an attempt there is no server but the driver's own;
\* once that has answered its pool stays, and what the bench leaves is of that server.
OwnServerAt(d) ==
  /\ pc[d] \in {"drain", "serve", "wait", "pool", "bench", "stop_after"} =>
       \A e \in Drivers : e # d => server[e] = "none"
  /\ pc[d] \in {"drain", "serve"} => server[d] = "none"
  /\ pc[d] \in {"pool", "bench"} => server[d] # "booting"
  /\ pc[d] = "bench" => granted[d] = "published"
OwnServer == \A d \in Drivers : OwnServerAt(d)

CleanResult(f) == f # Nothing => f.own /\ f.pool = "published"
CleanFiles ==
  /\ \A d \in Drivers : CleanResult(stage[d])
  /\ \A t \in Tags : CleanResult(results[t].summary) /\ CleanResult(results[t].dump)

\* What is settled is what comes before the attempt a driver is at, and clean counts it.
Comes(a, c, r) == r > a.rep \/ (r = a.rep /\ c >= a.cfg)
CleanRepeats(d, c) == {r \in 1..Repeats : outcome[d][<<c, r>>] = "clean"}
Settled ==
  \A d \in Drivers : \A c \in Configs :
    /\ \A r \in 1..Repeats : outcome[d][<<c, r>>] = "none" <=> Comes(at[d], c, r)
    /\ clean[d][c] = Cardinality(CleanRepeats(d, c))

\* A server that a pid file names runs outside an attempt only if a signal has cut the
\* attempt short, and survives the cleanup only if a second one has cut that short too; one
\* that is not named survives the cleanup only if a signal has cut that short.
SignalsCostAt(d) ==
  /\ server[d] # "none" /\ pid[d] =>
       pc[d] \in {"wait", "pool", "bench", "stop_after", "stop_dirty", "cleanup", "last_stop", "exited"}
  /\ pc[d] \in {"drain", "serve"} => ~pid[d]
  /\ stopping[d] => pc[d] \in {"last_stop", "exited"}
  /\ signalled[d] => signals >= 1
  /\ server[d] # "none" /\ pid[d] /\ pc[d] \in {"cleanup", "last_stop"} =>
       signals >= 2 \/ (signals >= 1 /\ ~signalled[d])
  /\ server[d] # "none" /\ pc[d] = "exited" => signals >= (IF pid[d] THEN 2 ELSE 1)
SignalsCost == \A d \in Drivers : SignalsCostAt(d)

-----------------------------------------------------------------------------
LEMMA TypesInit == Init => TypeOK /\ InPlan
BY QueueAssumption
   DEF Init, TypeOK, InPlan, QueueAssumption, WarmUp, Nothing, Measured, Tags, Commands, Over,
       Ending, Attempting, Configs, Scripts

\* Of the variables of the shells, pc changes for one driver at most, to a label.
LEMMA PcStep ==
  ASSUME TypeOK, [Next]_vars
  PROVE  pc' \in [Drivers -> Pcs]
<1> USE DEF Pcs, TypeOK, Commands, Over, AtCommand, Goto
<1>1. ASSUME NEW d \in Drivers, NEW p \in Pcs, pc' = [pc EXCEPT ![d] = p] PROVE pc' \in [Drivers -> Pcs]
  BY <1>1
<1>2. ASSUME NEW d \in Drivers, Start(d) \/ StartSampler(d) \/ SetTraps(d) \/ Attempt(d)
      PROVE  \E p \in Pcs : pc' = [pc EXCEPT ![d] = p]
  BY <1>2
     DEF Start, StartSampler, SetTraps, Attempt, StopBefore, Drained, DrainFails, Serve, NoPid, NoLog, Ready, NotReady,
         CheckPool, Bench, StopAfter, StopDirty, GatePassed, GateFailed, MoveSummary, MoveDump
<1>3. ASSUME NEW d \in Drivers,
             WarmedUp(d) \/ Clean(d) \/ Retry(d) \/ SkipRepeat(d) \/ NextRepeat(d) \/ Deadline(d)
             \/ Cleanup(d) \/ LastStop(d) \/ OnSignal(d)
      PROVE  \E p \in Pcs : pc' = [pc EXCEPT ![d] = p]
  BY <1>3
     DEF WarmedUp, Clean, Retry, SkipRepeat, NextRepeat, Deadline, Cleanup, LastStop, OnSignal
<1>4. ASSUME NEW d \in Drivers, Signal(d) \/ BootDone(d) \/ Crash(d) \/ SleepEnds(d)
      PROVE  UNCHANGED pc \/ \E p \in Pcs : pc' = [pc EXCEPT ![d] = p]
  BY <1>4 DEF Signal, BootDone, Crash, SleepEnds
<1>5. CASE UNCHANGED vars
  BY <1>5 DEF vars
<1> HIDE DEF Pcs, Commands, Over, AtCommand, Goto
<1> QED
  BY <1>1, <1>2, <1>3, <1>4, <1>5 DEF Next, Command, Pcs

\* So does pid, to a truth value.
LEMMA PidStep ==
  ASSUME TypeOK, [Next]_vars
  PROVE  pid' \in [Drivers -> BOOLEAN]
<1> USE DEF log, servers, NoLog
<1>1. ASSUME NEW d \in Drivers,
             \/ Start(d) \/ StartSampler(d) \/ SetTraps(d) \/ Attempt(d) \/ WarmedUp(d) \/ Clean(d) \/ Retry(d)
             \/ SkipRepeat(d) \/ NextRepeat(d) \/ Deadline(d) \/ Cleanup(d) \/ LastStop(d) \/ OnSignal(d)
             \/ Signal(d) \/ BootDone(d) \/ Crash(d) \/ SleepEnds(d)
      PROVE  pid' = pid \/ pid' = [pid EXCEPT ![d] = TRUE] \/ pid' = [pid EXCEPT ![d] = FALSE]
  BY <1>1
     DEF Start, StartSampler, SetTraps, Attempt, StopBefore, Drained, DrainFails, Serve, NoPid, Ready, NotReady,
         CheckPool, Bench, StopAfter, StopDirty, GatePassed, GateFailed, MoveSummary, MoveDump,
         WarmedUp, Clean, Retry, SkipRepeat, NextRepeat, Deadline, Cleanup, LastStop, OnSignal,
         Signal, BootDone, Crash, SleepEnds
<1>2. pid \in [Drivers -> BOOLEAN]
  BY DEF TypeOK
<1>3. CASE UNCHANGED vars
  BY <1>2, <1>3 DEF vars
<1>4. ASSUME NEW d \in Drivers, pid' = [pid EXCEPT ![d] = TRUE] PROVE pid' \in [Drivers -> BOOLEAN]
  BY <1>2, <1>4, Zenon
<1>5. ASSUME NEW d \in Drivers, pid' = [pid EXCEPT ![d] = FALSE] PROVE pid' \in [Drivers -> BOOLEAN]
  BY <1>2, <1>5, Zenon
<1> QED
  BY <1>1, <1>2, <1>3, <1>4, <1>5 DEF Next, Command

LEMMA TypesStep == TypeOK /\ InPlan /\ [Next]_vars => TypeOK'
<1> SUFFICES ASSUME TypeOK, InPlan, [Next]_vars PROVE TypeOK'
  OBVIOUS
<1> USE QueueAssumption
    DEF QueueAssumption, driver, shell, machine, files, servers, log, NoLog, AtCommand, Goto, AllStopped, Pcs
<1>0. pc' \in [Drivers -> Pcs] /\ pid' \in [Drivers -> BOOLEAN]
  BY PcStep, PidStep
<1>1. ASSUME NEW d \in Drivers, Start(d) PROVE TypeOK'
  <2>1. locked' \subseteq Drivers
    BY <1>1 DEF Start, TypeOK
  <2>2. UNCHANGED <<driver, shell, sampler, files, servers>>
    BY <1>1 DEF Start
  <2> QED
    BY <1>0, <2>1, <2>2 DEF TypeOK
<1>2. ASSUME NEW d \in Drivers, StartSampler(d) \/ SetTraps(d) PROVE TypeOK'
  BY <1>0, <1>2 DEF StartSampler, SetTraps, TypeOK
<1>3. ASSUME NEW d \in Drivers, StopBefore(d) PROVE TypeOK'
  BY <1>0, <1>3 DEF StopBefore, Measured, TypeOK
<1>4. ASSUME NEW d \in Drivers, Drained(d) \/ DrainFails(d) \/ Ready(d) \/ NotReady(d) PROVE TypeOK'
  BY ZenonT(40), <1>0, <1>4 DEF Drained, DrainFails, Ready, NotReady, TypeOK
<1>5. ASSUME NEW d \in Drivers, Serve(d) \/ NoPid(d) \/ StopAfter(d) \/ StopDirty(d) \/ LastStop(d) PROVE TypeOK'
  <2>1. CASE Serve(d)
    BY <1>0, <2>1 DEF Serve, TypeOK
  <2>2. CASE NoPid(d)
    <3>1. PICK x \in {"none", "booting"} : server' = [server EXCEPT ![d] = x]
      BY <2>2 DEF NoPid
    <3> QED
      BY <1>0, <2>2, <3>1 DEF NoPid, TypeOK
  <2>3. CASE StopAfter(d)
    BY <1>0, <2>3 DEF StopAfter, TypeOK
  <2>4. CASE StopDirty(d)
    BY <1>0, <2>4 DEF StopDirty, TypeOK
  <2>5. CASE LastStop(d)
    BY <1>0, <2>5 DEF LastStop, TypeOK
  <2> QED
    BY <1>5, <2>1, <2>2, <2>3, <2>4, <2>5
<1>6. ASSUME NEW d \in Drivers, CheckPool(d) \/ GatePassed(d) \/ GateFailed(d) PROVE TypeOK'
  BY <1>0, <1>6 DEF CheckPool, GatePassed, GateFailed, TypeOK
<1>7. ASSUME NEW d \in Drivers, Bench(d) PROVE TypeOK'
  <2>1. ASSUME NEW e \in Drivers
        PROVE  [by |-> d, att |-> at[d].att, own |-> e = d, pool |-> granted[d]] \in Measured
    BY DEF TypeOK, Measured
  <2>2. stage' \in [Drivers -> Measured]
    BY ZenonT(40), <1>7, <2>1 DEF Bench, TypeOK
  <2> QED
    BY <1>0, <1>7, <2>2 DEF Bench, TypeOK
<1>8. ASSUME NEW d \in Drivers, MoveSummary(d) \/ MoveDump(d) PROVE TypeOK'
  <2> DEFINE R == [summary : Measured, dump : Measured]
  <2>1. stage[d] \in Measured /\ results \in [Tags -> R]
    BY DEF TypeOK
  <2>2. ASSUME NEW t \in Tags
        PROVE  [results[t] EXCEPT !.summary = stage[d]] \in R /\ [results[t] EXCEPT !.dump = stage[d]] \in R
    BY <2>1
  <2>3. results' \in [Tags -> R]
    <3> HIDE DEF R
    <3> QED
      BY ZenonT(40), <1>8, <2>1, <2>2 DEF MoveSummary, MoveDump
  <2> QED
    BY ZenonT(40), <1>0, <1>8, <2>3 DEF MoveSummary, MoveDump, TypeOK
<1>9. ASSUME NEW d \in Drivers, WarmedUp(d) \/ Clean(d) \/ SkipRepeat(d) PROVE TypeOK'
  <2> DEFINE A == [cfg : Configs, rep : 0..(Repeats + 1), att : {1, 2}]
  <2>1. pc[d] \in {"clean", "dirty"}
    BY <1>9 DEF WarmedUp, Clean, SkipRepeat
  <2>2. at[d] \in A /\ at[d].rep <= Repeats /\ skips[d] < MaxConsecSkip
    BY <2>1 DEF TypeOK, InPlan, Attempting, Ending, Over
  <2>3. Following(at[d]) \in A
    BY <2>2 DEF Following, Configs
  <2>4. at' = [at EXCEPT ![d] = Following(@)]
    BY <1>9 DEF WarmedUp, Clean, SkipRepeat
  <2>5. at' \in [Drivers -> A]
    <3> HIDE DEF A
    <3> QED
      BY <2>3, <2>4 DEF TypeOK, A
  <2>6. skips' \in [Drivers -> 0..MaxConsecSkip]
    <3>1. skips' = skips \/ skips' = [skips EXCEPT ![d] = 0] \/ skips' = [skips EXCEPT ![d] = @ + 1]
      BY <1>9 DEF WarmedUp, Clean, SkipRepeat
    <3>2. skips \in [Drivers -> 0..MaxConsecSkip]
      BY DEF TypeOK
    <3>3. skips[d] + 1 \in 0..MaxConsecSkip
      BY <2>2, <3>2
    <3> QED
      BY <3>1, <3>2, <3>3
  <2>7. clean' \in [Drivers -> [Configs -> Nat]]
    <3>1. clean[d] \in [Configs -> Nat] /\ at[d].cfg \in Configs
      BY <2>2 DEF TypeOK
    <3>2. [clean[d] EXCEPT ![at[d].cfg] = @ + 1] \in [Configs -> Nat]
      BY <3>1
    <3>3. clean' = clean \/ clean' = [clean EXCEPT ![d] = [clean[d] EXCEPT ![at[d].cfg] = @ + 1]]
      BY <1>9 DEF WarmedUp, Clean, SkipRepeat
    <3> QED
      BY <3>2, <3>3 DEF TypeOK
  <2>8. outcome' \in [Drivers -> [Configs \X (1..Repeats) -> {"none", "clean", "skip"}]]
    <3> DEFINE O == [Configs \X (1..Repeats) -> {"none", "clean", "skip"}]
    <3>1. outcome \in [Drivers -> O] /\ outcome[d] \in O
      BY DEF TypeOK
    <3>2. \A x \in {"clean", "skip"} : [outcome[d] EXCEPT ![<<at[d].cfg, at[d].rep>>] = x] \in O
      BY <3>1
    <3> HIDE DEF O
    <3>3. outcome' = outcome \/ \E x \in {"clean", "skip"} :
             outcome' = [outcome EXCEPT ![d] = [outcome[d] EXCEPT ![<<at[d].cfg, at[d].rep>>] = x]]
      BY <1>9 DEF WarmedUp, Clean, SkipRepeat
    <3>4. outcome' \in [Drivers -> O]
      BY <3>1, <3>2, <3>3
    <3> QED
      BY <3>4 DEF O
  <2>9. UNCHANGED <<shell, machine, files, servers>>
    BY <1>9 DEF WarmedUp, Clean, SkipRepeat
  <2> HIDE <1>9
  <2> QED
    BY <1>0, <2>5, <2>6, <2>7, <2>8, <2>9 DEF TypeOK
<1>10. ASSUME NEW d \in Drivers, Retry(d) PROVE TypeOK'
  <2> DEFINE A == [cfg : Configs, rep : 0..(Repeats + 1), att : {1, 2}]
  <2>1. at[d] \in A
    BY DEF TypeOK
  <2>2. [at[d] EXCEPT !.att = 2] \in A
    BY <2>1
  <2>3. at' \in [Drivers -> A]
    <3> HIDE DEF A
    <3> QED
      BY <1>10, <2>2 DEF Retry, TypeOK, A
  <2> QED
    BY <1>0, <1>10, <2>3 DEF Retry, TypeOK
<1>11. ASSUME NEW d \in Drivers, NextRepeat(d) \/ Deadline(d) PROVE TypeOK'
  BY <1>0, <1>11 DEF NextRepeat, Deadline, TypeOK
<1>12. ASSUME NEW d \in Drivers, Cleanup(d) PROVE TypeOK'
  BY <1>0, <1>12 DEF Cleanup, TypeOK
<1>13. ASSUME NEW d \in Drivers, Signal(d) PROVE TypeOK'
  <2>1. signalled' = signalled \/ signalled' = [signalled EXCEPT ![d] = TRUE]
    BY <1>13 DEF Signal
  <2>2. signalled' \in [Drivers -> BOOLEAN]
    BY <2>1, Zenon DEF TypeOK
  <2>3. signals' \in 0..MaxSignals
    BY <1>13 DEF Signal, TypeOK
  <2> QED
    BY <1>0, <1>13, <2>2, <2>3 DEF Signal, TypeOK
<1>14. ASSUME NEW d \in Drivers, OnSignal(d) PROVE TypeOK'
  BY <1>0, <1>14 DEF OnSignal, TypeOK
<1>15. ASSUME NEW d \in Drivers, BootDone(d) PROVE TypeOK'
  <2>1. PICK p \in {"published", "other"} : granted' = [granted EXCEPT ![d] = p]
    BY <1>15 DEF BootDone
  <2> QED
    BY <1>0, <1>15, <2>1 DEF BootDone, TypeOK
<1>16. ASSUME NEW d \in Drivers, Crash(d) PROVE TypeOK'
  <2>1. PICK s \in {"none", "orphan"} : server' = [server EXCEPT ![d] = s]
    BY <1>16 DEF Crash
  <2> QED
    BY <1>0, <1>16, <2>1 DEF Crash, TypeOK
<1>17. ASSUME NEW d \in Drivers, SleepEnds(d) PROVE TypeOK'
  BY <1>0, <1>17 DEF SleepEnds, TypeOK
<1>18. CASE UNCHANGED vars
  BY <1>0, <1>18 DEF vars, TypeOK
<1> QED
  BY <1>1, <1>2, <1>3, <1>4, <1>5, <1>6, <1>7, <1>8, <1>9, <1>10, <1>11, <1>12, <1>13, <1>14, <1>15, <1>16, <1>17, <1>18
     DEF Next, Command, Attempt

\* A step that leaves the plan alone and sends one driver to p.
LEMMA QuietPlan ==
  ASSUME TypeOK, InPlan, NEW d \in Drivers, NEW p \in Pcs, pc' = [pc EXCEPT ![d] = p],
         UNCHANGED <<at, skips>>,
         p \in {"off", "sampler", "trap"} => at[d] = WarmUp,
         p \in Attempting => at[d].rep <= Repeats,
         p \notin Ending => skips[d] < MaxConsecSkip
  PROVE  InPlan'
<1> SUFFICES ASSUME NEW e \in Drivers
             PROVE  /\ pc'[e] \notin Ending => skips[e] < MaxConsecSkip
                    /\ pc'[e] \in {"off", "sampler", "trap"} => at[e] = WarmUp
                    /\ pc'[e] \in Attempting => at[e].rep <= Repeats
                    /\ at[e].rep = 0 => at[e].cfg = 1
  BY DEF InPlan
<1>1. pc'[e] = IF e = d THEN p ELSE pc[e]
  BY DEF TypeOK
<1> QED
  BY <1>1 DEF InPlan

LEMMA PlanStep == TypeOK /\ InPlan /\ [Next]_vars => InPlan'
<1> SUFFICES ASSUME TypeOK, InPlan, [Next]_vars PROVE InPlan'
  OBVIOUS
<1> USE DEF driver, AtCommand, Goto
<1>1. \A e \in Drivers :
        /\ pc[e] \in {"off", "sampler", "trap"} => at[e].rep = 0 /\ at[e] = WarmUp
        /\ pc[e] \in Attempting => at[e].rep <= Repeats
        /\ pc[e] \in Attempting \cup {"off", "sampler", "trap", "next"} => skips[e] < MaxConsecSkip
        /\ at[e].rep \in Nat
  <2> SUFFICES ASSUME NEW e \in Drivers
               PROVE  /\ pc[e] \in {"off", "sampler", "trap"} => at[e].rep = 0 /\ at[e] = WarmUp
                      /\ pc[e] \in Attempting => at[e].rep <= Repeats
                      /\ pc[e] \in Attempting \cup {"off", "sampler", "trap", "next"} => skips[e] < MaxConsecSkip
                      /\ at[e].rep \in Nat
    OBVIOUS
  <2>1. pc[e] \in {"off", "sampler", "trap"} => at[e].rep = 0 /\ at[e] = WarmUp
    BY DEF InPlan, WarmUp
  <2>2. pc[e] \in Attempting => at[e].rep <= Repeats
    BY DEF InPlan
  <2>3. pc[e] \in Attempting \cup {"off", "sampler", "trap", "next"} => pc[e] \notin Ending
    BY DEF Attempting, Ending
  <2>4. at[e].rep \in Nat
    BY DEF TypeOK
  <2> QED
    BY <2>1, <2>2, <2>3, <2>4 DEF InPlan
<1>2. ASSUME NEW d \in Drivers,
             Start(d) \/ StartSampler(d) \/ SetTraps(d) \/ Attempt(d) \/ NextRepeat(d) \/ Deadline(d)
             \/ Cleanup(d) \/ LastStop(d) \/ OnSignal(d)
      PROVE  InPlan'
  <2>1. PICK p \in Pcs :
          /\ pc' = [pc EXCEPT ![d] = p] /\ UNCHANGED <<at, skips>>
          /\ p \in {"off", "sampler", "trap"} => pc[d] \in {"off", "sampler", "trap"}
          /\ p \in Attempting => pc[d] \in Attempting \/ pc[d] = "trap" \/ (pc[d] = "next" /\ at[d].rep <= Repeats)
          /\ p \notin Ending => pc[d] \in Attempting \cup {"off", "sampler", "trap", "next"}
    BY <1>2
       DEF Start, StartSampler, SetTraps, Attempt, StopBefore, Drained, DrainFails, Serve, NoPid, NoLog, Ready, NotReady,
           CheckPool, Bench, StopAfter, StopDirty, GatePassed, GateFailed, MoveSummary, MoveDump,
           NextRepeat, Deadline, Cleanup, LastStop, OnSignal, Pcs, Commands, Over, Ending, Attempting
  <2>2. p \in {"off", "sampler", "trap"} => at[d] = WarmUp
    BY <1>1, <2>1
  <2>3. p \in Attempting => at[d].rep <= Repeats
    BY <1>1, <2>1, QueueAssumption DEF QueueAssumption
  <2>4. p \notin Ending => skips[d] < MaxConsecSkip
    BY <1>1, <2>1
  <2> QED
    BY <2>1, <2>2, <2>3, <2>4, QuietPlan
<1>3. ASSUME NEW d \in Drivers, WarmedUp(d) \/ Clean(d) \/ SkipRepeat(d) PROVE InPlan'
  <2> SUFFICES ASSUME NEW e \in Drivers
               PROVE  /\ pc'[e] \notin Ending => skips'[e] < MaxConsecSkip
                      /\ pc'[e] \in {"off", "sampler", "trap"} => at'[e] = WarmUp
                      /\ pc'[e] \in Attempting => at'[e].rep <= Repeats
                      /\ at'[e].rep = 0 => at'[e].cfg = 1
    BY DEF InPlan
  <2>1. CASE e # d
    BY <1>3, <2>1 DEF WarmedUp, Clean, SkipRepeat, TypeOK, InPlan
  <2>2. CASE e = d
    <3>1. pc[d] \in Attempting
      BY <1>3 DEF WarmedUp, Clean, SkipRepeat, Attempting
    <3>2. at'[d] = Following(at[d])
      BY <1>3 DEF WarmedUp, Clean, SkipRepeat, TypeOK
    <3>3. at'[d].rep # 0
      BY <1>1, <3>2, <1>3 DEF Following, WarmedUp, Clean, SkipRepeat
    <3>4. pc'[d] \in {"next", "cleanup"}
      BY <1>3 DEF WarmedUp, Clean, SkipRepeat, TypeOK
    <3>5. pc'[d] = "next" => skips'[d] < MaxConsecSkip
      BY <1>1, <3>1, <1>3, QueueAssumption DEF WarmedUp, Clean, SkipRepeat, TypeOK, QueueAssumption
    <3> QED
      BY <2>2, <3>3, <3>4, <3>5 DEF Attempting, Ending
  <2> QED
    BY <2>1, <2>2
<1>4. ASSUME NEW d \in Drivers, Retry(d) PROVE InPlan'
  BY <1>1, <1>4 DEF Retry, TypeOK, InPlan, Attempting, Ending, Over
<1>5. ASSUME NEW d \in Drivers, Signal(d) \/ BootDone(d) \/ Crash(d) \/ SleepEnds(d) PROVE InPlan'
  <2>1. UNCHANGED <<at, skips>>
    BY <1>5 DEF Signal, BootDone, Crash, SleepEnds
  <2>2. UNCHANGED pc \/ pc' = [pc EXCEPT ![d] = "killed"]
    BY <1>5 DEF Signal, BootDone, Crash, SleepEnds
  <2> QED
    BY <2>1, <2>2, QuietPlan DEF InPlan, Pcs, Over, Ending, Attempting
<1>6. CASE UNCHANGED vars
  BY <1>6 DEF vars, InPlan
<1> QED
  BY <1>2, <1>3, <1>4, <1>5, <1>6 DEF Next, Command
-----------------------------------------------------------------------------
(* The lock.                                                               *)

\* Only a driver that starts, and finds the lock free, becomes one that keeps it.
LEMMA KeepsStep ==
  ASSUME TypeOK, LockHolder, [Next]_vars, NEW x \in Drivers, Keeps(x)', ~Keeps(x)
  PROVE  ~LockHeld(Script[x]) /\ \A y \in Drivers : y # x /\ Keeps(y)' => Keeps(y)
<1> USE DEF driver, machine, AtCommand, Goto
<1>1. ASSUME NEW d \in Drivers, Start(d)
      PROVE  x = d /\ ~LockHeld(Script[x]) /\ \A y \in Drivers : y # x /\ Keeps(y)' => Keeps(y)
  <2>1. UNCHANGED <<sampler, server>> /\ \A y \in Drivers : y # d => pc'[y] = pc[y]
    BY <1>1 DEF Start, servers, TypeOK
  <2>2. locked' \subseteq locked \cup {d}
    BY <1>1 DEF Start
  <2>3. LockHeld(Script[d]) => locked' = locked /\ pc'[d] = "refused"
    BY <1>1 DEF Start, TypeOK
  <2>4. \A y \in Drivers : y # d /\ Keeps(y)' => Keeps(y)
    BY <2>1, <2>2 DEF Keeps
  <2>5. x = d
    BY <2>4
  <2>6. LockHeld(Script[d]) => ~Keeps(d)'
    BY <2>1, <2>3, <2>5 DEF Keeps, Over
  <2> QED
    BY <2>4, <2>5, <2>6
<1>2. ASSUME NEW d \in Drivers, Command(d) \/ Signal(d) PROVE FALSE
  <2>1. d \in locked /\ pc[d] \notin Over
    BY <1>2
    DEF LockHolder, Over, Command, StartSampler, SetTraps, Attempt, StopBefore, Drained, DrainFails, Serve, NoPid, NoLog, Ready, NotReady,
         CheckPool, Bench, StopAfter, StopDirty, GatePassed, GateFailed, MoveSummary, MoveDump,
         WarmedUp, Clean, Retry, SkipRepeat, NextRepeat, Deadline, Cleanup, LastStop, OnSignal, Signal
  <2>2. Keeps(d)
    BY <2>1 DEF Keeps
  <2>3. locked' = locked /\ \A y \in Drivers : y # d => pc'[y] = pc[y]
    BY <1>2
    DEF TypeOK, Command, StartSampler, SetTraps, Attempt, StopBefore, Drained, DrainFails, Serve, NoPid, NoLog, Ready, NotReady,
         CheckPool, Bench, StopAfter, StopDirty, GatePassed, GateFailed, MoveSummary, MoveDump,
         WarmedUp, Clean, Retry, SkipRepeat, NextRepeat, Deadline, Cleanup, LastStop, OnSignal, Signal
  <2>4. \A y \in Drivers : y # d /\ sampler'[y] # "none" => sampler[y] # "none"
    BY <1>2
    DEF TypeOK, Command, StartSampler, SetTraps, Attempt, StopBefore, Drained, DrainFails, Serve, NoPid, NoLog, Ready, NotReady,
         CheckPool, Bench, StopAfter, StopDirty, GatePassed, GateFailed, MoveSummary, MoveDump,
         WarmedUp, Clean, Retry, SkipRepeat, NextRepeat, Deadline, Cleanup, LastStop, OnSignal, Signal
  <2>5. \A y \in Drivers : y # d /\ server'[y] \in {"booting", "up"} => server[y] \in {"booting", "up"}
    BY <1>2
    DEF TypeOK, servers, AllStopped, Command, StartSampler, SetTraps, Attempt, StopBefore, Drained, DrainFails, Serve, NoPid, NoLog, Ready, NotReady,
         CheckPool, Bench, StopAfter, StopDirty, GatePassed, GateFailed, MoveSummary, MoveDump,
         WarmedUp, Clean, Retry, SkipRepeat, NextRepeat, Deadline, Cleanup, LastStop, OnSignal, Signal
  <2> QED
    BY <2>2, <2>3, <2>4, <2>5 DEF Keeps
<1>3. ASSUME NEW d \in Drivers, BootDone(d) \/ Crash(d) PROVE FALSE
  <2>1. UNCHANGED <<pc, locked, sampler>>
    BY <1>3 DEF BootDone, Crash
  <2>2. \A y \in Drivers : server'[y] \in {"booting", "up"} => server[y] \in {"booting", "up"}
    BY <1>3 DEF BootDone, Crash, TypeOK
  <2> QED
    BY <2>1, <2>2 DEF Keeps
<1>4. ASSUME NEW d \in Drivers, SleepEnds(d) PROVE FALSE
  BY <1>4 DEF SleepEnds, TypeOK, Keeps, servers
<1>5. CASE UNCHANGED vars
  BY <1>5 DEF vars, servers, Keeps
<1> QED
  BY <1>1, <1>2, <1>3, <1>4, <1>5 DEF Next

LEMMA LockStep == TypeOK /\ LockHolder /\ [Next]_vars => LockHolder'
<1> SUFFICES ASSUME TypeOK, LockHolder, [Next]_vars PROVE LockHolder'
  OBVIOUS
<1>1. ASSUME NEW d \in Drivers, NEW e \in Drivers, Script[d] = Script[e], Keeps(d)', Keeps(e)', d # e
      PROVE  FALSE
  <2>1. CASE Keeps(d) /\ Keeps(e)
    BY <1>1, <2>1 DEF LockHolder
  <2>2. CASE ~Keeps(d)
    BY <1>1, <2>2, KeepsStep DEF LockHeld
  <2>3. CASE ~Keeps(e)
    BY <1>1, <2>3, KeepsStep DEF LockHeld
  <2> QED
    BY <2>1, <2>2, <2>3
<1>2. ASSUME NEW d \in Drivers, pc'[d] \notin {"off", "refused"} PROVE d \in locked'
  <2> USE DEF driver, machine, AtCommand, Goto
  <2>1. ASSUME NEW e \in Drivers, Start(e) PROVE d \in locked'
    BY <1>2, <2>1 DEF Start, TypeOK, LockHolder
  <2>2. ASSUME NEW e \in Drivers, Command(e) \/ Signal(e) PROVE d \in locked'
    <3>1. locked' = locked /\ \A y \in Drivers : y # e => pc'[y] = pc[y]
      BY <2>2
      DEF TypeOK, Command, StartSampler, SetTraps, Attempt, StopBefore, Drained, DrainFails, Serve, NoPid, NoLog, Ready, NotReady,
           CheckPool, Bench, StopAfter, StopDirty, GatePassed, GateFailed, MoveSummary, MoveDump,
           WarmedUp, Clean, Retry, SkipRepeat, NextRepeat, Deadline, Cleanup, LastStop, OnSignal, Signal
    <3>2. pc[e] \notin {"off", "refused"}
      BY <2>2
      DEF Over, Command, StartSampler, SetTraps, Attempt, StopBefore, Drained, DrainFails, Serve, NoPid, NoLog, Ready, NotReady,
           CheckPool, Bench, StopAfter, StopDirty, GatePassed, GateFailed, MoveSummary, MoveDump,
           WarmedUp, Clean, Retry, SkipRepeat, NextRepeat, Deadline, Cleanup, LastStop, OnSignal, Signal
    <3> QED
      BY <1>2, <3>1, <3>2 DEF LockHolder
  <2>3. CASE UNCHANGED <<pc, locked>>
    BY <1>2, <2>3 DEF LockHolder
  <2>4. ASSUME NEW e \in Drivers, BootDone(e) \/ Crash(e) \/ SleepEnds(e) PROVE UNCHANGED <<pc, locked>>
    BY <2>4 DEF BootDone, Crash, SleepEnds
  <2> QED
    BY <2>1, <2>2, <2>3, <2>4 DEF Next, vars
<1> QED
  BY <1>1, <1>2 DEF LockHolder

\* A driver at the server keeps the lock of its script.
LEMMA AtServerKeeps ==
  ASSUME LockHolder, NEW d \in Drivers, AtServer(d)
  PROVE  Keeps(d)
BY DEF LockHolder, AtServer, Keeps, Over

LEMMA LockInit == Init => LockHolder
BY DEF Init, LockHolder, Keeps

-----------------------------------------------------------------------------
(* The server of an attempt.                                               *)

LEMMA OwnServerInit == Init => OwnServer /\ CleanFiles
BY DEF Init, OwnServer, OwnServerAt, CleanFiles, CleanResult, Tags

\* While one driver at most is at the server, an attempt has only its own.
LEMMA OwnServerStep ==
  ASSUME TypeOK, OneAtTheServer, OwnServer, [Next]_vars
  PROVE  OwnServer'
<1> SUFFICES ASSUME NEW d \in Drivers PROVE OwnServerAt(d)'
  BY DEF OwnServer
<1> USE DEF driver, servers, log, NoLog, AtCommand, Goto, AllStopped
<1>0. OwnServerAt(d)
  BY DEF OwnServer
<1>1. ASSUME Attempt(d) PROVE OwnServerAt(d)'
  <2>1. CASE StopBefore(d) \/ StopAfter(d) \/ StopDirty(d)
    BY <2>1 DEF StopBefore, StopAfter, StopDirty, OwnServerAt, TypeOK
  <2>2. CASE Drained(d) \/ Serve(d)
    BY <1>0, <2>2 DEF Drained, Serve, OwnServerAt, TypeOK
  <2>3. CASE Ready(d)
    <3>1. server[d] = "up"
      BY <1>0, <2>3 DEF Ready, OwnServerAt
    <3> QED
      BY <1>0, <2>3, <3>1 DEF Ready, OwnServerAt, TypeOK
  <2>4. CASE CheckPool(d)
    BY <1>0, <2>4 DEF CheckPool, PoolAsserted, OwnServerAt, TypeOK
  <2>5. CASE Bench(d)
    BY <1>0, <2>5 DEF Bench, OwnServerAt, TypeOK
  <2>6. CASE DrainFails(d) \/ NoPid(d) \/ NotReady(d) \/ GatePassed(d) \/ GateFailed(d) \/ MoveSummary(d) \/ MoveDump(d)
    BY <2>6 DEF DrainFails, NoPid, NotReady, GatePassed, GateFailed, MoveSummary, MoveDump, OwnServerAt, TypeOK
  <2> QED
    BY <1>1, <2>1, <2>2, <2>3, <2>4, <2>5, <2>6 DEF Attempt
<1>2. ASSUME Start(d) \/ StartSampler(d) \/ SetTraps(d) \/ WarmedUp(d) \/ Clean(d) \/ Retry(d)
             \/ SkipRepeat(d) \/ NextRepeat(d) \/ Deadline(d) \/ Cleanup(d) \/ LastStop(d) \/ OnSignal(d)
      PROVE  OwnServerAt(d)'
  <2>1. pc'[d] \in {"refused", "sampler", "trap", "stop", "next", "cleanup", "last_stop", "exited"}
    BY <1>2
       DEF Start, StartSampler, SetTraps, WarmedUp, Clean, Retry, SkipRepeat, NextRepeat, Deadline,
           Cleanup, LastStop, OnSignal, TypeOK
  <2> QED
    BY <2>1 DEF OwnServerAt
<1>3. ASSUME NEW e \in Drivers, Signal(e) PROVE OwnServerAt(d)'
  <2>1. pc'[d] \in {pc[d], "killed"} /\ UNCHANGED servers
    BY <1>3 DEF Signal, TypeOK
  <2> QED
    BY <1>0, <2>1 DEF OwnServerAt
<1>4. ASSUME NEW e \in Drivers, e # d, Start(e) \/ Command(e) PROVE OwnServerAt(d)'
  <2>1. pc'[d] = pc[d] /\ granted'[d] = granted[d]
    BY <1>4
       DEF Start, Command, StartSampler, SetTraps, Attempt, StopBefore, Drained, DrainFails, Serve, NoPid, NoLog, Ready, NotReady,
           CheckPool, Bench, StopAfter, StopDirty, GatePassed, GateFailed, MoveSummary, MoveDump,
           WarmedUp, Clean, Retry, SkipRepeat, NextRepeat, Deadline, Cleanup, LastStop, OnSignal, TypeOK
  <2>2. UNCHANGED server \/ AllStopped \/ Serve(e) \/ NoPid(e)
    BY <1>4
       DEF Start, Command, StartSampler, SetTraps, Attempt, StopBefore, Drained, DrainFails, Serve, NoPid, NoLog, Ready, NotReady,
           CheckPool, Bench, StopAfter, StopDirty, GatePassed, GateFailed, MoveSummary, MoveDump,
           WarmedUp, Clean, Retry, SkipRepeat, NextRepeat, Deadline, Cleanup, LastStop, OnSignal
  <2>3. CASE Serve(e) \/ NoPid(e)
    <3>1. ~AtServer(d)
      BY <1>4, <2>3 DEF OneAtTheServer, AtServer, Serve, NoPid
    <3> QED
      BY <2>1, <3>1 DEF AtServer, OwnServerAt
  <2>4. CASE UNCHANGED server
    BY <1>0, <2>1, <2>4 DEF OwnServerAt
  <2>5. CASE AllStopped
    BY <1>0, <2>1, <2>5 DEF OwnServerAt
  <2> QED
    BY <2>2, <2>3, <2>4, <2>5
<1>5. ASSUME NEW e \in Drivers, BootDone(e) \/ Crash(e) \/ SleepEnds(e) PROVE OwnServerAt(d)'
  <2>1. UNCHANGED pc
    BY <1>5 DEF BootDone, Crash, SleepEnds
  <2>2. \A y \in Drivers :
          /\ server[y] = "none" => server'[y] = "none"
          /\ server[y] # "booting" => server'[y] # "booting" /\ granted'[y] = granted[y]
    BY <1>5 DEF BootDone, Crash, SleepEnds, TypeOK
  <2> QED
    BY <1>0, <2>1, <2>2 DEF OwnServerAt
<1>6. CASE UNCHANGED vars
  BY <1>0, <1>6 DEF vars, OwnServerAt
<1>7. ASSUME Start(d) \/ Command(d) PROVE OwnServerAt(d)'
  BY <1>1, <1>2, <1>7 DEF Command
<1>8. ASSUME NEW e \in Drivers, Start(e) \/ Command(e) PROVE OwnServerAt(d)'
  BY <1>4, <1>7, <1>8
<1> QED
  BY <1>3, <1>5, <1>6, <1>8 DEF Next

\* What a bench leaves is of the one server that is up, and promotion moves no other file.
LEMMA CleanFilesStep ==
  ASSUME TypeOK, OwnServer, CleanFiles, [Next]_vars
  PROVE  CleanFiles'
<1> USE DEF files
<1>1. ASSUME NEW d \in Drivers, Bench(d) PROVE CleanFiles'
  <2>1. pc[d] = "bench" /\ UNCHANGED results
    BY <1>1 DEF Bench, AtCommand
  <2>2. \A e \in Drivers : server[e] = "up" => e = d
    BY <2>1 DEF OwnServer, OwnServerAt
  <2>3. granted[d] = "published"
    BY <2>1 DEF OwnServer, OwnServerAt
  <2>4. ASSUME NEW y \in Drivers PROVE CleanResult(stage'[y])
    <3>1. CASE UNCHANGED stage
      BY <3>1 DEF CleanFiles
    <3>2. CASE \E e \in Drivers : server[e] = "up" /\ stage' =
            [stage EXCEPT ![d] = [by |-> d, att |-> at[d].att, own |-> e = d, pool |-> granted[d]]]
      <4>1. stage' = [stage EXCEPT ![d] = [by |-> d, att |-> at[d].att, own |-> TRUE, pool |-> "published"]]
        BY <2>2, <2>3, <3>2
      <4> QED
        BY <4>1 DEF CleanFiles, CleanResult, TypeOK
    <3> QED
      BY <1>1, <3>1, <3>2 DEF Bench
  <2> QED
    BY <2>1, <2>4 DEF CleanFiles
<1>2. ASSUME NEW d \in Drivers, StopBefore(d) PROVE CleanFiles'
  BY <1>2 DEF StopBefore, CleanFiles, CleanResult, TypeOK
<1>3. ASSUME NEW d \in Drivers, MoveSummary(d) \/ MoveDump(d) PROVE CleanFiles'
  <2>1. UNCHANGED stage /\ CleanResult(stage[d])
    BY <1>3 DEF MoveSummary, MoveDump, CleanFiles
  <2>2. ASSUME NEW t \in Tags
        PROVE  /\ results'[t].summary \in {results[t].summary, stage[d]}
               /\ results'[t].dump \in {results[t].dump, stage[d]}
    <3>1. results \in [Tags -> [summary : Measured, dump : Measured]]
      BY DEF TypeOK
    <3>2. \/ results' = [results EXCEPT ![Tag(d)] = [@ EXCEPT !.summary = stage[d]]]
          \/ results' = [results EXCEPT ![Tag(d)] = [@ EXCEPT !.dump = stage[d]]]
      BY <1>3 DEF MoveSummary, MoveDump
    <3> QED
      BY <3>1, <3>2
  <2> QED
    BY <2>1, <2>2 DEF CleanFiles
<1>4. ASSUME NEW d \in Drivers,
             \/ Start(d) \/ Signal(d) \/ BootDone(d) \/ Crash(d) \/ SleepEnds(d)
             \/ StartSampler(d) \/ SetTraps(d) \/ Drained(d) \/ DrainFails(d) \/ Serve(d) \/ NoPid(d) \/ Ready(d)
             \/ NotReady(d) \/ CheckPool(d) \/ StopAfter(d) \/ StopDirty(d) \/ GatePassed(d) \/ GateFailed(d)
             \/ WarmedUp(d) \/ Clean(d) \/ Retry(d) \/ SkipRepeat(d) \/ NextRepeat(d) \/ Deadline(d)
             \/ Cleanup(d) \/ LastStop(d) \/ OnSignal(d)
      PROVE  UNCHANGED <<stage, results>>
  BY <1>4
     DEF Start, Signal, BootDone, Crash, SleepEnds, StartSampler, SetTraps, Drained, DrainFails, Serve, NoPid, NoLog, Ready,
         NotReady, CheckPool, StopAfter, StopDirty, GatePassed, GateFailed,
         WarmedUp, Clean, Retry, SkipRepeat, NextRepeat, Deadline, Cleanup, LastStop, OnSignal
<1>5. CASE UNCHANGED <<stage, results>>
  BY <1>5 DEF CleanFiles
<1> QED
  BY <1>1, <1>2, <1>3, <1>4, <1>5 DEF Next, Command, Attempt, vars

-----------------------------------------------------------------------------
(* The counts.                                                             *)

LEMMA SettledInit == Init => Settled
<1> SUFFICES ASSUME Init, NEW d \in Drivers, NEW c \in Configs
             PROVE  /\ \A r \in 1..Repeats : outcome[d][<<c, r>>] = "none" <=> Comes(at[d], c, r)
                    /\ clean[d][c] = Cardinality(CleanRepeats(d, c))
  BY DEF Settled
<1>1. \A r \in 1..Repeats : outcome[d][<<c, r>>] = "none" /\ Comes(at[d], c, r)
  BY DEF Init, Comes, WarmUp
<1>2. CleanRepeats(d, c) = {}
  BY <1>1 DEF CleanRepeats
<1> QED
  BY <1>1, <1>2, FS_EmptySet DEF Init

\* What comes is what came, less the attempt that has been settled.
LEMMA ComesNext ==
  ASSUME NEW a \in [cfg : Configs, rep : 0..(Repeats + 1), att : {1, 2}], NEW c \in Configs, NEW r \in 1..Repeats,
         QueueAssumption, a.rep > 0
  PROVE  Comes(Following(a), c, r) <=> Comes(a, c, r) /\ <<c, r>> # <<a.cfg, a.rep>>
BY DEF QueueAssumption, Following, Comes, Configs

\* A repeat enters the outcomes once, and clean counts it if it is a clean one.
LEMMA SettledOne ==
  ASSUME TypeOK, InPlan, Settled, NEW d \in Drivers, Clean(d) \/ SkipRepeat(d)
  PROVE  Settled'
<1> DEFINE A == [cfg : Configs, rep : 0..(Repeats + 1), att : {1, 2}]
           a == at[d]
<1>1. a \in A /\ a.rep \in 1..Repeats /\ a.cfg \in Configs
  BY DEF TypeOK, InPlan, Clean, SkipRepeat, AtCommand, Attempting
<1>2. at' = [at EXCEPT ![d] = Following(a)]
  BY DEF Clean, SkipRepeat
<1>3. PICK x \in {"clean", "skip"} :
        /\ outcome' = [outcome EXCEPT ![d] = [outcome[d] EXCEPT ![<<a.cfg, a.rep>>] = x]]
        /\ x = "clean" => clean' = [clean EXCEPT ![d] = [clean[d] EXCEPT ![a.cfg] = @ + 1]]
        /\ x = "skip" => clean' = clean
  BY DEF Clean, SkipRepeat
<1>4. /\ \A e \in Drivers : outcome[e] \in [Configs \X (1..Repeats) -> {"none", "clean", "skip"}]
      /\ outcome \in [Drivers -> [Configs \X (1..Repeats) -> {"none", "clean", "skip"}]]
      /\ clean \in [Drivers -> [Configs -> Nat]] /\ clean[d] \in [Configs -> Nat]
      /\ at \in [Drivers -> A]
  BY DEF TypeOK
<1> SUFFICES ASSUME NEW e \in Drivers, NEW c \in Configs
             PROVE  /\ \A r \in 1..Repeats : outcome'[e][<<c, r>>] = "none" <=> Comes(at'[e], c, r)
                    /\ clean'[e][c] = Cardinality(CleanRepeats(e, c)')
  BY DEF Settled
<1>5. CASE e # d
  <2>1. at'[e] = at[e] /\ outcome'[e] = outcome[e] /\ clean'[e] = clean[e]
    <3> HIDE DEF A
    <3> QED
      BY <1>2, <1>3, <1>4, <1>5
  <2> QED
    BY <2>1 DEF Settled, CleanRepeats
<1>6. CASE e = d
  <2>1. at'[d] = Following(a)
    <3> HIDE DEF A
    <3> QED
      BY <1>2, <1>4
  <2>2. ASSUME NEW r \in 1..Repeats
        PROVE  outcome'[d][<<c, r>>] = IF <<c, r>> = <<a.cfg, a.rep>> THEN x ELSE outcome[d][<<c, r>>]
    BY <1>1, <1>3, <1>4
  <2>3. \A r \in 1..Repeats : outcome[d][<<c, r>>] = "none" <=> Comes(a, c, r)
    BY DEF Settled
  <2>4. ASSUME NEW r \in 1..Repeats
        PROVE  Comes(at'[d], c, r) <=> Comes(a, c, r) /\ <<c, r>> # <<a.cfg, a.rep>>
    BY <1>1, <2>1, ComesNext, QueueAssumption
  <2>5. \A r \in 1..Repeats : outcome'[d][<<c, r>>] = "none" <=> Comes(at'[d], c, r)
    BY <2>2, <2>3, <2>4
  <2>6. clean[d][c] = Cardinality(CleanRepeats(d, c))
    BY DEF Settled
  <2>7. CASE x = "clean" /\ c = a.cfg
    <3>1. CleanRepeats(d, c)' = CleanRepeats(d, c) \cup {a.rep}
      BY <1>1, <2>2, <2>7 DEF CleanRepeats
    <3>2. a.rep \notin CleanRepeats(d, c)
      BY <1>1, <2>3, <2>7 DEF CleanRepeats, Comes, Configs
    <3>3. IsFiniteSet(CleanRepeats(d, c))
      <4>1. IsFiniteSet(1..Repeats)
        BY FS_Interval, QueueAssumption DEF QueueAssumption
      <4> QED
        BY <4>1, FS_Subset DEF CleanRepeats
    <3>4. Cardinality(CleanRepeats(d, c)') = Cardinality(CleanRepeats(d, c)) + 1
      BY <3>1, <3>2, <3>3, FS_AddElement
    <3>5. clean'[d][c] = clean[d][c] + 1
      BY <1>1, <1>3, <1>4, <2>7
    <3> QED
      BY <1>6, <2>5, <2>6, <3>4, <3>5
  <2>8. CASE ~(x = "clean" /\ c = a.cfg)
    <3>1. CleanRepeats(d, c)' = CleanRepeats(d, c)
      <4> SUFFICES ASSUME NEW r \in 1..Repeats
                   PROVE  outcome'[d][<<c, r>>] = "clean" <=> outcome[d][<<c, r>>] = "clean"
        BY DEF CleanRepeats
      <4>1. <<c, r>> = <<a.cfg, a.rep>> => outcome[d][<<c, r>>] = "none"
        BY <1>1, <2>3 DEF Comes, Configs
      <4> QED
        BY <2>2, <2>8, <4>1
    <3>2. clean'[d][c] = clean[d][c]
      BY <1>1, <1>3, <1>4, <2>8
    <3> QED
      BY <1>6, <2>5, <2>6, <3>1, <3>2
  <2> QED
    BY <2>7, <2>8
<1> QED
  BY <1>5, <1>6

LEMMA SettledStep == TypeOK /\ InPlan /\ Settled /\ [Next]_vars => Settled'
<1> SUFFICES ASSUME TypeOK, InPlan, Settled, [Next]_vars PROVE Settled'
  OBVIOUS
<1> USE DEF driver
<1>1. ASSUME NEW d \in Drivers, Clean(d) \/ SkipRepeat(d) PROVE Settled'
  BY <1>1, SettledOne
<1>2. ASSUME UNCHANGED <<clean, outcome>>,
             \A e \in Drivers : \A c \in Configs : \A r \in 1..Repeats : Comes(at'[e], c, r) <=> Comes(at[e], c, r)
      PROVE  Settled'
  <2>1. \A e \in Drivers : \A c \in Configs : CleanRepeats(e, c)' = CleanRepeats(e, c)
    BY <1>2 DEF CleanRepeats
  <2> QED
    BY <1>2, <2>1 DEF Settled
<1>3. ASSUME NEW d \in Drivers, WarmedUp(d) \/ Retry(d) PROVE Settled'
  <2>1. UNCHANGED <<clean, outcome>>
    BY <1>3 DEF WarmedUp, Retry
  <2>2. at[d] \in [cfg : Configs, rep : 0..(Repeats + 1), att : {1, 2}]
    BY DEF TypeOK
  <2>3. at'[d].cfg \in Configs /\ (WarmedUp(d) => at[d].rep = 0 /\ at'[d] = Following(at[d]))
        /\ (Retry(d) => at'[d].cfg = at[d].cfg /\ at'[d].rep = at[d].rep)
    BY <1>3, <2>2 DEF WarmedUp, Retry, TypeOK, Following, Configs
  <2>4. \A e \in Drivers : e # d => at'[e] = at[e]
    BY <1>3 DEF WarmedUp, Retry, TypeOK
  <2>5. ASSUME NEW c \in Configs, NEW r \in 1..Repeats PROVE Comes(at'[d], c, r) <=> Comes(at[d], c, r)
    <3>1. CASE WarmedUp(d)
      BY <2>3, <3>1, QueueAssumption DEF Following, Comes, Configs, QueueAssumption
    <3>2. CASE Retry(d)
      BY <2>3, <3>2 DEF Comes
    <3> QED
      BY <1>3, <3>1, <3>2
  <2> QED
    BY <1>2, <2>1, <2>4, <2>5
<1>4. ASSUME NEW d \in Drivers,
             \/ Start(d) \/ Signal(d) \/ BootDone(d) \/ Crash(d) \/ SleepEnds(d)
             \/ StartSampler(d) \/ SetTraps(d) \/ Attempt(d) \/ NextRepeat(d) \/ Deadline(d)
             \/ Cleanup(d) \/ LastStop(d) \/ OnSignal(d)
      PROVE  UNCHANGED driver
  BY <1>4
     DEF Start, Signal, BootDone, Crash, SleepEnds, StartSampler, SetTraps, Attempt, StopBefore, Drained,
         DrainFails, Serve, NoPid, NoLog, Ready, NotReady, CheckPool, Bench, StopAfter, StopDirty, GatePassed, GateFailed,
         MoveSummary, MoveDump, NextRepeat, Deadline, Cleanup, LastStop, OnSignal
<1>5. CASE UNCHANGED driver
  BY <1>2, <1>5
<1> QED
  BY <1>1, <1>3, <1>4, <1>5 DEF Next, Command, vars

\* The counts follow from what is settled.
LEMMA SettledCounts == TypeOK /\ InPlan /\ Settled => CountsMatch
<1> SUFFICES ASSUME TypeOK, InPlan, Settled, NEW d \in Drivers
             PROVE  /\ \A c \in Configs :
                         clean[d][c] = Cardinality({r \in 1..Repeats : outcome[d][<<c, r>>] = "clean"})
                    /\ AtServer(d) /\ pc[d] # "last_stop" /\ at[d].rep > 0 =>
                         outcome[d][<<at[d].cfg, at[d].rep>>] = "none"
                    /\ \A r \in 1..Repeats :
                         /\ outcome[d][<<1, r>>] = "none" => outcome[d][<<2, r>>] = "none"
                         /\ r > 1 /\ outcome[d][<<2, r - 1>>] = "none" => outcome[d][<<1, r>>] = "none"
  BY DEF CountsMatch
<1>1. \A c \in Configs : \A r \in 1..Repeats : outcome[d][<<c, r>>] = "none" <=> Comes(at[d], c, r)
  BY DEF Settled
<1>2. at[d].rep \in 0..(Repeats + 1) /\ at[d].cfg \in Configs
  BY DEF TypeOK
<1>3. AtServer(d) /\ pc[d] # "last_stop" => at[d].rep <= Repeats
  BY DEF AtServer, InPlan, Attempting
<1>4. AtServer(d) /\ pc[d] # "last_stop" /\ at[d].rep > 0 => outcome[d][<<at[d].cfg, at[d].rep>>] = "none"
  BY <1>1, <1>2, <1>3 DEF Comes, Configs
<1>5. ASSUME NEW r \in 1..Repeats
      PROVE  /\ outcome[d][<<1, r>>] = "none" => outcome[d][<<2, r>>] = "none"
             /\ r > 1 /\ outcome[d][<<2, r - 1>>] = "none" => outcome[d][<<1, r>>] = "none"
  <2>1. r > 1 => r - 1 \in 1..Repeats
    BY QueueAssumption DEF QueueAssumption
  <2> QED
    BY <1>1, <1>2, <2>1 DEF Comes, Configs
<1> QED
  BY <1>4, <1>5 DEF Settled, CleanRepeats

-----------------------------------------------------------------------------
(* Signals.                                                                *)

LEMMA SignalsInit == Init => SignalsCost
BY DEF Init, SignalsCost, SignalsCostAt

LEMMA SignalsStep == TypeOK /\ SignalsCost /\ [Next]_vars => SignalsCost'
<1> SUFFICES ASSUME TypeOK, [Next]_vars, NEW d \in Drivers, SignalsCostAt(d) PROVE SignalsCostAt(d)'
  BY DEF SignalsCost
<1> USE DEF driver, shell, servers, log, NoLog, AtCommand, Goto, AllStopped
<1>0. signals \in Nat
  BY QueueAssumption DEF TypeOK, QueueAssumption
<1>1. ASSUME pc'[d] = pc[d], stopping'[d] = stopping[d], signalled'[d] = signalled[d],
             server'[d] # "none" => server[d] # "none", pid'[d] = pid[d], signals' = signals \/ signals' = signals + 1
      PROVE  SignalsCostAt(d)'
  BY <1>0, <1>1 DEF SignalsCostAt
<1>2. ASSUME NEW e \in Drivers, e # d, Start(e) \/ Command(e) \/ Signal(e) PROVE SignalsCostAt(d)'
  <2>1. pc'[d] = pc[d] /\ (signals' = signals \/ signals' = signals + 1)
    BY <1>2
       DEF Start, Command, StartSampler, SetTraps, Attempt, StopBefore, Drained, DrainFails, Serve, NoPid, NoLog, Ready, NotReady,
           CheckPool, Bench, StopAfter, StopDirty, GatePassed, GateFailed, MoveSummary, MoveDump, Signal,
           WarmedUp, Clean, Retry, SkipRepeat, NextRepeat, Deadline, Cleanup, LastStop, OnSignal, TypeOK
  <2>2. stopping'[d] = stopping[d]
    BY <1>2
       DEF Start, Command, StartSampler, SetTraps, Attempt, StopBefore, Drained, DrainFails, Serve, NoPid, NoLog, Ready, NotReady,
           CheckPool, Bench, StopAfter, StopDirty, GatePassed, GateFailed, MoveSummary, MoveDump, Signal,
           WarmedUp, Clean, Retry, SkipRepeat, NextRepeat, Deadline, Cleanup, LastStop, OnSignal, TypeOK
  <2>3. signalled'[d] = signalled[d]
    BY <1>2
       DEF Start, Command, StartSampler, SetTraps, Attempt, StopBefore, Drained, DrainFails, Serve, NoPid, NoLog, Ready, NotReady,
           CheckPool, Bench, StopAfter, StopDirty, GatePassed, GateFailed, MoveSummary, MoveDump, Signal,
           WarmedUp, Clean, Retry, SkipRepeat, NextRepeat, Deadline, Cleanup, LastStop, OnSignal, TypeOK
  <2>4. (server'[d] # "none" => server[d] # "none") /\ pid'[d] = pid[d]
    BY <1>2
       DEF Start, Command, StartSampler, SetTraps, Attempt, StopBefore, Drained, DrainFails, Serve, NoPid, NoLog, Ready, NotReady,
           CheckPool, Bench, StopAfter, StopDirty, GatePassed, GateFailed, MoveSummary, MoveDump, Signal,
           WarmedUp, Clean, Retry, SkipRepeat, NextRepeat, Deadline, Cleanup, LastStop, OnSignal, TypeOK
  <2> QED
    BY <1>1, <2>1, <2>2, <2>3, <2>4
<1>3. ASSUME NEW e \in Drivers, BootDone(e) \/ Crash(e) \/ SleepEnds(e) PROVE SignalsCostAt(d)'
  <2>1. UNCHANGED <<pc, stopping, signalled, signals, pid>> /\ (server'[d] # "none" => server[d] # "none")
    BY <1>3 DEF BootDone, Crash, SleepEnds, TypeOK
  <2> QED
    BY <1>1, <2>1
<1>4. CASE Signal(d)
  <2>1. /\ pc[d] \notin Over /\ signals' = signals + 1 /\ UNCHANGED <<stopping, server, pid>>
        /\ \/ pc[d] \in {"sampler", "trap"} /\ pc'[d] = "killed" /\ UNCHANGED signalled
           \/ UNCHANGED pc /\ signalled'[d] = TRUE
    BY <1>4 DEF Signal, TypeOK
  <2> QED
    BY <1>0, <2>1 DEF SignalsCostAt, Over
<1>5. CASE OnSignal(d)
  <2>1. /\ signalled[d] /\ ~signalled'[d] /\ UNCHANGED <<stopping, signals, server, pid>>
        /\ pc'[d] = IF stopping[d] THEN "exited" ELSE "cleanup"
    BY <1>5 DEF OnSignal, TypeOK
  <2>2. pc[d] \notin Over
    BY <1>5 DEF OnSignal
  <2> QED
    BY <1>0, <2>1, <2>2 DEF SignalsCostAt, Over
<1>6. CASE Serve(d) \/ NoPid(d)
  <2>1. /\ pc[d] = "serve" /\ UNCHANGED shell
        /\ pc'[d] = "wait" \/ (pc'[d] = "dirty" /\ pid'[d] = pid[d])
    BY <1>6 DEF Serve, NoPid, TypeOK
  <2> QED
    BY <2>1 DEF SignalsCostAt
<1>7. CASE StopBefore(d) \/ StopAfter(d) \/ StopDirty(d) \/ LastStop(d)
  <2>1. /\ pc[d] \in {"stop", "stop_after", "stop_dirty", "last_stop"}
        /\ pc[d] = "last_stop" => pc'[d] = "exited"
        /\ UNCHANGED shell /\ server'[d] = "none"
        /\ (pc'[d] = "drain" /\ ~pid'[d]) \/ pc'[d] \in {"gate", "dirty", "exited"}
    BY <1>7 DEF StopBefore, StopAfter, StopDirty, LastStop, TypeOK
  <2> QED
    BY <2>1 DEF SignalsCostAt
<1>8. CASE Cleanup(d)
  <2>1. /\ pc[d] = "cleanup" /\ pc'[d] = "last_stop" /\ UNCHANGED <<server, pid, signalled, signals>>
    BY <1>8 DEF Cleanup, TypeOK
  <2> QED
    BY <2>1 DEF SignalsCostAt
<1>9. CASE Ready(d) \/ NotReady(d) \/ CheckPool(d) \/ Bench(d)
  <2>1. /\ pc[d] \in {"wait", "pool", "bench"} /\ pc'[d] \in {"pool", "bench", "stop_after", "stop_dirty"}
        /\ UNCHANGED <<shell, server, pid>>
    BY <1>9 DEF Ready, NotReady, CheckPool, Bench, TypeOK
  <2> QED
    BY <2>1 DEF SignalsCostAt
<1>10. ASSUME \/ Start(d) \/ StartSampler(d) \/ SetTraps(d) \/ Drained(d) \/ DrainFails(d) \/ GatePassed(d)
              \/ GateFailed(d) \/ MoveSummary(d) \/ MoveDump(d) \/ WarmedUp(d) \/ Clean(d) \/ Retry(d)
              \/ SkipRepeat(d) \/ NextRepeat(d) \/ Deadline(d)
       PROVE  SignalsCostAt(d)'
  <2>1. /\ pc[d] \in {"off", "sampler", "trap", "drain", "gate", "mv_summary", "mv_dump", "clean", "dirty", "next"}
        /\ UNCHANGED <<shell, server, pid>>
    BY <1>10
       DEF Start, StartSampler, SetTraps, Drained, DrainFails, GatePassed, GateFailed, MoveSummary, MoveDump,
           WarmedUp, Clean, Retry, SkipRepeat, NextRepeat, Deadline
  <2>2. pc'[d] # "drain" /\ (pc'[d] = "serve" => pc[d] = "drain") /\ pc'[d] \notin {"last_stop", "exited"}
    BY <1>10
       DEF TypeOK, Start, StartSampler, SetTraps, Drained, DrainFails, GatePassed, GateFailed, MoveSummary, MoveDump,
           WarmedUp, Clean, Retry, SkipRepeat, NextRepeat, Deadline
  <2> QED
    BY <2>1, <2>2 DEF SignalsCostAt
<1>11. CASE UNCHANGED vars
  BY <1>1, <1>11 DEF vars
<1>12. ASSUME Start(d) \/ Command(d) \/ Signal(d) PROVE SignalsCostAt(d)'
  BY <1>4, <1>5, <1>6, <1>7, <1>8, <1>9, <1>10, <1>12 DEF Command, Attempt
<1>13. ASSUME NEW e \in Drivers, Start(e) \/ Command(e) \/ Signal(e) PROVE SignalsCostAt(d)'
  BY <1>2, <1>12, <1>13
<1> QED
  BY <1>3, <1>11, <1>13 DEF Next

-----------------------------------------------------------------------------
(* The theorems.                                                           *)

IInv == TypeOK /\ InPlan /\ LockHolder /\ Settled /\ SignalsCost

\* What holds of the queues whatever they share: the plan, the lock, the counts and
\* the cost of a signal.
LEMMA Inductive == Spec => []IInv
<1>1. Init => IInv
  BY TypesInit, LockInit, SettledInit, SignalsInit DEF IInv
<1>2. IInv /\ [Next]_vars => IInv'
  BY TypesStep, PlanStep, LockStep, SettledStep, SignalsStep DEF IInv
<1> QED
  BY <1>1, <1>2, PTL DEF Spec

\* Every variable of the queues keeps its type: the plan is never overrun, for any
\* number of repeats and any breaker (noise_queue.sh, ladder_queue.sh).
THEOREM TypeCorrect == Spec => []TypeOK
<1>1. IInv => TypeOK
  BY DEF IInv
<1> QED
  BY <1>1, Inductive, PTL

\* flock keeps the executions of ONE script apart, from the first stop of the server to
\* the last one in cleanup; of two scripts it promises nothing, as each has its own lock.
OneOfAScript ==
  \A d, e \in Drivers : Script[d] = Script[e] /\ AtServer(d) /\ AtServer(e) => d = e

\* Whatever is killed or restarted, whoever inherits the lock.
THEOREM OneOfAScriptAtTheServer == Spec => []OneOfAScript
<1>1. IInv => OneOfAScript
  BY AtServerKeeps DEF IInv, LockHolder, OneOfAScript
<1> QED
  BY <1>1, Inductive, PTL

\* Where every driver runs the same script, no two start and stop servers at a time,
\* however often they are started, signalled and restarted.
THEOREM OneAtATime ==
  ASSUME \A d, e \in Drivers : Script[d] = Script[e]
  PROVE  Spec => []OneAtTheServer
<1>1. OneOfAScript => OneAtTheServer
  BY DEF OneOfAScript, OneAtTheServer
<1> QED
  BY <1>1, OneOfAScriptAtTheServer, PTL

\* Where every driver runs the same script, every promoted file was measured on the
\* server of its own attempt, with the pool that is published for the config.
THEOREM PromotedAreClean ==
  ASSUME \A d, e \in Drivers : Script[d] = Script[e]
  PROVE  Spec => []PromotedIsClean
<1>1. Init => OwnServer /\ CleanFiles
  BY OwnServerInit
<1>2. TypeOK /\ OneAtTheServer /\ OwnServer /\ CleanFiles /\ [Next]_vars => (OwnServer /\ CleanFiles)'
  BY OwnServerStep, CleanFilesStep
<1>3. CleanFiles => PromotedIsClean
  BY DEF CleanFiles, CleanResult, PromotedIsClean
<1> QED
  BY <1>1, <1>2, <1>3, TypeCorrect, OneAtATime, PTL DEF Spec

\* What a queue reports is what it did, for both scripts and any interleaving.
THEOREM CountsAlwaysMatch == Spec => []CountsMatch
<1>1. IInv => CountsMatch
  BY SettledCounts DEF IInv
<1> QED
  BY <1>1, Inductive, PTL

\* The deadline of a ladder never separates the two configs of a repeat.
THEOREM PairsFinish == Spec => PairFinished
<1> DEFINE Paired ==
      \A d \in Drivers : Script[d] = "ladder" /\ Deadline(d) =>
        \A r \in 1..Repeats : outcome[d][<<1, r>>] = "none" <=> outcome[d][<<2, r>>] = "none"
<1>1. IInv => Paired
  <2> SUFFICES ASSUME IInv, NEW d \in Drivers, Script[d] = "ladder", Deadline(d), NEW r \in 1..Repeats
               PROVE  outcome[d][<<1, r>>] = "none" <=> outcome[d][<<2, r>>] = "none"
    OBVIOUS
  <2>1. at[d].cfg = 1 /\ at[d].rep \in 0..(Repeats + 1)
    BY DEF Deadline, MayStopHere, IInv, TypeOK
  <2> QED
    BY <2>1, QueueAssumption DEF IInv, Settled, Comes, Configs, QueueAssumption
<1> HIDE DEF Paired
<1>2. Spec => [][Paired]_vars
  BY <1>1, Inductive, PTL
<1> QED
  BY <1>2 DEF PairFinished, Paired

\* A server that an exited queue has left has cost two signals, or one where the last
\* attempt was given up with FAIL_NO_PID (noise_queue.sh:45, 53, 95): for any number of
\* executions of both scripts, and any number of signals.
THEOREM LeftServerCostsSignals == Spec => []NoServerLeft
<1>1. IInv => NoServerLeft
  BY DEF IInv, SignalsCost, SignalsCostAt, NoServerLeft
<1> QED
  BY <1>1, Inductive, PTL

\* Whatever fails, a queue that nobody signals leaves no server: on its normal exit the
\* cleanup stops what the attempts have left (noise_queue.sh:50, 54).
ServerStopped == \A d \in Drivers : pc[d] = "exited" => server[d] = "none"

\* The only way to leave a server is a signal.
THEOREM UndisturbedQueueStops ==
  ASSUME MaxSignals = 0
  PROVE  Spec => []ServerStopped
<1>1. TypeOK /\ NoServerLeft => ServerStopped
  <2> SUFFICES ASSUME TypeOK, NoServerLeft PROVE ServerStopped
    OBVIOUS
  <2>1. signals = 0
    BY DEF TypeOK
  <2> QED
    BY <2>1 DEF NoServerLeft, ServerStopped
<1> QED
  BY <1>1, TypeCorrect, LeftServerCostsSignals, PTL
=============================================================================
