----------------------------- MODULE RunDrivers -----------------------------
(***************************************************************************)
(* The drivers of a single run: run_config.sh, run_config_diag.sh,         *)
(* run_config_generic.sh, calibrate_online.sh, the two probe_pool scripts  *)
(* and boot_matrix.sh.                                                     *)
(*                                                                         *)
(* They have no lock: a person starts one when the one before has ended,   *)
(* of itself, by Ctrl-C or by a kill of its shell.  What those leave on    *)
(* the machine is there when the next one starts.                          *)
(***************************************************************************)
EXTENDS Integers, Sequences, FiniteSets

CONSTANTS
  Configs,   \* configurations a driver is started for
  Base,      \* A, that of calibrate_online.sh and boot_matrix.sh
  Pairs,     \* the argument of boot_matrix.sh
  MaxRuns,   \* a bound: drivers started
  MaxBreaks, \* a bound: how often Ctrl-C is typed
  MaxKills   \* a bound: how often a driver's shell is killed

ASSUME DriversAssumption ==
  /\ Base \in Configs
  /\ Pairs \in Nat \ {0} /\ MaxRuns \in Nat \ {0} /\ MaxBreaks \in Nat /\ MaxKills \in Nat

VARIABLES
  script,   \* the driver started last
  cfg,      \* its configuration
  pc,       \* its next command
  pid,      \* the server it has started last, or 0
  n,        \* the boots of a boot_matrix.sh
  rows,     \* the rows of its boot_matrix.csv
  rc,       \* what it exits with
  pool,     \* the pool it has read off its server's log
  servers,  \* the vLLM servers on the machine
  memory,   \* the memory in use with no server on the machine
  clients,  \* the bench.py and calibrate.py under way
  samplers, \* the nvsample.sh under way: who started each, and for which file
  files,    \* the result files
  starts, boots, breaks, kills

driver  == <<script, cfg, pc, pid, n, rows, rc, pool>>
machine == <<servers, memory>>
work    == <<clients, samplers, files>>
counts  == <<starts, boots, breaks, kills>>
vars    == <<driver, machine, work, counts>>

-----------------------------------------------------------------------------
Series   == {"run", "diag", "online"}            \* by serve.sh, for a letter
Scripts  == Series \cup {"generic", "probe", "boot"}
Measures == Series \cup {"generic"}
Pools    == {"published", "other"}
Levels   == {"free", "little", "held"}            \* below 450 MiB, below 1500, above

Nothing   == [by |-> 0]
Up        == {s \in servers : s.up}
Answering == IF Up = {} THEN Nothing ELSE CHOOSE s \in Up : TRUE
Mine      == {s \in servers : s.id = pid}
MyClient  == {c \in clients : c.by = starts}

Init ==
  /\ script = "run" /\ cfg = Base /\ pc = "off" /\ pid = 0 /\ n = 0
  /\ rows = <<>> /\ rc = "none" /\ pool = "none"
  /\ servers = {} /\ memory = "free"
  /\ clients = {} /\ samplers = {} /\ files = [f \in Measures \X Configs |-> Nothing]
  /\ starts = 0 /\ boots = 0 /\ breaks = 0 /\ kills = 0

Goto(p)  == pc' = p /\ UNCHANGED <<script, cfg, pid, n, rows, rc, pool>>
Exit(r)  == pc' = "exited" /\ rc' = r /\ UNCHANGED <<script, cfg, pid, n, rows, pool>>

-----------------------------------------------------------------------------
(* Begin, stop, drain, serve.                                              *)

Start(k, c) ==
  /\ pc \in {"off", "exited"} /\ starts < MaxRuns
  /\ k \in {"online", "boot"} => c = Base
  /\ script' = k /\ cfg' = c /\ pc' = IF k = "boot" THEN "loop" ELSE "stop"
  /\ pid' = 0 /\ n' = 0 /\ rows' = <<>> /\ rc' = "none" /\ pool' = "none"
  /\ starts' = starts + 1
  /\ UNCHANGED <<machine, work, boots, breaks, kills>>

\* Mutant of Matches: "replay_sim.calibrate" is not stopped.
MatchesServers(c) == FALSE

\* The clients stop_server.sh kills by name.
Matches(c) == c.kind = "online"

\* stop_server.sh kills every server and every calibration, whoever started it; it goes
\* on when the memory has not come down in two minutes.
StopServer ==
  /\ servers' = {} /\ memory' \in Levels
  /\ clients' = {c \in clients : ~Matches(c)}
  /\ UNCHANGED <<samplers, files>>

\* Mutant of StopBefore: the driver starts with what is there.
StopBeforeNothing ==
  /\ pc = "stop"
  /\ Goto(IF script \in {"generic", "boot"} THEN "drain" ELSE "serve")
  /\ UNCHANGED <<machine, work, counts>>

StopBefore ==
  /\ pc = "stop"
  /\ StopServer
  /\ Goto(IF script \in {"generic", "boot"} THEN "drain" ELSE "serve")
  /\ UNCHANGED counts

\* The n-th boot is a strict one or a loose one.
Mode(k) == IF k % 2 = 1 THEN "strict" ELSE "loose"
Loose   == script = "boot" /\ Mode(n) = "loose"

Drained ==
  /\ pc = "drain"
  /\ memory = "free" \/ (Loose /\ memory = "little")
  /\ Goto("serve")
  /\ UNCHANGED <<machine, work, counts>>

\* The polls are used up; nobody looks at what the loop has come to.
DrainGivesUp ==
  /\ pc = "drain"
  /\ Goto("serve")
  /\ UNCHANGED <<machine, work, counts>>

\* serve.sh, serve_generic.sh: the server boots in the background.
Serve ==
  /\ pc = "serve"
  /\ boots' = boots + 1 /\ pid' = boots'
  /\ servers' = servers \cup {[id |-> boots', cfg |-> cfg, up |-> FALSE, pool |-> "none", from |-> memory]}
  /\ pc' = "wait"
  /\ UNCHANGED <<script, cfg, n, rows, rc, pool, memory, work, starts, breaks, kills>>

-----------------------------------------------------------------------------
(* wait_ready.sh.                                                          *)

\* Somebody answers on the port.
Ready ==
  /\ pc = "wait" /\ Up # {}
  /\ Goto("pool")
  /\ UNCHANGED <<machine, work, counts>>

\* Mutant of NoAnswer: only the end of the process is looked for.
NoAnswerDead == Up = {} /\ Mine = {}

\* SERVER_DIED, or TIMEOUT while the server boots.
NoAnswer == Up = {}

\* The drivers of the series leave at once.
NotReady ==
  /\ pc = "wait" /\ NoAnswer /\ script \in Series
  /\ Exit("not_ready")
  /\ UNCHANGED <<machine, work, counts>>

\* The others stop the server first; boot_matrix.sh writes its row.
BootFails ==
  /\ pc = "wait" /\ NoAnswer /\ script \notin Series
  /\ pc' = "last_stop" /\ rc' = "not_ready"
  /\ rows' = IF script = "boot" THEN Append(rows, [n |-> n, mode |-> Mode(n), pool |-> "BOOT_FAIL"])
             ELSE rows
  /\ UNCHANGED <<script, cfg, pid, n, pool, machine, work, counts>>

-----------------------------------------------------------------------------
(* Pool, measurement, stop.                                                *)

\* The pool of the last line in the log of the server the driver has started; a pool
\* that is not the expected one is noted, and the run goes on.
ReadPool ==
  /\ pc = "pool"
  /\ \E p \in Pools \cup {"none"} :
       /\ IF Mine = {} THEN TRUE ELSE p \in {s.pool : s \in Mine}
       /\ pool' = p
       /\ rows' = IF script = "boot" THEN Append(rows, [n |-> n, mode |-> Mode(n), pool |-> p])
                  ELSE rows
  /\ pc' = IF script \in Measures THEN "measure" ELSE "last_stop"
  /\ rc' = "ok"
  /\ UNCHANGED <<script, cfg, pid, n, machine, work, counts>>

\* The client starts; run_config.sh has started nvsample.sh just before.
Measure ==
  /\ pc = "measure"
  /\ clients' = clients \cup
       {[by |-> starts, kind |-> script, cfg |-> cfg, pid |-> pid, pool |-> pool,
         on |-> Answering,
         beside |-> {c.kind : c \in clients}]}
  /\ samplers' = IF script = "run" THEN samplers \cup {[by |-> starts, cfg |-> cfg]} ELSE samplers
  /\ Goto("busy")
  /\ UNCHANGED <<machine, files, counts>>

\* Mutant of NoMoreSamples: the sampler goes on.
SamplesGoOn == samplers

NoMoreSamples == {s \in samplers : s.by # starts}

\* The client has ended; kill $nvpid.
Measured ==
  /\ pc = "busy" /\ MyClient = {}
  /\ samplers' = NoMoreSamples
  /\ rc' = IF files[<<script, cfg>>].by = starts THEN "ok" ELSE "failed"
  /\ pc' = "last_stop"
  /\ UNCHANGED <<script, cfg, pid, n, rows, pool, machine, clients, files, counts>>

LastStop ==
  /\ pc = "last_stop"
  /\ StopServer
  /\ IF script = "boot" THEN Goto("loop") ELSE Exit(rc)
  /\ UNCHANGED counts

-----------------------------------------------------------------------------
(* The loop of boot_matrix.sh.                                             *)

NextBoot ==
  /\ pc = "loop" /\ n < 2 * Pairs
  /\ n' = n + 1 /\ pc' = "stop" /\ rc' = "none"
  /\ UNCHANGED <<script, cfg, pid, rows, pool, machine, work, counts>>

\* After the last pair, or past the deadline, which may fall inside a pair.
MatrixDone ==
  /\ pc = "loop"
  /\ Exit("ok")
  /\ UNCHANGED <<machine, work, counts>>

-----------------------------------------------------------------------------
(* Ctrl-C and kill.                                                        *)

\* Ctrl-C ends the shell and the client.  The server and nvsample.sh go on: a shell that
\* is not interactive starts what runs in the background with SIGINT ignored.  timeout
\* keeps its client out of reach of Ctrl-C, and then the shell goes on as well.
Break ==
  /\ pc \notin {"off", "exited"} /\ ~(script = "generic" /\ pc = "busy")
  /\ breaks < MaxBreaks
  /\ breaks' = breaks + 1
  /\ clients' = clients \ MyClient
  /\ Goto("off")
  /\ UNCHANGED <<machine, samplers, files, starts, boots, kills>>

\* A signal to the shell alone: the client goes on too.
Kill ==
  /\ pc \notin {"off", "exited"} /\ kills < MaxKills
  /\ kills' = kills + 1
  /\ Goto("off")
  /\ UNCHANGED <<machine, work, starts, boots, breaks>>

-----------------------------------------------------------------------------
(* The machine.                                                            *)

\* A server comes up if the port is free.
BootDone(s) ==
  /\ ~s.up /\ Up = {}
  /\ \E p \in Pools : servers' = (servers \ {s}) \cup {[s EXCEPT !.up = TRUE, !.pool = p]}
  /\ UNCHANGED <<driver, memory, work, counts>>

\* A server dies; a worker may keep its memory.
Crash(s) ==
  /\ servers' = servers \ {s} /\ memory' \in Levels
  /\ UNCHANGED <<driver, work, counts>>

MemoryFalls ==
  /\ servers = {} /\ memory # "free"
  /\ memory' = "free"
  /\ UNCHANGED <<driver, servers, work, counts>>

\* The client has an answer to every request: its server has lived through.
Succeeds(c) ==
  /\ c.on \in servers
  /\ files' = [files EXCEPT ![<<c.kind, c.cfg>>] = c]
  /\ clients' = clients \ {c}
  /\ UNCHANGED <<driver, machine, samplers, counts>>

\* A request has failed, or "timeout" has ended the client.
Fails(c) ==
  /\ clients' = clients \ {c}
  /\ UNCHANGED <<driver, machine, samplers, files, counts>>

-----------------------------------------------------------------------------
Command ==
  \/ StopBefore \/ Drained \/ DrainGivesUp \/ Serve \/ Ready \/ NotReady \/ BootFails
  \/ ReadPool \/ Measure \/ Measured \/ LastStop \/ NextBoot \/ MatrixDone
ClientEnds == \E c \in clients : Succeeds(c) \/ Fails(c)
Machine    == MemoryFalls \/ \E s \in servers : BootDone(s) \/ Crash(s)

Next ==
  \/ \E k \in Scripts, c \in Configs : Start(k, c)
  \/ Command \/ Break \/ Kill \/ ClientEnds \/ Machine

Spec == Init /\ [][Next]_vars

\* A script goes on; a client comes to an end, as BenchClient says of bench.py.
FairSpec == Spec /\ WF_vars(Command) /\ WF_vars(ClientEnds)

-----------------------------------------------------------------------------
(* Properties.                                                             *)

Server == [id : 1..boots, cfg : Configs, up : BOOLEAN, pool : Pools \cup {"none"}, from : Levels]
Client == [by : 1..starts, kind : Measures, cfg : Configs, pid : 1..boots,
           pool : Pools \cup {"none"}, on : Server \cup {Nothing}, beside : SUBSET Measures]

\* The type invariant.
TypeOK ==
  /\ script \in Scripts /\ cfg \in Configs
  /\ pc \in {"off", "loop", "stop", "drain", "serve", "wait", "pool", "measure", "busy",
             "last_stop", "exited"}
  /\ pid \in 0..boots /\ n \in 0..(2 * Pairs) /\ Len(rows) <= n
  /\ rc \in {"none", "ok", "failed", "not_ready"} /\ pool \in Pools \cup {"none"}
  /\ servers \subseteq Server /\ Cardinality(Up) <= 1 /\ memory \in Levels
  /\ clients \subseteq Client
  /\ samplers \subseteq [by : 1..starts, cfg : Configs]
  /\ \A f \in DOMAIN files : files[f] \in Client \cup {Nothing}
  /\ starts \in 0..MaxRuns /\ breaks \in 0..MaxBreaks /\ kills \in 0..MaxKills

\* wait_ready.sh takes whoever answers on the port.  Still, whatever servers earlier runs
\* have left, a result was measured on the server its driver had started, with its
\* configuration and the pool that was read off its log.
MeasuredOnOwn ==
  \A f \in DOMAIN files : files[f] # Nothing =>
    LET r == files[f]
    IN  r.on.id = r.pid /\ r.on.cfg = f[2] /\ r.on.pool = r.pool

\* A calibration whose driver was killed is under way in no measurement of the next.
CalibrationsApart == \A c \in clients : "online" \notin c.beside

\* A driver that exits leaves no sampler and no client, and a server only where a
\* driver of the series gives up waiting for it or boot_matrix.sh has booted none.
ExitStops ==
  pc = "exited" =>
    /\ MyClient = {} /\ \A s \in samplers : s.by # starts
    /\ pid # 0 /\ servers # {} => script \in Series /\ rc = "not_ready"

\* Every boot of the matrix has one row, under its number and regime, whether it came up
\* or not and wherever the deadline falls.
RowsAreBoots ==
  script = "boot" =>
    /\ \A k \in DOMAIN rows : rows[k].n = k /\ rows[k].mode = Mode(k)
    /\ pc \in {"loop", "exited"} => Len(rows) = n

\* A server that neither comes up nor dies holds no driver for ever.
Ends == (pc \notin {"off", "exited"}) ~> (pc \in {"off", "exited"})

\* calibrate_online.sh "stops the server" (5).
ServerStopped == pc = "exited" /\ script = "online" => servers = {}

\* run_config_generic.sh: "strict VRAM drain -> fresh server" (3).
BootsDrained == \A c \in clients : c.kind = "generic" /\ c.on # Nothing => c.on.from = "free"

\* One sampler writes the samples of a run.
OneSampler == \A s, t \in samplers : s.cfg = t.cfg => s = t

\* Nobody else is under way at the server when a measurement begins.
MeasuredAlone == \A c \in clients : c.beside = {}
=============================================================================
