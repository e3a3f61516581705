-------------------------- MODULE RunDriversProofs --------------------------
(***************************************************************************)
(* Theorems about RunDrivers, for any configurations, any length of the    *)
(* boot matrix and any number of runs, interruptions and kills.            *)
(***************************************************************************)
EXTENDS RunDrivers, SequenceTheorems, FiniteSetTheorems, TLAPS

Labels  == {"off", "loop", "stop", "drain", "serve", "wait", "pool", "measure", "busy",
            "last_stop", "exited"}
AnyPool == Pools \cup {"none"}
Booted  == [id : Nat, cfg : Configs, up : BOOLEAN, pool : AnyPool, from : Levels]

\* What the other parts need to know of the types.
Shapes ==
  /\ pc \in Labels /\ script \in Scripts /\ cfg \in Configs /\ memory \in Levels
  /\ pool \in AnyPool /\ boots \in Nat /\ starts \in Nat
  /\ servers \subseteq Booted
  /\ pc \in {"measure", "busy"} => script \in Measures
  /\ pc = "loop" => script = "boot"

\* The server of a client is the one its driver has started.
Own(c) == c.on # Nothing => c.on.id = c.pid /\ c.on.cfg = c.cfg /\ c.on.pool = c.pool

\* From the stop to the measurement there is no server but the driver's own, and one
\* that answers keeps the pool that was read.
OwnServer ==
  /\ \A s, t \in servers : s = t
  /\ pc \in {"drain", "serve"} => servers = {}
  /\ pc \in {"wait", "pool", "measure"} => \A s \in servers : s.id = pid /\ s.cfg = cfg
  /\ pc \in {"pool", "measure"} => \A s \in servers : s.up
  /\ pc = "measure" => \A s \in servers : s.pool = pool
  /\ \A c \in clients : Own(c)
  /\ DOMAIN files = Measures \X Configs
  /\ \A f \in DOMAIN files : files[f] # Nothing => Own(files[f]) /\ files[f].on # Nothing /\ files[f].cfg = f[2]

\* From the stop to the measurement there is no calibration.
NoCalibration ==
  /\ pc \in {"drain", "serve", "wait", "pool", "measure"} => \A c \in clients : c.kind # "online"
  /\ \A c \in clients : "online" \notin c.beside

\* Only the measurement has a client or a sampler, unless the driver was interrupted.
Tidy ==
  /\ pid \in Nat
  /\ \A c \in clients : c.by \in Nat /\ c.by <= starts
  /\ \A s \in samplers : s.by \in Nat /\ s.by <= starts
  /\ pc \notin {"off", "busy"} =>
       (\A c \in clients : c.by # starts) /\ (\A s \in samplers : s.by # starts)
  /\ pc = "loop" => pid = 0 \/ servers = {}
  /\ pc = "exited" => pid = 0 \/ servers = {} \/ (script \in Series /\ rc = "not_ready")

\* The rows of the matrix and the boots so far.
Row == [n : Nat, mode : {"strict", "loose"}, pool : AnyPool \cup {"BOOT_FAIL"}]

Rows ==
  /\ n \in Nat /\ rows \in Seq(Row) /\ Len(rows) <= n
  /\ script # "boot" => rows = <<>>
  /\ script = "boot" /\ pc \in {"loop", "last_stop", "exited"} => Len(rows) = n
  /\ script = "boot" /\ pc \in {"stop", "drain", "serve", "wait", "pool"} => Len(rows) + 1 = n
  /\ \A k \in 1..Len(rows) : rows[k].n = k /\ rows[k].mode = Mode(k)

-----------------------------------------------------------------------------
LEMMA ShapesInit == Init => Shapes
BY DriversAssumption DEF Init, Shapes, Labels, Scripts, Series, Levels, AnyPool, Pools, Booted, DriversAssumption

LEMMA ShapesStep == Shapes /\ [Next]_vars => Shapes'
<1> SUFFICES ASSUME Shapes, [Next]_vars PROVE Shapes'
  OBVIOUS
<1> USE DEF Shapes, Labels, Scripts, Series, Measures, Levels, AnyPool, Pools, Booted,
            driver, machine, work, counts, Goto, Exit
<1>1. ASSUME NEW k \in Scripts, NEW c \in Configs, Start(k, c) PROVE Shapes'
  BY <1>1 DEF Start
<1>2. CASE StopBefore \/ LastStop
  BY <1>2 DEF StopBefore, LastStop, StopServer
<1>3. CASE Drained \/ DrainGivesUp \/ Ready \/ NotReady \/ BootFails
  BY <1>3 DEF Drained, DrainGivesUp, Ready, NotReady, BootFails
<1>4. CASE Serve
  <2> DEFINE s == [id |-> boots', cfg |-> cfg, up |-> FALSE, pool |-> "none", from |-> memory]
  <2>1. boots' \in Nat /\ servers' = servers \cup {s} /\ pc' = "wait"
    BY <1>4 DEF Serve
  <2>2. UNCHANGED <<script, cfg, pool, memory, starts>>
    BY <1>4 DEF Serve
  <2>3. s \in Booted
    BY <2>1
  <2> HIDE DEF s
  <2> QED
    BY <2>1, <2>2, <2>3
<1>5. CASE ReadPool
  BY <1>5 DEF ReadPool
<1>6. CASE Measure \/ Measured \/ NextBoot \/ MatrixDone
  BY <1>6 DEF Measure, Measured, NextBoot, MatrixDone
<1>7. CASE Break \/ Kill
  BY <1>7 DEF Break, Kill
<1>8. ASSUME NEW c \in clients, Succeeds(c) \/ Fails(c) PROVE Shapes'
  BY <1>8 DEF Succeeds, Fails
<1>9. ASSUME NEW s \in servers, BootDone(s) PROVE Shapes'
  BY <1>9 DEF BootDone
<1>10. ASSUME NEW s \in servers, Crash(s) PROVE Shapes'
  BY <1>10 DEF Crash
<1>11. CASE MemoryFalls
  BY <1>11 DEF MemoryFalls
<1>12. CASE UNCHANGED vars
  BY <1>12 DEF vars
<1> QED
  BY <1>1, <1>2, <1>3, <1>4, <1>5, <1>6, <1>7, <1>8, <1>9, <1>10, <1>11, <1>12
     DEF Next, Command, ClientEnds, Machine

-----------------------------------------------------------------------------
LEMMA NothingIsNoServer == \A s \in Booted : s # Nothing
BY DEF Booted, Nothing

LEMMA OwnInit == Init => OwnServer
BY DEF Init, OwnServer, Nothing

LEMMA OwnStep == Shapes /\ OwnServer /\ [Next]_vars => OwnServer'
<1> SUFFICES ASSUME Shapes, OwnServer, [Next]_vars PROVE OwnServer'
  OBVIOUS
<1> USE DEF OwnServer, Own, driver, machine, work, counts, Goto, Exit
<1>1. ASSUME NEW k \in Scripts, NEW c \in Configs, Start(k, c) PROVE OwnServer'
  BY <1>1 DEF Start
<1>2. CASE StopBefore \/ LastStop
  BY <1>2 DEF StopBefore, LastStop, StopServer
<1>3. CASE Drained \/ DrainGivesUp \/ NotReady \/ BootFails
  BY <1>3 DEF Drained, DrainGivesUp, NotReady, BootFails
<1>4. CASE Ready
  BY <1>4 DEF Ready, Up
<1>5. CASE Serve
  <2>1. PICK s : /\ servers' = {s} /\ s.id = pid' /\ s.cfg = cfg
    BY <1>5 DEF Serve
  <2>2. pc' = "wait" /\ UNCHANGED <<cfg, pool, clients, files>>
    BY <1>5 DEF Serve
  <2> QED
    BY <2>1, <2>2
<1>6. CASE ReadPool
  <2>1. \A s \in servers : s \in Mine
    BY <1>6 DEF ReadPool, Mine
  <2>2. \A s \in servers : s.pool = pool'
    BY <1>6, <2>1 DEF ReadPool, Mine
  <2> QED
    BY <1>6, <2>2 DEF ReadPool
<1>7. CASE Measure
  <2> DEFINE c == [by |-> starts, kind |-> script, cfg |-> cfg, pid |-> pid, pool |-> pool,
                   on |-> Answering, beside |-> {d.kind : d \in clients}]
  <2>0. clients' = clients \cup {c}
    BY <1>7 DEF Measure
  <2>1. c.pid = pid /\ c.cfg = cfg /\ c.pool = pool /\ c.on = Answering
    OBVIOUS
  <2> HIDE DEF c
  <2>2. c.on # Nothing => c.on \in servers
    BY <2>1 DEF Up, Answering
  <2>3. Own(c)
    BY <1>7, <2>1, <2>2 DEF Measure
  <2>4. pc' = "busy" /\ UNCHANGED <<pid, cfg, pool, servers, files>>
    BY <1>7 DEF Measure
  <2> QED
    BY <2>0, <2>1, <2>3, <2>4
<1>8. CASE Measured \/ NextBoot \/ MatrixDone
  BY <1>8 DEF Measured, NextBoot, MatrixDone
<1>9. CASE Break \/ Kill
  BY <1>9 DEF Break, Kill
<1>10. ASSUME NEW c \in clients, Succeeds(c) PROVE OwnServer'
  <2>1. c.on # Nothing
    BY <1>10, NothingIsNoServer DEF Succeeds, Shapes
  <2>2. \A f \in DOMAIN files' :
          files'[f] # Nothing => Own(files'[f]) /\ files'[f].on # Nothing /\ files'[f].cfg = f[2]
    BY <1>10, <2>1 DEF Succeeds
  <2> QED
    BY <1>10, <2>2 DEF Succeeds
<1>11. ASSUME NEW c \in clients, Fails(c) PROVE OwnServer'
  BY <1>11 DEF Fails
<1>12. ASSUME NEW s \in servers, BootDone(s) PROVE OwnServer'
  <2>1. \E t : servers' = {t} /\ t.id = s.id /\ t.cfg = s.cfg
    <3>1. PICK p \in Pools : servers' = (servers \ {s}) \cup {[s EXCEPT !.up = TRUE, !.pool = p]}
      BY <1>12 DEF BootDone
    <3>2. servers \ {s} = {}
      OBVIOUS
    <3>3. [s EXCEPT !.up = TRUE, !.pool = p].id = s.id /\ [s EXCEPT !.up = TRUE, !.pool = p].cfg = s.cfg
      BY DEF Shapes, Booted
    <3> QED
      BY <3>1, <3>2, <3>3
  <2>2. pc \notin {"pool", "measure"}
    BY <1>12 DEF BootDone
  <2> QED
    BY <1>12, <2>1, <2>2 DEF BootDone
<1>13. ASSUME NEW s \in servers, Crash(s) PROVE OwnServer'
  BY <1>13 DEF Crash
<1>14. CASE MemoryFalls \/ UNCHANGED vars
  BY <1>14 DEF MemoryFalls, vars
<1> QED
  BY <1>1, <1>2, <1>3, <1>4, <1>5, <1>6, <1>7, <1>8, <1>9, <1>10, <1>11, <1>12, <1>13, <1>14
     DEF Next, Command, ClientEnds, Machine

\* wait_ready.sh takes whoever answers on the port: it is the driver's own server, for
\* every history of runs, interruptions, kills and servers that come late.
THEOREM OwnServersMeasured == Spec => []MeasuredOnOwn
<1>1. Init => Shapes /\ OwnServer
  BY ShapesInit, OwnInit
<1>2. Shapes /\ OwnServer /\ [Next]_vars => (Shapes /\ OwnServer)'
  BY ShapesStep, OwnStep
<1>3. OwnServer => MeasuredOnOwn
  BY DEF OwnServer, MeasuredOnOwn, Own
<1> QED
  BY <1>1, <1>2, <1>3, PTL DEF Spec

-----------------------------------------------------------------------------
LEMMA NoCalibrationInit == Init => NoCalibration
BY DEF Init, NoCalibration

LEMMA NoCalibrationStep == NoCalibration /\ [Next]_vars => NoCalibration'
<1> SUFFICES ASSUME NoCalibration, [Next]_vars PROVE NoCalibration'
  OBVIOUS
<1> USE DEF NoCalibration, driver, machine, work, counts, Goto, Exit
<1>1. ASSUME NEW k \in Scripts, NEW c \in Configs, Start(k, c) PROVE NoCalibration'
  BY <1>1 DEF Start
<1>2. CASE StopBefore \/ LastStop
  BY <1>2 DEF StopBefore, LastStop, StopServer, Matches
<1>3. CASE Drained \/ DrainGivesUp \/ Serve \/ Ready \/ NotReady \/ BootFails
  BY <1>3 DEF Drained, DrainGivesUp, Serve, Ready, NotReady, BootFails
<1>4. CASE ReadPool
  BY <1>4 DEF ReadPool
<1>5. CASE Measure
  <2> DEFINE c == [by |-> starts, kind |-> script, cfg |-> cfg, pid |-> pid, pool |-> pool,
                   on |-> Answering, beside |-> {d.kind : d \in clients}]
  <2>1. clients' = clients \cup {c} /\ pc = "measure" /\ pc' = "busy"
    BY <1>5 DEF Measure
  <2>2. c.beside = {d.kind : d \in clients}
    OBVIOUS
  <2> HIDE DEF c
  <2> QED
    BY <2>1, <2>2
<1>6. CASE Measured \/ NextBoot \/ MatrixDone \/ Break \/ Kill
  BY <1>6 DEF Measured, NextBoot, MatrixDone, Break, Kill
<1>7. ASSUME NEW c \in clients, Succeeds(c) \/ Fails(c) PROVE NoCalibration'
  BY <1>7 DEF Succeeds, Fails
<1>8. ASSUME NEW s \in servers, BootDone(s) \/ Crash(s) PROVE NoCalibration'
  BY <1>8 DEF BootDone, Crash
<1>9. CASE MemoryFalls \/ UNCHANGED vars
  BY <1>9 DEF MemoryFalls, vars
<1> QED
  BY <1>1, <1>2, <1>3, <1>4, <1>5, <1>6, <1>7, <1>8, <1>9 DEF Next, Command, ClientEnds, Machine

\* stop_server.sh kills by name: a calibration whose driver was killed is gone before the
\* next measurement begins.
THEOREM CalibrationsStopped == Spec => []CalibrationsApart
<1>1. NoCalibration => CalibrationsApart
  BY DEF NoCalibration, CalibrationsApart
<1> QED
  BY NoCalibrationInit, NoCalibrationStep, <1>1, PTL DEF Spec

-----------------------------------------------------------------------------
LEMMA TidyInit == Init => Tidy
BY DEF Init, Tidy

LEMMA TidyStep == Shapes /\ Tidy /\ [Next]_vars => Tidy'
<1> SUFFICES ASSUME Shapes, Tidy, [Next]_vars PROVE Tidy'
  OBVIOUS
<1>0. starts \in Nat /\ boots \in Nat /\ (pc = "loop" => script = "boot")
  BY DEF Shapes
<1> USE DEF Tidy, driver, machine, work, counts, Goto, Exit
<1>1. ASSUME NEW k \in Scripts, NEW c \in Configs, Start(k, c) PROVE Tidy'
  BY <1>0, <1>1 DEF Start
<1>2. CASE StopBefore \/ LastStop
  BY <1>2 DEF StopBefore, LastStop, StopServer
<1>3. CASE Drained \/ DrainGivesUp \/ Ready \/ NotReady \/ BootFails
  BY <1>3 DEF Drained, DrainGivesUp, Ready, NotReady, BootFails
<1>4. CASE Serve
  BY <1>0, <1>4 DEF Serve
<1>5. CASE ReadPool
  BY <1>5 DEF ReadPool
<1>6. CASE Measure
  <2> DEFINE c == [by |-> starts, kind |-> script, cfg |-> cfg, pid |-> pid, pool |-> pool,
                   on |-> Answering, beside |-> {d.kind : d \in clients}]
  <2> DEFINE s == [by |-> starts, cfg |-> cfg]
  <2>1. clients' = clients \cup {c} /\ samplers' \in {samplers, samplers \cup {s}}
    BY <1>6 DEF Measure
  <2>2. pc' = "busy" /\ UNCHANGED <<pid, starts>>
    BY <1>6 DEF Measure
  <2>3. c.by = starts /\ s.by = starts
    OBVIOUS
  <2> HIDE DEF c, s
  <2> QED
    BY <1>0, <2>1, <2>2, <2>3
<1>7. CASE Measured
  BY <1>7 DEF Measured, MyClient, NoMoreSamples
<1>8. CASE NextBoot \/ MatrixDone
  BY <1>8 DEF NextBoot, MatrixDone
<1>9. CASE Break \/ Kill
  BY <1>9 DEF Break, Kill
<1>10. ASSUME NEW c \in clients, Succeeds(c) \/ Fails(c) PROVE Tidy'
  BY <1>10 DEF Succeeds, Fails
<1>11. ASSUME NEW s \in servers, BootDone(s) \/ Crash(s) PROVE Tidy'
  BY <1>11 DEF BootDone, Crash
<1>12. CASE MemoryFalls \/ UNCHANGED vars
  BY <1>12 DEF MemoryFalls, vars
<1> QED
  BY <1>1, <1>2, <1>3, <1>4, <1>5, <1>6, <1>7, <1>8, <1>9, <1>10, <1>11, <1>12
     DEF Next, Command, ClientEnds, Machine

\* Who exits has stopped what it started, unless a driver of the series gives up.
THEOREM ExitsClean == Spec => []ExitStops
<1>1. Init => Shapes /\ Tidy
  BY ShapesInit, TidyInit
<1>2. Shapes /\ Tidy /\ [Next]_vars => (Shapes /\ Tidy)'
  BY ShapesStep, TidyStep
<1>3. Tidy => ExitStops
  BY DEF Tidy, ExitStops, MyClient
<1> QED
  BY <1>1, <1>2, <1>3, PTL DEF Spec

-----------------------------------------------------------------------------
LEMMA RowsInit == Init => Rows
BY DEF Init, Rows

\* A step that leaves script, n and rows alone and stays on one side of the row.
LEMMA RowsStay ==
  ASSUME Rows, UNCHANGED <<script, n, rows>>,
         \/ pc' = pc \/ pc' = "off" \/ script # "boot"
         \/ pc \in {"stop", "drain", "serve", "wait", "pool"} /\ pc' \in {"drain", "serve", "wait", "pool"}
         \/ pc \in {"loop", "last_stop", "exited"} /\ pc' \in {"loop", "last_stop", "exited"}
  PROVE  Rows'
BY DEF Rows, Mode

\* The row of the boot under way.
LEMMA RowsAppend ==
  ASSUME Rows, script = "boot", pc \in {"wait", "pool"}, pc' = "last_stop", UNCHANGED <<script, n>>,
         NEW p \in AnyPool \cup {"BOOT_FAIL"}, rows' = Append(rows, [n |-> n, mode |-> Mode(n), pool |-> p])
  PROVE  Rows'
<1> DEFINE r == [n |-> n, mode |-> Mode(n), pool |-> p]
<1>1. r \in Row /\ r.n = n /\ r.mode = Mode(n)
  BY DEF Row, Rows, Mode
<1> HIDE DEF r
<1>2. rows' = Append(rows, r)
  BY DEF r
<1>3. rows \in Seq(Row) /\ n = Len(rows) + 1 /\ Len(rows) \in Nat
  BY DEF Rows
<1>4. /\ rows' \in Seq(Row) /\ Len(rows') = n /\ rows'[n] = r
      /\ \A k \in 1..Len(rows) : rows'[k] = rows[k]
  BY <1>1, <1>2, <1>3, AppendProperties
<1>5. \A k \in 1..Len(rows') : rows'[k].n = k /\ rows'[k].mode = Mode(k)
  <2> SUFFICES ASSUME NEW k \in 1..n PROVE rows'[k].n = k /\ rows'[k].mode = Mode(k)
    BY <1>4
  <2>1. CASE k = n
    BY <1>1, <1>4, <2>1
  <2>2. CASE k # n
    <3>1. k \in 1..Len(rows)
      BY <1>3, <2>2
    <3> QED
      BY <1>4, <3>1 DEF Rows
  <2> QED
    BY <2>1, <2>2
<1>6. n' = n /\ script' = "boot" /\ n \in Nat /\ n <= n
  BY DEF Rows
<1> QED
  BY <1>4, <1>5, <1>6 DEF Rows

LEMMA RowsStep == Shapes /\ Rows /\ [Next]_vars => Rows'
<1> SUFFICES ASSUME Shapes, Rows, [Next]_vars PROVE Rows'
  OBVIOUS
<1> USE DEF driver, machine, work, counts, Goto, Exit
<1>1. ASSUME NEW k \in Scripts, NEW c \in Configs, Start(k, c) PROVE Rows'
  <2>1. script' = k /\ rows' = <<>> /\ n' = 0 /\ pc' = IF k = "boot" THEN "loop" ELSE "stop"
    BY <1>1 DEF Start
  <2> QED
    BY <2>1 DEF Rows
<1>2. CASE StopBefore \/ LastStop
  BY <1>2, RowsStay DEF StopBefore, LastStop
<1>3. CASE Drained \/ DrainGivesUp \/ Serve \/ Ready
  BY <1>3, RowsStay DEF Drained, DrainGivesUp, Serve, Ready
<1>4. CASE NotReady
  BY <1>4, RowsStay DEF NotReady, Series
<1>5. CASE BootFails
  BY <1>5, RowsStay, RowsAppend DEF BootFails
<1>6. CASE ReadPool
  <2>1. PICK p \in AnyPool :
          rows' = IF script = "boot" THEN Append(rows, [n |-> n, mode |-> Mode(n), pool |-> p]) ELSE rows
    BY <1>6 DEF ReadPool, AnyPool
  <2>2. CASE script = "boot"
    <3>1. pc = "pool" /\ pc' = "last_stop" /\ UNCHANGED <<script, n>>
      BY <1>6, <2>2 DEF ReadPool, Measures, Series
    <3> QED
      BY <2>1, <2>2, <3>1, RowsAppend
  <2>3. CASE script # "boot"
    BY <1>6, <2>1, <2>3, RowsStay DEF ReadPool
  <2> QED
    BY <2>2, <2>3
<1>7. CASE Measure \/ Measured
  <2>1. script # "boot"
    BY <1>7 DEF Measure, Measured, Shapes, Measures, Series
  <2> QED
    BY <1>7, <2>1, RowsStay DEF Measure, Measured
<1>8. CASE NextBoot
  <2>1. script = "boot" /\ pc = "loop" /\ pc' = "stop" /\ n' = n + 1 /\ UNCHANGED <<script, rows>>
    BY <1>8 DEF NextBoot, Shapes
  <2> QED
    BY <2>1 DEF Rows, Mode
<1>9. CASE MatrixDone \/ Break \/ Kill
  BY <1>9, RowsStay DEF MatrixDone, Break, Kill
<1>10. ASSUME NEW c \in clients, Succeeds(c) \/ Fails(c) PROVE Rows'
  BY <1>10, RowsStay DEF Succeeds, Fails
<1>11. ASSUME NEW s \in servers, BootDone(s) \/ Crash(s) PROVE Rows'
  BY <1>11, RowsStay DEF BootDone, Crash
<1>12. CASE MemoryFalls \/ UNCHANGED vars
  BY <1>12, RowsStay DEF MemoryFalls, vars
<1> QED
  BY <1>1, <1>2, <1>3, <1>4, <1>5, <1>6, <1>7, <1>8, <1>9, <1>10, <1>11, <1>12
     DEF Next, Command, ClientEnds, Machine

\* However boots fail and wherever the deadline falls, row k is that of boot k.
THEOREM RowsKept == Spec => []RowsAreBoots
<1>1. Init => Shapes /\ Rows
  BY ShapesInit, RowsInit
<1>2. Shapes /\ Rows /\ [Next]_vars => (Shapes /\ Rows)'
  BY ShapesStep, RowsStep
<1>3. Rows => RowsAreBoots
  BY DEF Rows, RowsAreBoots
<1> QED
  BY <1>1, <1>2, <1>3, PTL DEF Spec

-----------------------------------------------------------------------------
\* What TypeOK says beyond Shapes and Rows.
Counted ==
  /\ pid \in 0..boots /\ (pc \in {"wait", "pool", "measure"} => pid # 0)
  /\ n \in 0..(2 * Pairs) /\ rc \in {"none", "ok", "failed", "not_ready"}
  /\ starts \in 0..MaxRuns /\ breaks \in 0..MaxBreaks /\ kills \in 0..MaxKills
  /\ pc # "off" => starts # 0
  /\ servers \subseteq Server /\ clients \subseteq Client
  /\ samplers \subseteq [by : 1..starts, cfg : Configs]
  /\ \A f \in DOMAIN files : files[f] \in Client \cup {Nothing}

LEMMA CountedInit == Init => Counted
BY DriversAssumption DEF Init, Counted, DriversAssumption

\* The sets of records only grow.
LEMMA RecordsGrow ==
  ASSUME Shapes, boots' \in {boots, boots + 1}, starts' \in {starts, starts + 1}
  PROVE  /\ Server \subseteq Server' /\ Client \subseteq Client'
         /\ [by : 1..starts, cfg : Configs] \subseteq [by : 1..starts', cfg : Configs]
<1>1. boots \in Nat /\ starts \in Nat
  BY DEF Shapes
<1>2. 1..boots \subseteq 1..boots' /\ 1..starts \subseteq 1..starts'
  BY <1>1
<1>3. Server \subseteq Server'
  BY <1>2 DEF Server
<1>4. Client \subseteq Client'
  BY <1>2, <1>3 DEF Client
<1> QED
  BY <1>2, <1>3, <1>4

LEMMA CountedStep == Shapes /\ Counted /\ [Next]_vars => Counted'
<1> SUFFICES ASSUME Shapes, Counted, [Next]_vars PROVE Counted'
  OBVIOUS
<1>0. boots \in Nat /\ starts \in Nat /\ cfg \in Configs /\ pool \in Pools \cup {"none"} /\ memory \in Levels
  BY DEF Shapes, AnyPool
<1> USE DEF Counted, driver, machine, work, counts, Goto, Exit
<1>14. ASSUME UNCHANGED <<boots, starts>> PROVE Server' = Server /\ Client' = Client
  BY <1>14 DEF Server, Client
<1>1. ASSUME NEW k \in Scripts, NEW c \in Configs, Start(k, c) PROVE Counted'
  <2>1. starts' = starts + 1 /\ starts < MaxRuns /\ UNCHANGED boots
    BY <1>1 DEF Start
  <2>2. Server \subseteq Server' /\ Client \subseteq Client'
        /\ [by : 1..starts, cfg : Configs] \subseteq [by : 1..starts', cfg : Configs]
    BY <2>1, RecordsGrow
  <2> QED
    BY <1>0, <1>1, <2>1, <2>2, DriversAssumption DEF Start, DriversAssumption
<1>2. CASE StopBefore \/ LastStop
  BY <1>2, <1>14 DEF StopBefore, LastStop, StopServer
<1>3. CASE Drained \/ DrainGivesUp \/ Ready \/ NotReady \/ BootFails
  BY <1>3, <1>14 DEF Drained, DrainGivesUp, Ready, NotReady, BootFails
<1>4. CASE Serve
  <2> DEFINE s == [id |-> boots', cfg |-> cfg, up |-> FALSE, pool |-> "none", from |-> memory]
  <2>1. boots' = boots + 1 /\ pid' = boots' /\ servers' = servers \cup {s} /\ pc' = "wait"
    BY <1>4 DEF Serve
  <2>2. UNCHANGED <<n, rc, starts, breaks, kills, clients, samplers, files>>
    BY <1>4 DEF Serve
  <2>3. Server \subseteq Server' /\ Client \subseteq Client'
    BY <2>1, <2>2, RecordsGrow
  <2>4. s \in Server'
    BY <1>0, <2>1 DEF Server
  <2>5. pc # "off"
    BY <1>4 DEF Serve
  <2> HIDE DEF s
  <2> QED
    BY <1>0, <2>1, <2>2, <2>3, <2>4, <2>5
<1>5. CASE ReadPool
  BY <1>5, <1>14 DEF ReadPool
<1>6. CASE Measure
  <2> DEFINE c == [by |-> starts, kind |-> script, cfg |-> cfg, pid |-> pid, pool |-> pool,
                   on |-> Answering, beside |-> {d.kind : d \in clients}]
  <2> DEFINE s == [by |-> starts, cfg |-> cfg]
  <2>1. clients' = clients \cup {c} /\ samplers' \in {samplers, samplers \cup {s}} /\ pc = "measure"
    BY <1>6 DEF Measure
  <2>2. pc' = "busy" /\ UNCHANGED <<pid, n, rc, starts, boots, breaks, kills, servers, files>>
    BY <1>6 DEF Measure
  <2>3. starts \in 1..starts /\ pid \in 1..boots /\ script \in Measures
    BY <1>0, <2>1 DEF Shapes
  <2>4. Answering \in Server \cup {Nothing}
    BY DEF Answering, Up
  <2>5. {d.kind : d \in clients} \in SUBSET Measures
    BY DEF Client
  <2>6. c \in Client
    BY <1>0, <2>3, <2>4, <2>5 DEF Client
  <2>7. s \in [by : 1..starts, cfg : Configs]
    BY <1>0, <2>3
  <2> HIDE DEF c, s
  <2> QED
    BY <1>14, <2>1, <2>2, <2>6, <2>7
<1>7. CASE Measured \/ MatrixDone
  BY <1>7, <1>14 DEF Measured, MatrixDone, NoMoreSamples
<1>8. CASE NextBoot
  <2>1. n' = n + 1 /\ n < 2 * Pairs /\ rc' = "none" /\ pc = "loop" /\ pc' = "stop"
    BY <1>8 DEF NextBoot
  <2>2. UNCHANGED <<pid, starts, boots, breaks, kills, servers, clients, samplers, files>>
    BY <1>8 DEF NextBoot
  <2>3. n' \in 0..(2 * Pairs)
    BY <2>1, DriversAssumption DEF DriversAssumption
  <2> QED
    BY <1>14, <2>1, <2>2, <2>3
<1>9. CASE Break \/ Kill
  BY <1>9, <1>14, DriversAssumption DEF Break, Kill, DriversAssumption
<1>10. ASSUME NEW c \in clients, Succeeds(c) \/ Fails(c) PROVE Counted'
  BY <1>10, <1>14 DEF Succeeds, Fails
<1>11. ASSUME NEW s \in servers, BootDone(s) PROVE Counted'
  <2>1. PICK p \in Pools : servers' = (servers \ {s}) \cup {[s EXCEPT !.up = TRUE, !.pool = p]}
    BY <1>11 DEF BootDone
  <2>2. [s EXCEPT !.up = TRUE, !.pool = p] \in Server
    BY DEF Server
  <2> QED
    BY <1>11, <1>14, <2>1, <2>2 DEF BootDone
<1>12. ASSUME NEW s \in servers, Crash(s) PROVE Counted'
  BY <1>12, <1>14 DEF Crash
<1>13. CASE MemoryFalls \/ UNCHANGED vars
  BY <1>13, <1>14 DEF MemoryFalls, vars
<1> QED
  BY <1>1, <1>2, <1>3, <1>4, <1>5, <1>6, <1>7, <1>8, <1>9, <1>10, <1>11, <1>12, <1>13
     DEF Next, Command, ClientEnds, Machine

\* Every field keeps its type, and one server at most has the port.
THEOREM DriverTypes == Spec => []TypeOK
<1>1. Init => Shapes /\ OwnServer /\ Rows /\ Counted
  BY ShapesInit, OwnInit, RowsInit, CountedInit
<1>2. Shapes /\ OwnServer /\ Rows /\ Counted /\ [Next]_vars => (Shapes /\ OwnServer /\ Rows /\ Counted)'
  BY ShapesStep, OwnStep, RowsStep, CountedStep
<1>3. ASSUME OwnServer PROVE Cardinality(Up) <= 1
  <2>1. CASE Up = {}
    BY <2>1, FS_EmptySet
  <2>2. CASE Up # {}
    <3>1. PICK s \in Up : TRUE
      BY <2>2
    <3>2. Up = {s}
      BY <1>3, <3>1 DEF Up, OwnServer
    <3> QED
      BY <3>2, FS_Singleton
  <2> QED
    BY <2>1, <2>2
<1>4. Shapes /\ OwnServer /\ Rows /\ Counted => TypeOK
  BY <1>3 DEF Shapes, Labels, AnyPool, Rows, Counted, TypeOK
<1> QED
  BY <1>1, <1>2, <1>4, PTL DEF Spec
=============================================================================
