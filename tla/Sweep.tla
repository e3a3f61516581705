------------------------------- MODULE Sweep -------------------------------
(***************************************************************************)
(* sweep.py, load_sweep.py and sweep2.py: a pool of processes simulates a  *)
(* grid of configurations, the results come back in any order, some        *)
(* simulations fail, and the driver ranks what it has.                     *)
(*                                                                         *)
(* sweep.py ranks the configurations within a guard taken from config A's  *)
(* own result; load_sweep.py takes such a guard at each speedup and ranks  *)
(* by the highest speedup survived; sweep2.py does the same with measured  *)
(* guards, in two versions.                                                *)
(***************************************************************************)
EXTENDS Integers, Sequences, FiniteSets, FiniteSetsExt, SequencesExt, StableSorting

CONSTANTS
  Configs,     \* the grid, in the order of itertools.product
  Base,        \* BASELINE, BASE: config A
  Speeds,      \* the multipliers of SPEEDS, ascending
  Workers,     \* --workers
  Tables,      \* what the simulator may say: functions from cells to [cost, p95]
  Anchors      \* <<ANCHOR_BRIEFED, ANCHOR_SENS>>: measured p95 per speed

Cell == Range(Configs) \X DOMAIN Speeds

ASSUME SweepAssumption ==
  /\ Configs \in Seq(Range(Configs)) /\ IsInjective(Configs) /\ Base \in Range(Configs)
  /\ Speeds \in Seq(Nat \ {0}) /\ Speeds # <<>> /\ Workers \in Nat \ {0}
  /\ Tables \subseteq [Cell -> [cost : Nat, p95 : Nat]]
  /\ Anchors \in Seq([DOMAIN Speeds -> Nat]) /\ Len(Anchors) = 2

VARIABLES
  script,   \* which of the three it is
  table,    \* the results of this grid: the simulator is deterministic
  todo,     \* cells not yet given to a worker, in order
  running,  \* cells being simulated
  rows,     \* results in the order of completion: [cell, ok]
  out,      \* the file written at the end; <<>> before
  pc        \* "pool", "leaving", "report", "written", "raised"

vars == <<script, table, todo, running, rows, out, pc>>
-----------------------------------------------------------------------------
(* The jobs, config by config and speed by speed; sweep.py has one trace.  *)
SpeedsOf(s) == IF s = "sweep" THEN 1 .. 1 ELSE DOMAIN Speeds
Jobs(s) ==
  LET n == Cardinality(SpeedsOf(s))
  IN  [i \in 1 .. Len(Configs) * n |-> <<Configs[((i - 1) \div n) + 1], ((i - 1) % n) + 1>>]

Init ==
  /\ script \in {"sweep", "load_sweep", "sweep2"}
  /\ table \in Tables
  /\ todo = Jobs(script)
  /\ running = {} /\ rows = <<>> /\ out = <<>>
  /\ pc = "pool"

FreeWorker == Cardinality(running) < Workers

(* ProcessPoolExecutor: a free worker takes the oldest job.  After an      *)
(* exception the with-block is left only when all of them are done.        *)
Take ==
  /\ pc \in {"pool", "leaving"} /\ todo # <<>> /\ FreeWorker
  /\ running' = running \cup {Head(todo)}
  /\ todo' = Tail(todo)
  /\ UNCHANGED <<script, table, rows, out, pc>>

(* run_one: the simulator wrote its file, or ended with an error.          *)
SimEnds(cell, ok) ==
  /\ pc = "pool" /\ cell \in running
  /\ running' = running \ {cell}
  /\ rows' = Append(rows, [cell |-> cell, ok |-> ok])
  /\ pc' = IF todo = <<>> /\ running' = {} THEN "report" ELSE pc
  /\ UNCHANGED <<script, table, todo, out>>

(* run_one raises: it has no file to load, or cannot start the simulator.  *)
(* f.result() raises it again, out of the with-block.                      *)
(* Mutant: the exception is passed over, and the job with it.              *)
RunOneSkipped(cell) ==
  /\ pc = "pool" /\ cell \in running
  /\ running' = running \ {cell}
  /\ pc' = IF todo = <<>> /\ running' = {} THEN "report" ELSE pc
  /\ UNCHANGED <<script, table, todo, rows, out>>
RunOneRaises(cell) ==
  /\ pc = "pool" /\ cell \in running
  /\ running' = running \ {cell}
  /\ pc' = IF todo = <<>> /\ running' = {} THEN "raised" ELSE "leaving"
  /\ UNCHANGED <<script, table, todo, rows, out>>

(* A simulation that ends now is looked at by nobody.                      *)
EndsUnseen(cell) ==
  /\ pc = "leaving" /\ cell \in running
  /\ running' = running \ {cell}
  /\ pc' = IF todo = <<>> /\ running' = {} THEN "raised" ELSE pc
  /\ UNCHANGED <<script, table, todo, rows, out>>

(* A worker process dies: every future of the pool raises.                 *)
PoolBreaks ==
  /\ pc \in {"pool", "leaving"} /\ running # {}
  /\ pc' = "raised" /\ running' = {}
  /\ UNCHANGED <<script, table, todo, rows, out>>
-----------------------------------------------------------------------------
(* The places of rows that hold no error, and their cells.                 *)
Good == {i \in DOMAIN rows : rows[i].ok}
GoodCells == {rows[i].cell : i \in Good}

(* Within SLO_FACTOR of the guard.                                         *)
Within(p95, anchor) == 10 * p95 <= 11 * anchor

(* Ranks by a key: every element once, the smaller key first.              *)
(* Mutant: ties of the cost are left as they came.                         *)
CostKeyAlone(cell) == <<table[cell].cost>>
CostKey(cell) == <<table[cell].cost, table[cell].p95>>

(* sweep.py: the configurations within the guard, cheapest first; next()   *)
(* raises if config A is not among the results.                            *)
BaseCell == <<Base, 1>>
RankedFeasible ==
  LET inside == {i \in Good : Within(table[rows[i].cell].p95, table[BaseCell].p95)}
      at     == StablePlaces(inside, rows, LAMBDA r, s : TupleLess(CostKey(r.cell), CostKey(s.cell)))
  IN  [p \in DOMAIN at |-> rows[at[p]].cell]

(* capacities(): the highest speed a configuration survives, 0 if none; a  *)
(* simulation that failed counts as not survived.                          *)
(* Mutant: a simulation that failed counts as survived.                    *)
SurvivesUnlessSeen(c, sp, anchor) ==
  <<c, sp>> \in GoodCells => Within(table[<<c, sp>>].p95, anchor[sp])
Survives(c, sp, anchor) ==
  <<c, sp>> \in GoodCells /\ Within(table[<<c, sp>>].p95, anchor[sp])
Cap(c, anchor) == Max({0} \cup {Speeds[sp] : sp \in {s \in DOMAIN Speeds : Survives(c, s, anchor)}})

(* gpu_s_at_cap, and the 9e9 that puts its absence last.                   *)
GpuAtCap(c, anchor) ==
  LET at == {sp \in DOMAIN Speeds : Speeds[sp] = Cap(c, anchor)}
  IN  IF at = {} THEN 999 ELSE table[<<c, Min(at)>>].cost

CapKey(c, anchor) == <<-Cap(c, anchor), GpuAtCap(c, anchor)>>
Capacities(anchor) ==
  LET ranked == StableSort(Configs, LAMBDA c, d : TupleLess(CapKey(c, anchor), CapKey(d, anchor)))
  IN  [i \in DOMAIN ranked |-> [config |-> ranked[i], cap |-> Cap(ranked[i], anchor)]]

(* load_sweep.py: the guard of each speed is config A's own p95 there.     *)
OwnAnchors == [sp \in DOMAIN Speeds |-> table[<<Base, sp>>].p95]

(* The lookups that raise: next() over config A's row; by[...] of config A *)
(* at each speed, and of every configuration at the first.                 *)
LookupsFound ==
  CASE script = "sweep"      -> BaseCell \in GoodCells
    [] script = "load_sweep" -> ({Base} \X DOMAIN Speeds) \cup (Range(Configs) \X {1}) \subseteq GoodCells
    [] script = "sweep2"     -> Range(Configs) \X {1} \subseteq GoodCells

(* The configurations whose capacity differs between the two anchors.      *)
Differ ==
  {c \in Range(Configs) : Cap(c, Anchors[1]) # Cap(c, Anchors[2])}

(* json.dump: n counts the results, and errors has the others.             *)
Errors == DOMAIN rows \ Good
Contents ==
  CASE script = "sweep"      -> [ranked |-> RankedFeasible,
                                 n |-> Cardinality(Good), errors |-> Cardinality(Errors)]
    [] script = "load_sweep" -> [caps |-> Capacities(OwnAnchors),
                                 n |-> Cardinality(Good), errors |-> Cardinality(Errors)]
    [] script = "sweep2"     -> [caps |-> Capacities(Anchors[1]), sens |-> Capacities(Anchors[2]),
                                 differ |-> Differ,
                                 n |-> Cardinality(Good), errors |-> Cardinality(Errors)]

Report ==
  /\ pc = "report"
  /\ IF LookupsFound THEN pc' = "written" /\ out' = Contents
                     ELSE pc' = "raised" /\ UNCHANGED out
  /\ UNCHANGED <<script, table, todo, running, rows>>

Over == pc \in {"written", "raised"}
Done == Over /\ UNCHANGED vars

Next ==
  \/ Take
  \/ \E cell \in running, ok \in BOOLEAN : SimEnds(cell, ok)
  \/ \E cell \in running : RunOneRaises(cell) \/ EndsUnseen(cell)
  \/ PoolBreaks
  \/ Report
  \/ Done

Spec == Init /\ [][Next]_vars
-----------------------------------------------------------------------------
Failed == {rows[i].cell : i \in {j \in DOMAIN rows : ~rows[j].ok}}

(* Types: each job is waiting, running or has come back once.              *)
TypeOK ==
  /\ pc \in {"pool", "leaving", "report", "written", "raised"}
  /\ Cardinality(running) <= Workers
  /\ LET back == {rows[i].cell : i \in DOMAIN rows}
     IN  /\ Cardinality(back) = Len(rows) /\ back \cap (running \cup Range(todo)) = {}
         /\ pc = "pool" => back \cup running \cup Range(todo) = Range(Jobs(script))

(* The order of completion decides about exact ties and nothing else: each *)
(* configuration that was simulated and is within the guard has a rank in  *)
(* sweep.py's file, after all that are better in (cost, p95) and before    *)
(* all that are worse.  Among equals the sort keeps the order of the rows, *)
(* which is the one in which the simulations ended (82-83, 108-111).       *)
RankedUpToTies ==
  (pc = "written" /\ script = "sweep") =>
    LET feasible == {c \in Range(Configs) : /\ <<c, 1>> \notin Failed
                                            /\ 10 * table[<<c, 1>>].p95 <= 11 * table[BaseCell].p95}
        better(d, c) == LET x == table[<<d, 1>>]  y == table[<<c, 1>>]
                        IN  x.cost < y.cost \/ (x.cost = y.cost /\ x.p95 < y.p95)
    IN  /\ {cell[1] : cell \in Range(out.ranked)} = feasible
        /\ \A i \in DOMAIN out.ranked :
             LET c == out.ranked[i][1]
             IN  /\ Cardinality({d \in feasible : better(d, c)}) < i
                 /\ i <= Cardinality({d \in feasible : ~better(c, d)})

(* A capacity is earned: the simulation at that speed came back and was    *)
(* within the guard; none that survived is faster; and the ranking never   *)
(* puts a lower capacity first (capacities(), load_sweep.main); sweep2.py  *)
(* does so for each of its two anchors.                                    *)
CapacityIsEarned ==
  (pc = "written" /\ script # "sweep") =>
    LET survived(c, anchor) ==
          {sp \in DOMAIN Speeds : <<c, sp>> \notin Failed /\ 10 * table[<<c, sp>>].p95 <= 11 * anchor[sp]}
        earned(caps, anchor) ==
          /\ \A i \in DOMAIN caps :
               LET r == caps[i]
               IN  /\ r.cap # 0 => r.cap \in {Speeds[sp] : sp \in survived(r.config, anchor)}
                   /\ \A sp \in survived(r.config, anchor) : Speeds[sp] <= r.cap
          /\ \A i, j \in DOMAIN caps : i < j => caps[i].cap >= caps[j].cap
          /\ {r.config : r \in Range(caps)} = Range(Configs)
    IN  IF script = "sweep2"
        THEN earned(out.caps, Anchors[1]) /\ earned(out.sens, Anchors[2])
        ELSE earned(out.caps, [sp \in DOMAIN Speeds |-> table[<<Base, sp>>].p95])

(* A file accounts for the whole grid: every job is a result or an error   *)
(* in it, so that no missing row passes for a load that was not survived   *)
(* or a configuration out of the guard.                                    *)
GridIsAccounted ==
  pc = "written" => out.n + out.errors = Len(Jobs(script))

(* That ties keep the order of the grid, as they do in the capacities of   *)
(* the other two: not so in sweep.py, where the best of several equals is  *)
(* the one whose simulation ended first.                                   *)
TiesInGridOrder ==
  (pc = "written" /\ script = "sweep") =>
    \A i, j \in DOMAIN out.ranked :
      LET place(c) == CHOOSE n \in DOMAIN Configs : Configs[n] = c
          c == out.ranked[i]  d == out.ranked[j]
      IN  (i < j /\ table[c] = table[d]) => place(c[1]) < place(d[1])
=============================================================================
