---------------------------- MODULE Calibration ----------------------------
(***************************************************************************)
(* calibrate.py --mode online and satprobe.py: decode steps are timed with *)
(* B streams in flight, and what is measured goes into the step-time model *)
(* (calibrate) or into a table (satprobe).  Both call _measure_point; they *)
(* differ in what they do when a measurement fails.                        *)
(*                                                                         *)
(* The engine is external.  A step of it gives one token to each stream it *)
(* holds; it admits streams when it likes, and may preempt one, which      *)
(* raises its counter.  Time is counted in its steps.                      *)
(***************************************************************************)
EXTENDS Integers, Sequences, FiniteSets, FiniteSetsExt, SequencesExt, StableSorting

CONSTANTS
  Grid,         \* ONLINE_GRID, GRID: the points, a sequence of [B, C]
  Check,        \* ONLINE_CHECK: the points held out of the fit
  Prefill,      \* how many contexts ONLINE_PREFILL has
  Repeats,      \* --repeats
  GenTokens, WarmTokens, TailTokens,
  MinSteps,     \* the 20 of _measure_point
  MinGen,       \* the 96 of gen_for
  Pool,         \* POOL, in tokens
  MaxPreempt,   \* how often the engine preempts, in all
  MaxFail       \* how many streams fail or end early, in all

Point == [B : Nat \ {0}, C : Nat]

ASSUME CalibrationAssumption ==
  /\ Grid \in Seq(Point) /\ Check \in Seq(Point)
  /\ Repeats \in Nat \ {0} /\ MinSteps \in Nat \ {0}
  /\ {Prefill, GenTokens, WarmTokens, TailTokens, MinGen, Pool, MaxPreempt, MaxFail} \subseteq Nat
  /\ WarmTokens + TailTokens < MinGen /\ MinGen <= GenTokens

VARIABLES
  driver,     \* "calibrate" or "satprobe"
  fit,        \* --fit: "a" or "full"
  pc,         \* what the driver does next
  todo,       \* the points still to come, each with the list it goes to
  before,     \* p_before, pre0
  reps,       \* the measurements of this point
  tries,      \* how many times it was measured
  rows, checks, prefill,   \* what has been measured
  perf,       \* the file that is written at the end; <<>> before
  st, got,    \* per stream: its state, the times of its tokens
  ran,        \* the batch of every engine step of this measurement
  orphans,    \* streams of a failed measurement that nobody has cancelled
  counter,    \* vllm:num_preemptions_total
  faults      \* streams that failed or ended early

driverVars == <<driver, fit, pc, todo, before, reps, tries, rows, checks, prefill, perf>>
engineVars == <<st, got, ran, orphans, counter, faults>>
vars == <<driverVars, engineVars>>

None == -1                      \* a counter that could not be read
Unit == 60                      \* a step, so that 1/2 .. 1/6 of it are integers
-----------------------------------------------------------------------------
(* The common window of _measure_point.                                    *)

(* satprobe.gen_for: fewer tokens for a point that would fill the pool.    *)
GenFor(p) == IF 100 * p.B * (p.C + GenTokens) <= 85 * Pool
             THEN GenTokens
             ELSE Max({MinGen, Min({GenTokens, (95 * Pool) \div (100 * p.B) - p.C})})

Tokens(p) == IF driver = "satprobe" THEN GenFor(p) ELSE GenTokens

TLo(res)    == Max({ts[WarmTokens + 1] : ts \in Range(res)})
THi(res, T) == Min({ts[T - TailTokens] : ts \in Range(res)})

FirstAt(ts, t) == CHOOSE i \in DOMAIN ts : ts[i] >= t /\ \A j \in DOMAIN ts : ts[j] >= t => i <= j
LastBy(ts, t)  == CHOOSE i \in DOMAIN ts : ts[i] <= t /\ \A j \in DOMAIN ts : ts[j] <= t => j <= i

Steps(ts, lo, hi)    == LastBy(ts, hi) - FirstAt(ts, lo)
Interval(ts, lo, hi) == (Unit * (ts[LastBy(ts, hi)] - ts[FirstAt(ts, lo)])) \div Steps(ts, lo, hi)

(* The three checks that make _measure_point raise.                        *)
Measurable(res, T) ==
  /\ \A ts \in Range(res) : Len(ts) = T
  /\ TLo(res) < THi(res, T)
  /\ \A ts \in Range(res) : Steps(ts, TLo(res), THi(res, T)) >= MinSteps

(* A measurement: step is the sum over the streams of what the code        *)
(* averages over them; seen is kept for the properties alone, the batches  *)
(* of the steps inside the window.                                         *)
Measured(res, T) ==
  LET lo == TLo(res)  hi == THi(res, T)
  IN  [step |-> MapThenSumSet(LAMBDA s : Interval(res[s], lo, hi), DOMAIN res),
       seen |-> {ran[t] : t \in (lo + 1) .. hi}]

MedianRep == StableSort(reps, LAMBDA m, n : m.step < n.step)[(Len(reps) \div 2) + 1]
-----------------------------------------------------------------------------
Sink(points, list) == [i \in DOMAIN points |-> [point |-> points[i], list |-> list]]

Init ==
  /\ \/ driver = "calibrate" /\ fit \in {"a", "full"} /\ pc = "probe"
     \/ driver = "satprobe"  /\ fit = "a" /\ pc = "point"
  /\ todo = Sink(Grid, "rows") \o (IF driver = "calibrate" THEN Sink(Check, "checks") ELSE <<>>)
  /\ before = None /\ reps = <<>> /\ tries = 0
  /\ rows = <<>> /\ checks = <<>> /\ prefill = 0 /\ perf = <<>>
  /\ counter = 0 /\ orphans = 0 /\ faults = 0
  /\ st = <<>> /\ got = <<>> /\ ran = <<>>

(* The probe: the server counts a prompt of ids at face value, or the      *)
(* calibration raises.                                                     *)
Probe ==
  /\ pc = "probe"
  /\ pc' \in {"raised", IF fit = "full" THEN "prefill" ELSE "point"}
  /\ UNCHANGED <<driver, fit, todo, before, reps, tries, rows, checks, prefill, perf,
                 st, got, ran, orphans, counter, faults>>

(* _measure_prefill at one context: its requests run alone; the median of  *)
(* the answers that had a token, and IndexError when none had.             *)
MeasurePrefill ==
  /\ pc = "prefill"
  /\ IF prefill = Prefill
     THEN pc' = "point" /\ UNCHANGED prefill
     ELSE \/ prefill' = prefill + 1 /\ UNCHANGED pc
          \/ pc' = "raised" /\ UNCHANGED prefill
  /\ UNCHANGED <<driver, fit, todo, before, reps, tries, rows, checks, perf,
                 st, got, ran, orphans, counter, faults>>

(* _preemptions, preemptions: the counter, or None.  A page without the    *)
(* line of the counter, an error page among them, is None in satprobe and  *)
(* 0 in calibrate.                                                         *)
Readings == {counter, None} \cup (IF driver = "calibrate" THEN {0} ELSE {})

ReadBefore ==
  /\ pc = "point" /\ todo # <<>>
  /\ before' \in Readings
  /\ reps' = <<>> /\ tries' = 0
  /\ pc' = "rep"
  /\ UNCHANGED <<driver, fit, todo, rows, checks, prefill, perf, engineVars>>

(* _measure_point starts its B streams together.  In the pause before it   *)
(* (satprobe) or after the last one (calibrate) streams left over may end. *)
StartRep ==
  /\ pc = "rep" /\ tries < Repeats
  /\ LET B == Head(todo).point.B
     IN  /\ st'  = [s \in 1 .. B |-> "queued"]
         /\ got' = [s \in 1 .. B |-> <<>>]
  /\ ran' = <<>>
  /\ orphans' \in 0 .. orphans
  /\ tries' = tries + 1
  /\ pc' = "measure"
  /\ UNCHANGED <<driver, fit, todo, before, reps, rows, checks, prefill, perf, counter, faults>>

In(state) == {s \in DOMAIN st : st[s] = state}

(* One step of the engine while the driver waits in gather().              *)
EngineStep ==
  /\ pc = "measure" /\ In("queued") \cup In("decoding") # {}
  /\ \E admit \in SUBSET In("queued"), out \in SUBSET In("decoding"), left \in 0 .. orphans :
       LET batch == (In("decoding") \ out) \cup admit
           T     == Tokens(Head(todo).point)
       IN  /\ counter + Cardinality(out) <= MaxPreempt
           /\ batch # {}
           /\ ran' = Append(ran, Cardinality(batch) + left)
           /\ got' = [s \in DOMAIN got |-> IF s \in batch THEN Append(got[s], Len(ran) + 1) ELSE got[s]]
           /\ st'  = [s \in DOMAIN st |-> IF s \in batch
                                          THEN IF Len(got[s]) + 1 = T THEN "ended" ELSE "decoding"
                                          ELSE IF s \in out THEN "queued" ELSE st[s]]
           /\ counter' = counter + Cardinality(out)
           /\ orphans' = left
  /\ UNCHANGED <<driverVars, faults>>

(* A stream whose answer stops early without an error.                     *)
EndsShort(s) ==
  /\ pc = "measure" /\ st[s] = "decoding" /\ faults < MaxFail
  /\ st' = [st EXCEPT ![s] = "ended"]
  /\ faults' = faults + 1
  /\ UNCHANGED <<driverVars, got, ran, orphans, counter>>

(* A stream raises.  gather() passes the exception on and cancels nothing: *)
(* calibrate ends, and asyncio.run() with it; satprobe notes a failed rep, *)
(* and the other streams go on.                                            *)
StreamRaises(s) ==
  /\ pc = "measure" /\ st[s] \in {"queued", "decoding"} /\ faults < MaxFail
  /\ faults' = faults + 1
  /\ orphans' = IF driver = "satprobe"
                THEN orphans + Cardinality(In("queued") \cup In("decoding")) - 1
                ELSE 0
  /\ pc' = IF driver = "satprobe" THEN "rep" ELSE "raised"
  /\ st' = <<>> /\ got' = <<>> /\ ran' = <<>>
  /\ UNCHANGED <<driver, fit, todo, before, reps, tries, rows, checks, prefill, perf,
                 counter>>

(* gather() returns: the window, or the RuntimeErrors.                     *)
Measure ==
  /\ pc = "measure" /\ In("ended") = DOMAIN st
  /\ LET T == Tokens(Head(todo).point)
     IN  IF Measurable(got, T)
         THEN reps' = Append(reps, Measured(got, T)) /\ pc' = "rep"
         ELSE pc' = (IF driver = "satprobe" THEN "rep" ELSE "raised") /\ UNCHANGED reps
  /\ st' = <<>> /\ got' = <<>> /\ ran' = <<>>
  /\ UNCHANGED <<driver, fit, todo, before, tries, rows, checks, prefill, perf,
                 orphans, counter, faults>>
-----------------------------------------------------------------------------
(* Mutant: a counter of 0 before the point counts as none.                 *)
PreemptedTruthy(after) == before > 0 /\ after > before
(* What a point leaves: the median measurement, and whether the counter    *)
(* rose (calibrate) or by how much (satprobe).  What the two readings were *)
(* worth, read, and faults are kept for the properties alone.              *)
Preempted(after) == before # None /\ after # None /\ after > before

Row(after) ==
  LET p == Head(todo).point
  IN  IF reps = <<>>
      THEN [point |-> p, failed |-> TRUE]
      ELSE [point |-> p, failed |-> FALSE, m |-> MedianRep, preempted |-> Preempted(after),
            read |-> before # None /\ after = counter, faults |-> faults]

ReadAfter ==
  /\ pc = "rep" /\ tries = Repeats
  /\ \E after \in Readings :
       IF Head(todo).list = "rows"
       THEN rows' = Append(rows, Row(after)) /\ UNCHANGED checks
       ELSE checks' = Append(checks, Row(after)) /\ UNCHANGED rows
  /\ todo' = Tail(todo) /\ before' = None /\ reps' = <<>> /\ tries' = 0
  /\ pc' = "point"
  /\ UNCHANGED <<driver, fit, prefill, perf, engineVars>>

Clean == SelectSeq(rows, LAMBDA m : ~m.preempted)

(* online_main: the file, with what was fitted and where b_p and b_d are   *)
(* from: an online b_p is taken if it is positive.  Without a point left   *)
(* to fit numpy raises.                                                    *)
Write ==
  /\ pc = "point" /\ todo = <<>>
  /\ IF driver = "satprobe"
     THEN pc' = "written" /\ perf' = <<rows>>
     ELSE IF Clean = <<>>
          THEN pc' = "raised" /\ UNCHANGED perf
          ELSE /\ pc' = "written"
               /\ \E b_p \in {"offline"} \cup (IF fit = "full" /\ Prefill > 0 THEN {"online"} ELSE {}) :
                    perf' = [b_p |-> b_p, b_d |-> IF fit = "full" THEN "online" ELSE "offline",
                             fitted |-> Clean, held_out |-> checks]
  /\ UNCHANGED <<driver, fit, todo, before, reps, tries, rows, checks, prefill, engineVars>>

Over == pc \in {"written", "raised"}
Done == Over /\ UNCHANGED vars

Driver == \/ Probe \/ MeasurePrefill \/ ReadBefore \/ StartRep \/ Measure \/ ReadAfter \/ Write
Next == \/ Driver
        \/ EngineStep
        \/ \E s \in DOMAIN st : EndsShort(s) \/ StreamRaises(s)
        \/ Done

Spec == Init /\ [][Next]_vars
-----------------------------------------------------------------------------
Rows == Range(rows) \cup Range(checks)

(* Types: the lists of measurements, the times of each stream, the counts  *)
(* that calibrate.py and satprobe.py keep.                                 *)
TypeOK ==
  /\ driver \in {"calibrate", "satprobe"} /\ fit \in {"a", "full"}
  /\ pc \in {"probe", "prefill", "point", "rep", "measure", "written", "raised"}
  /\ before \in {None} \cup 0 .. counter
  /\ tries \in 0 .. Repeats /\ Len(reps) <= tries
  /\ Len(rows) + Len(checks) + Len(todo) = Len(Grid) + (IF driver = "calibrate" THEN Len(Check) ELSE 0)
  /\ \A s \in DOMAIN st : got[s] \in Seq(1 .. Len(ran)) /\ Len(got[s]) <= GenTokens
  /\ orphans \in Nat /\ counter \in 0 .. MaxPreempt /\ faults \in 0 .. MaxFail

(* "every step inside it ran at batch exactly B", and the interval between *)
(* tokens is the step time (_measure_point): so it is of a point that the  *)
(* counter does not accuse, if the first reading was one at all, even a 0  *)
(* for want of a line, the second one was the counter itself, and no       *)
(* stream failed.                                                          *)
CleanPointsAreExact ==
  \A r \in Rows :
    (~r.failed /\ r.read /\ ~r.preempted /\ r.faults = 0)
      => r.m.seen = {r.point.B} /\ r.m.step = Unit * r.point.B

(* The same said of every point of the fit: "A point that preempts is not  *)
(* a clean fixed-batch measurement, so every decode point is bracketed by  *)
(* this" (_preemptions).  Not so where a reading is None, or where the     *)
(* second one is 0 because the page had no such line.                      *)
FitIsExact ==
  driver = "calibrate" /\ pc = "written"
    => \A r \in Range(perf.fitted) : r.faults = 0 => r.m.seen = {r.point.B}

(* The same said of every measurement, as the comment in _measure_point    *)
(* does: not so in satprobe, whose next measurement may meet the streams   *)
(* that a failed one has left running.                                     *)
WindowIsExact ==
  \A r \in Rows : (~r.failed /\ r.read /\ ~r.preempted) => r.m.seen = {r.point.B}
=============================================================================
