------------------------------ MODULE Reports ------------------------------
(***************************************************************************)
(* What becomes of the results: the benchmark queues promote one repeat    *)
(* after the other (external here, see BenchQueue), and scripts that are   *)
(* started at any time read the files that are there: noise_analyze and    *)
(* noise_report, ladder_analyze, jmodes_analyze, load_report and           *)
(* loadsweep_report.  A script writes its file or raises.                  *)
(***************************************************************************)
EXTENDS Scoring, FiniteSetsExt, SequencesExt, StableSorting

CONSTANTS
  Studies,        \* what is studied: [pairs, repeats, outcomes], the frozen
                  \* summaries and whose they are, how many repeats the queues make of each
                  \* configuration and what one may leave: [clean, dumped, dump]
  DropFirst,      \* DROP_FIRST
  Moved,          \* 50 ms
  MinDrift        \* runs that analysis_E wants

ASSUME ReportsAssumption ==
  /\ {DropFirst, Moved, MinDrift} \subseteq Nat
  /\ \A s \in Studies : \A o \in s.outcomes : o.dump \in Seq(Nat \ {0}) /\ Len(o.dump) > DropFirst

Noise  == {"A", "J"}
Ladder == {"C", "K"}
Configs == Noise \cup Ladder

VARIABLES
  study,      \* its first pair is config A's
  results,    \* the promoted repeats of each configuration, in order
  skipped,    \* how many repeats have a SKIP line in the queue log
  stats,      \* noise_stats.json
  noise, ladder, jmodes, load, loadsweep   \* the reports

reports == <<noise, ladder, jmodes, load, loadsweep>>
vars    == <<study, results, skipped, stats, reports>>

pairs == study.pairs

Absent == [state |-> "absent"]
Raised == [state |-> "raised"]
-----------------------------------------------------------------------------
(* noise_stats.                                                            *)
Total(v)   == FoldSeq(LAMBDA x, t : x + t, 0, v)
Squares(v) == FoldSeq(LAMBDA x, t : x * x + t, 0, v)
Sorted(v)  == StableSort(v, LAMBDA x, y : x < y)

(* bench_percentile at .95.                                                *)
P95(v) == Sorted(v)[Min({Len(v), (95 * Len(v)) \div 100 + 1})]

(* The square of the CV, stdev / mean, as a fraction; NaN for one run.     *)
NaN == <<0, 0>>
Cv2(v) ==
  LET n == Len(v)
  IN  IF n < 2 THEN NaN
      ELSE <<n * (n * Squares(v) - Total(v) * Total(v)), (n - 1) * Total(v) * Total(v)>>
IsZero(c) == c # NaN /\ c[1] = 0

(* max(c, d) and min(c, d) of Python: the first, unless the second is      *)
(* greater, or less.                                                       *)
Larger(c, d)  == IF d[1] * c[2] > c[1] * d[2] THEN d ELSE c
Smaller(c, d) == IF d[1] * c[2] < c[1] * d[2] THEN d ELSE c

(* _rank: ties share the average of their places; doubled here.            *)
Rank(v) ==
  LET Place(i, le) == Cardinality({j \in DOMAIN v : v[j] < v[i] \/ (le /\ v[j] = v[i])})
  IN  [i \in DOMAIN v |-> Place(i, FALSE) + Place(i, TRUE) + 1]
-----------------------------------------------------------------------------
(* A run: its summary's p95, and what a reader keeps of its dump.          *)
Run(o) == LET kept == SubSeq(o.dump, DropFirst + 1, Len(o.dump))
          IN  [clean |-> o.clean, dumped |-> o.dumped, kept |-> kept, p95 |-> P95(kept)]
(* jmodes_analyze: the runs that have a dump.                              *)
Dumps(c) == SelectSeq(results[c], LAMBDA k : k.dumped)

(* load_runs, load: the summaries of clean runs.                           *)
Values(c) ==
  LET clean == SelectSeq(results[c], LAMBDA k : k.clean)
  IN  [i \in DOMAIN clean |-> clean[i].p95]

Init ==
  /\ study \in Studies
  /\ results = [c \in Configs |-> <<>>] /\ skipped = [c \in Configs |-> 0]
  /\ stats = Absent /\ noise = Absent /\ ladder = Absent /\ jmodes = Absent
  /\ load = Absent /\ loadsweep = Absent

(* The queue promotes a repeat, or gives it up.                            *)
Promote(c, o) ==
  /\ Len(results[c]) + skipped[c] < study.repeats[c]
  /\ results' = [results EXCEPT ![c] = Append(@, Run(o))]
  /\ UNCHANGED <<study, skipped, stats, reports>>
SkipRepeat(c) ==
  /\ Len(results[c]) + skipped[c] < study.repeats[c]
  /\ skipped' = [skipped EXCEPT ![c] = @ + 1]
  /\ UNCHANGED <<study, results, stats, reports>>
-----------------------------------------------------------------------------
(* analysis_D: a published row is inside the noise if its gap is at most   *)
(* 1.96 standard deviations of a ratio of two measurements.  The CV of the *)
(* configuration is its own if the noise batch has it, and otherwise the   *)
(* larger (primary) or the smaller of the two.                             *)
Proxy(mode, a, j) == IF mode = "primary" THEN Larger(a, j) ELSE Smaller(a, j)
(* Mutant: min and max are exchanged.                                      *)
SpreadSwapped(mode, of, a, j) ==
  CASE of = "J" -> j [] of = "A" -> a
    [] OTHER -> IF mode = "primary" THEN Smaller(a, j) ELSE Larger(a, j)
Spread(mode, of, a, j) ==
  CASE of = "J" -> j [] of = "A" -> a [] OTHER -> Proxy(mode, a, j)

Inside(row, a, x) ==
  /\ a # NaN /\ x # NaN
  /\ Gap(row.q) * Gap(row.q) * 25 * a[2] * x[2]
       <= 96 * row.q.s0 * row.q.s0 * row.q.r1 * row.q.r1 * (a[1] * x[2] + x[1] * a[2])
Band(mode, a, j) ==
  {row \in Scored(pairs) : row.metric \in Latency
                           /\ Inside(row, a, Spread(mode, pairs[row.config].of, a, j))}

(* noise_analyze.main.                                                     *)
Analyze ==
  /\ stats' =
       IF \E c \in Noise : Values(c) = <<>> THEN Raised
       ELSE LET a == Cv2(Values("A"))  j == Cv2(Values("J"))
            IN  [state |-> "written",
                 values |-> [c \in Noise |-> Values(c)],
                 primary |-> Band("primary", a, j), sensitivity |-> Band("sensitivity", a, j),
                 drift |-> [c \in {d \in Noise : Len(Values(d)) >= MinDrift} |-> Rank(Values(c))]]
  /\ stats = Absent
  /\ UNCHANGED <<study, results, skipped, reports>>

(* noise_report.main: cvJ / cvA needs a cvA that is not 0.                 *)
NoiseReport ==
  /\ noise = Absent
  /\ noise' = IF stats.state # "written" \/ IsZero(Cv2(stats.values["A"])) THEN Raised
              ELSE [state |-> "written", n |-> [c \in Noise |-> Len(stats.values[c])],
                    excluded |-> skipped["A"] + skipped["J"],
                    missInside |-> {row \in stats.primary : ~row.v2}]
  /\ UNCHANGED <<study, results, skipped, stats, ladder, jmodes, load, loadsweep>>

(* ladder_analyze.main: A and J come from the noise batch.  The bar of a   *)
(* CV that is NaN, the sentence about C, K and A, and the ratio to the     *)
(* quietest CV raise if there is no such number.                           *)
AllValues ==
  [c \in {d \in Ladder : Values(d) # <<>>} \cup (IF stats.state = "written" THEN Noise ELSE {}) |->
     IF c \in Ladder THEN Values(c) ELSE stats.values[c]]
LadderReport ==
  /\ ladder = Absent
  /\ LET v == AllValues
     IN  ladder' = IF \/ ~({"C", "K", "A"} \subseteq DOMAIN v)
                      \/ \E c \in DOMAIN v : Cv2(v[c]) = NaN \/ IsZero(Cv2(v[c]))
                   THEN Raised
                   ELSE [state |-> "written", n |-> [c \in DOMAIN v |-> Len(v[c])]]
  /\ UNCHANGED <<study, results, skipped, stats, noise, jmodes, load, loadsweep>>
-----------------------------------------------------------------------------
(* jmodes_analyze.main: the runs are split at the largest gap, the first   *)
(* of several.                                                             *)
(* Mutant: the last two values are left out of the search.                 *)
SplitEarly(v) == LET n == Max({2, Len(v) - 1})
                     i == Min({k \in 2 .. n : \A j \in 2 .. n : v[j] - v[j - 1] <= v[k] - v[k - 1]})
                 IN  v[i] + v[i - 1]
Split(v) == LET i == Min({k \in 2 .. Len(v) : \A j \in 2 .. Len(v) : v[j] - v[j - 1] <= v[k] - v[k - 1]})
            IN  v[i] + v[i - 1]

(* mean(h) - mean(l) of a request, as a fraction; the requests that move.  *)
Diff(r, lo, hi) ==
  LET at(g) == Total([i \in DOMAIN g |-> g[i].kept[r]])
  IN  at(hi) * Len(lo) - at(lo) * Len(hi)
Movers(lo, hi) == {r \in DOMAIN lo[1].kept : AbsOf(Diff(r, lo, hi)) > Moved * Len(lo) * Len(hi)}

JModes ==
  /\ jmodes = Absent
  /\ LET runs  == Dumps("J")
         v     == Sorted([i \in DOMAIN runs |-> runs[i].p95])
         lo    == SelectSeq(runs, LAMBDA k : 2 * k.p95 < Split(v))
         hi    == SelectSeq(runs, LAMBDA k : 2 * k.p95 >= Split(v))
     IN  jmodes' = IF Len(runs) < 2 THEN Raised
                   ELSE IF lo = <<>> \/ Movers(lo, hi) = DOMAIN lo[1].kept THEN Raised
                   ELSE [state |-> "written", lo |-> lo, hi |-> hi, movers |-> Movers(lo, hi)]
  /\ UNCHANGED <<study, results, skipped, stats, noise, ladder, load, loadsweep>>
-----------------------------------------------------------------------------
(* load_report.main: the pairs are the speedups of one configuration.      *)
Rising(f)  == \A i \in 2 .. Len(f) : f[i] > f[i - 1]
Falling(f) == \A i \in 2 .. Len(f) : f[i] < f[i - 1]
(* Mutant: the decision does without the directions.                       *)
SafeByRows(costFail, d1, d2) == costFail = {}
Safe(costFail, d1, d2) == costFail = {} /\ d1 /\ d2

LoadReport ==
  /\ load = Absent
  /\ LET rows == {row \in Scored(pairs) : row.metric \in Cost}
         fail == {row \in rows : ~row.v2}
         thr  == [i \in DOMAIN pairs |-> pairs[i].real["throughput_tok_s"]]
         gs   == [i \in DOMAIN pairs |-> pairs[i].gpu]
         Usable(i, m) == /\ None \notin {pairs[i].sim[m], pairs[i].real[m]}
                         /\ i > 1 => pairs[i].real[m] # 0
     IN  load' = IF \/ \E i \in DOMAIN pairs : \E m \in Metrics : ~Usable(i, m)
                      \/ {row.config : row \in rows} # 2 .. Len(pairs) THEN Raised
                 ELSE [state  |-> "written", yes |-> Safe(fail, Rising(thr), Falling(gs)),
                       reason |-> IF fail = {} THEN "all pass, directions hold" ELSE "row fails, directions hold"]
  /\ UNCHANGED <<study, results, skipped, stats, noise, ladder, jmodes, loadsweep>>

(* loadsweep_report.main: the answer is looked for in that file.           *)
LoadsweepReport ==
  /\ loadsweep = Absent
  /\ loadsweep' = [state |-> "written",
                   banner |-> IF load.state # "written" THEN "none" ELSE IF load.yes THEN "usable" ELSE "unusable"]
  /\ UNCHANGED <<study, results, skipped, stats, noise, ladder, jmodes, load>>

Done == UNCHANGED vars /\ Absent \notin {stats, noise, ladder, jmodes, load, loadsweep}

Next ==
  \/ \E c \in Configs : SkipRepeat(c) \/ \E o \in study.outcomes : Promote(c, o)
  \/ Analyze \/ NoiseReport \/ LadderReport \/ JModes \/ LoadReport \/ LoadsweepReport
  \/ Done

Spec == Init /\ [][Next]_vars
-----------------------------------------------------------------------------
(* verdict.py counts as compare.py does, "unchanged, so v1 counts here     *)
(* reproduce the published ones", but for a target that measured 0; and    *)
(* the second criterion only ever adds latency rows that are close.        *)
VerdictsAgree ==
  LET scored   == {<<row.config, row.metric, row.v1>> : row \in Scored(pairs)}
      compared == {<<row.config, row.metric, row.ok>> : row \in Compared(pairs)}
  IN  /\ scored = {c \in compared : pairs[c[1]].real[c[2]] # 0}
      /\ \A row \in Scored(pairs) :
           /\ row.v1 => row.v2
           /\ row.v2 /\ ~row.v1 =>
                /\ row.metric \in Latency
                /\ 85 * row.q.r1 <= 100 * row.q.s1 /\ 100 * row.q.s1 <= 115 * row.q.r1

(* The noise band.  What is inside under the smaller CV is inside under    *)
(* the larger.  Nothing is inside without two runs of A, and no row of J   *)
(* without two of J; the others need none of J, since max and min keep     *)
(* their first number against a NaN.  A row of J has one answer, whichever *)
(* of the two tables it is in.  And a prediction without a gap is inside   *)
(* as soon as there are those runs (noise_analyze.analysis_D).             *)
BandsNest ==
  stats.state = "written" =>
    LET twice(c)   == Len(stats.values[c]) >= 2
        of(row)    == pairs[row.config].of
        needed(row) == twice("A") /\ (of(row) = "J" => twice("J"))
        exact      == {row \in Scored(pairs) : row.metric \in Latency /\ Gap(row.q) = 0}
    IN  /\ stats.sensitivity \subseteq stats.primary
        /\ \A row \in stats.primary : needed(row) /\ (of(row) = "J" => row \in stats.sensitivity)
        /\ {row \in exact : needed(row)} \subseteq stats.sensitivity

(* The two modes of jmodes_analyze: a run whose promotion stopped before   *)
(* its dump was there is in neither; the two are further apart than any    *)
(* two neighbours inside one, and some request does not move.              *)
ModesAreApart ==
  jmodes.state = "written" =>
    LET p(g)  == {g[i].p95 : i \in DOMAIN g}
        gap  == Min(p(jmodes.hi)) - Max(p(jmodes.lo))
    IN  /\ gap > 0
        /\ \A k \in Range(jmodes.lo) \cup Range(jmodes.hi) : k.dumped
        /\ \A g \in {jmodes.lo, jmodes.hi} : \A x, y \in p(g) :
             y - x > gap => \E z \in p(g) : x < z /\ z < y
        /\ jmodes.movers # DOMAIN jmodes.lo[1].kept

(* A load sweep is called usable only after a load report whose measured   *)
(* throughput rises with the speed and whose every cost row compare.py     *)
(* would pass (load_report, loadsweep_report).                             *)
UsableIsEarned ==
  (loadsweep.state = "written" /\ loadsweep.banner = "usable") =>
    /\ load.state = "written"
    /\ \A row \in Compared(pairs) :
         row.metric \in Cost /\ pairs[row.config].real[row.metric] # 0 => row.ok
    /\ \A i, j \in DOMAIN pairs : i < j =>
         /\ pairs[i].real["throughput_tok_s"] < pairs[j].real["throughput_tok_s"]
         /\ pairs[i].gpu > pairs[j].gpu

(* What the texts of the reports say of themselves (not so): "no repeat    *)
(* was lost", under a list that holds the SKIP lines of the queue, and     *)
(* "all directions hold", whenever no cost row fails.                      *)
NoRepeatWasLost == noise.state = "written" => noise.excluded = 0
ReasonIsTheDecision ==
  load.state = "written" => (load.reason = "all pass, directions hold" <=> load.yes)
=============================================================================
