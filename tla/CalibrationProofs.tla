------------------------- MODULE CalibrationProofs -------------------------
(***************************************************************************)
(* Proofs about the calibration: a point whose counter was read and did    *)
(* not rise was measured at its batch exactly and its step time is the     *)
(* engine's, for every grid, number of repeats, order of admission,        *)
(* preemption and failure.                                                 *)
(***************************************************************************)
EXTENDS Calibration, SequenceLemmas, FiniteSetTheorems, TLAPS

-----------------------------------------------------------------------------
(* The window of _measure_point.                                           *)

StepSum(res, lo, hi, S) == MapThenSumSet(LAMBDA s : Interval(res[s], lo, hi), S)

\* MapThenSumSet over the streams, when each adds one step.
LEMMA IntervalsAdd ==
  ASSUME NEW S, IsFiniteSet(S), NEW res, NEW lo, NEW hi,
         \A s \in S : Interval(res[s], lo, hi) = Unit
  PROVE  StepSum(res, lo, hi, S) = Unit * Cardinality(S)
<1> DEFINE Rec(g) == g = [s \in SUBSET S |->
                            IF s = {} THEN 0
                            ELSE Interval(res[CHOOSE x \in s : TRUE], lo, hi)
                                   + g[s \ {CHOOSE x \in s : TRUE}]]
           sum == CHOOSE g : Rec(g)
           all == [s \in SUBSET S |-> Unit * Cardinality(s)]
<1>1. Unit \in Nat
  BY DEF Unit
<1>2. \A s \in SUBSET S : s # {} => (CHOOSE x \in s : TRUE) \in s
  OBVIOUS
<1>3. \A s \in SUBSET S : s # {} => Interval(res[CHOOSE x \in s : TRUE], lo, hi) = Unit
  BY <1>2
<1>4. Rec(all)
  <2>1. ASSUME NEW s \in SUBSET S
        PROVE  all[s] = IF s = {} THEN 0
                        ELSE Interval(res[CHOOSE x \in s : TRUE], lo, hi)
                               + all[s \ {CHOOSE x \in s : TRUE}]
    <3>1. IsFiniteSet(s) /\ Cardinality(s) \in Nat
      BY FS_Subset, FS_CardinalityType
    <3>2. CASE s = {}
      BY <3>2, FS_EmptySet DEF Unit
    <3>3. CASE s # {}
      <4> DEFINE x == CHOOSE y \in s : TRUE
      <4>1. x \in s
        BY <3>3
      <4>2. Interval(res[x], lo, hi) = Unit
        BY <1>3, <3>3
      <4> HIDE DEF x
      <4>3. Cardinality(s \ {x}) = Cardinality(s) - 1
        BY <3>1, <4>1, FS_RemoveElement
      <4>4. all[s \ {x}] = Unit * (Cardinality(s) - 1)
        BY <4>3
      <4>5. all[s] = Unit + all[s \ {x}]
        BY <3>1, <4>4 DEF Unit
      <4> QED
        BY <3>3, <4>2, <4>5 DEF x
    <3> QED
      BY <3>2, <3>3
  <2> HIDE DEF all
  <2>2. all = [s \in SUBSET S |-> all[s]]
    BY DEF all
  <2> QED
    BY <2>1, <2>2
<1>5. Rec(sum)
  BY <1>4
<1>6. sum = [s \in SUBSET S |-> IF s = {} THEN 0 ELSE Unit + sum[s \ {CHOOSE x \in s : TRUE}]]
  <2> HIDE DEF sum
  <2> QED
    BY <1>3, <1>5
<1>7. sum[S] = Unit * Cardinality(S)
  <2> HIDE DEF sum
  <2> QED
    BY <1>1, <1>6, EqualSum
<1>8. StepSum(res, lo, hi, S) = sum[S]
  BY DEF StepSum, MapThenSumSet, MapThenFoldSet
<1> QED
  BY <1>7, <1>8

\* The times of a stream that gets a token in every step from its first one.
Consecutive(ts, T) ==
  /\ ts \in Seq(Nat) /\ Len(ts) = T
  /\ \A i \in 1 .. T : ts[i] = ts[1] + i - 1

\* Interval divides the time of n steps by n.
LEMMA UnitQuotient ==
  ASSUME NEW n \in Nat \ {0}
  PROVE  (Unit * n) \div n = Unit
<1> DEFINE q == (60 * n) \div n
<1>1. q \in Int /\ n * q <= 60 * n /\ 60 * n < n * q + n
  OBVIOUS
<1> HIDE DEF q
<1>2. ~(q >= 61)
  <2>1. q >= 61 => n * q >= n * 61
    BY <1>1
  <2> QED
    BY <1>1, <2>1
<1>3. ~(q <= 59)
  <2>1. q <= 59 => n * q <= n * 59
    BY <1>1
  <2> QED
    BY <1>1, <2>1
<1> QED
  BY <1>1, <1>2, <1>3 DEF q, Unit

\* Between two of its times such a stream has as many tokens as there are steps.
LEMMA StreamWindow ==
  ASSUME NEW T \in Nat \ {0}, NEW ts, Consecutive(ts, T), NEW lo \in Nat, NEW hi \in Nat,
         ts[1] <= lo, lo < hi, hi <= ts[1] + T - 1
  PROVE  Steps(ts, lo, hi) = hi - lo /\ Interval(ts, lo, hi) = Unit
<1> DEFINE a == ts[1]
           i == lo - a + 1
           j == hi - a + 1
<1>1. DOMAIN ts = 1 .. T /\ T >= 1 /\ a \in Nat
  BY DEF Consecutive
<1>2. \A k \in 1 .. T : ts[k] = a + k - 1
  BY DEF Consecutive
<1> HIDE DEF a
<1>a. a <= lo /\ hi <= a + T - 1
  BY DEF a
<1>3. i \in 1 .. T /\ j \in 1 .. T /\ ts[i] = lo /\ ts[j] = hi
  BY <1>1, <1>2, <1>a
<1>4. FirstAt(ts, lo) = i
  <2>1. \A k \in 1 .. T : ts[k] >= lo => i <= k
    BY <1>1, <1>2, <1>a
  <2>2. ASSUME NEW m \in 1 .. T, ts[m] >= lo, \A k \in 1 .. T : ts[k] >= lo => m <= k
        PROVE  m = i
    BY <1>3, <2>1, <2>2, <1>1
  <2> QED
    BY <1>1, <1>3, <2>1, <2>2 DEF FirstAt
<1>5. LastBy(ts, hi) = j
  <2>1. \A k \in 1 .. T : ts[k] <= hi => k <= j
    BY <1>1, <1>2, <1>a
  <2>2. ASSUME NEW m \in 1 .. T, ts[m] <= hi, \A k \in 1 .. T : ts[k] <= hi => k <= m
        PROVE  m = j
    BY <1>3, <2>1, <2>2, <1>1
  <2> QED
    BY <1>1, <1>3, <2>1, <2>2 DEF LastBy
<1>6. Steps(ts, lo, hi) = hi - lo
  BY <1>1, <1>4, <1>5 DEF Steps
<1>7. Interval(ts, lo, hi) = (Unit * (hi - lo)) \div (hi - lo)
  BY <1>3, <1>4, <1>5, <1>6 DEF Interval
<1>8. hi - lo \in Nat \ {0}
  OBVIOUS
<1> QED
  BY <1>6, <1>7, <1>8, UnitQuotient

\* The streams that got a token in step t.
Served(res, t) == {s \in DOMAIN res : t \in Range(res[s])}

\* B streams that were never interrupted, and the batches of their steps.
Undisturbed(res, B, T) ==
  /\ res \in [1 .. B -> Seq(Nat)]
  /\ \A s \in 1 .. B : Consecutive(res[s], T)
  /\ \A s \in 1 .. B : Range(res[s]) \subseteq 1 .. Len(ran)
  /\ \A t \in 1 .. Len(ran) : ran[t] = Cardinality(Served(res, t))

Exact(m, B) == m.seen = {B} /\ m.step = Unit * B

\* Such a stream has every step between two of its times, and they are one step apart.
LEMMA StreamSteady ==
  ASSUME NEW T \in Nat \ {0}, NEW ts, Consecutive(ts, T),
         NEW w \in 1 .. T, NEW e \in 1 .. T
  PROVE  /\ ts[w] \in Nat /\ ts[e] \in Nat
         /\ \A lo, hi \in Nat : ts[w] <= lo /\ lo < hi /\ hi <= ts[e] =>
              /\ Interval(ts, lo, hi) = Unit
              /\ \A t \in (lo + 1) .. hi : t \in Range(ts)
<1>1. DOMAIN ts = 1 .. T
  BY LenProperties DEF Consecutive
<1>2. ts[1] \in Nat
  BY ElementOfSeq DEF Consecutive
<1>3. \A i \in 1 .. T : ts[i] = ts[1] + i - 1
  BY DEF Consecutive
<1> DEFINE a == ts[1]
<1>4. a \in Nat /\ ts[w] = a + w - 1 /\ ts[e] = a + e - 1
  BY <1>2, <1>3
<1>5. \A i \in 1 .. T : ts[i] = a + i - 1
  BY <1>3
<1> HIDE DEF a
<1>6. ASSUME NEW lo \in Nat, NEW hi \in Nat, ts[w] <= lo, lo < hi, hi <= ts[e]
      PROVE  /\ Interval(ts, lo, hi) = Unit
             /\ \A t \in (lo + 1) .. hi : t \in Range(ts)
  <2>1. a <= lo /\ hi <= a + T - 1
    BY <1>4, <1>6
  <2>2. Interval(ts, lo, hi) = Unit
    BY <1>6, <2>1, StreamWindow DEF a
  <2>3. ASSUME NEW t \in (lo + 1) .. hi
        PROVE  t \in Range(ts)
    <3>1. t - a + 1 \in 1 .. T
      BY <1>4, <2>1
    <3>2. ts[t - a + 1] = t
      BY <1>4, <1>5, <3>1
    <3> QED
      BY <1>1, <3>1, <3>2 DEF Range
  <2> QED
    BY <2>2, <2>3
<1>7. ts[w] \in Nat /\ ts[e] \in Nat
  BY <1>4
<1> QED
  BY <1>6, <1>7

\* Inside the common window of streams that were never interrupted every stream is in
\* every step, so that what _measure_point averages is the step itself.
LEMMA Window ==
  ASSUME CalibrationAssumption,
         NEW B \in Nat \ {0}, NEW T \in Nat \ {0}, WarmTokens + TailTokens < T,
         NEW res, Undisturbed(res, B, T), TLo(res) < THi(res, T)
  PROVE  Exact(Measured(res, T), B)
<1> DEFINE w == WarmTokens + 1
           e == T - TailTokens
           warm == [s \in 1 .. B |-> res[s][w]]
           tail == [s \in 1 .. B |-> res[s][e]]
           lo == TLo(res)
           hi == THi(res, T)
<1>0. DOMAIN res = 1 .. B
  BY DEF Undisturbed
<1>1. w \in 1 .. T /\ e \in 1 .. T
  BY DEF CalibrationAssumption
<1>2. IsFiniteSet(1 .. B) /\ Cardinality(1 .. B) = B /\ 1 .. B # {}
  <2>1. IsFiniteSet(1 .. B) /\ Cardinality(1 .. B) = B
    BY Segment
  <2>2. 1 \in 1 .. B
    OBVIOUS
  <2> QED
    BY <2>1, <2>2
<1>3. lo = Max({warm[s] : s \in 1 .. B}) /\ hi = Min({tail[s] : s \in 1 .. B})
  <2>1. {ts[w] : ts \in Range(res)} = {warm[s] : s \in 1 .. B}
    BY <1>0 DEF Range
  <2>2. {ts[e] : ts \in Range(res)} = {tail[s] : s \in 1 .. B}
    BY <1>0 DEF Range
  <2> QED
    BY <2>1, <2>2 DEF TLo, THi
<1>4. lo < hi
  OBVIOUS
<1> HIDE DEF lo, hi, w, e
<1>5. \A s \in 1 .. B :
        /\ res[s][w] \in Nat /\ res[s][e] \in Nat
        /\ \A l, h \in Nat : res[s][w] <= l /\ l < h /\ h <= res[s][e] =>
             /\ Interval(res[s], l, h) = Unit
             /\ \A t \in (l + 1) .. h : t \in Range(res[s])
  <2> TAKE s \in 1 .. B
  <2>1. Consecutive(res[s], T)
    BY DEF Undisturbed
  <2> QED
    BY <1>1, <2>1, StreamSteady
<1>6. /\ lo \in Nat /\ hi \in Nat
      /\ \A s \in 1 .. B : res[s][w] <= lo /\ hi <= res[s][e]
  <2>1. /\ warm \in [1 .. B -> Nat] /\ tail \in [1 .. B -> Nat]
        /\ \A s \in 1 .. B : warm[s] = res[s][w] /\ tail[s] = res[s][e]
    BY <1>5
  <2> HIDE DEF warm, tail
  <2>2. lo \in {warm[s] : s \in 1 .. B} /\ \A s \in 1 .. B : warm[s] <= lo
    BY ZenonT(40), <1>2, <1>3, <2>1, Extremes
  <2>3. hi \in {tail[s] : s \in 1 .. B} /\ \A s \in 1 .. B : hi <= tail[s]
    BY <1>2, <1>3, <2>1, Extremes
  <2>4. lo \in Nat /\ hi \in Nat
    BY <2>1, <2>2, <2>3
  <2> QED
    BY <2>1, <2>2, <2>3, <2>4
<1>7. \A s \in 1 .. B : /\ Interval(res[s], lo, hi) = Unit
                        /\ \A t \in (lo + 1) .. hi : t \in Range(res[s])
  BY <1>4, <1>5, <1>6
<1>8. ASSUME NEW t \in (lo + 1) .. hi
      PROVE  ran[t] = B
  <2>1. \A s \in 1 .. B : t \in Range(res[s])
    BY <1>7
  <2>2. Served(res, t) = 1 .. B
    BY <1>0, <2>1 DEF Served
  <2>3. t \in 1 .. Len(ran)
    BY <1>2, <2>1 DEF Undisturbed
  <2> QED
    BY <1>2, <2>2, <2>3 DEF Undisturbed
<1>9. {ran[t] : t \in (lo + 1) .. hi} = {B}
  <2>1. hi \in (lo + 1) .. hi
    BY <1>4, <1>6
  <2> QED
    BY <1>8, <2>1
<1>10. StepSum(res, lo, hi, 1 .. B) = Unit * B
  <2>1. \A s \in 1 .. B : Interval(res[s], lo, hi) = Unit
    BY <1>7
  <2>2. StepSum(res, lo, hi, 1 .. B) = Unit * Cardinality(1 .. B)
    BY <1>2, <2>1, IntervalsAdd
  <2> QED
    BY <1>2, <2>2
<1> QED
  BY <1>0, <1>9, <1>10 DEF Exact, Measured, StepSum, lo, hi
-----------------------------------------------------------------------------
(* The inductive invariant.                                                *)

Job  == [point : Point, list : {"rows", "checks"}]
Now  == Head(todo).point
Goal == Tokens(Now)

\* The counts of the driver and of the engine.
Counts ==
  /\ driver \in {"calibrate", "satprobe"} /\ fit \in {"a", "full"}
  /\ pc \in {"probe", "prefill", "point", "rep", "measure", "written", "raised"}
  /\ todo \in Seq(Job) /\ (pc \in {"rep", "measure"} => todo # <<>>)
  /\ counter \in 0 .. MaxPreempt /\ before \in {None} \cup 0 .. counter
  /\ faults \in 0 .. MaxFail /\ orphans \in Nat /\ (faults = 0 => orphans = 0)

\* The lists of the driver.
Lists ==
  /\ reps \in Seq(Range(reps)) /\ rows \in Seq(Range(rows)) /\ checks \in Seq(Range(checks))
  /\ tries \in 0 .. Repeats /\ Len(reps) <= tries /\ (pc = "measure" => Len(reps) < tries)
  /\ Len(rows) + Len(checks) + Len(todo)
       = Len(Grid) + (IF driver = "calibrate" THEN Len(Check) ELSE 0)

\* The streams of the measurement at hand.
Streams ==
  /\ ran \in Seq(Nat)
  /\ IF pc = "measure"
     THEN /\ st  \in [1 .. Now.B -> {"queued", "decoding", "ended"}]
          /\ got \in [1 .. Now.B -> Seq(1 .. Len(ran))]
          /\ \A s \in 1 .. Now.B : /\ Len(got[s]) <= Goal
                                   /\ st[s] # "ended" => Len(got[s]) < Goal
     ELSE st = <<>> /\ got = <<>>

\* Nothing has disturbed this point so far.
Quiet == before # None /\ counter = before /\ faults = 0

\* As long as nothing has, a stream has waited, then got a token in every step.
Steady ==
  pc = "measure" /\ Quiet =>
    /\ \A s \in 1 .. Now.B :
         /\ Consecutive(got[s], Len(got[s]))
         /\ st[s] = "queued" => got[s] = <<>>
         /\ st[s] = "decoding" => got[s] # <<>> /\ got[s][Len(got[s])] = Len(ran)
         /\ st[s] = "ended" => Len(got[s]) = Goal
    /\ \A t \in 1 .. Len(ran) : ran[t] = Cardinality(Served(got, t))

RepsExact ==
  pc \in {"rep", "measure"} /\ Quiet => \A m \in Range(reps) : Exact(m, Now.B)

RowExact(r) ==
  (~r.failed /\ r.read /\ ~r.preempted /\ r.faults = 0)
    => r.m.seen = {r.point.B} /\ r.m.step = Unit * r.point.B

RowsExact == \A r \in Range(rows) \cup Range(checks) : RowExact(r)

IInv == Counts /\ Lists /\ Streams /\ Steady /\ RepsExact /\ RowsExact
-----------------------------------------------------------------------------
\* Both drivers ask for MinGen tokens at least and GenTokens at most.
LEMMA TokensBounded ==
  ASSUME CalibrationAssumption, NEW p \in Point
  PROVE  Tokens(p) \in Nat \ {0} /\ Tokens(p) <= GenTokens /\ WarmTokens + TailTokens < Tokens(p)
<1>1. /\ GenTokens \in Nat /\ MinGen \in Nat /\ WarmTokens \in Nat /\ TailTokens \in Nat
      /\ Pool \in Nat /\ MinGen <= GenTokens /\ WarmTokens + TailTokens < MinGen
  BY DEF CalibrationAssumption
<1> DEFINE x == (95 * Pool) \div (100 * p.B) - p.C
           y == Min({GenTokens, x})
<1>2. x \in Int
  <2>1. p.B \in Nat \ {0} /\ p.C \in Nat
    BY DEF Point
  <2>2. \A b \in Nat \ {0} : 100 * b \in Nat \ {0} /\ 95 * Pool \in Nat
    BY <1>1
  <2>3. \A c \in Nat, d \in Nat \ {0} : c \div d \in Int
    OBVIOUS
  <2>4. (95 * Pool) \div (100 * p.B) \in Int
    BY <2>1, <2>2, <2>3
  <2> QED
    BY <2>1, <2>4
<1> HIDE DEF x
<1>3. y \in Int /\ y <= GenTokens
  <2>1. PICK m \in {GenTokens, x} : \A k \in {GenTokens, x} : m <= k
    BY <1>1, <1>2
  <2>2. y \in {GenTokens, x} /\ \A k \in {GenTokens, x} : y <= k
    BY <2>1 DEF Min
  <2> QED
    BY <1>1, <1>2, <2>2
<1> HIDE DEF y
<1>4. Max({MinGen, y}) \in {MinGen, y} /\ MinGen <= Max({MinGen, y})
  <2>1. PICK m \in {MinGen, y} : \A k \in {MinGen, y} : m >= k
    BY <1>1, <1>3
  <2>2. Max({MinGen, y}) \in {MinGen, y} /\ \A k \in {MinGen, y} : Max({MinGen, y}) >= k
    BY <2>1 DEF Max
  <2> QED
    BY <1>1, <1>3, <2>2
<1>5. Tokens(p) \in {GenTokens, Max({MinGen, y})}
  BY DEF Tokens, GenFor, x, y
<1> QED
  BY <1>1, <1>3, <1>4, <1>5

\* Where all measurements agree, so does their median.
LEMMA MedianExact ==
  ASSUME NEW B, B \in Nat, reps \in Seq(Range(reps)), reps # <<>>,
         \A m \in Range(reps) : Exact(m, B)
  PROVE  Exact(MedianRep, B)
<1> DEFINE n == Len(reps)
           p == n \div 2 + 1
           Less(m, k) == m.step < k.step
           at == StablePlaces(DOMAIN reps, reps, Less)
<1>1. n \in Nat \ {0} /\ DOMAIN reps = 1 .. n
  BY LenProperties, EmptySeq
<1>2. p \in 1 .. n
  BY <1>1
<1>3. \A i, j \in 1 .. n : ~Less(reps[i], reps[j])
  <2>1. \A i \in 1 .. n : reps[i].step = Unit * B
    BY <1>1 DEF Range, Exact
  <2> QED
    BY <2>1 DEF Unit
<1> DEFINE Ahead(i) == {j \in DOMAIN reps : Less(reps[j], reps[i])
                                         \/ (~Less(reps[i], reps[j]) /\ j < i)}
<1>4. \A i \in 1 .. n : Cardinality(Ahead(i)) + 1 = i
  <2> TAKE i \in 1 .. n
  <2>1. Ahead(i) = 1 .. (i - 1)
    BY <1>1, <1>3
  <2> HIDE DEF Ahead
  <2>2. Cardinality(1 .. (i - 1)) = i - 1
    BY <1>1, Segment
  <2>3. i \in Int
    OBVIOUS
  <2> QED
    BY <2>1, <2>2, <2>3
<1>5. IsFiniteSet(DOMAIN reps) /\ Cardinality(DOMAIN reps) = n
  BY <1>1, FS_Interval
<1>6. at[p] = p
  BY <1>1, <1>2, <1>4, <1>5 DEF StablePlaces
<1>7. StableSort(reps, Less)[p] = reps[p]
  BY <1>1, <1>2, <1>6 DEF StableSort
<1> QED
  BY <1>1, <1>2, <1>7 DEF MedianRep, Range

\* The point at hand.
LEMMA PointAtHand ==
  ASSUME Counts, pc \in {"rep", "measure"}
  PROVE  /\ Head(todo) \in Job /\ Tail(todo) \in Seq(Job) /\ Len(Tail(todo)) = Len(todo) - 1
         /\ Len(todo) \in Nat /\ Now \in Point /\ Now.B \in Nat \ {0}
<1>1. todo \in Seq(Job) /\ todo # <<>>
  BY DEF Counts
<1>2. Head(todo) \in Job /\ Tail(todo) \in Seq(Job) /\ Len(Tail(todo)) = Len(todo) - 1
  BY <1>1, HeadTailProperties
<1> QED
  BY <1>1, <1>2, LenProperties DEF Now, Job, Point

\* The points, each with the list its measurement goes to.
LEMMA JobsToDo ==
  ASSUME NEW points \in Seq(Point), NEW list \in {"rows", "checks"}
  PROVE  Sink(points, list) \in Seq(Job) /\ Len(Sink(points, list)) = Len(points)
<1>1. DOMAIN points = 1 .. Len(points) /\ Len(points) \in Nat
  BY LenProperties
<1>2. \A i \in 1 .. Len(points) : points[i] \in Point
  BY ElementOfSeq
<1>3. Sink(points, list) \in [1 .. Len(points) -> Job]
  BY <1>1, <1>2 DEF Sink, Job
<1> QED
  BY <1>1, <1>3, SeqDef, LenProperties

LEMMA Started ==
  ASSUME CalibrationAssumption, Init
  PROVE  IInv
<1>1. /\ {MaxPreempt, MaxFail, Repeats} \subseteq Nat
      /\ Grid \in Seq(Point) /\ Check \in Seq(Point)
  BY DEF CalibrationAssumption
<1>2. /\ todo \in Seq(Job)
      /\ Len(todo) = Len(Grid) + (IF driver = "calibrate" THEN Len(Check) ELSE 0)
  <2>1. /\ Sink(Grid, "rows") \in Seq(Job) /\ Len(Sink(Grid, "rows")) = Len(Grid)
        /\ Sink(Check, "checks") \in Seq(Job) /\ Len(Sink(Check, "checks")) = Len(Check)
    BY <1>1, JobsToDo
  <2>2. CASE driver = "calibrate"
    <3>1. todo = Sink(Grid, "rows") \o Sink(Check, "checks")
      BY <2>2 DEF Init
    <3> DEFINE a == Sink(Grid, "rows")
               b == Sink(Check, "checks")
    <3>2. a \in Seq(Job) /\ b \in Seq(Job)
      BY <2>1
    <3> HIDE DEF a, b
    <3>3. a \o b \in Seq(Job) /\ Len(a \o b) = Len(a) + Len(b)
      BY <3>2, ConcatProperties
    <3> QED
      BY <2>1, <2>2, <3>1, <3>3 DEF a, b
  <2>3. CASE driver # "calibrate"
    <3>1. todo = Sink(Grid, "rows") \o <<>>
      BY <2>3 DEF Init
    <3>2. todo = Sink(Grid, "rows")
      BY <2>1, <3>1, ConcatEmptySeq
    <3>3. Len(Grid) \in Nat
      BY <1>1, LenProperties
    <3> QED
      BY <2>1, <2>3, <3>2, <3>3
  <2> QED
    BY <2>2, <2>3
<1>3. Counts
  BY <1>1, <1>2 DEF Init, Counts
<1>4. Range(<<>>) = {} /\ Len(<<>>) = 0
  BY DEF Range
<1>5. Lists
  <2>1. reps = <<>> /\ rows = <<>> /\ checks = <<>> /\ tries = 0 /\ pc # "measure"
    BY DEF Init
  <2>2. Len(todo) \in Nat /\ Repeats \in Nat
    BY <1>1, <1>2, LenProperties
  <2>3. <<>> \in Seq(Range(<<>>))
    OBVIOUS
  <2> QED
    BY <1>2, <1>4, <2>1, <2>2, <2>3 DEF Lists
<1>6. Streams /\ Steady /\ RepsExact
  BY DEF Init, Streams, Steady, RepsExact
<1>7. RowsExact
  BY <1>4 DEF Init, RowsExact
<1> QED
  BY <1>3, <1>5, <1>6, <1>7 DEF IInv

\* The driver, one lemma for each of its actions: outside a measurement only the
\* counter that is read and the lists change.
LEMMA ProbeStep ==
  ASSUME IInv, Probe
  PROVE  IInv'
<1>2. pc = "probe" /\ pc' \in {"raised", "prefill", "point"}
  BY DEF Probe
<1>3. Counts'
  BY <1>2 DEF IInv, Counts, Probe
<1>4. Lists'
  BY <1>2 DEF IInv, Lists, Probe
<1>5. (Streams /\ Steady /\ RepsExact /\ RowsExact)'
  BY <1>2 DEF IInv, Streams, Steady, RepsExact, RowsExact, RowExact, Probe
<1> QED
  BY <1>3, <1>4, <1>5 DEF IInv

LEMMA PrefillStep ==
  ASSUME CalibrationAssumption, IInv, MeasurePrefill
  PROVE  IInv'
<1>2. pc = "prefill" /\ pc' \in {"raised", "prefill", "point"}
  BY DEF MeasurePrefill
<1>3. Counts'
  BY <1>2 DEF IInv, Counts, MeasurePrefill
<1>4. Lists'
  BY <1>2 DEF IInv, Lists, MeasurePrefill
<1>5. (Streams /\ Steady /\ RepsExact /\ RowsExact)'
  BY <1>2 DEF IInv, Streams, Steady, RepsExact, RowsExact, RowExact, MeasurePrefill
<1> QED
  BY <1>3, <1>4, <1>5 DEF IInv

LEMMA ReadBeforeStep ==
  ASSUME CalibrationAssumption, IInv, ReadBefore
  PROVE  IInv'
<1>1. pc = "point" /\ pc' = "rep" /\ reps' = <<>> /\ tries' = 0
  BY DEF ReadBefore
<1>2. Counts'
  <2>1. counter \in 0 .. MaxPreempt
    BY DEF IInv, Counts
  <2>2. before' \in {None} \cup 0 .. counter
    BY <2>1 DEF ReadBefore, Readings
  <2> QED
    BY <1>1, <2>2 DEF IInv, Counts, ReadBefore, engineVars
<1>3. Range(<<>>) = {} /\ Len(<<>>) = 0 /\ <<>> \in Seq(Range(<<>>))
  BY DEF Range
<1>4. Lists'
  <2>1. Repeats \in Nat
    BY DEF CalibrationAssumption
  <2> QED
    BY <1>1, <1>3, <2>1 DEF IInv, Lists, ReadBefore
<1>5. (Streams /\ Steady /\ RepsExact /\ RowsExact)'
  BY <1>1, <1>3 DEF IInv, Streams, Steady, RepsExact, RowsExact, RowExact, ReadBefore, engineVars
<1> QED
  BY <1>2, <1>4, <1>5 DEF IInv

LEMMA WriteStep ==
  ASSUME IInv, Write
  PROVE  IInv'
<1>1. pc = "point" /\ pc' \in {"written", "raised"}
  BY DEF Write
<1>2. Counts' /\ Lists'
  BY <1>1 DEF IInv, Counts, Lists, Write, engineVars
<1>3. (Streams /\ Steady /\ RepsExact /\ RowsExact)'
  BY <1>1 DEF IInv, Streams, Steady, RepsExact, RowsExact, RowExact, Write, engineVars
<1> QED
  BY <1>2, <1>3 DEF IInv

LEMMA StartStep ==
  ASSUME CalibrationAssumption, IInv, StartRep
  PROVE  IInv'
<1> DEFINE B == Now.B
<1>1. pc = "rep" /\ pc' = "measure" /\ tries < Repeats /\ tries' = tries + 1
  BY DEF StartRep
<1>2. Now \in Point /\ B \in Nat \ {0} /\ Now' = Now /\ Goal' = Goal
  BY <1>1, PointAtHand DEF IInv, StartRep, Now, Goal, Tokens
<1> HIDE DEF B
<1>5. Counts'
  <2>1. orphans' \in Nat /\ (faults = 0 => orphans' = 0)
    BY DEF IInv, Counts, StartRep
  <2> QED
    BY <1>1, <2>1 DEF IInv, Counts, StartRep
<1>6. Lists'
  <2>1. Repeats \in Nat
    BY DEF CalibrationAssumption
  <2>2. Len(reps) \in Nat
    BY LenProperties DEF IInv, Lists
  <2>3. UNCHANGED <<driver, todo, reps, rows, checks>>
    BY DEF StartRep
  <2>4. Lists
    BY DEF IInv
  <2>5. tries \in 0 .. Repeats /\ Len(reps) <= tries
    BY <2>4 DEF Lists
  <2>6. tries' \in 0 .. Repeats /\ Len(reps') <= tries' /\ Len(reps') < tries'
    BY <1>1, <2>1, <2>2, <2>3, <2>5
  <2> QED
    BY <2>3, <2>4, <2>6 DEF Lists
<1>7. /\ st'  = [s \in 1 .. B |-> "queued"] /\ got' = [s \in 1 .. B |-> <<>>]
      /\ ran' = <<>>
  BY DEF StartRep, B, Now
<1>8. Goal \in Nat \ {0}
  BY <1>2, TokensBounded DEF Goal
<1>9. Len(<<>>) = 0 /\ <<>> \in Seq(Nat) /\ <<>> \in Seq(1 .. 0)
  OBVIOUS
<1>10. Streams'
  BY <1>1, <1>2, <1>7, <1>8, <1>9 DEF Streams, B
<1>11. Steady'
  <2>1. Consecutive(<<>>, 0)
    BY DEF Consecutive
  <2> QED
    BY <1>1, <1>2, <1>7, <1>9, <2>1 DEF Steady, B
<1>12. RepsExact'
  BY <1>1, <1>2 DEF IInv, RepsExact, Quiet, StartRep
<1>13. RowsExact'
  BY DEF IInv, RowsExact, RowExact, StartRep
<1> QED
  BY <1>5, <1>6, <1>10, <1>11, <1>12, <1>13 DEF IInv

\* A stream that fails or ends early disturbs the point, and every later one.
LEMMA EndsShortStep ==
  ASSUME CalibrationAssumption, IInv, NEW s \in DOMAIN st, EndsShort(s)
  PROVE  IInv'
<1>1. pc = "measure" /\ pc' = pc /\ Now' = Now /\ Goal' = Goal
  BY DEF EndsShort, driverVars, Now, Goal, Tokens
<1>2. Counts'
  <2>1. MaxFail \in Nat
    BY DEF CalibrationAssumption
  <2>2. faults' \in 0 .. MaxFail /\ faults' # 0
    <3>1. faults \in 0 .. MaxFail
      BY DEF IInv, Counts
    <3>2. faults < MaxFail /\ faults' = faults + 1
      BY DEF EndsShort
    <3> QED
      BY <2>1, <3>1, <3>2
  <2> QED
    BY <2>2 DEF IInv, Counts, EndsShort, driverVars
<1>3. Lists'
  BY DEF IInv, Lists, EndsShort, driverVars
<1>4. Streams'
  BY <1>1 DEF IInv, Streams, EndsShort, driverVars
<1>5. ~Quiet'
  BY DEF IInv, Counts, Quiet, EndsShort
<1>6. (Steady /\ RepsExact)'
  BY <1>5 DEF Steady, RepsExact
<1>7. RowsExact'
  BY DEF IInv, RowsExact, RowExact, EndsShort, driverVars
<1> QED
  BY <1>2, <1>3, <1>4, <1>6, <1>7 DEF IInv

LEMMA RaisesStep ==
  ASSUME CalibrationAssumption, IInv, NEW s \in DOMAIN st, StreamRaises(s)
  PROVE  IInv'
<1>1. pc = "measure" /\ pc' \in {"rep", "raised"}
  BY DEF StreamRaises
<1>2. orphans' \in Nat
  <2> DEFINE left == In("queued") \cup In("decoding")
  <2>1. DOMAIN st = 1 .. Now.B /\ Now.B \in Nat
    BY <1>1, PointAtHand DEF IInv, Streams
  <2>2. left \subseteq 1 .. Now.B /\ s \in left
    BY <2>1 DEF In, StreamRaises
  <2> HIDE DEF left
  <2>3. IsFiniteSet(1 .. Now.B)
    BY <2>1, Segment
  <2>4. IsFiniteSet(left)
    BY <2>2, <2>3, FS_Subset
  <2>5. Cardinality(left) \in Nat /\ Cardinality(left) # 0
    BY <2>2, <2>4, FS_CardinalityType, FS_EmptySet
  <2>6. orphans \in Nat
    BY DEF IInv, Counts
  <2> QED
    BY <2>5, <2>6 DEF StreamRaises, left
<1>3. Counts'
  BY SMTT(30), <1>1, <1>2 DEF IInv, Counts, StreamRaises, CalibrationAssumption
<1>4. Lists'
  BY <1>1 DEF IInv, Lists, StreamRaises
<1>5. Streams'
  BY <1>1 DEF IInv, Streams, StreamRaises
<1>6. ~Quiet'
  BY DEF IInv, Counts, Quiet, StreamRaises
<1>7. (Steady /\ RepsExact)'
  BY <1>6 DEF Steady, RepsExact
<1>8. RowsExact'
  BY DEF IInv, RowsExact, RowExact, StreamRaises
<1> QED
  BY <1>3, <1>4, <1>5, <1>7, <1>8 DEF IInv

LEMMA ReadAfterStep ==
  ASSUME CalibrationAssumption, IInv, ReadAfter
  PROVE  IInv'
<1>1. pc = "rep" /\ pc' = "point" /\ reps' = <<>> /\ tries' = 0 /\ before' = None /\ todo' = Tail(todo)
  BY DEF ReadAfter
<1>2. PICK after \in Readings :
         IF Head(todo).list = "rows"
         THEN rows' = Append(rows, Row(after)) /\ UNCHANGED checks
         ELSE checks' = Append(checks, Row(after)) /\ UNCHANGED rows
  BY DEF ReadAfter
<1>3. /\ Tail(todo) \in Seq(Job) /\ Len(Tail(todo)) = Len(todo) - 1 /\ Len(todo) \in Nat
      /\ Now.B \in Nat
  BY <1>1, PointAtHand DEF IInv
<1>4. Counts'
  <2>1. 0 .. counter \subseteq Int
    OBVIOUS
  <2> QED
    BY <1>1, <1>3 DEF IInv, Counts, ReadAfter, engineVars
<1>5. RowExact(Row(after))
  <2>1. CASE reps = <<>>
    BY <2>1 DEF Row, RowExact
  <2>2. CASE reps # <<>> /\ Row(after).read /\ ~Row(after).preempted /\ Row(after).faults = 0
    <3>1. Row(after) = [point |-> Now, failed |-> FALSE, m |-> MedianRep, preempted |-> Preempted(after),
                        read |-> before # None /\ after = counter, faults |-> faults]
      BY <2>2 DEF Row, Now
    <3> DEFINE rd == before # None /\ after = counter
               pe == Preempted(after)
    <3>7. Row(after) = [point |-> Now, failed |-> FALSE, m |-> MedianRep, preempted |-> pe,
                        read |-> rd, faults |-> faults]
      BY <3>1
    <3> HIDE DEF rd, pe
    <3>8. rd /\ ~pe /\ faults = 0
      BY <2>2, <3>7
    <3>5. before # None /\ after = counter /\ faults = 0 /\ ~Preempted(after)
      BY <3>8 DEF rd, pe
    <3>6. counter # None
      BY DEF IInv, Counts, None
    <3>2. before # None /\ faults = 0 /\ ~(counter > before)
      BY <3>5, <3>6 DEF Preempted
    <3>3. Quiet
      BY <3>2 DEF IInv, Counts, Quiet
    <3>4. Exact(MedianRep, Now.B)
      BY <1>1, <1>3, <2>2, <3>3, MedianExact DEF IInv, RepsExact, Lists
    <3> QED
      BY <3>1, <3>4 DEF RowExact, Exact
  <2>3. CASE reps # <<>> /\ ~(Row(after).read /\ ~Row(after).preempted /\ Row(after).faults = 0)
    BY <2>3 DEF RowExact
  <2> QED
    BY <2>1, <2>2, <2>3
<1>6. /\ rows' \in Seq(Range(rows')) /\ checks' \in Seq(Range(checks'))
      /\ Len(rows') + Len(checks') = Len(rows) + Len(checks) + 1
      /\ Range(rows') \cup Range(checks') = Range(rows) \cup Range(checks) \cup {Row(after)}
  <2>1. rows \in Seq(Range(rows)) /\ checks \in Seq(Range(checks))
    BY DEF IInv, Lists
  <2>2. Len(rows) \in Nat /\ Len(checks) \in Nat
    BY <2>1, LenProperties
  <2>3. CASE rows' = Append(rows, Row(after)) /\ checks' = checks
    BY <2>1, <2>2, <2>3, Grown
  <2>4. CASE checks' = Append(checks, Row(after)) /\ rows' = rows
    BY <2>1, <2>2, <2>4, Grown
  <2> QED
    BY <1>2, <2>3, <2>4
<1>7. Lists'
  <2>1. Range(<<>>) = {} /\ Len(<<>>) = 0 /\ <<>> \in Seq(Range(<<>>))
    BY DEF Range
  <2>2. Repeats \in Nat /\ driver' = driver
    BY DEF CalibrationAssumption, ReadAfter
  <2>3. Len(rows) \in Nat /\ Len(checks) \in Nat
    BY LenProperties DEF IInv, Lists
  <2>5. Len(rows') \in Nat /\ Len(checks') \in Nat
    BY <1>6, LenProperties
  <2>6. Len(todo') = Len(todo) - 1
    BY <1>1, <1>3
  <2>4. Len(rows') + Len(checks') + Len(todo') = Len(rows) + Len(checks) + Len(todo)
    <3>1. Len(rows') + Len(checks') = Len(rows) + Len(checks) + 1
      BY <1>6
    <3>2. Len(todo) \in Nat
      BY <1>3
    <3> DEFINE a == Len(rows')
               b == Len(checks')
               c == Len(rows)
               d == Len(checks)
               e == Len(todo)
    <3>3. {a, b, c, d, e} \subseteq Nat /\ a + b = c + d + 1 /\ Len(todo') = e - 1
      BY <2>3, <2>5, <2>6, <3>1, <3>2
    <3> HIDE DEF a, b, c, d, e
    <3>4. a \in Nat /\ b \in Nat /\ c \in Nat /\ d \in Nat /\ e \in Nat
      BY <3>3
    <3>5. a + b + (e - 1) = c + d + e
      BY <3>3, <3>4
    <3> QED
      BY <3>3, <3>5 DEF a, b, c, d, e
  <2>7. Len(rows) + Len(checks) + Len(todo)
          = Len(Grid) + (IF driver = "calibrate" THEN Len(Check) ELSE 0)
    BY DEF IInv, Lists
  <2>8. reps' \in Seq(Range(reps')) /\ tries' \in 0 .. Repeats /\ Len(reps') <= tries'
    BY <1>1, <2>1, <2>2
  <2> QED
    BY <1>1, <1>6, <2>2, <2>4, <2>7, <2>8 DEF Lists
<1>8. (Streams /\ Steady /\ RepsExact)'
  BY <1>1 DEF IInv, Streams, Steady, RepsExact, ReadAfter, engineVars
<1>9. RowsExact'
  <2>1. \A r \in Range(rows) \cup Range(checks) : RowExact(r)
    BY DEF IInv, RowsExact
  <2>2. \A r : RowExact(r)' = RowExact(r)
    BY DEF RowExact
  <2> HIDE DEF RowExact
  <2> QED
    BY <1>5, <1>6, <2>1, <2>2 DEF RowsExact
<1> QED
  BY <1>4, <1>7, <1>8, <1>9 DEF IInv

\* The measurement that a point without a disturbance adds.
LEMMA MeasuredExact ==
  ASSUME CalibrationAssumption, IInv, pc = "measure", Quiet, In("ended") = DOMAIN st,
         Measurable(got, Goal)
  PROVE  Exact(Measured(got, Goal), Now.B)
<1> DEFINE B == Now.B
<1>1. B \in Nat \ {0} /\ Now \in Point
  BY PointAtHand DEF IInv
<1>2. Goal \in Nat \ {0} /\ WarmTokens + TailTokens < Goal
  BY <1>1, TokensBounded DEF Goal
<1>3. /\ st \in [1 .. B -> {"queued", "decoding", "ended"}]
      /\ got \in [1 .. B -> Seq(1 .. Len(ran))] /\ ran \in Seq(Nat)
  BY DEF IInv, Streams
<1>4. \A s \in 1 .. B : st[s] = "ended"
  BY <1>3 DEF In
<1>5. \A s \in 1 .. B : Consecutive(got[s], Goal)
  BY <1>4 DEF IInv, Steady
<1>6. \A s \in 1 .. B : Range(got[s]) \subseteq 1 .. Len(ran)
  <2> TAKE s \in 1 .. B
  <2>1. got[s] \in Seq(1 .. Len(ran))
    BY <1>3
  <2> QED
    BY <2>1, RangeOfSeq
<1>7. got \in [1 .. B -> Seq(Nat)]
  <2>1. \A s \in 1 .. B : got[s] \in Seq(Nat)
    BY <1>5 DEF Consecutive
  <2> QED
    BY <1>3, <2>1
<1>8. Undisturbed(got, B, Goal)
  BY <1>5, <1>6, <1>7 DEF IInv, Steady, Undisturbed
<1>9. TLo(got) < THi(got, Goal)
  BY DEF Measurable
<1> QED
  BY <1>1, <1>2, <1>8, <1>9, Window

LEMMA MeasureStep ==
  ASSUME CalibrationAssumption, IInv, Measure
  PROVE  IInv'
<1>1. pc = "measure" /\ pc' \in {"rep", "raised"} /\ In("ended") = DOMAIN st
  BY DEF Measure
<1>2. \/ reps' = Append(reps, Measured(got, Goal)) /\ Measurable(got, Goal)
      \/ reps' = reps
  BY DEF Measure, Goal, Now
<1>3. Now' = Now /\ (Quiet' <=> Quiet)
  BY DEF Measure, Now, Quiet
<1>4. Counts'
  BY <1>1 DEF IInv, Counts, Measure
<1>5. reps \in Seq(Range(reps)) /\ Len(reps) \in Nat /\ tries \in Nat
  BY LenProperties DEF IInv, Lists, CalibrationAssumption
<1>6. Lists'
  <2>1. reps' \in Seq(Range(reps')) /\ Len(reps') <= Len(reps) + 1
    <3>1. CASE reps' = reps
      BY <1>5, <3>1
    <3>2. CASE reps' = Append(reps, Measured(got, Goal))
      BY <1>5, <3>2, Grown
    <3> QED
      BY <1>2, <3>1, <3>2
  <2>2. Len(reps') \in Nat
    BY <2>1, LenProperties
  <2>3. Len(reps) < tries
    BY <1>1 DEF IInv, Lists
  <2>4. Len(reps') <= tries
    BY <1>5, <2>1, <2>2, <2>3
  <2> QED
    BY <1>1, <2>1, <2>4 DEF IInv, Lists, Measure
<1>7. (Streams /\ Steady)'
  BY <1>1 DEF IInv, Streams, Steady, Measure
<1>8. RepsExact'
  <2> SUFFICES ASSUME Quiet PROVE \A m \in Range(reps') : Exact(m, Now.B)
    BY <1>3 DEF RepsExact
  <2>1. \A m \in Range(reps) : Exact(m, Now.B)
    BY <1>1 DEF IInv, RepsExact
  <2>2. CASE reps' = reps
    BY <2>1, <2>2
  <2>3. CASE reps' = Append(reps, Measured(got, Goal)) /\ Measurable(got, Goal)
    <3>1. Exact(Measured(got, Goal), Now.B)
      BY <1>1, <2>3, MeasuredExact
    <3>2. Range(reps') = Range(reps) \cup {Measured(got, Goal)}
      BY <1>5, <2>3, Grown
    <3> QED
      BY <2>1, <3>1, <3>2
  <2> QED
    BY <1>2, <2>2, <2>3
<1>9. RowsExact'
  BY DEF IInv, RowsExact, RowExact, Measure
<1> QED
  BY <1>4, <1>6, <1>7, <1>8, <1>9 DEF IInv
-----------------------------------------------------------------------------
(* The engine.                                                             *)

\* One step of the engine: batch gets a token each, out is preempted.
Stepped(batch, out, left) ==
  /\ batch \subseteq In("queued") \cup In("decoding") /\ out \subseteq In("decoding")
  /\ In("decoding") \subseteq batch \cup out /\ batch \cap out = {}
  /\ left \in 0 .. orphans
  /\ counter + Cardinality(out) <= MaxPreempt /\ counter' = counter + Cardinality(out)
  /\ ran' = Append(ran, Cardinality(batch) + left)
  /\ got' = [s \in DOMAIN got |-> IF s \in batch THEN Append(got[s], Len(ran) + 1) ELSE got[s]]
  /\ st'  = [s \in DOMAIN st |-> IF s \in batch
                                 THEN IF Len(got[s]) + 1 = Goal THEN "ended" ELSE "decoding"
                                 ELSE IF s \in out THEN "queued" ELSE st[s]]
  /\ orphans' = left

\* EngineStep is such a step.
LEMMA EngineSteps ==
  ASSUME EngineStep
  PROVE  /\ pc = "measure"
         /\ UNCHANGED <<driver, fit, pc, todo, before, reps, tries, rows, checks, faults>>
         /\ \E batch, out, left : Stepped(batch, out, left)
<1>1. pc = "measure"
      /\ UNCHANGED <<driver, fit, pc, todo, before, reps, tries, rows, checks, faults>>
  BY DEF EngineStep, driverVars
<1>2. PICK admit \in SUBSET In("queued"), out \in SUBSET In("decoding"), left \in 0 .. orphans :
         LET batch == (In("decoding") \ out) \cup admit
             T     == Tokens(Head(todo).point)
         IN  /\ counter + Cardinality(out) <= MaxPreempt
             /\ ran' = Append(ran, Cardinality(batch) + left)
             /\ got' = [s \in DOMAIN got |-> IF s \in batch THEN Append(got[s], Len(ran) + 1) ELSE got[s]]
             /\ st'  = [s \in DOMAIN st |-> IF s \in batch
                                            THEN IF Len(got[s]) + 1 = T THEN "ended" ELSE "decoding"
                                            ELSE IF s \in out THEN "queued" ELSE st[s]]
             /\ counter' = counter + Cardinality(out)
             /\ orphans' = left
  BY DEF EngineStep
<1> DEFINE batch == (In("decoding") \ out) \cup admit
<1>3. /\ batch \subseteq In("queued") \cup In("decoding") /\ out \subseteq In("decoding")
      /\ In("decoding") \subseteq batch \cup out
  OBVIOUS
<1>4. batch \cap out = {}
  BY DEF In
<1>5. Stepped(batch, out, left)
  BY <1>2, <1>3, <1>4 DEF Stepped, Goal, Now
<1> QED
  BY <1>1, <1>5

\* The times of a stream whose got grows.
LEMMA TokenAdded ==
  ASSUME NEW n \in Nat, NEW ts \in Seq(1 .. n)
  PROVE  LET us == Append(ts, n + 1)
         IN  /\ us \in Seq(1 .. n + 1) /\ Len(us) = Len(ts) + 1 /\ Len(ts) \in Nat
             /\ us[Len(us)] = n + 1
             /\ Range(us) = Range(ts) \cup {n + 1} /\ n + 1 \notin Range(ts)
             /\ Range(ts) \subseteq 1 .. n
             /\ ts = <<>> => Consecutive(us, 1)
             /\ Consecutive(ts, Len(ts)) /\ ts # <<>> /\ ts[Len(ts)] = n
                  => Consecutive(us, Len(ts) + 1)
<1> DEFINE us == Append(ts, n + 1)
           m  == Len(ts)
<1>1. /\ m \in Nat /\ DOMAIN ts = 1 .. m /\ \A i \in 1 .. m : ts[i] \in 1 .. n
  BY LenProperties, ElementOfSeq
<1>2. ts \in Seq(1 .. n + 1) /\ ts \in Seq(Nat)
  BY <1>1, SeqMonotonic
<1>3. /\ us \in Seq(1 .. n + 1) /\ us \in Seq(Nat) /\ Len(us) = m + 1 /\ DOMAIN us = 1 .. m + 1
      /\ \A i \in 1 .. m : us[i] = ts[i]
      /\ us[m + 1] = n + 1
  BY <1>1, <1>2, AppendProperties, LenProperties
<1>5. Range(us) = Range(ts) \cup {n + 1}
  <2>1. ts \in Seq(Range(ts))
    BY SeqOfRange
  <2> QED
    BY <2>1, Grown
<1> HIDE DEF us
<1>4. Range(ts) \subseteq 1 .. n
  BY <1>1 DEF Range
<1>6. ASSUME ts = <<>>
      PROVE  Consecutive(us, 1)
  <2>1. m = 0
    BY <1>6
  <2>2. us[1] = n + 1 /\ Len(us) = 1
    BY <1>3, <2>1
  <2> QED
    BY <1>3, <2>2 DEF Consecutive
<1>7. ASSUME Consecutive(ts, m), ts # <<>>, ts[m] = n
      PROVE  Consecutive(us, m + 1)
  <2>1. m >= 1
    BY <1>1, <1>7, EmptySeq
  <2> HIDE DEF m
  <2>2. \A i \in 1 .. m : ts[i] = ts[1] + i - 1
    BY <1>7 DEF Consecutive
  <2>3. ts[1] \in Nat
    BY <1>1, <2>1
  <2>4. n = ts[1] + m - 1
    BY <1>1, <1>7, <2>1, <2>2
  <2>5. us[1] = ts[1]
    BY <1>3, <2>1
  <2>6. ASSUME NEW i \in 1 .. m + 1
        PROVE  us[i] = us[1] + i - 1
    <3>1. CASE i \in 1 .. m
      BY <1>3, <2>2, <2>5, <3>1
    <3>2. CASE i = m + 1
      <4>1. us[m + 1] = n + 1
        BY <1>3
      <4>2. m \in Nat
        BY <1>1
      <4> QED
        BY <2>3, <2>4, <2>5, <3>2, <4>1, <4>2
    <3> QED
      BY <1>1, <3>1, <3>2
  <2> QED
    BY <1>3, <2>6 DEF Consecutive
<1> QED
  BY <1>1, <1>3, <1>4, <1>5, <1>6, <1>7 DEF us

\* What a step of the engine leaves of each stream.
LEMMA EngineStreams ==
  ASSUME CalibrationAssumption, IInv, pc = "measure", NEW batch, NEW out, NEW left,
         Stepped(batch, out, left)
  PROVE  /\ Now.B \in Nat \ {0} /\ Goal \in Nat
         /\ batch \in SUBSET (1 .. Now.B) /\ out \in SUBSET (1 .. Now.B)
         /\ Len(ran) \in Nat /\ Len(ran') = Len(ran) + 1 /\ ran' \in Seq(Nat)
         /\ \A t \in 1 .. Len(ran) : ran'[t] = ran[t]
         /\ ran'[Len(ran) + 1] = Cardinality(batch) + left
         /\ DOMAIN st = 1 .. Now.B /\ DOMAIN got = 1 .. Now.B
         /\ DOMAIN st' = 1 .. Now.B /\ DOMAIN got' = 1 .. Now.B
         /\ \A s \in 1 .. Now.B :
              got[s] \in Seq(1 .. Len(ran)) /\ Len(got[s]) \in Nat
         /\ \A s \in batch : /\ st[s] \in {"queued", "decoding"} /\ Len(got[s]) < Goal
                             /\ got'[s] = Append(got[s], Len(ran) + 1)
                             /\ st'[s] = IF Len(got[s]) + 1 = Goal THEN "ended" ELSE "decoding"
         /\ \A s \in (1 .. Now.B) \ batch :
              /\ got'[s] = got[s]
              /\ st'[s] = IF s \in out THEN "queued" ELSE st[s]
              /\ st[s] = "decoding" => s \in out
         /\ \A s \in out : st[s] = "decoding"
<1>1. Now.B \in Nat \ {0} /\ Now \in Point
  BY PointAtHand DEF IInv
<1>2. Goal \in Nat
  BY <1>1, TokensBounded DEF Goal
<1>3. /\ st \in [1 .. Now.B -> {"queued", "decoding", "ended"}]
      /\ got \in [1 .. Now.B -> Seq(1 .. Len(ran))] /\ ran \in Seq(Nat)
      /\ \A s \in 1 .. Now.B : st[s] # "ended" => Len(got[s]) < Goal
  BY DEF IInv, Streams
<1>4. batch \in SUBSET (1 .. Now.B) /\ out \in SUBSET (1 .. Now.B)
  BY <1>3 DEF Stepped, In
<1>5. left \in Nat
  BY DEF Stepped, IInv, Counts
<1>6. Cardinality(batch) \in Nat
  <2>1. IsFiniteSet(1 .. Now.B)
    BY <1>1, Segment
  <2> QED
    BY <1>4, <2>1, FS_Subset, FS_CardinalityType
<1>7. /\ Len(ran) \in Nat /\ Len(ran') = Len(ran) + 1 /\ ran' \in Seq(Nat)
      /\ \A t \in 1 .. Len(ran) : ran'[t] = ran[t]
      /\ ran'[Len(ran) + 1] = Cardinality(batch) + left
  <2>1. ran' = Append(ran, Cardinality(batch) + left) /\ Cardinality(batch) + left \in Nat
    BY <1>5, <1>6 DEF Stepped
  <2> QED
    BY <1>3, <2>1, AppendProperties, LenProperties
<1>8. \A s \in 1 .. Now.B : got[s] \in Seq(1 .. Len(ran)) /\ Len(got[s]) \in Nat
  <2>1. \A s \in 1 .. Now.B : got[s] \in Seq(1 .. Len(ran))
    BY <1>3
  <2> QED
    BY <2>1, LenProperties
<1>9. \A s \in batch : st[s] \in {"queued", "decoding"}
  BY DEF Stepped, In
<1>10. \A s \in out : st[s] = "decoding"
  BY DEF Stepped, In
<1>11. \A s \in (1 .. Now.B) \ batch : st[s] = "decoding" => s \in out
  BY <1>3 DEF Stepped, In
<1>12. /\ DOMAIN st = 1 .. Now.B /\ DOMAIN got = 1 .. Now.B
       /\ DOMAIN st' = 1 .. Now.B /\ DOMAIN got' = 1 .. Now.B
  BY <1>3 DEF Stepped
<1>13. /\ got' = [s \in DOMAIN got |-> IF s \in batch THEN Append(got[s], Len(ran) + 1) ELSE got[s]]
       /\ st'  = [s \in DOMAIN st |-> IF s \in batch
                                      THEN IF Len(got[s]) + 1 = Goal THEN "ended" ELSE "decoding"
                                      ELSE IF s \in out THEN "queued" ELSE st[s]]
  BY DEF Stepped
<1>14. \A s \in batch : /\ Len(got[s]) < Goal
                        /\ got'[s] = Append(got[s], Len(ran) + 1)
                        /\ st'[s] = IF Len(got[s]) + 1 = Goal THEN "ended" ELSE "decoding"
  BY <1>3, <1>4, <1>9, <1>12, <1>13
<1>15. \A s \in (1 .. Now.B) \ batch :
         got'[s] = got[s] /\ st'[s] = IF s \in out THEN "queued" ELSE st[s]
  BY <1>12, <1>13
<1> QED
  BY <1>1, <1>2, <1>4, <1>7, <1>8, <1>9, <1>10, <1>11, <1>12, <1>14, <1>15

\* Times stay within the steps there were, and no stream gets more than it asked for.
LEMMA EngineKeepsStreams ==
  ASSUME CalibrationAssumption, IInv, EngineStep
  PROVE  Streams'
<1>1. /\ pc = "measure" /\ pc' = "measure" /\ Now' = Now /\ Goal' = Goal
      /\ \E batch, out, left : Stepped(batch, out, left)
  BY EngineSteps DEF Now, Goal, Tokens
<1>2. PICK batch, out, left : Stepped(batch, out, left)
  BY <1>1
<1> DEFINE B == Now.B
           n == Len(ran)
<1>3. /\ B \in Nat \ {0} /\ Goal \in Nat /\ batch \in SUBSET (1 .. B) /\ n \in Nat
      /\ Len(ran') = n + 1 /\ ran' \in Seq(Nat)
      /\ DOMAIN st' = 1 .. B /\ DOMAIN got' = 1 .. B
  BY <1>1, <1>2, EngineStreams
<1>4. \A s \in 1 .. B : got[s] \in Seq(1 .. n) /\ Len(got[s]) \in Nat
  BY <1>1, <1>2, EngineStreams
<1>5. \A s \in batch : /\ Len(got[s]) < Goal /\ got'[s] = Append(got[s], n + 1)
                       /\ st'[s] = IF Len(got[s]) + 1 = Goal THEN "ended" ELSE "decoding"
  BY <1>1, <1>2, EngineStreams
<1>6. \A s \in (1 .. B) \ batch : got'[s] = got[s] /\ st'[s] \in {"queued", st[s]}
  BY <1>1, <1>2, EngineStreams
<1>7. /\ st \in [1 .. B -> {"queued", "decoding", "ended"}]
      /\ \A s \in 1 .. B : Len(got[s]) <= Goal /\ (st[s] # "ended" => Len(got[s]) < Goal)
  BY <1>1 DEF IInv, Streams
<1>8. \A s \in 1 .. B : \/ st[s] = "ended" \/ st[s] # "ended"
  OBVIOUS
<1>9. \A s \in (1 .. B) \ batch :
        /\ st'[s] \in {"queued", "decoding", "ended"} /\ got'[s] \in Seq(1 .. n + 1)
        /\ Len(got'[s]) <= Goal /\ (st'[s] # "ended" => Len(got'[s]) < Goal)
  <2> TAKE s \in (1 .. B) \ batch
  <2>1. got'[s] = got[s] /\ got[s] \in Seq(1 .. n) /\ Len(got[s]) <= Goal
    BY <1>4, <1>6, <1>7
  <2>2. 1 .. n \subseteq 1 .. n + 1
    BY <1>3
  <2>3. got[s] \in Seq(1 .. n + 1)
    BY <2>1, <2>2, SeqMonotonic
  <2>4. st'[s] # "ended" => Len(got[s]) < Goal
    <3>1. st'[s] \in {"queued", st[s]}
      BY <1>6
    <3>2. CASE st[s] # "ended"
      BY <1>7, <3>2
    <3>3. CASE st[s] = "ended" /\ st'[s] = "queued"
      <4>1. s \in out /\ st[s] = "decoding"
        BY <1>1, <1>2, <3>3, EngineStreams
      <4> QED
        BY <3>3, <4>1
    <3> QED
      BY <3>1, <3>2, <3>3
  <2> QED
    BY <1>6, <1>7, <2>1, <2>3, <2>4
<1>10. \A s \in batch :
         /\ st'[s] \in {"queued", "decoding", "ended"} /\ got'[s] \in Seq(1 .. n + 1)
         /\ Len(got'[s]) <= Goal /\ (st'[s] # "ended" => Len(got'[s]) < Goal)
  <2> TAKE s \in batch
  <2>1. got[s] \in Seq(1 .. n) /\ Len(got[s]) \in Nat
    BY <1>3, <1>4
  <2>2. Append(got[s], n + 1) \in Seq(1 .. n + 1) /\ Len(Append(got[s], n + 1)) = Len(got[s]) + 1
    BY <1>3, <2>1, TokenAdded
  <2>3. /\ Len(got[s]) < Goal /\ got'[s] = Append(got[s], n + 1)
        /\ st'[s] = IF Len(got[s]) + 1 = Goal THEN "ended" ELSE "decoding"
    BY <1>5
  <2> DEFINE k == Len(got[s])
  <2>4. k \in Nat /\ Goal \in Nat /\ k < Goal /\ Len(got'[s]) = k + 1
    BY <1>3, <2>1, <2>2, <2>3
  <2>5. st'[s] = IF k + 1 = Goal THEN "ended" ELSE "decoding"
    BY <2>3
  <2>6. got'[s] \in Seq(1 .. n + 1)
    BY <2>2, <2>3
  <2> HIDE DEF k
  <2> QED
    BY <2>4, <2>5, <2>6
<1>11. \A s \in 1 .. B :
         /\ st'[s] \in {"queued", "decoding", "ended"} /\ got'[s] \in Seq(1 .. n + 1)
         /\ Len(got'[s]) <= Goal /\ (st'[s] # "ended" => Len(got'[s]) < Goal)
  BY <1>9, <1>10
<1>12. st' = [s \in DOMAIN st' |-> st'[s]] /\ got' = [s \in DOMAIN got' |-> got'[s]]
  BY <1>2 DEF Stepped
<1>13. st' \in [1 .. B -> {"queued", "decoding", "ended"}] /\ got' \in [1 .. B -> Seq(1 .. n + 1)]
  BY <1>3, <1>11, <1>12
<1> HIDE DEF n
<1> QED
  BY <1>1, <1>3, <1>11, <1>13 DEF Streams

\* Undisturbed, the engine preempts nobody and holds nobody else's streams.
LEMMA EngineKeepsSteady ==
  ASSUME CalibrationAssumption, IInv, EngineStep
  PROVE  Steady'
<1> SUFFICES ASSUME Quiet'
             PROVE  /\ \A s \in 1 .. Now.B :
                         /\ Consecutive(got'[s], Len(got'[s]))
                         /\ st'[s] = "queued" => got'[s] = <<>>
                         /\ st'[s] = "decoding" => got'[s] # <<>> /\ got'[s][Len(got'[s])] = Len(ran')
                         /\ st'[s] = "ended" => Len(got'[s]) = Goal
                    /\ \A t \in 1 .. Len(ran') : ran'[t] = Cardinality(Served(got', t))
  BY EngineSteps DEF Steady, Now, Goal, Tokens
<1>1. /\ pc = "measure" /\ before' = before /\ faults' = faults
      /\ \E batch, out, left : Stepped(batch, out, left)
  BY EngineSteps
<1>2. PICK batch, out, left : Stepped(batch, out, left)
  BY <1>1
<1> DEFINE B == Now.B
           n == Len(ran)
<1>3. /\ B \in Nat \ {0} /\ Goal \in Nat /\ batch \in SUBSET (1 .. B) /\ out \in SUBSET (1 .. B)
      /\ n \in Nat /\ Len(ran') = n + 1
      /\ \A t \in 1 .. n : ran'[t] = ran[t]
      /\ ran'[n + 1] = Cardinality(batch) + left
      /\ DOMAIN got = 1 .. B /\ DOMAIN got' = 1 .. B
  BY SMTT(30), <1>1, <1>2, EngineStreams
<1>4. out = {} /\ left = 0 /\ Quiet
  <2>1. faults = 0 /\ counter' = before /\ before # None /\ counter' = counter + Cardinality(out)
    BY <1>1, <1>2 DEF Quiet, Stepped
  <2>2. counter \in Nat /\ before \in {None} \cup 0 .. counter
    BY DEF IInv, Counts
  <2>3. left = 0
    BY <1>2, <2>1 DEF Stepped, IInv, Counts
  <2>4. IsFiniteSet(out) /\ Cardinality(out) \in Nat
    BY <1>3, Segment, FS_Subset, FS_CardinalityType
  <2>5. Cardinality(out) = 0 /\ counter = before
    BY SMTT(30), <2>1, <2>2, <2>4
  <2>6. out = {}
    BY <2>4, <2>5, FS_EmptySet
  <2> QED
    BY <2>1, <2>3, <2>5, <2>6 DEF Quiet
<1>5. /\ \A s \in 1 .. B :
           /\ Consecutive(got[s], Len(got[s]))
           /\ st[s] = "queued" => got[s] = <<>>
           /\ st[s] = "decoding" => got[s] # <<>> /\ got[s][Len(got[s])] = n
           /\ st[s] = "ended" => Len(got[s]) = Goal
      /\ \A t \in 1 .. n : ran[t] = Cardinality(Served(got, t))
  <2>1. Steady
    BY DEF IInv
  <2>2. /\ \A s \in 1 .. Now.B :
             /\ Consecutive(got[s], Len(got[s]))
             /\ st[s] = "queued" => got[s] = <<>>
             /\ st[s] = "decoding" => got[s] # <<>> /\ got[s][Len(got[s])] = Len(ran)
             /\ st[s] = "ended" => Len(got[s]) = Goal
        /\ \A t \in 1 .. Len(ran) : ran[t] = Cardinality(Served(got, t))
    BY <1>1, <1>4, <2>1, Zenon DEF Steady
  <2> QED
    BY <2>2
<1>6. \A s \in (1 .. B) \ batch : got'[s] = got[s] /\ st'[s] = st[s] /\ st[s] # "decoding"
  <2> TAKE s \in (1 .. B) \ batch
  <2>1. /\ got'[s] = got[s]
        /\ st'[s] = IF s \in out THEN "queued" ELSE st[s]
        /\ st[s] = "decoding" => s \in out
    BY <1>1, <1>2, EngineStreams
  <2>2. s \notin out
    BY <1>4
  <2> QED
    BY <2>1, <2>2
<1>7. \A s \in batch :
        /\ st[s] \in {"queued", "decoding"} /\ got'[s] = Append(got[s], n + 1)
        /\ st'[s] = IF Len(got[s]) + 1 = Goal THEN "ended" ELSE "decoding"
  BY <1>1, <1>2, EngineStreams
<1>8. \A s \in 1 .. B : got[s] \in Seq(1 .. n)
  BY <1>1, <1>2, EngineStreams
<1> HIDE DEF n
<1>9. \A s \in batch :
        /\ Consecutive(got'[s], Len(got'[s])) /\ got'[s] # <<>> /\ got'[s][Len(got'[s])] = n + 1
        /\ st'[s] \in {"ended", "decoding"} /\ (st'[s] = "ended" => Len(got'[s]) = Goal)
        /\ Range(got'[s]) = Range(got[s]) \cup {n + 1}
  <2> TAKE s \in batch
  <2>1. s \in 1 .. B /\ got[s] \in Seq(1 .. n)
    BY <1>3, <1>8
  <2> DEFINE ts == got[s]
             us == Append(ts, n + 1)
  <2>2. ts \in Seq(1 .. n)
    BY <2>1
  <2>3. (ts = <<>>) \/ (Consecutive(ts, Len(ts)) /\ ts # <<>> /\ ts[Len(ts)] = n)
    BY <1>5, <1>7, <2>1
  <2>4. got'[s] = us /\ st'[s] = IF Len(ts) + 1 = Goal THEN "ended" ELSE "decoding"
    BY <1>7
  <2> HIDE DEF ts
  <2>5. /\ Len(us) = Len(ts) + 1 /\ Len(ts) \in Nat /\ us[Len(us)] = n + 1
        /\ Range(us) = Range(ts) \cup {n + 1}
        /\ ts = <<>> => Consecutive(us, 1)
        /\ Consecutive(ts, Len(ts)) /\ ts # <<>> /\ ts[Len(ts)] = n
             => Consecutive(us, Len(ts) + 1)
    BY <1>3, <2>2, TokenAdded
  <2>6. Consecutive(us, Len(us))
    <3>1. CASE ts = <<>>
      <4>1. Len(ts) = 0
        BY <3>1
      <4>2. Len(us) = 1
        BY <2>5, <4>1
      <4> QED
        BY <2>5, <3>1, <4>2
    <3>2. CASE Consecutive(ts, Len(ts)) /\ ts # <<>> /\ ts[Len(ts)] = n
      BY <2>5, <3>2
    <3> QED
      BY <2>3, <3>1, <3>2
  <2>7. us # <<>>
    BY <2>5
  <2> HIDE DEF us
  <2> QED
    BY <2>4, <2>5, <2>6, <2>7 DEF ts
<1>10. ASSUME NEW s \in 1 .. B
       PROVE  /\ Consecutive(got'[s], Len(got'[s]))
              /\ st'[s] = "queued" => got'[s] = <<>>
              /\ st'[s] = "decoding" => got'[s] # <<>> /\ got'[s][Len(got'[s])] = n + 1
              /\ st'[s] = "ended" => Len(got'[s]) = Goal
  <2>1. CASE s \in batch
    BY <1>9, <2>1
  <2>2. CASE s \notin batch
    BY <1>5, <1>6, <2>2
  <2> QED
    BY <2>1, <2>2
<1>11. \A s \in 1 .. B : Range(got[s]) \subseteq 1 .. n
  BY <1>8, RangeOfSeq
<1>12. \A t \in 1 .. n : Served(got', t) = Served(got, t)
  <2> TAKE t \in 1 .. n
  <2>1. t # n + 1
    BY <1>3
  <2>2. \A s \in 1 .. B : t \in Range(got'[s]) <=> t \in Range(got[s])
    BY SMTT(30), <1>6, <1>9, <2>1
  <2> QED
    BY <1>3, <2>2 DEF Served
<1>13. Served(got', n + 1) = batch
  <2>1. n + 1 \notin 1 .. n
    BY <1>3
  <2>2. \A s \in 1 .. B : n + 1 \in Range(got'[s]) <=> s \in batch
    BY <1>6, <1>9, <1>11, <2>1
  <2> QED
    BY <1>3, <2>2 DEF Served
<1>14. IsFiniteSet(batch) /\ Cardinality(batch) \in Nat
  BY <1>3, Segment, FS_Subset, FS_CardinalityType
<1>15. ASSUME NEW t \in 1 .. n + 1
       PROVE  ran'[t] = Cardinality(Served(got', t))
  <2>1. CASE t \in 1 .. n
    BY <1>3, <1>5, <1>12, <2>1
  <2>2. CASE t = n + 1
    BY <1>3, <1>4, <1>13, <1>14, <2>2
  <2> QED
    BY <1>3, <2>1, <2>2
<1> QED
  BY <1>3, <1>10, <1>15

LEMMA EngineStepStep ==
  ASSUME CalibrationAssumption, IInv, EngineStep
  PROVE  IInv'
<1>1. /\ pc = "measure"
      /\ UNCHANGED <<driver, fit, pc, todo, before, reps, tries, rows, checks, faults>>
  BY EngineSteps
<1>2. PICK batch, out, left : Stepped(batch, out, left)
  BY EngineSteps
<1>3. counter' \in 0 .. MaxPreempt /\ counter <= counter' /\ orphans' \in Nat
      /\ (faults = 0 => orphans' = 0)
  <2>1. out \in SUBSET (1 .. Now.B) /\ Now.B \in Nat
    BY <1>1, <1>2, EngineStreams
  <2>2. Cardinality(out) \in Nat
    BY <2>1, Segment, FS_Subset, FS_CardinalityType
  <2>3. counter \in Nat /\ orphans \in Nat /\ (faults = 0 => orphans = 0)
    BY DEF IInv, Counts
  <2>4. /\ counter + Cardinality(out) <= MaxPreempt /\ counter' = counter + Cardinality(out)
        /\ left \in 0 .. orphans /\ orphans' = left
    BY <1>2 DEF Stepped
  <2>5. MaxPreempt \in Nat
    BY DEF CalibrationAssumption
  <2> QED
    BY <2>2, <2>3, <2>4, <2>5
<1>4. Counts'
  <2>1. before \in {None} \cup 0 .. counter /\ counter \in Nat
    BY DEF IInv, Counts
  <2>2. before \in {None} \cup 0 .. counter'
    BY <1>3, <2>1
  <2> QED
    BY <1>1, <1>3, <2>2 DEF IInv, Counts
<1>5. Lists'
  BY <1>1 DEF IInv, Lists
<1>6. Streams' /\ Steady'
  BY EngineKeepsStreams, EngineKeepsSteady
<1>7. Quiet' => Quiet
  <2>1. before \in {None} \cup 0 .. counter /\ counter \in Nat
    BY DEF IInv, Counts
  <2> QED
    BY <1>1, <1>3, <2>1 DEF Quiet
<1>8. RepsExact'
  BY <1>1, <1>7 DEF IInv, RepsExact, Now
<1>9. RowsExact'
  BY <1>1 DEF IInv, RowsExact, RowExact
<1> QED
  BY <1>4, <1>5, <1>6, <1>8, <1>9 DEF IInv
-----------------------------------------------------------------------------
(* The theorems.                                                           *)

LEMMA NextStep ==
  ASSUME CalibrationAssumption, IInv, [Next]_vars
  PROVE  IInv'
<1>1. CASE Probe
  BY <1>1, ProbeStep
<1>2. CASE MeasurePrefill
  BY <1>2, PrefillStep
<1>3. CASE ReadBefore
  BY <1>3, ReadBeforeStep
<1>4. CASE StartRep
  BY <1>4, StartStep
<1>5. CASE Measure
  BY <1>5, MeasureStep
<1>6. CASE ReadAfter
  BY <1>6, ReadAfterStep
<1>7. CASE Write
  BY <1>7, WriteStep
<1>8. CASE EngineStep
  BY <1>8, EngineStepStep
<1>9. CASE \E s \in DOMAIN st : EndsShort(s) \/ StreamRaises(s)
  BY <1>9, EndsShortStep, RaisesStep
<1>10. CASE UNCHANGED vars
  <2>1. UNCHANGED <<driver, fit, pc, todo, before, reps, tries, rows, checks, prefill, perf,
                    st, got, ran, orphans, counter, faults>>
    BY <1>10 DEF vars, driverVars, engineVars
  <2>2. Counts' /\ Lists' /\ Streams' /\ Steady'
    BY <2>1 DEF IInv, Counts, Lists, Streams, Steady, Quiet, Served, Now, Goal, Tokens
  <2>3. RepsExact' /\ RowsExact'
    BY <2>1 DEF IInv, RepsExact, RowsExact, RowExact, Quiet, Now
  <2> QED
    BY <2>2, <2>3 DEF IInv
<1> QED
  BY <1>1, <1>2, <1>3, <1>4, <1>5, <1>6, <1>7, <1>8, <1>9, <1>10 DEF Next, Driver, Done

\* The inductive invariant of both drivers, in every reachable state.
THEOREM Invariance == Spec => []IInv
<1>1. Init => IInv
  BY Started, CalibrationAssumption
<1>2. IInv /\ [Next]_vars => IInv'
  BY NextStep, CalibrationAssumption
<1> QED
  BY <1>1, <1>2, PTL DEF Spec

\* The lists of measurements, the times of each stream, and the counts that
\* calibrate.py and satprobe.py keep stay within their bounds.
THEOREM CalibrationTypes == Spec => []TypeOK
<1>1. IInv => TypeOK
  <2> SUFFICES ASSUME IInv PROVE TypeOK
    OBVIOUS
  <2>1. Counts /\ Lists /\ Streams
    BY DEF IInv
  <2>2. ASSUME NEW s \in DOMAIN st
        PROVE  got[s] \in Seq(1 .. Len(ran)) /\ Len(got[s]) <= GenTokens
    <3>1. CASE pc = "measure"
      <4>1. s \in 1 .. Now.B /\ got[s] \in Seq(1 .. Len(ran)) /\ Len(got[s]) <= Goal
        BY <2>1, <2>2, <3>1 DEF Streams
      <4>2. Now \in Point
        BY <2>1, <3>1, PointAtHand
      <4>3. Goal \in Nat /\ Goal <= GenTokens
        BY <4>2, TokensBounded, CalibrationAssumption DEF Goal
      <4>4. Len(got[s]) \in Nat /\ GenTokens \in Nat
        BY <4>1, LenProperties, CalibrationAssumption DEF CalibrationAssumption
      <4> QED
        BY <4>1, <4>3, <4>4
    <3>2. CASE pc # "measure"
      BY <2>1, <2>2, <3>2 DEF Streams
    <3> QED
      BY <3>1, <3>2
  <2> QED
    BY <2>1, <2>2 DEF TypeOK, Counts, Lists
<1> QED
  BY <1>1, Invariance, PTL

\* Of every point whose first reading was not None and whose second was the counter, no
\* more than the first, and with no stream failed, each step inside the window ran at its
\* batch exactly, and what is averaged over the streams is the time of a step
\* (_measure_point, _preemptions): also where the first reading was the 0 of a page
\* without the counter.
THEOREM CleanIsExact == Spec => []CleanPointsAreExact
<1>1. IInv => CleanPointsAreExact
  BY DEF IInv, RowsExact, RowExact, CleanPointsAreExact, Rows
<1> QED
  BY <1>1, Invariance, PTL
=============================================================================
