---------------------------- MODULE SweepProofs ----------------------------
(***************************************************************************)
(* Proofs about the three sweeps, for every grid, number of workers, table *)
(* of results, order of completion and set of failures: every job is in    *)
(* one place, the rankings and the capacities are those of the results,    *)
(* and a sweep is lost only for the reasons it has.                        *)
(***************************************************************************)
EXTENDS Sweep, SequenceLemmas, FiniteSetTheorems, TLAPS

-----------------------------------------------------------------------------
(* The grid.                                                               *)

LEMMA Division ==
  ASSUME NEW n \in Nat \ {0}, NEW i \in Nat
  PROVE  /\ i \div n \in Nat /\ i % n \in 0..n-1
         /\ i = n * (i \div n) + (i % n)
  OBVIOUS

LEMMA Digits ==
  ASSUME NEW n \in Nat \ {0}, NEW q \in Nat, NEW r \in 0..n-1
  PROVE  n * q + r \in Nat /\ (n * q + r) \div n = q /\ (n * q + r) % n = r
<1> DEFINE i == n * q + r
           d == i \div n
           m == i % n
<1>1. i \in Nat
  OBVIOUS
<1>2. d \in Nat /\ m \in 0..n-1 /\ i = n * d + m
  <2> HIDE DEF i
  <2> QED
    BY <1>1, Division
<1>3. n * q + r = n * d + m
  BY <1>2
<1> HIDE DEF d, m
<1>4. n * (q - d) = m - r
  BY <1>2, <1>3
<1>5. q - d >= 1 => n * (q - d) >= n
  BY <1>2
<1>6. q - d <= -1 => n * (q - d) <= -n
  BY <1>2
<1>7. q = d
  BY <1>2, <1>4, <1>5, <1>6
<1>8. m = r
  BY <1>2, <1>3, <1>7
<1> QED
  BY <1>1, <1>7, <1>8 DEF d, m

Scripts == {"sweep", "load_sweep", "sweep2"}

\* The jobs are the cells of the grid, each once.
LEMMA Grid ==
  ASSUME NEW s \in Scripts
  PROVE  /\ SpeedsOf(s) \subseteq DOMAIN Speeds /\ 1 \in SpeedsOf(s)
         /\ Jobs(s) \in Seq(Cell) /\ IsInjective(Jobs(s))
         /\ Range(Jobs(s)) = Range(Configs) \X SpeedsOf(s)
<1> DEFINE n == Cardinality(SpeedsOf(s))
           J == Jobs(s)
           N == Len(Configs)
<1>1. /\ N \in Nat /\ DOMAIN Configs = 1..N /\ \A i \in 1..N : Configs[i] \in Range(Configs)
      /\ \A c \in Range(Configs) : \E i \in 1..N : Configs[i] = c
      /\ \A i, j \in 1..N : Configs[i] = Configs[j] => i = j
  BY SweepAssumption, LenProperties DEF Range, IsInjective
<1>2. Len(Speeds) \in Nat \ {0} /\ DOMAIN Speeds = 1..Len(Speeds)
  BY SweepAssumption, LenProperties, EmptySeq
<1>3. n \in Nat \ {0} /\ SpeedsOf(s) = 1..n /\ n <= Len(Speeds)
  <2>1. ASSUME NEW k \in Nat, SpeedsOf(s) = 1..k PROVE n = k
    BY <2>1, FS_Interval
  <2>2. SpeedsOf(s) = 1..1 \/ SpeedsOf(s) = 1..Len(Speeds)
    BY <1>2 DEF SpeedsOf
  <2>3. CASE SpeedsOf(s) = 1..1
    <3>1. n = 1
      BY <2>1, <2>3
    <3> QED
      BY <1>2, <2>3, <3>1
  <2>4. CASE SpeedsOf(s) = 1..Len(Speeds)
    <3>1. n = Len(Speeds)
      BY <1>2, <2>1, <2>4
    <3> QED
      BY SMTT(30), <1>2, <2>4, <3>1
  <2> QED
    BY <2>2, <2>3, <2>4
<1> HIDE DEF n
<1>4. J = [i \in 1..N * n |-> <<Configs[((i - 1) \div n) + 1], ((i - 1) % n) + 1>>]
  BY DEF Jobs, n
<1>5. N * n \in Nat
  BY <1>1, <1>3
<1>6. ASSUME NEW i \in 1..N * n
      PROVE  /\ (i - 1) \div n \in 0..N-1 /\ (i - 1) % n \in 0..n-1
             /\ i - 1 = n * ((i - 1) \div n) + ((i - 1) % n)
  <2> DEFINE q == (i - 1) \div n
             r == (i - 1) % n
  <2>1. i - 1 \in Nat
    BY <1>5
  <2>2. q \in Nat /\ r \in 0..n-1 /\ i - 1 = n * q + r
    BY <1>3, <2>1, Division
  <2> HIDE DEF q, r
  <2>3. q >= N => n * q >= N * n
    BY <1>1, <1>3, <2>2
  <2>4. i <= N * n
    BY <1>5
  <2>5. q < N
    BY <1>1, <1>3, <1>5, <2>2, <2>3, <2>4
  <2> QED
    BY <1>1, <2>2, <2>5 DEF q, r
<1>7. ASSUME NEW i \in 1..N * n
      PROVE  J[i] \in Range(Configs) \X SpeedsOf(s)
  <2> DEFINE q == (i - 1) \div n
             r == (i - 1) % n
  <2>1. q \in 0..N-1 /\ r \in 0..n-1
    BY <1>6
  <2>2. J[i] = <<Configs[q + 1], r + 1>>
    BY <1>4
  <2> HIDE DEF q, r, J
  <2> QED
    BY <1>1, <1>3, <2>1, <2>2
<1>8. SpeedsOf(s) \subseteq DOMAIN Speeds /\ 1 \in SpeedsOf(s)
  BY <1>2, <1>3
<1>9. J \in Seq(Cell) /\ DOMAIN J = 1..N * n /\ Len(J) = N * n
  <2>1. \A i \in 1..N * n : J[i] \in Cell
    BY <1>7, <1>8 DEF Cell
  <2>2. J = [i \in 1..N * n |-> J[i]]
    BY <1>4
  <2> HIDE DEF J
  <2>3. J \in [1..N * n -> Cell]
    BY <2>1, <2>2
  <2> QED
    BY <1>5, <2>3, LenProperties
<1>10. ASSUME NEW i \in 1..N * n, NEW j \in 1..N * n, J[i] = J[j]
       PROVE  i = j
  <2> DEFINE qi == (i - 1) \div n
             ri == (i - 1) % n
             qj == (j - 1) \div n
             rj == (j - 1) % n
  <2>1. /\ qi \in 0..N-1 /\ ri \in 0..n-1 /\ i - 1 = n * qi + ri
        /\ qj \in 0..N-1 /\ rj \in 0..n-1 /\ j - 1 = n * qj + rj
    BY <1>6
  <2>2. J[i] = <<Configs[qi + 1], ri + 1>> /\ J[j] = <<Configs[qj + 1], rj + 1>>
    BY <1>4
  <2> HIDE DEF qi, ri, qj, rj, J
  <2>3. Configs[qi + 1] = Configs[qj + 1] /\ ri + 1 = rj + 1
    <3>1. <<Configs[qi + 1], ri + 1>> = <<Configs[qj + 1], rj + 1>>
      BY <1>10, <2>2, Zenon
    <3> QED
      BY <3>1
  <2>4. qi + 1 = qj + 1
    BY <1>1, <2>1, <2>3
  <2>5. qi = qj /\ ri = rj
    BY <2>1, <2>3, <2>4
  <2>6. i - 1 = j - 1
    BY <2>1, <2>5
  <2> QED
    BY <1>5, <2>6
<1>11. ASSUME NEW c \in Range(Configs), NEW k \in SpeedsOf(s)
       PROVE  \E i \in 1..N * n : J[i] = <<c, k>>
  <2>1. PICK a \in 1..N : Configs[a] = c
    BY <1>1
  <2> DEFINE i == n * (a - 1) + k
  <2>2. a - 1 \in Nat /\ k - 1 \in 0..n-1 /\ k \in Nat
    BY <1>1, <1>3
  <2>3. /\ n * (a - 1) + (k - 1) \in Nat
        /\ (n * (a - 1) + (k - 1)) \div n = a - 1
        /\ (n * (a - 1) + (k - 1)) % n = k - 1
    BY <1>3, <2>2, Digits
  <2>4. n * (a - 1) \in Nat
    BY <1>3, <2>2
  <2>5. i - 1 = n * (a - 1) + (k - 1)
    BY <2>2, <2>4
  <2>6. (i - 1) \div n = a - 1 /\ (i - 1) % n = k - 1
    BY <2>3, <2>5
  <2>7. i \in 1..N * n
    <3>1. n * (a - 1) + n <= N * n
      BY <1>1, <1>3, <2>2
    <3> QED
      BY <1>3, <1>5, <2>2, <2>4, <3>1
  <2> HIDE DEF i
  <2>8. J[i] = <<Configs[((i - 1) \div n) + 1], ((i - 1) % n) + 1>>
    BY <1>4, <2>7
  <2>9. J[i] = <<Configs[(a - 1) + 1], (k - 1) + 1>>
    BY <2>6, <2>8
  <2>10. (a - 1) + 1 = a /\ (k - 1) + 1 = k
    BY <2>2
  <2> QED
    BY <2>1, <2>7, <2>9, <2>10
<1> HIDE DEF J
<1>12. IsInjective(J)
  BY <1>9, <1>10 DEF IsInjective
<1>13. Range(J) = Range(Configs) \X SpeedsOf(s)
  <2>1. Range(J) = {J[i] : i \in 1..N * n}
    BY <1>9 DEF Range
  <2>2. Range(J) \subseteq Range(Configs) \X SpeedsOf(s)
    BY <1>7, <2>1
  <2>3. ASSUME NEW c \in Range(Configs), NEW k \in SpeedsOf(s) PROVE <<c, k>> \in Range(J)
    BY <1>11, <2>1
  <2> QED
    BY <2>2, <2>3
<1> QED
  BY <1>8, <1>9, <1>12, <1>13 DEF J

-----------------------------------------------------------------------------
(* Every job is in one place.                                              *)

Row == [cell : Cell, ok : BOOLEAN]
Back == {rows[i].cell : i \in DOMAIN rows}

\* The inductive invariant.  Placed: a job waits, is simulated, or came back,
\* once.  Complete: none is forgotten, so that a report is made of all of them.
Placed ==
  /\ script \in Scripts /\ table \in Tables
  /\ todo \in Seq(Cell) /\ IsInjective(todo)
  /\ running \in SUBSET Cell /\ IsFiniteSet(running) /\ Cardinality(running) <= Workers
  /\ rows \in Seq(Row)
  /\ \A i, j \in 1..Len(rows) : rows[i].cell = rows[j].cell => i = j
  /\ Back \cap running = {} /\ Back \cap Range(todo) = {} /\ running \cap Range(todo) = {}

Complete ==
  /\ pc \in {"pool", "leaving", "report", "written", "raised"}
  /\ pc = "pool" =>
       /\ Back \cup running \cup Range(todo) = Range(Jobs(script))
       /\ Len(rows) + Cardinality(running) + Len(todo) = Len(Jobs(script))
  /\ pc \in {"report", "written"} => /\ Back = Range(Jobs(script))
                                     /\ Len(rows) = Len(Jobs(script))
  /\ pc = "written" => LookupsFound /\ out = Contents

Sound == Placed /\ Complete

\* What is computed from the results changes only with them.
LEMMA SameResults ==
  ASSUME UNCHANGED <<script, table, rows>>
  PROVE  /\ Back' = Back /\ Jobs(script)' = Jobs(script)
         /\ LookupsFound' = LookupsFound /\ Contents' = Contents
<1>1. Back' = Back /\ Good' = Good /\ GoodCells' = GoodCells /\ Errors' = Errors
  BY DEF Back, Good, GoodCells, Errors
<1>2. LookupsFound' = LookupsFound /\ Jobs(script)' = Jobs(script)
  BY <1>1 DEF LookupsFound, Jobs
<1>3. RankedFeasible' = RankedFeasible
  BY <1>1 DEF RankedFeasible, StablePlaces, CostKey
<1>4. Differ' = Differ
  BY <1>1 DEF Differ, Cap, Survives
<1>6. Capacities(OwnAnchors)' = Capacities(OwnAnchors)
  BY <1>1 DEF OwnAnchors, Capacities, StableSort, StablePlaces, CapKey, GpuAtCap, Cap, Survives
<1>7. Capacities(Anchors[1])' = Capacities(Anchors[1]) /\ Capacities(Anchors[2])' = Capacities(Anchors[2])
  BY <1>1 DEF Capacities, StableSort, StablePlaces, CapKey, GpuAtCap, Cap, Survives
<1> QED
  BY <1>1, <1>2, <1>3, <1>4, <1>6, <1>7 DEF Contents

LEMMA InitSound == Init => Sound
<1> SUFFICES ASSUME Init PROVE Sound
  OBVIOUS
<1> USE DEF Init
<1>1. script \in Scripts
  BY DEF Scripts
<1>2. /\ Jobs(script) \in Seq(Cell) /\ IsInjective(Jobs(script))
      /\ Range(Jobs(script)) = Range(Configs) \X SpeedsOf(script)
  BY <1>1, Grid
<1>3. rows \in Seq(Row) /\ Len(rows) = 0 /\ Back = {}
  BY DEF Back
<1>4. IsFiniteSet(running) /\ Cardinality(running) = 0 /\ Workers \in Nat \ {0}
  BY FS_EmptySet, SweepAssumption
<1>5. Placed
  BY <1>1, <1>2, <1>3, <1>4 DEF Placed
<1>6. Len(todo) \in Nat
  BY <1>2, LenProperties
<1>7. Complete
  BY <1>3, <1>4, <1>6 DEF Complete
<1> QED
  BY <1>5, <1>7 DEF Sound

LEMMA TakeSound == Sound /\ Take => Sound'
<1> SUFFICES ASSUME Sound, Take PROVE Sound'
  OBVIOUS
<1>1. Placed /\ Complete /\ pc \in {"pool", "leaving"} /\ pc' = pc /\ todo # <<>>
  BY DEF Sound, Take
<1> DEFINE h == Head(todo)
<1>2. /\ UNCHANGED <<script, table, rows, out>>
      /\ running' = running \cup {h} /\ todo' = Tail(todo)
  BY DEF Take
<1>3. Back' = Back /\ Jobs(script)' = Jobs(script)
  BY <1>2, SameResults
<1>4. /\ Tail(todo) \in Seq(Cell) /\ IsInjective(Tail(todo))
      /\ h \in Range(todo) /\ h \in Cell
      /\ Range(Tail(todo)) = Range(todo) \ {h}
      /\ Len(Tail(todo)) = Len(todo) - 1 /\ Len(todo) \in Nat
  BY <1>1, TailDistinct, HeadTailProperties, LenProperties, RangeIs DEF Placed
<1> HIDE DEF h
<1>5. h \notin running
  BY <1>1, <1>4 DEF Placed
<1>6. /\ IsFiniteSet(running') /\ Cardinality(running') = Cardinality(running) + 1
      /\ Cardinality(running) \in Nat /\ Cardinality(running') <= Workers
  <2>1. IsFiniteSet(running)
    BY <1>1 DEF Placed
  <2>2. /\ IsFiniteSet(running \cup {h}) /\ Cardinality(running) \in Nat
        /\ Cardinality(running \cup {h}) = Cardinality(running) + 1
    BY <1>5, <2>1, FS_AddElement, FS_CardinalityType
  <2>3. Cardinality(running) < Workers
    BY DEF Take, FreeWorker
  <2> QED
    BY <1>2, <2>2, <2>3, SweepAssumption
<1>7. Placed'
  <2>1. running' \in SUBSET Cell
    BY <1>1, <1>2, <1>4 DEF Placed
  <2>2. Back \cap running' = {} /\ Back \cap Range(todo') = {} /\ running' \cap Range(todo') = {}
    BY <1>1, <1>2, <1>4 DEF Placed
  <2> QED
    BY <1>1, <1>2, <1>3, <1>4, <1>6, <2>1, <2>2 DEF Placed
<1>8. Complete'
  <2>1. pc = "pool" => Back \cup running' \cup Range(todo') = Range(Jobs(script))
    BY <1>1, <1>2, <1>4 DEF Complete
  <2>2. Len(rows) \in Nat
    BY <1>1, LenProperties DEF Placed
  <2>3. pc = "pool" => Len(rows) + Cardinality(running') + Len(todo') = Len(Jobs(script))
    BY <1>1, <1>2, <1>4, <1>6, <2>2 DEF Complete
  <2> QED
    BY <1>1, <1>2, <1>3, <2>1, <2>3 DEF Complete
<1> QED
  BY <1>7, <1>8 DEF Sound

LEMMA SimEndsSound ==
  ASSUME NEW cell, NEW ok \in BOOLEAN, Sound, SimEnds(cell, ok)
  PROVE  Sound'
<1>1. Placed /\ Complete /\ pc = "pool" /\ cell \in running
  BY DEF Sound, SimEnds
<1>2. /\ UNCHANGED <<script, table, todo, out>>
      /\ running' = running \ {cell} /\ rows' = Append(rows, [cell |-> cell, ok |-> ok])
      /\ pc' = IF todo = <<>> /\ running' = {} THEN "report" ELSE pc
  BY DEF SimEnds
<1> DEFINE r == [cell |-> cell, ok |-> ok]
<1>3. r \in Row /\ r.cell = cell
  BY <1>1 DEF Row, Placed
<1> HIDE DEF r
<1>4. /\ rows' \in Seq(Row) /\ Len(rows') = Len(rows) + 1 /\ Len(rows) \in Nat
      /\ rows'[Len(rows) + 1] = r
      /\ \A i \in 1..Len(rows) : rows'[i] = rows[i]
      /\ DOMAIN rows = 1..Len(rows) /\ DOMAIN rows' = 1..Len(rows')
  BY <1>1, <1>2, <1>3, AppendProperties, LenProperties DEF Placed, r
<1>5. 1..Len(rows') = 1..Len(rows) \cup {Len(rows) + 1}
  BY <1>4
<1>6. Back' = Back \cup {cell}
  BY <1>3, <1>4, <1>5 DEF Back
<1>7. \A i \in 1..Len(rows) : rows[i].cell # cell
  BY <1>1, <1>4 DEF Placed, Back
<1>8. \A i, j \in 1..Len(rows') : rows'[i].cell = rows'[j].cell => i = j
  BY <1>1, <1>3, <1>4, <1>5, <1>7 DEF Placed
<1>9. /\ IsFiniteSet(running') /\ Cardinality(running) \in Nat
      /\ Cardinality(running') = Cardinality(running) - 1
  BY <1>1, <1>2, FS_RemoveElement, FS_CardinalityType DEF Placed
<1>10. Jobs(script)' = Jobs(script)
  BY <1>2 DEF Jobs
<1>11. Placed'
  <2>1. running' \in SUBSET Cell
    BY <1>1, <1>2 DEF Placed
  <2>2. Back' \cap running' = {} /\ Back' \cap Range(todo) = {} /\ running' \cap Range(todo) = {}
    BY <1>1, <1>2, <1>6 DEF Placed
  <2>3. Cardinality(running') <= Workers
    BY <1>1, <1>9, SweepAssumption DEF Placed
  <2> QED
    BY <1>1, <1>2, <1>4, <1>8, <1>9, <2>1, <2>2, <2>3 DEF Placed
<1>12. Complete'
  <2>1. Back' \cup running' \cup Range(todo) = Range(Jobs(script))
    BY <1>1, <1>2, <1>6 DEF Complete
  <2>2. Len(todo) \in Nat
    BY <1>1, LenProperties DEF Placed
  <2>3. Len(rows') + Cardinality(running') + Len(todo) = Len(Jobs(script))
    BY <1>1, <1>4, <1>9, <2>2 DEF Complete
  <2>4. CASE todo = <<>> /\ running' = {}
    <3>1. pc' = "report" /\ Range(todo) = {} /\ Len(todo) = 0
      BY <1>2, <2>4 DEF Range
    <3>2. Cardinality(running') = 0 /\ Len(rows') \in Nat
      BY <1>4, <2>4, FS_EmptySet
    <3>3. Back' = Range(Jobs(script))
      BY <2>1, <2>4, <3>1
    <3> DEFINE a == Len(rows')
               b == Cardinality(running')
               c == Len(todo)
    <3>4. a \in Nat /\ b = 0 /\ c = 0 /\ a + b + c = Len(Jobs(script))
      BY <2>3, <3>1, <3>2
    <3> HIDE DEF a, b, c
    <3>5. a = Len(Jobs(script))
      BY <3>4
    <3> QED
      BY <1>2, <1>10, <3>1, <3>3, <3>5 DEF Complete, a
  <2>5. CASE ~(todo = <<>> /\ running' = {})
    <3>1. pc' = "pool"
      BY <1>1, <1>2, <2>5
    <3> QED
      BY <1>2, <1>10, <2>1, <2>3, <3>1 DEF Complete
  <2> QED
    BY <2>4, <2>5
<1> QED
  BY <1>11, <1>12 DEF Sound

\* A job that leaves no row: the sweep is lost with it.
LEMMA NoRowSound ==
  ASSUME NEW cell, Sound, RunOneRaises(cell) \/ EndsUnseen(cell)
  PROVE  Sound'
<1>1. /\ Placed /\ Complete /\ cell \in running
      /\ UNCHANGED <<script, table, todo, rows, out>> /\ running' = running \ {cell}
      /\ pc' \in {"leaving", "raised"}
  BY DEF Sound, RunOneRaises, EndsUnseen
<1>2. Back' = Back
  BY <1>1, SameResults
<1>3. /\ IsFiniteSet(running') /\ Cardinality(running) \in Nat
      /\ Cardinality(running') = Cardinality(running) - 1
  BY <1>1, FS_RemoveElement, FS_CardinalityType DEF Placed
<1>4. Placed'
  <2>1. running' \in SUBSET Cell /\ Back' \cap running' = {} /\ running' \cap Range(todo) = {}
    BY <1>1, <1>2 DEF Placed
  <2>2. Cardinality(running') <= Workers
    BY <1>1, <1>3, SweepAssumption DEF Placed
  <2> QED
    BY <1>1, <1>2, <1>3, <2>1, <2>2 DEF Placed
<1>5. Complete'
  BY <1>1 DEF Complete
<1> QED
  BY <1>4, <1>5 DEF Sound

LEMMA PoolBreaksSound == Sound /\ PoolBreaks => Sound'
<1> SUFFICES ASSUME Sound, PoolBreaks PROVE Sound'
  OBVIOUS
<1>1. Placed /\ Complete
  BY DEF Sound
<1>2. UNCHANGED <<script, table, todo, rows, out>> /\ running' = {} /\ pc' = "raised"
  BY DEF PoolBreaks
<1>3. Back' = Back /\ Jobs(script)' = Jobs(script)
  BY <1>2, SameResults
<1>4. IsFiniteSet(running') /\ Cardinality(running') = 0
  BY <1>2, FS_EmptySet
<1>5. Placed'
  BY <1>1, <1>2, <1>3, <1>4, SweepAssumption DEF Placed
<1>6. Complete'
  BY <1>2 DEF Complete
<1> QED
  BY <1>5, <1>6 DEF Sound

LEMMA ReportSound == Sound /\ Report => Sound'
<1> SUFFICES ASSUME Sound, Report PROVE Sound'
  OBVIOUS
<1>1. Placed /\ Complete /\ pc = "report"
  BY DEF Sound, Report
<1>2. /\ UNCHANGED <<script, table, todo, running, rows>>
      /\ \/ LookupsFound /\ pc' = "written" /\ out' = Contents
         \/ ~LookupsFound /\ pc' = "raised"
  BY DEF Report
<1>3. /\ Back' = Back /\ Jobs(script)' = Jobs(script)
      /\ LookupsFound' = LookupsFound /\ Contents' = Contents
  BY <1>2, SameResults
<1>4. Placed'
  BY <1>1, <1>2, <1>3 DEF Placed
<1>5. Complete'
  BY <1>1, <1>2, <1>3 DEF Complete
<1> QED
  BY <1>4, <1>5 DEF Sound

LEMMA NextSound == Sound /\ [Next]_vars => Sound'
<1> SUFFICES ASSUME Sound, [Next]_vars PROVE Sound'
  OBVIOUS
<1>1. CASE Take
  BY <1>1, TakeSound
<1>2. ASSUME NEW cell \in running, NEW ok \in BOOLEAN, SimEnds(cell, ok) PROVE Sound'
  BY <1>2, SimEndsSound
<1>6. ASSUME NEW cell \in running, RunOneRaises(cell) \/ EndsUnseen(cell) PROVE Sound'
  BY <1>6, NoRowSound
<1>3. CASE PoolBreaks
  BY <1>3, PoolBreaksSound
<1>4. CASE Report
  BY <1>4, ReportSound
<1>5. CASE UNCHANGED vars
  <2>1. UNCHANGED <<script, table, todo, running, rows, out, pc>>
    BY <1>5 DEF vars
  <2>2. /\ Back' = Back /\ Jobs(script)' = Jobs(script)
        /\ LookupsFound' = LookupsFound /\ Contents' = Contents
    BY <2>1, SameResults
  <2>3. Placed'
    BY <2>1, <2>2 DEF Placed, Sound
  <2>4. Complete'
    BY <2>1, <2>2 DEF Complete, Sound
  <2> QED
    BY <2>3, <2>4 DEF Sound
<1> QED
  BY <1>1, <1>2, <1>3, <1>4, <1>5, <1>6 DEF Next, Done

LEMMA Invariance == Spec => []Sound
  BY InitSound, NextSound, PTL DEF Spec

\* As many rows as there are cells that came back.
LEMMA RowsCounted == Placed => Cardinality(Back) = Len(rows) /\ Back \subseteq Cell
<1> SUFFICES ASSUME Placed PROVE Cardinality(Back) = Len(rows) /\ Back \subseteq Cell
  OBVIOUS
<1> DEFINE n == Len(rows)
           f == [i \in 1..n |-> rows[i].cell]
<1>1. /\ n \in Nat /\ DOMAIN rows = 1..n
      /\ \A i \in 1..n : rows[i] \in Row
  BY LenProperties, ElementOfSeq DEF Placed
<1>2. \A i \in 1..n : rows[i].cell \in Cell
  BY <1>1 DEF Row
<1>3. \A i, j \in 1..n : f[i] = f[j] => i = j
  BY DEF Placed
<1>4. f \in [1..n -> Back] /\ \A c \in Back : \E i \in 1..n : f[i] = c
  BY <1>1 DEF Back
<1>5. IsFiniteSet(1..n) /\ Cardinality(1..n) = n
  BY <1>1, FS_Interval
<1> HIDE DEF f, n
<1>6. Cardinality(Back) = n
  BY <1>3, <1>4, <1>5, ImageSize
<1> QED
  BY <1>1, <1>2, <1>6 DEF Back, n

\* What came back either succeeded or failed.
LEMMA GoodOrFailed ==
  ASSUME Placed, NEW cell \in Back
  PROVE  cell \in GoodCells <=> cell \notin Failed
<1>1. DOMAIN rows = 1..Len(rows)
  BY LenProperties DEF Placed
<1>2. PICK i \in 1..Len(rows) : rows[i].cell = cell
  BY <1>1 DEF Back
<1>3. \A j \in 1..Len(rows) : rows[j].cell = cell => i = j
  BY <1>2 DEF Placed
<1>4. cell \in GoodCells => rows[i].ok
  BY <1>1, <1>3 DEF GoodCells, Good
<1>5. cell \in Failed => ~rows[i].ok
  BY <1>1, <1>3 DEF Failed
<1>6. rows[i].ok => cell \in GoodCells
  BY <1>1, <1>2 DEF GoodCells, Good
<1>7. ~rows[i].ok => cell \in Failed
  BY <1>1, <1>2 DEF Failed
<1> QED
  BY <1>4, <1>5, <1>6, <1>7

LEMMA PlacedTypes == Sound => TypeOK
<1> SUFFICES ASSUME Sound PROVE TypeOK
  OBVIOUS
<1>1. Placed /\ Complete
  BY DEF Sound
<1>2. Cardinality(Back) = Len(rows)
  BY <1>1, RowsCounted
<1>3. pc \in {"pool", "leaving", "report", "written", "raised"} /\ Cardinality(running) <= Workers
  BY <1>1 DEF Placed, Complete
<1>4. Back \cap (running \cup Range(todo)) = {}
  BY <1>1 DEF Placed
<1>5. pc = "pool" => Back \cup running \cup Range(todo) = Range(Jobs(script))
  BY <1>1 DEF Complete
<1> QED
  BY <1>2, <1>3, <1>4, <1>5 DEF TypeOK, Back

\* A row is a result or an error.
LEMMA RowsAccounted == Sound => GridIsAccounted
<1> SUFFICES ASSUME Sound, pc = "written" PROVE out.n + out.errors = Len(Jobs(script))
  BY DEF GridIsAccounted
<1>1. Placed /\ Len(rows) = Len(Jobs(script)) /\ out = Contents /\ script \in Scripts
  BY DEF Sound, Complete, Placed
<1>2. out.n = Cardinality(Good) /\ out.errors = Cardinality(Errors)
  BY <1>1 DEF Contents, Scripts
<1>3. DOMAIN rows = 1..Len(rows) /\ Len(rows) \in Nat
  BY <1>1, LenProperties DEF Placed
<1>4. IsFiniteSet(DOMAIN rows) /\ Cardinality(DOMAIN rows) = Len(rows)
  <2> DEFINE n == Len(rows)
  <2>1. DOMAIN rows = 1..n /\ n \in Nat
    BY <1>3
  <2> HIDE DEF n
  <2>2. IsFiniteSet(1..n) /\ Cardinality(1..n) = n
    BY <2>1, FS_Interval
  <2> QED
    BY <2>1, <2>2 DEF n
<1>5. Good \subseteq DOMAIN rows /\ Errors = DOMAIN rows \ Good
  BY DEF Good, Errors
<1>6. DOMAIN rows \cap Good = Good
  BY <1>5
<1>7. /\ Cardinality(Errors) = Cardinality(DOMAIN rows) - Cardinality(Good)
      /\ Cardinality(Good) \in Nat
  <2> DEFINE D == DOMAIN rows
             G == Good
             E == Errors
  <2>1. IsFiniteSet(D) /\ G \subseteq D /\ E = D \ G /\ D \cap G = G
    BY <1>4, <1>5, <1>6
  <2> HIDE DEF D, G, E
  <2>2. IsFiniteSet(G) /\ Cardinality(G) \in Nat
    BY <2>1, FS_Subset, FS_CardinalityType
  <2>3. Cardinality(D \ G) = Cardinality(D) - Cardinality(D \cap G)
    BY <2>1, <2>2, FS_Difference
  <2> QED
    BY <2>1, <2>2, <2>3 DEF D, G, E
<1> QED
  BY <1>1, <1>2, <1>3, <1>4, <1>7

\* The types: each job waits, is simulated or has come back, exactly once.
THEOREM JobsPlaced == Spec => []TypeOK
  BY Invariance, PlacedTypes, PTL

\* No job is missing from a file: it is among the results or the errors.
THEOREM EveryJobAccounted == Spec => []GridIsAccounted
  BY Invariance, RowsAccounted, PTL

-----------------------------------------------------------------------------
(* Capacities.                                                             *)

Survived(c, anchor) ==
  {sp \in DOMAIN Speeds : <<c, sp>> \notin Failed /\ Within(table[<<c, sp>>].p95, anchor[sp])}

\* Once all is back, a configuration survives what did not fail and is within
\* the guard, and its capacity is the highest of that.
LEMMA CapIs ==
  ASSUME Placed, Back = Cell, NEW c \in Range(Configs), NEW anchor
  PROVE  /\ Cap(c, anchor) \in Nat
         /\ Cap(c, anchor) # 0 => Cap(c, anchor) \in {Speeds[sp] : sp \in Survived(c, anchor)}
         /\ \A sp \in Survived(c, anchor) : Speeds[sp] <= Cap(c, anchor)
         /\ GpuAtCap(c, anchor) \in Nat
<1> DEFINE V == {Speeds[sp] : sp \in {s \in DOMAIN Speeds : Survives(c, s, anchor)}}
           S == {0} \cup V
<1>1. {s \in DOMAIN Speeds : Survives(c, s, anchor)} = Survived(c, anchor)
  <2>1. ASSUME NEW s \in DOMAIN Speeds PROVE <<c, s>> \in GoodCells <=> <<c, s>> \notin Failed
    <3>1. <<c, s>> \in Back
      BY DEF Cell
    <3> QED
      BY <3>1, GoodOrFailed
  <2> QED
    BY <2>1 DEF Survives, Survived
<1>2. Len(Speeds) \in Nat /\ DOMAIN Speeds = 1..Len(Speeds) /\ \A s \in DOMAIN Speeds : Speeds[s] \in Nat
  BY SweepAssumption, LenProperties, ElementOfSeq
<1>3. V = {Speeds[sp] : sp \in Survived(c, anchor)}
  BY <1>1
<1>4. IsFiniteSet(V) /\ V \subseteq Nat
  <2>1. IsFiniteSet(Survived(c, anchor)) /\ Survived(c, anchor) \subseteq DOMAIN Speeds
    <3>1. IsFiniteSet(DOMAIN Speeds)
      BY <1>2, FS_Interval
    <3>2. Survived(c, anchor) \in SUBSET DOMAIN Speeds
      BY DEF Survived
    <3> QED
      BY <3>1, <3>2, FS_Subset
  <2> DEFINE f == [sp \in Survived(c, anchor) |-> Speeds[sp]]
  <2>2. f \in Surjection(Survived(c, anchor), V)
    BY <1>3 DEF Surjection
  <2>3. IsFiniteSet(V)
    BY <2>1, <2>2, FS_Surjection
  <2> QED
    BY <1>2, <1>3, <2>1, <2>3
<1> HIDE DEF V
<1>5. S \in SUBSET Int /\ IsFiniteSet(S) /\ S # {}
  <2>1. IsFiniteSet({0})
    BY FS_Singleton
  <2>2. IsFiniteSet({0} \cup V)
    BY <1>4, <2>1, FS_Union
  <2> QED
    BY <1>4, <2>2
<1>6. Cap(c, anchor) = Max(S)
  BY DEF Cap, V
<1> HIDE DEF S
<1>7. Max(S) \in S /\ \A x \in S : x <= Max(S)
  BY <1>5, Largest
<1>8. Cap(c, anchor) \in Nat /\ (Cap(c, anchor) # 0 => Cap(c, anchor) \in V)
  <2>1. CASE Max(S) = 0
    BY <1>6, <2>1
  <2>2. CASE Max(S) \in V
    BY <1>4, <1>6, <2>2
  <2> QED
    BY <1>7, <2>1, <2>2 DEF S
<1>9. \A sp \in Survived(c, anchor) : Speeds[sp] <= Cap(c, anchor)
  BY <1>3, <1>6, <1>7 DEF S
<1>10. GpuAtCap(c, anchor) \in Nat
  <2> DEFINE at == {sp \in DOMAIN Speeds : Speeds[sp] = Cap(c, anchor)}
  <2>1. at \subseteq DOMAIN Speeds /\ at \subseteq Nat
    BY <1>2
  <2>2. GpuAtCap(c, anchor) = IF at = {} THEN 999 ELSE table[<<c, Min(at)>>].cost
    BY DEF GpuAtCap
  <2> HIDE DEF at
  <2>3. at # {} => Min(at) \in DOMAIN Speeds
    BY <2>1, LeastIndex
  <2>4. at # {} => table[<<c, Min(at)>>].cost \in Nat
    BY <2>3, SweepAssumption DEF Placed, Cell
  <2> QED
    BY <2>2, <2>4
<1> QED
  BY <1>3, <1>8, <1>9, <1>10

\* The ranked configurations are the grid, each once, and no capacity comes
\* before a higher one.
LEMMA CapacitiesAre ==
  ASSUME Placed, Back = Cell, NEW anchor
  PROVE  LET caps == Capacities(anchor) N == Len(Configs)
         IN  /\ DOMAIN caps = 1..N
             /\ \A i \in 1..N : /\ caps[i].config \in Range(Configs)
                                /\ caps[i].cap = Cap(caps[i].config, anchor)
             /\ \A c \in Range(Configs) : \E i \in 1..N : caps[i].config = c
             /\ \A i, j \in 1..N : i < j => caps[i].cap >= caps[j].cap
<1> DEFINE N == Len(Configs)
           P == 1..N
           k == [i \in P |-> CapKey(Configs[i], anchor)]
           L == {x \in P \X P : TupleLess(k[x[1]], k[x[2]])}
           less(i, j) == TupleLess(CapKey(Configs[i], anchor), CapKey(Configs[j], anchor))
           before(i) == {j \in P : less(j, i) \/ (~less(i, j) /\ j < i)}
           B == [i \in P |-> before(i)]
           at == StablePlaces(P, Configs, LAMBDA c, d : TupleLess(CapKey(c, anchor), CapKey(d, anchor)))
           ranked == [p \in P |-> Configs[at[p]]]
           caps == Capacities(anchor)
<1>1. /\ N \in Nat /\ DOMAIN Configs = P /\ \A i \in P : Configs[i] \in Range(Configs)
      /\ \A c \in Range(Configs) : \E i \in P : Configs[i] = c
  BY SweepAssumption, LenProperties DEF Range
<1>2. P \in SUBSET Nat /\ IsFiniteSet(P) /\ Cardinality(P) = N
  <2> HIDE DEF N
  <2> QED
    BY <1>1, FS_Interval
<1>3. caps = [i \in P |-> [config |-> ranked[i], cap |-> Cap(ranked[i], anchor)]]
  BY <1>1 DEF Capacities, StableSort
<1>4. at = [p \in 1..Cardinality(P) |-> CHOOSE i \in P : Cardinality(before(i)) + 1 = p]
  BY DEF StablePlaces
<1>5. ASSUME NEW i \in P
      PROVE  /\ k[i] = <<-Cap(Configs[i], anchor), GpuAtCap(Configs[i], anchor)>>
             /\ Cap(Configs[i], anchor) \in Nat /\ GpuAtCap(Configs[i], anchor) \in Nat
  BY <1>1, CapIs DEF CapKey
<1>6. \A i, j \in P : <<i, j>> \in L <=> less(i, j)
  OBVIOUS
<1>7. k \in [P -> Int \X Int] /\ \A i, j \in P : <<i, j>> \in L <=> TupleLess(k[i], k[j])
  <2>1. \A i \in P : k[i] \in Int \X Int
    BY <1>5
  <2> QED
    BY <2>1
<1>8. B \in [P -> SUBSET P] /\ \A i \in P : B[i] = before(i)
  OBVIOUS
<1>9. ASSUME NEW i \in P, NEW j \in P
      PROVE  j \in B[i] <=> <<j, i>> \in L \/ (<<i, j>> \notin L /\ j < i)
  BY <1>6, <1>8
<1>10. ASSUME NEW p \in 1..Cardinality(P), \E i \in P : Cardinality(B[i]) + 1 = p
       PROVE  at[p] \in P /\ Cardinality(B[at[p]]) + 1 = p
  <2>1. at[p] = CHOOSE i \in P : Cardinality(before(i)) + 1 = p
    BY <1>4
  <2> HIDE DEF before, B
  <2>2. \E i \in P : Cardinality(before(i)) + 1 = p
    BY <1>8, <1>10
  <2>3. at[p] \in P /\ Cardinality(before(at[p])) + 1 = p
    BY <2>1, <2>2
  <2> QED
    BY <1>8, <2>3
<1> HIDE DEF k, L, B, at, less, before
<1>11. StablyOrdered(P, L, B)
  BY <1>2, <1>7, <1>8, <1>9, KeyOrder
<1>12. /\ \A p \in P : at[p] \in P
       /\ \A i \in P : \E p \in P : at[p] = i
       /\ \A p, q \in P : p < q => <<at[q], at[p]>> \notin L
  <2> HIDE DEF P
  <2>1. \A p \in 1..Cardinality(P) :
          (\E i \in P : Cardinality(B[i]) + 1 = p) => at[p] \in P /\ Cardinality(B[at[p]]) + 1 = p
    BY <1>10
  <2>2. /\ \A p \in 1..Cardinality(P) : at[p] \in P
        /\ \A i \in P : \E p \in 1..Cardinality(P) : at[p] = i
        /\ \A p, q \in 1..Cardinality(P) : p < q => <<at[q], at[p]>> \notin L
    BY <1>11, <2>1, SortedPlaces
  <2>3. 1..Cardinality(P) = P
    BY <1>2 DEF P
  <2> QED
    BY <2>2, <2>3
<1>13. \A p \in P : ranked[p] = Configs[at[p]]
  OBVIOUS
<1>14. \A i \in P : caps[i].config = Configs[at[i]] /\ caps[i].cap = Cap(Configs[at[i]], anchor)
  BY <1>3, <1>13
<1>15. DOMAIN caps = P
  BY <1>3
<1> HIDE DEF caps, ranked
<1>16. ASSUME NEW i \in P
       PROVE  caps[i].config \in Range(Configs) /\ caps[i].cap = Cap(caps[i].config, anchor)
  BY <1>1, <1>12, <1>14
<1>17. ASSUME NEW c \in Range(Configs) PROVE \E i \in P : caps[i].config = c
  <2>1. PICK j \in P : Configs[j] = c
    BY <1>1
  <2>2. PICK i \in P : at[i] = j
    BY <1>12
  <2>3. caps[i].config = Configs[at[i]]
    BY <1>14
  <2> QED
    BY <2>1, <2>2, <2>3
<1>18. ASSUME NEW i \in P, NEW j \in P, i < j PROVE caps[i].cap >= caps[j].cap
  <2>1. at[i] \in P /\ at[j] \in P /\ <<at[j], at[i]>> \notin L
    BY <1>12, <1>18
  <2>2. ~TupleLess(k[at[j]], k[at[i]])
    BY <1>7, <2>1
  <2>3. ~TupleLess(<<-caps[j].cap, GpuAtCap(Configs[at[j]], anchor)>>, <<-caps[i].cap, GpuAtCap(Configs[at[i]], anchor)>>)
    BY <1>5, <1>14, <2>1, <2>2
  <2>4. /\ GpuAtCap(Configs[at[i]], anchor) \in Nat /\ GpuAtCap(Configs[at[j]], anchor) \in Nat
        /\ Cap(Configs[at[i]], anchor) \in Nat /\ Cap(Configs[at[j]], anchor) \in Nat
    BY <1>5, <2>1
  <2>5. caps[i].cap \in Nat /\ caps[j].cap \in Nat
    BY <1>14, <2>4
  <2>6. /\ caps[i].cap \in Nat /\ caps[j].cap \in Nat
        /\ -caps[i].cap \in Int /\ -caps[j].cap \in Int
        /\ GpuAtCap(Configs[at[i]], anchor) \in Int /\ GpuAtCap(Configs[at[j]], anchor) \in Int
    BY <2>4, <2>5
  <2>7. ~(-caps[j].cap < -caps[i].cap)
    BY <2>3, <2>6, TupleOrder
  <2> QED
    BY SMTT(30), <2>6, <2>7
<1> QED
  BY <1>15, <1>16, <1>17, <1>18 DEF caps

\* What capacities() makes of one anchor is earned.
LEMMA EarnedAt ==
  ASSUME Placed, Back = Cell, NEW anchor
  PROVE  LET caps == Capacities(anchor)
         IN  /\ \A i \in DOMAIN caps :
                  LET r == caps[i]
                  IN  /\ r.cap # 0 => r.cap \in {Speeds[sp] : sp \in Survived(r.config, anchor)}
                      /\ \A sp \in Survived(r.config, anchor) : Speeds[sp] <= r.cap
             /\ \A i, j \in DOMAIN caps : i < j => caps[i].cap >= caps[j].cap
             /\ {r.config : r \in Range(caps)} = Range(Configs)
<1> DEFINE caps == Capacities(anchor)
           N == Len(Configs)
<1>5. /\ DOMAIN caps = 1..N
      /\ \A i \in 1..N : /\ caps[i].config \in Range(Configs)
                         /\ caps[i].cap = Cap(caps[i].config, anchor)
      /\ \A c \in Range(Configs) : \E i \in 1..N : caps[i].config = c
      /\ \A i, j \in 1..N : i < j => caps[i].cap >= caps[j].cap
  BY CapacitiesAre
<1> HIDE DEF caps
<1>6. ASSUME NEW i \in DOMAIN caps
      PROVE  /\ caps[i].cap # 0 => caps[i].cap \in {Speeds[sp] : sp \in Survived(caps[i].config, anchor)}
             /\ \A sp \in Survived(caps[i].config, anchor) : Speeds[sp] <= caps[i].cap
  <2> DEFINE c == caps[i].config
  <2>1. c \in Range(Configs) /\ caps[i].cap = Cap(c, anchor)
    BY <1>5
  <2> HIDE DEF c
  <2>2. /\ Cap(c, anchor) # 0 => Cap(c, anchor) \in {Speeds[sp] : sp \in Survived(c, anchor)}
        /\ \A sp \in Survived(c, anchor) : Speeds[sp] <= Cap(c, anchor)
    BY <2>1, CapIs
  <2> QED
    BY <2>1, <2>2 DEF c
<1>7. {r.config : r \in Range(caps)} = Range(Configs)
  <2>1. Range(caps) = {caps[i] : i \in 1..N}
    BY <1>5 DEF Range
  <2>2. {r.config : r \in Range(caps)} = {caps[i].config : i \in 1..N}
    BY <2>1
  <2> QED
    BY <1>5, <2>2
<1>8. \A i, j \in DOMAIN caps : i < j => caps[i].cap >= caps[j].cap
  BY <1>5
<1> QED
  BY <1>6, <1>7, <1>8 DEF caps

LEMMA CapacitiesEarned == Sound => CapacityIsEarned
<1> SUFFICES ASSUME Sound, pc = "written", script # "sweep" PROVE CapacityIsEarned
  BY DEF CapacityIsEarned
<1>1. Placed /\ Complete /\ script \in {"load_sweep", "sweep2"} /\ out = Contents
  BY DEF Sound, Placed, Complete, Scripts
<1>2. Back = Cell
  <2>1. Back = Range(Configs) \X SpeedsOf(script)
    BY <1>1, Grid DEF Complete, Scripts
  <2> QED
    BY <2>1 DEF Cell, SpeedsOf
<1> DEFINE survived(c, anchor) ==
             {sp \in DOMAIN Speeds : <<c, sp>> \notin Failed /\ 10 * table[<<c, sp>>].p95 <= 11 * anchor[sp]}
           earned(caps, anchor) ==
             /\ \A i \in DOMAIN caps :
                  LET r == caps[i]
                  IN  /\ r.cap # 0 => r.cap \in {Speeds[sp] : sp \in survived(r.config, anchor)}
                      /\ \A sp \in survived(r.config, anchor) : Speeds[sp] <= r.cap
             /\ \A i, j \in DOMAIN caps : i < j => caps[i].cap >= caps[j].cap
             /\ {r.config : r \in Range(caps)} = Range(Configs)
<1>3. ASSUME NEW anchor PROVE earned(Capacities(anchor), anchor)
  <2>1. \A c : survived(c, anchor) = Survived(c, anchor)
    BY DEF Survived, Within
  <2> HIDE DEF survived
  <2> QED
    BY <1>1, <1>2, <2>1, EarnedAt
<1>4. CASE script = "load_sweep"
  <2>1. out.caps = Capacities(OwnAnchors)
    BY <1>1, <1>4 DEF Contents
  <2>3. OwnAnchors = [sp \in DOMAIN Speeds |-> table[<<Base, sp>>].p95]
    BY DEF OwnAnchors
  <2>4. earned(Capacities(OwnAnchors), OwnAnchors)
    BY <1>3
  <2>2. earned(out.caps, [sp \in DOMAIN Speeds |-> table[<<Base, sp>>].p95])
    <3> HIDE DEF earned
    <3> QED
      BY <2>1, <2>3, <2>4
  <2> QED
    BY <1>4, <2>2 DEF CapacityIsEarned
<1>5. CASE script = "sweep2"
  <2>1. out.caps = Capacities(Anchors[1]) /\ out.sens = Capacities(Anchors[2])
    BY <1>1, <1>5 DEF Contents
  <2>3. earned(Capacities(Anchors[1]), Anchors[1]) /\ earned(Capacities(Anchors[2]), Anchors[2])
    BY <1>3
  <2>2. earned(out.caps, Anchors[1]) /\ earned(out.sens, Anchors[2])
    <3> HIDE DEF earned
    <3> QED
      BY <2>1, <2>3
  <2> QED
    BY <1>5, <2>2 DEF CapacityIsEarned
<1> QED
  BY <1>1, <1>4, <1>5

\* Every capacity in the file is that of a simulation that came back within the
\* guard, no faster one did, and no configuration is ranked before a better one.
THEOREM Earned == Spec => []CapacityIsEarned
  BY Invariance, CapacitiesEarned, PTL

-----------------------------------------------------------------------------
(* The ranking of sweep.py.                                                *)

\* The places of the rows that are ranked, and what comes before each.
Inside == {i \in Good : Within(table[rows[i].cell].p95, table[BaseCell].p95)}
Cheaper(i, j) == TupleLess(CostKey(rows[i].cell), CostKey(rows[j].cell))
Ahead == [i \in Inside |-> {j \in Inside : Cheaper(j, i) \/ (~Cheaper(i, j) /\ j < i)}]

\* Each of those rows is ranked once, after exactly those ahead of it.
LEMMA RankedRows ==
  ASSUME Placed
  PROVE  /\ IsFiniteSet(Inside) /\ Cardinality(Inside) \in Nat /\ Inside \subseteq 1..Len(rows)
         /\ DOMAIN RankedFeasible = 1..Cardinality(Inside)
         /\ \A p \in 1..Cardinality(Inside) :
              \E i \in Inside : /\ RankedFeasible[p] = rows[i].cell
                               /\ p = Cardinality(Ahead[i]) + 1
         /\ \A i \in Inside : \E p \in 1..Cardinality(Inside) : RankedFeasible[p] = rows[i].cell
<1> DEFINE P == Inside
           k == [i \in P |-> CostKey(rows[i].cell)]
           L == {x \in P \X P : TupleLess(k[x[1]], k[x[2]])}
           before(i) == {j \in P : Cheaper(j, i) \/ (~Cheaper(i, j) /\ j < i)}
           B == Ahead
           at == StablePlaces(P, rows, LAMBDA r, s : TupleLess(CostKey(r.cell), CostKey(s.cell)))
<1>1. /\ Len(rows) \in Nat /\ DOMAIN rows = 1..Len(rows)
      /\ \A i \in 1..Len(rows) : rows[i].cell \in Cell
  <2>1. Len(rows) \in Nat /\ DOMAIN rows = 1..Len(rows) /\ \A i \in 1..Len(rows) : rows[i] \in Row
    BY LenProperties, ElementOfSeq DEF Placed
  <2> QED
    BY <2>1 DEF Row
<1>2. P \subseteq 1..Len(rows) /\ P \in SUBSET Nat /\ IsFiniteSet(P) /\ Cardinality(P) \in Nat
  <2>1. P \in SUBSET (1..Len(rows))
    BY <1>1 DEF Inside, Good
  <2>2. IsFiniteSet(1..Len(rows))
    BY <1>1, FS_Interval
  <2>3. IsFiniteSet(P)
    BY <2>1, <2>2, FS_Subset
  <2> HIDE DEF P
  <2> QED
    BY <2>1, <2>3, FS_CardinalityType
<1>3. RankedFeasible = [p \in DOMAIN at |-> rows[at[p]].cell]
  BY DEF RankedFeasible, Inside
<1>4. at = [p \in 1..Cardinality(P) |-> CHOOSE i \in P : Cardinality(before(i)) + 1 = p]
  BY DEF StablePlaces, Cheaper
<1>5. ASSUME NEW i \in P
      PROVE  k[i] \in Int \X Int
  <2>1. rows[i].cell \in Cell
    BY <1>1, <1>2
  <2>2. table[rows[i].cell].cost \in Nat /\ table[rows[i].cell].p95 \in Nat
    BY <2>1, SweepAssumption DEF Placed
  <2> QED
    BY <2>2 DEF CostKey
<1>6. \A i, j \in P : <<i, j>> \in L <=> Cheaper(i, j)
  BY DEF Cheaper
<1>7. k \in [P -> Int \X Int] /\ \A i, j \in P : <<i, j>> \in L <=> TupleLess(k[i], k[j])
  BY <1>5
<1>8. B \in [P -> SUBSET P] /\ \A i \in P : B[i] = before(i)
  BY DEF Ahead
<1>9. ASSUME NEW i \in P, NEW j \in P
      PROVE  j \in B[i] <=> <<j, i>> \in L \/ (<<i, j>> \notin L /\ j < i)
  <2>1. j \in B[i] <=> Cheaper(j, i) \/ (~Cheaper(i, j) /\ j < i)
    BY <1>8
  <2>2. (<<j, i>> \in L <=> Cheaper(j, i)) /\ (<<i, j>> \in L <=> Cheaper(i, j))
    BY <1>6
  <2> HIDE DEF L, B, P
  <2> QED
    BY <2>1, <2>2
<1>10. ASSUME NEW p \in 1..Cardinality(P), \E i \in P : Cardinality(B[i]) + 1 = p
       PROVE  at[p] \in P /\ Cardinality(B[at[p]]) + 1 = p
  <2>1. at[p] = CHOOSE i \in P : Cardinality(before(i)) + 1 = p
    BY <1>4
  <2> HIDE DEF before, B
  <2>2. \E i \in P : Cardinality(before(i)) + 1 = p
    BY <1>8, <1>10
  <2>3. at[p] \in P /\ Cardinality(before(at[p])) + 1 = p
    BY <2>1, <2>2
  <2> QED
    BY <1>8, <2>3
<1>11. DOMAIN at = 1..Cardinality(P)
  BY <1>4
<1> HIDE DEF k, L, B, at, before, P
<1>12. StablyOrdered(P, L, B)
  BY <1>2, <1>7, <1>8, <1>9, KeyOrder
<1>13. \A p \in 1..Cardinality(P) :
         (\E i \in P : Cardinality(B[i]) + 1 = p) => at[p] \in P /\ Cardinality(B[at[p]]) + 1 = p
  BY <1>10
<1>14. /\ \A p \in 1..Cardinality(P) : at[p] \in P /\ p = Cardinality(B[at[p]]) + 1
       /\ \A i \in P : \E p \in 1..Cardinality(P) : at[p] = i
  BY <1>12, <1>13, SortedPlaces
<1>15. \A p \in 1..Cardinality(P) : RankedFeasible[p] = rows[at[p]].cell
  BY <1>3, <1>11
<1>16. DOMAIN RankedFeasible = 1..Cardinality(P)
  BY <1>3, <1>11
<1>17. \A i \in P : \E p \in 1..Cardinality(P) : RankedFeasible[p] = rows[i].cell
  BY <1>14, <1>15
<1>18. \A p \in 1..Cardinality(P) : \E i \in P : RankedFeasible[p] = rows[i].cell /\ p = Cardinality(B[i]) + 1
  BY <1>14, <1>15
<1> QED
  BY <1>2, <1>16, <1>17, <1>18 DEF P, B

LEMMA RankingStands == Sound => RankedUpToTies
<1> SUFFICES ASSUME Sound, pc = "written", script = "sweep" PROVE RankedUpToTies
  BY DEF RankedUpToTies
<1> DEFINE feasible == {c \in Range(Configs) : /\ <<c, 1>> \notin Failed
                                               /\ 10 * table[<<c, 1>>].p95 <= 11 * table[BaseCell].p95}
           better(d, c) == LET x == table[<<d, 1>>]  y == table[<<c, 1>>]
                           IN  x.cost < y.cost \/ (x.cost = y.cost /\ x.p95 < y.p95)
           ranked == out.ranked
           n == Cardinality(Inside)
           g == [i \in Inside |-> rows[i].cell[1]]
<1>1. Placed /\ Complete /\ script \in Scripts
  BY DEF Sound, Placed
<1>2. Back = Range(Configs) \X {1}
  <2>1. Back = Range(Configs) \X SpeedsOf(script)
    BY <1>1, Grid DEF Complete
  <2>2. SpeedsOf(script) = {1}
    BY DEF SpeedsOf
  <2> QED
    BY <2>1, <2>2
<1>3. ranked = RankedFeasible
  <2>1. out = Contents
    BY <1>1 DEF Complete
  <2> QED
    BY <2>1 DEF Contents
<1>4. /\ IsFiniteSet(Inside) /\ n \in Nat /\ Inside \subseteq 1..Len(rows)
      /\ DOMAIN ranked = 1..n
      /\ \A p \in 1..n : \E i \in Inside : ranked[p] = rows[i].cell /\ p = Cardinality(Ahead[i]) + 1
      /\ \A i \in Inside : \E p \in 1..n : ranked[p] = rows[i].cell
  BY <1>1, <1>3, RankedRows
<1>5. DOMAIN rows = 1..Len(rows)
  BY <1>1, LenProperties DEF Placed
<1>6. ASSUME NEW i \in Inside
      PROVE  rows[i].cell = <<g[i], 1>> /\ g[i] \in feasible /\ g[i] \in Range(Configs)
  <2>1. rows[i].cell \in Back /\ rows[i].cell \in GoodCells
    BY <1>4, <1>5 DEF Back, GoodCells, Inside
  <2>2. rows[i].cell \notin Failed
    BY <1>1, <2>1, GoodOrFailed
  <2>3. rows[i].cell = <<g[i], 1>> /\ g[i] \in Range(Configs)
    BY <1>2, <2>1
  <2>4. 10 * table[rows[i].cell].p95 <= 11 * table[BaseCell].p95
    BY DEF Inside, Within
  <2> QED
    BY <2>2, <2>3, <2>4
<1>7. ASSUME NEW i \in Inside, NEW j \in Inside, g[i] = g[j]
      PROVE  i = j
  <2>1. rows[i].cell = rows[j].cell
    BY <1>6, <1>7
  <2> QED
    BY <1>1, <1>4, <2>1 DEF Placed
<1>8. ASSUME NEW c \in feasible
      PROVE  \E i \in Inside : g[i] = c
  <2>1. <<c, 1>> \in Back /\ <<c, 1>> \notin Failed
    BY <1>2
  <2>2. <<c, 1>> \in GoodCells
    BY <1>1, <2>1, GoodOrFailed
  <2>3. PICK i \in Good : rows[i].cell = <<c, 1>>
    BY <2>2 DEF GoodCells
  <2>4. i \in Inside
    BY <2>3 DEF Inside, Within
  <2> QED
    BY <2>3, <2>4
<1>9. g \in [Inside -> feasible]
  BY <1>6
<1>14. /\ \A i, j \in Inside : g[i] = g[j] => i = j
       /\ \A c \in feasible : \E i \in Inside : g[i] = c
  BY <1>7, <1>8
<1>10. ASSUME NEW c \in Range(Configs)
       PROVE  table[<<c, 1>>].cost \in Int /\ table[<<c, 1>>].p95 \in Int
  <2>1. <<c, 1>> \in Cell
    BY <1>1, <1>2, RowsCounted
  <2> QED
    BY <1>1, <2>1, SweepAssumption DEF Placed
<1>11. ASSUME NEW i \in Inside, NEW j \in Inside
       PROVE  Cheaper(i, j) <=> better(g[i], g[j])
  <2>1. /\ CostKey(rows[i].cell) = <<table[<<g[i], 1>>].cost, table[<<g[i], 1>>].p95>>
        /\ CostKey(rows[j].cell) = <<table[<<g[j], 1>>].cost, table[<<g[j], 1>>].p95>>
    BY <1>6 DEF CostKey
  <2>2. /\ table[<<g[i], 1>>].cost \in Int /\ table[<<g[i], 1>>].p95 \in Int
        /\ table[<<g[j], 1>>].cost \in Int /\ table[<<g[j], 1>>].p95 \in Int
    BY <1>6, <1>10
  <2> HIDE DEF g
  <2> QED
    BY <2>1, <2>2, TupleOrder DEF Cheaper
<1> HIDE DEF feasible, g, ranked, n
<1>12. {cell[1] : cell \in Range(ranked)} = feasible
  <2>1. ASSUME NEW p \in 1..n PROVE ranked[p][1] \in feasible
    <3>1. PICK i \in Inside : ranked[p] = rows[i].cell
      BY <1>4
    <3> QED
      BY <1>6, <3>1
  <2>2. ASSUME NEW c \in feasible PROVE \E p \in 1..n : ranked[p][1] = c
    <3>1. PICK i \in Inside : g[i] = c
      BY <1>8
    <3>2. PICK p \in 1..n : ranked[p] = rows[i].cell
      BY <1>4
    <3> QED
      BY <1>6, <3>1, <3>2
  <2>3. Range(ranked) = {ranked[p] : p \in 1..n}
    BY <1>4 DEF Range
  <2> QED
    BY <2>1, <2>2, <2>3
<1>13. ASSUME NEW p \in 1..n
       PROVE  /\ Cardinality({d \in feasible : better(d, ranked[p][1])}) < p
              /\ p <= Cardinality({d \in feasible : ~better(ranked[p][1], d)})
  <2>1. PICK i \in Inside : ranked[p] = rows[i].cell /\ p = Cardinality(Ahead[i]) + 1
    BY <1>4
  <2> DEFINE c == g[i]
             F1 == {d \in feasible : better(d, c)}
             F2 == {d \in feasible : ~better(c, d)}
             E1 == {j \in Inside : Cheaper(j, i)}
             E2 == {j \in Inside : ~Cheaper(i, j)}
             A == Ahead[i]
  <2>2. ranked[p][1] = c
    BY <1>6, <2>1
  <2>3. Cardinality(F1) = Cardinality(E1)
    <3>1. \A j \in Inside : g[j] \in F1 <=> j \in E1
      BY <1>9, <1>11
    <3>2. F1 \in SUBSET feasible /\ E1 \in SUBSET Inside
      OBVIOUS
    <3> HIDE DEF F1, E1, better
    <3>3. IsFiniteSet(Inside)
      BY <1>4
    <3> QED
      BY <3>3, <1>9, <1>14, <3>1, <3>2, PartSize
  <2>4. Cardinality(F2) = Cardinality(E2) /\ IsFiniteSet(E2)
    <3>1. \A j \in Inside : g[j] \in F2 <=> j \in E2
      BY <1>9, <1>11
    <3>2. F2 \in SUBSET feasible /\ E2 \in SUBSET Inside
      OBVIOUS
    <3> HIDE DEF F2, E2, better
    <3>3. IsFiniteSet(Inside)
      BY <1>4
    <3> QED
      BY <3>3, <1>9, <1>14, <3>1, <3>2, PartSize
  <2>5. \A j \in Inside : Cheaper(j, i) => ~Cheaper(i, j)
    <3> SUFFICES ASSUME NEW j \in Inside PROVE ~(better(g[j], g[i]) /\ better(g[i], g[j]))
      BY <1>11
    <3>1. g[i] \in Range(Configs) /\ g[j] \in Range(Configs)
      BY <1>6
    <3> QED
      BY <1>10, <3>1
  <2>6. A = {j \in Inside : Cheaper(j, i) \/ (~Cheaper(i, j) /\ j < i)}
    BY DEF Ahead
  <2>7. i \in Nat /\ ~Cheaper(i, i)
    BY <1>4, <2>5
  <2>8. /\ E1 \in SUBSET A /\ A \cup {i} \in SUBSET E2 /\ A \in SUBSET Inside /\ i \notin A
    <3>1. A \in SUBSET Inside /\ E1 \in SUBSET A
      BY <2>6
    <3>2. i \notin A
      BY <2>6, <2>7
    <3>3. A \cup {i} \in SUBSET E2
      BY <2>5, <2>6, <2>7
    <3> QED
      BY <3>1, <3>2, <3>3
  <2> HIDE DEF A, E1, E2, F1, F2
  <2>9. IsFiniteSet(A) /\ Cardinality(A) \in Nat
    BY <1>4, <2>8, FS_Subset, FS_CardinalityType
  <2>10. Cardinality(E1) <= Cardinality(A) /\ Cardinality(E1) \in Nat
    BY <2>8, <2>9, FS_Subset, FS_CardinalityType
  <2>11. Cardinality(A \cup {i}) = Cardinality(A) + 1
    BY <2>8, <2>9, FS_AddElement
  <2>12. Cardinality(A \cup {i}) <= Cardinality(E2) /\ Cardinality(E2) \in Nat
    BY <2>4, <2>8, FS_Subset, FS_CardinalityType
  <2>13. p = Cardinality(A) + 1
    BY <2>1 DEF A
  <2>14. Cardinality(F1) < p /\ p <= Cardinality(F2)
    BY <2>3, <2>4, <2>9, <2>10, <2>11, <2>12, <2>13
  <2> QED
    BY <2>2, <2>14 DEF F1, F2
<1> QED
  BY <1>4, <1>12, <1>13 DEF RankedUpToTies, feasible, ranked

\* Each feasible configuration is ranked once, after all that are better and
\* before all that are worse; only exact ties are left to the order of completion.
THEOREM RankedOnceEach == Spec => []RankedUpToTies
  BY Invariance, RankingStands, PTL
=============================================================================
