-------------------------- MODULE BenchClientProofs --------------------------
(***************************************************************************)
(* Proofs about bench.py, for every trace, number of slots and behaviour   *)
(* of the server: requests are sent in the order of the trace, and no slot *)
(* is lost or made.                                                        *)
(***************************************************************************)
EXTENDS BenchClient, SequenceTheorems, FiniteSetTheorems, TLAPS

\* How far a request has come; what happens to it once it is sent does not matter.
Stage(s) == IF s = "none" THEN 0 ELSE IF s = "new" THEN 1
            ELSE IF s = "waiting" THEN 2 ELSE IF s = "granted" THEN 3 ELSE 4

\* The tasks at t have come less far the later they are, and q lists those that
\* wait, in order.
Lined(t, q) ==
  /\ t \in [Ids -> State] /\ q \in Seq(Ids)
  /\ \A i, j \in Ids : i < j => Stage(t[j]) <= Stage(t[i])
  /\ \A k \in 1..Len(q) : t[q[k]] = "waiting"
  /\ \A i \in Ids : t[i] = "waiting" => \E k \in 1..Len(q) : q[k] = i
  /\ \A k, l \in 1..Len(q) : k < l => q[k] < q[l]

\* The types the proofs need, and what the dispatch loop has reached.
Dispatched ==
  /\ trace \in Seq(0..MaxTime) /\ now \in 0..MaxTime /\ next \in 1..(Len(trace) + 1)
  /\ pc = "sleep" => next \in Ids
  /\ \A i \in Ids : /\ task[i] = "none" <=> i >= next
                    /\ task[i] # "none" => trace[i] <= now

\* A request is sent when it has its slot, and not before one that comes first.
Sent ==
  /\ sent \in [Ids -> -1..MaxTime]
  /\ \A i \in Ids : sent[i] # Never <=> Stage(task[i]) = 4
  /\ \A i \in Ids : sent[i] # Never => trace[i] <= sent[i] /\ sent[i] <= now
  /\ \A i, j \in Ids : j < i /\ sent[i] # Never /\ sent[j] # Never => sent[j] <= sent[i]

\* The slots, and that somebody is about to wake a waiter if there is one to have.
Slots ==
  /\ slots \in Nat
  /\ slots + Cardinality(Holding(task)) = MaxInflight
  /\ In("waiting") # {} => slots = 0 \/ In("granted") # {}

InTurn == Lined(task, queue) /\ Dispatched /\ Sent /\ Slots

Label == {"dispatch", "sleep", "gather", "report", "dump", "exited", "failed"}

\* The answers, and what the report makes of them once all are there.
Reported ==
  /\ trace \in Traces /\ pc \in Label /\ first \in [Ids -> -1..MaxTime]
  /\ results = In("done") /\ out \subseteq results /\ dump \subseteq results
  /\ \A i \in Ids : first[i] # Never => sent[i] # Never /\ sent[i] <= first[i]
  /\ pc \in {"report", "dump", "exited"} => results = Ids
  /\ pc \in {"dump", "exited"} => out = Kept
  /\ pc = "exited" => dump = results /\ \A i \in Ids : first[i] # Never

-----------------------------------------------------------------------------
(* Facts.                                                                  *)

LEMMA StageFacts ==
  ASSUME NEW s \in State
  PROVE  /\ Stage(s) \in 0..4
         /\ Stage(s) = 0 <=> s = "none"
         /\ Stage(s) = 1 <=> s = "new"
         /\ Stage(s) = 2 <=> s = "waiting"
         /\ Stage(s) = 3 <=> s = "granted"
         /\ Stage(s) = 4 <=> s \in {"posting", "open", "done", "failed"}
  BY DEF State, Stage

\* One request gets a slot or gives it back.
LEMMA HoldingFacts ==
  ASSUME Dispatched, NEW t \in [Ids -> State], NEW i \in Ids, NEW s \in State
  PROVE  /\ Cardinality(Holding(t)) \in Nat
         /\ s \in {"granted", "posting", "open"} =>
              Cardinality(Holding([t EXCEPT ![i] = s])) =
                Cardinality(Holding(t)) + IF i \in Holding(t) THEN 0 ELSE 1
         /\ s \notin {"granted", "posting", "open"} =>
              Cardinality(Holding([t EXCEPT ![i] = s])) =
                Cardinality(Holding(t)) - IF i \in Holding(t) THEN 1 ELSE 0
<1> DEFINE u == [t EXCEPT ![i] = s]
<1>1. Len(trace) \in Nat
  BY LenProperties DEF Dispatched
<1>2. IsFiniteSet(Ids)
  BY <1>1, FS_Interval DEF Ids
<1>3. IsFiniteSet(Holding(t)) /\ Cardinality(Holding(t)) \in Nat
  BY <1>2, FS_Subset, FS_CardinalityType DEF Holding
<1>4. u[i] = s /\ \A j \in Ids \ {i} : u[j] = t[j]
  OBVIOUS
<1> HIDE DEF u
<1>5. CASE s \in {"granted", "posting", "open"}
  <2>1. Holding(u) = Holding(t) \cup {i}
    BY <1>4, <1>5 DEF Holding
  <2>2. Cardinality(Holding(u)) = Cardinality(Holding(t)) + IF i \in Holding(t) THEN 0 ELSE 1
    BY <1>3, <2>1, FS_AddElement
  <2> QED
    BY <1>3, <1>5, <2>2 DEF u
<1>6. CASE s \notin {"granted", "posting", "open"}
  <2>1. Holding(u) = Holding(t) \ {i}
    BY <1>4, <1>6 DEF Holding
  <2>2. Cardinality(Holding(u)) = Cardinality(Holding(t)) - IF i \in Holding(t) THEN 1 ELSE 0
    <3>1. Cardinality(Holding(t) \ {i}) =
            IF i \in Holding(t) THEN Cardinality(Holding(t)) - 1 ELSE Cardinality(Holding(t))
      BY <1>3, FS_RemoveElement
    <3> QED
      BY <1>3, <2>1, <3>1
  <2> QED
    BY <1>3, <1>6, <2>2 DEF u
<1> QED
  BY <1>5, <1>6

\* A request comes further, but not further than those before it, and does not
\* begin to wait or stop waiting.
LEMMA LinedMoves ==
  ASSUME Lined(task, queue), NEW i \in Ids, NEW s \in State,
         task[i] # "waiting", s # "waiting", Stage(task[i]) <= Stage(s),
         \A j \in Ids : j < i => Stage(s) <= Stage(task[j])
  PROVE  Lined([task EXCEPT ![i] = s], queue)
<1> DEFINE t == [task EXCEPT ![i] = s]
<1>1. /\ t \in [Ids -> State] /\ t[i] = s
      /\ \A j \in Ids \ {i} : t[j] = task[j]
  BY DEF Lined
<1>2. \A j \in Ids : Stage(task[j]) \in 0..4 /\ Stage(s) \in 0..4
  BY StageFacts DEF Lined
<1>3. Ids \subseteq Int
  BY DEF Ids
<1> HIDE DEF t
<1>4. \A j, k \in Ids : j < k => Stage(t[k]) <= Stage(t[j])
  BY <1>1, <1>2, <1>3 DEF Lined
<1>5. \A k \in 1..Len(queue) : queue[k] \in Ids \ {i}
  BY ElementOfSeq DEF Lined
<1>6. \A j \in Ids : t[j] = "waiting" <=> task[j] = "waiting"
  BY <1>1
<1>7. Lined(t, queue)
  BY <1>1, <1>4, <1>5, <1>6 DEF Lined
<1> QED
  BY <1>7 DEF t

\* Whoever is woken is the first that waits, and takes the slot.
LEMMA WakeStep ==
  ASSUME Dispatched, NEW n \in Nat, NEW t, Lined(t, queue), WakeUpNext(n, t)
  PROVE  /\ Lined(task', queue') /\ slots' \in Nat
         /\ slots' + Cardinality(Holding(task')) = n + Cardinality(Holding(t))
         /\ \A i \in Ids : \/ task'[i] = t[i]
                           \/ t[i] = "waiting" /\ task'[i] = "granted"
         /\ (\E i \in Ids : task'[i] = "waiting") =>
              slots' = 0 \/ \E i \in Ids : task'[i] = "granted"
<1>1. CASE ~(n > 0 /\ queue # <<>>)
  <2>1. slots' = n /\ task' = t /\ queue' = queue
    BY <1>1 DEF WakeUpNext
  <2>2. queue = <<>> => \A i \in Ids : t[i] # "waiting"
    BY DEF Lined
  <2> QED
    BY <1>1, <2>1, <2>2
<1>2. CASE n > 0 /\ queue # <<>>
  <2> DEFINE h == Head(queue)
             m == Len(queue)
  <2>1. /\ slots' = n - 1 /\ queue' = Tail(queue)
        /\ task' = [t EXCEPT ![h] = "granted"]
    BY <1>2 DEF WakeUpNext
  <2>2. /\ h \in Ids /\ h = queue[1] /\ m \in Nat \ {0}
        /\ queue' \in Seq(Ids) /\ Len(queue') = m - 1
        /\ \A k \in 1..(m - 1) : queue'[k] = queue[k + 1]
        /\ \A k \in 1..m : queue[k] \in Ids
    <3>1. queue \in Seq(Ids)
      BY DEF Lined
    <3>2. m \in Nat /\ m # 0
      BY <1>2, <3>1, LenProperties, EmptySeq
    <3> QED
      BY <1>2, <2>1, <3>1, <3>2, HeadTailProperties, ElementOfSeq
  <2> HIDE DEF h, m
  <2>3. /\ task' \in [Ids -> State] /\ task'[h] = "granted" /\ t[h] = "waiting"
        /\ \A i \in Ids \ {h} : task'[i] = t[i]
    BY <2>1, <2>2 DEF Lined, State, m
  <2>4. \A i \in Ids : Stage(t[i]) \in 0..4 /\ (t[i] = "waiting" <=> Stage(t[i]) = 2)
    BY StageFacts DEF Lined
  <2>5. Stage("granted") = 3 /\ Ids \subseteq Int
    BY DEF Stage, Ids
  <2>6. \A i \in Ids : i < h => Stage(t[i]) >= 3
    <3>1. SUFFICES ASSUME NEW i \in Ids, i < h PROVE Stage(t[i]) >= 3
      OBVIOUS
    <3>2. Stage(t[i]) >= 2
      BY <2>2, <2>3, <2>4, <2>5, <3>1 DEF Lined
    <3>3. t[i] # "waiting"
      <4>1. SUFFICES ASSUME NEW k \in 1..m, queue[k] = i PROVE FALSE
        BY DEF Lined, m
      <4>2. k # 1 => 1 \in 1..m /\ 1 < k
        BY <2>2
      <4>3. k # 1 => queue[1] < queue[k]
        BY <4>2 DEF Lined, m
      <4> QED
        BY <2>2, <2>5, <3>1, <4>1, <4>3
    <3> QED
      BY <2>4, <3>2, <3>3
  <2>7. \A i, j \in Ids : i < j => Stage(task'[j]) <= Stage(task'[i])
    <3>1. SUFFICES ASSUME NEW i \in Ids, NEW j \in Ids, i < j
                   PROVE  Stage(task'[j]) <= Stage(task'[i])
      OBVIOUS
    <3>2. Stage(t[j]) <= Stage(t[i])
      BY <3>1 DEF Lined
    <3>3. CASE i = h
      BY <2>3, <2>4, <2>5, <3>1, <3>2, <3>3
    <3>4. CASE j = h
      BY <2>3, <2>4, <2>5, <2>6, <3>1, <3>4
    <3>5. CASE i # h /\ j # h
      BY <2>3, <3>2, <3>5
    <3> QED
      BY <3>3, <3>4, <3>5
  <2>8. \A k, l \in 1..(m - 1) : k < l => queue'[k] < queue'[l]
    <3>1. SUFFICES ASSUME NEW k \in 1..(m - 1), NEW l \in 1..(m - 1), k < l
                   PROVE  queue'[k] < queue'[l]
      OBVIOUS
    <3>2. k + 1 \in 1..m /\ l + 1 \in 1..m /\ k + 1 < l + 1
      BY <2>2, <3>1
    <3>3. queue[k + 1] < queue[l + 1]
      BY <3>2 DEF Lined, m
    <3> QED
      BY <2>2, <3>3
  <2>9. \A k \in 1..(m - 1) : task'[queue'[k]] = "waiting"
    <3>1. SUFFICES ASSUME NEW k \in 1..(m - 1) PROVE task'[queue'[k]] = "waiting"
      OBVIOUS
    <3>2. k + 1 \in 1..m /\ 1 \in 1..m /\ 1 < k + 1 /\ queue'[k] = queue[k + 1]
      BY <2>2
    <3>3. queue[1] < queue[k + 1] /\ t[queue[k + 1]] = "waiting"
      BY <3>2 DEF Lined, m
    <3>4. queue[k + 1] \in Ids \ {h}
      <4>1. queue[k + 1] \in Ids /\ queue[k + 1] \in Int /\ queue[1] \in Int
        BY <2>2, <2>5, <3>2
      <4> QED
        BY <2>2, <3>3, <4>1
    <3> QED
      BY <2>3, <3>2, <3>3, <3>4
  <2>10. \A i \in Ids : task'[i] = "waiting" => \E k \in 1..(m - 1) : queue'[k] = i
    <3>1. SUFFICES ASSUME NEW i \in Ids, task'[i] = "waiting"
                   PROVE  \E k \in 1..(m - 1) : queue'[k] = i
      OBVIOUS
    <3>2. PICK k \in 1..m : queue[k] = i
      BY <2>2, <2>3, <3>1 DEF Lined, m
    <3>3. k # 1
      BY <2>2, <2>3, <3>1, <3>2
    <3>4. k - 1 \in 1..(m - 1) /\ queue'[k - 1] = i
      BY <2>2, <3>2, <3>3
    <3> QED
      BY <3>4
  <2>11. Lined(task', queue')
    BY <2>2, <2>3, <2>7, <2>8, <2>9, <2>10 DEF Lined
  <2>12. Cardinality(Holding(task')) = Cardinality(Holding(t)) + 1
    <3>1. h \notin Holding(t)
      BY <2>3 DEF Holding
    <3>2. "granted" \in State /\ t \in [Ids -> State]
      BY DEF State, Lined
    <3> QED
      BY <2>1, <2>2, <3>1, <3>2, HoldingFacts
  <2>13. Cardinality(Holding(t)) \in Nat
    BY <2>2, HoldingFacts DEF Lined, State
  <2> QED
    BY <1>2, <2>1, <2>2, <2>3, <2>11, <2>12, <2>13
<1> QED
  BY <1>1, <1>2

-----------------------------------------------------------------------------
(* The steps.                                                              *)

\* Types of the states a request may be in.
LEMMA StateFacts ==
  ASSUME Lined(task, queue)
  PROVE  /\ \A i \in Ids : task[i] \in State /\ Stage(task[i]) \in 0..4
         /\ {"none", "new", "waiting", "granted", "posting", "open", "done", "failed"} = State
         /\ Ids \subseteq Int
  BY StageFacts DEF Lined, State, Ids

\* The steps that move no request.
LEMMA QuietStep ==
  ASSUME InTurn, UNCHANGED <<trace, next, task, sem, sent>>,
         now' \in 0..MaxTime, now <= now', pc' = "sleep" => next \in Ids
  PROVE  InTurn'
<1>1. Ids' = Ids
  BY DEF Ids
<1>2. Lined(task, queue)'
  BY <1>1 DEF InTurn, Lined, sem
<1>3. \A i \in Ids : trace[i] \in Int
  <2>1. trace \in Seq(0..MaxTime)
    BY DEF InTurn, Dispatched
  <2>2. \A i \in Ids : trace[i] \in 0..MaxTime
    BY <2>1, ElementOfSeq DEF Ids
  <2> QED
    BY <2>2
<1>4. Dispatched'
  BY <1>1, <1>3 DEF InTurn, Dispatched
<1>5. Sent'
  BY <1>1, <1>3 DEF InTurn, Sent, Dispatched
<1>6. Slots'
  BY <1>1 DEF InTurn, Slots, Holding, In, sem
<1> QED
  BY <1>2, <1>4, <1>5, <1>6 DEF InTurn

LEMMA DispatchStep ==
  ASSUME InTurn, Dispatch \/ Wake
  PROVE  InTurn'
<1>1. /\ next \in Ids /\ trace[next] <= now
      /\ task' = [task EXCEPT ![next] = "new"] /\ next' = next + 1 /\ pc' # "sleep"
      /\ UNCHANGED <<trace, now, slots, queue, sent>>
  BY DEF InTurn, Dispatched, Dispatch, Wake, Due, clock, sem, times
<1>2. /\ Ids' = Ids /\ Ids \subseteq Int /\ task \in [Ids -> State]
      /\ \A i \in Ids : Stage(task[i]) \in 0..4
      /\ task[next] = "none" /\ \A i \in Ids : i < next => task[i] # "none"
  BY <1>1, StateFacts DEF Ids, InTurn, Lined, Dispatched
<1>3. Lined(task', queue)
  <2>1. \A i \in Ids : i < next => Stage("new") <= Stage(task[i])
    <3>1. SUFFICES ASSUME NEW i \in Ids, i < next PROVE Stage("new") <= Stage(task[i])
      OBVIOUS
    <3>2. task[i] \in State /\ task[i] # "none"
      BY <1>2, <3>1
    <3> QED
      BY <3>2, StageFacts DEF Stage
  <2>2. "new" \in State /\ Stage(task[next]) <= Stage("new")
    BY <1>2 DEF State, Stage
  <2> QED
    BY <1>1, <1>2, <2>1, <2>2, LinedMoves DEF InTurn
<1>4. Lined(task, queue)'
  BY <1>1, <1>2, <1>3 DEF Lined
<1>5. task'[next] = "new" /\ \A i \in Ids \ {next} : task'[i] = task[i]
  BY <1>1, <1>2
<1>6. Dispatched'
  <2>1. next + 1 \in 1..(Len(trace) + 1) /\ Len(trace) \in Nat
    BY <1>1, LenProperties DEF InTurn, Dispatched, Ids
  <2>2. \A i \in Ids : /\ task'[i] = "none" <=> i >= next + 1
                       /\ task'[i] # "none" => trace[i] <= now
    <3>1. SUFFICES ASSUME NEW i \in Ids
                   PROVE  /\ task'[i] = "none" <=> i >= next + 1
                          /\ task'[i] # "none" => trace[i] <= now
      OBVIOUS
    <3>2. CASE i = next
      BY <1>1, <1>2, <1>5, <3>2
    <3>3. CASE i # next
      BY <1>1, <1>2, <1>5, <3>3 DEF InTurn, Dispatched
    <3> QED
      BY <3>2, <3>3
  <2> QED
    BY <1>1, <1>2, <2>1, <2>2 DEF InTurn, Dispatched
<1>7. Sent'
  <2>1. \A i \in Ids : Stage(task'[i]) = 4 <=> Stage(task[i]) = 4
    BY <1>2, <1>5 DEF Stage
  <2> QED
    BY <1>1, <1>2, <2>1 DEF InTurn, Sent
<1>8. Slots'
  <2>1. Holding(task)' = Holding(task)
    BY <1>2, <1>5 DEF Holding
  <2>2. In("waiting")' = In("waiting") /\ In("granted")' = In("granted")
    BY <1>2, <1>5 DEF In
  <2> QED
    BY <1>1, <2>1, <2>2 DEF InTurn, Slots
<1> QED
  BY <1>4, <1>6, <1>7, <1>8 DEF InTurn

\* Nobody who has begun waits for the slot that is taken here.
LEMMA SendStep ==
  ASSUME InTurn, NEW i \in Ids, Stage(task[i]) < 4, task[i] # "none",
         \A j \in Ids : j < i => Stage(task[j]) = 4,
         UNCHANGED <<trace, now, next, pc>>, sent' = [sent EXCEPT ![i] = now],
         \A j \in Ids : Stage(task'[j]) = 4 <=> j = i \/ Stage(task[j]) = 4
  PROVE  Sent'
<1>1. Ids' = Ids /\ Ids \subseteq Int
  BY DEF Ids
<1>2. /\ sent' \in [Ids -> -1..MaxTime] /\ sent'[i] = now /\ now # Never
      /\ \A j \in Ids \ {i} : sent'[j] = sent[j]
  BY BenchAssumption DEF InTurn, Sent, Dispatched, Never
<1>3. /\ trace[i] <= now /\ sent[i] = Never
      /\ \A j \in Ids : i < j => sent[j] = Never
  <2>1. \A j \in Ids : i < j => Stage(task[j]) # 4
    <3>1. SUFFICES ASSUME NEW j \in Ids, i < j PROVE Stage(task[j]) # 4
      OBVIOUS
    <3>2. Stage(task[j]) <= Stage(task[i]) /\ Stage(task[j]) \in 0..4 /\ Stage(task[i]) \in 0..4
      BY <3>1, StateFacts DEF InTurn, Lined
    <3> QED
      BY <3>2
  <2> QED
    BY <2>1 DEF InTurn, Sent, Dispatched
<1>4. \A j \in Ids : sent'[j] # Never <=> Stage(task'[j]) = 4
  BY <1>2 DEF InTurn, Sent
<1>5. \A j \in Ids : sent'[j] # Never => trace[j] <= sent'[j] /\ sent'[j] <= now
  BY <1>2, <1>3 DEF InTurn, Sent, Dispatched
<1>6. \A j, k \in Ids : k < j /\ sent'[j] # Never /\ sent'[k] # Never => sent'[k] <= sent'[j]
  BY <1>1, <1>2, <1>3 DEF InTurn, Sent
<1> QED
  BY <1>1, <1>2, <1>4, <1>5, <1>6 DEF Sent

LEMMA BeginStep ==
  ASSUME InTurn, NEW i \in Ids, Begin(i)
  PROVE  InTurn'
<1>1. /\ UNCHANGED <<trace, now, next, pc>> /\ Ids' = Ids /\ task[i] = "new"
      /\ \A j \in Ids : task[j] = "new" => i <= j
  BY DEF Begin, clock, loop, Ids
<1>2. /\ task \in [Ids -> State] /\ Ids \subseteq Int /\ Stage(task[i]) = 1
      /\ \A j \in Ids : Stage(task[j]) \in 0..4
      /\ {"waiting", "posting"} \subseteq State
  BY <1>1, StateFacts DEF InTurn, Lined, Stage
<1>3. \A j \in Ids : j < i => Stage(task[j]) >= 2
  <2>1. SUFFICES ASSUME NEW j \in Ids, j < i PROVE Stage(task[j]) >= 2
    OBVIOUS
  <2>2. Stage(task[j]) >= 1 /\ task[j] # "new" /\ task[j] \in State
    BY <1>1, <1>2, <2>1 DEF InTurn, Lined
  <2> QED
    BY <2>2, StageFacts
<1>4. CASE ~Locked
  <2>1. /\ slots' = slots - 1 /\ sent' = [sent EXCEPT ![i] = now]
        /\ task' = [task EXCEPT ![i] = "posting"] /\ queue' = queue
        /\ slots # 0 /\ In("waiting") = {} /\ In("granted") = {}
    BY <1>4 DEF Begin, Locked
  <2>2. \A j \in Ids : j < i => Stage(task[j]) = 4
    <3>1. SUFFICES ASSUME NEW j \in Ids, j < i PROVE Stage(task[j]) = 4
      OBVIOUS
    <3>2. task[j] # "waiting" /\ task[j] # "granted" /\ task[j] \in State
      BY <1>2, <2>1 DEF In
    <3> QED
      BY <1>3, <3>1, <3>2, StageFacts
  <2>3. task'[i] = "posting" /\ \A j \in Ids \ {i} : task'[j] = task[j]
    BY <1>2, <2>1
  <2>4. Lined(task, queue)'
    <3>1. /\ Stage(task[i]) <= Stage("posting")
          /\ \A j \in Ids : j < i => Stage("posting") <= Stage(task[j])
      BY <1>2, <2>2 DEF Stage
    <3>2. Lined(task', queue)
      BY <1>1, <1>2, <2>1, <3>1, LinedMoves DEF InTurn
    <3> QED
      BY <1>1, <2>1, <3>2 DEF Lined
  <2>5. Dispatched'
    BY <1>1, <2>3 DEF InTurn, Dispatched
  <2>6. Sent'
    <3>1. \A j \in Ids : Stage(task'[j]) = 4 <=> j = i \/ Stage(task[j]) = 4
      BY <2>3 DEF Stage
    <3>2. Stage(task[i]) < 4 /\ task[i] # "none"
      BY <1>1, <1>2
    <3> QED
      BY <1>1, <2>1, <2>2, <3>1, <3>2, SendStep
  <2>7. Slots'
    <3>1. i \notin Holding(task) /\ Holding(task)' = Holding(task')
      BY <1>1 DEF Holding
    <3>2. Cardinality(Holding(task')) = Cardinality(Holding(task)) + 1
      BY <1>2, <2>1, <3>1, HoldingFacts DEF InTurn
    <3>3. Cardinality(Holding(task)) \in Nat
      BY <1>2, HoldingFacts DEF InTurn
    <3>4. In("waiting")' = {}
      BY <1>1, <2>1, <2>3 DEF In
    <3>5. /\ slots \in Nat /\ slots + Cardinality(Holding(task)) = MaxInflight
          /\ MaxInflight' = MaxInflight
      BY DEF InTurn, Slots
    <3>6. slots' \in Nat /\ slots' + Cardinality(Holding(task')) = MaxInflight
      BY <2>1, <3>2, <3>3, <3>5
    <3> QED
      BY <3>1, <3>4, <3>6 DEF Slots
  <2> QED
    BY <2>4, <2>5, <2>6, <2>7 DEF InTurn
<1>5. CASE Locked
  <2>1. /\ queue' = Append(queue, i) /\ task' = [task EXCEPT ![i] = "waiting"]
        /\ slots' = slots /\ sent' = sent
    BY <1>5 DEF Begin
  <2> DEFINE m == Len(queue)
  <2>2. /\ m \in Nat /\ queue' \in Seq(Ids) /\ Len(queue') = m + 1 /\ queue'[m + 1] = i
        /\ \A k \in 1..m : queue'[k] = queue[k] /\ queue[k] \in Ids /\ task[queue[k]] = "waiting"
    <3>1. queue \in Seq(Ids)
      BY DEF InTurn, Lined
    <3> QED
      BY <2>1, <3>1, AppendProperties, LenProperties, ElementOfSeq DEF InTurn, Lined
  <2>3. /\ \A j \in Ids : task[j] = "waiting" => \E k \in 1..m : queue[k] = j
        /\ \A k, l \in 1..m : k < l => queue[k] < queue[l]
    BY DEF InTurn, Lined
  <2> HIDE DEF m
  <2>4. /\ task' \in [Ids -> State] /\ task'[i] = "waiting"
        /\ \A j \in Ids \ {i} : task'[j] = task[j]
    BY <1>2, <2>1
  <2>5. \A j, k \in Ids : j < k => Stage(task'[k]) <= Stage(task'[j])
    <3>1. SUFFICES ASSUME NEW j \in Ids, NEW k \in Ids, j < k
                   PROVE  Stage(task'[k]) <= Stage(task'[j])
      OBVIOUS
    <3>2. Stage(task[k]) <= Stage(task[j]) /\ Stage("waiting") = 2
      BY <3>1 DEF InTurn, Lined, Stage
    <3>3. CASE j = i
      BY <1>2, <2>4, <3>1, <3>2, <3>3
    <3>4. CASE k = i
      BY <1>2, <1>3, <2>4, <3>1, <3>2, <3>4
    <3>5. CASE j # i /\ k # i
      BY <2>4, <3>2, <3>5
    <3> QED
      BY <3>3, <3>4, <3>5
  <2>6. \A j \in Ids : task[j] = "waiting" => j < i
    <3>1. SUFFICES ASSUME NEW j \in Ids, task[j] = "waiting", ~(j < i) PROVE FALSE
      OBVIOUS
    <3>2. i < j
      BY <1>1, <1>2, <3>1
    <3>3. Stage(task[j]) <= 1 /\ Stage(task[j]) = 2
      BY <1>2, <3>1, <3>2 DEF InTurn, Lined, Stage
    <3> QED
      BY <3>3
  <2>7. \A k \in 1..(m + 1) : task'[queue'[k]] = "waiting"
    <3>1. SUFFICES ASSUME NEW k \in 1..(m + 1) PROVE task'[queue'[k]] = "waiting"
      OBVIOUS
    <3>2. k \in 1..m \/ k = m + 1
      BY <2>2
    <3> QED
      BY <1>1, <2>2, <2>4, <3>2
  <2>8. \A j \in Ids : task'[j] = "waiting" => \E k \in 1..(m + 1) : queue'[k] = j
    <3>1. m + 1 \in 1..(m + 1) /\ \A k \in 1..m : k \in 1..(m + 1)
      BY <2>2
    <3> QED
      BY <2>2, <2>3, <2>4, <3>1
  <2>9. \A k, l \in 1..(m + 1) : k < l => queue'[k] < queue'[l]
    <3>1. SUFFICES ASSUME NEW k \in 1..(m + 1), NEW l \in 1..(m + 1), k < l
                   PROVE  queue'[k] < queue'[l]
      OBVIOUS
    <3>2. k \in 1..m /\ (l \in 1..m \/ l = m + 1)
      BY <2>2, <3>1
    <3> QED
      BY <2>2, <2>3, <2>6, <3>1, <3>2
  <2>10. Lined(task, queue)'
    BY <1>1, <2>2, <2>4, <2>5, <2>7, <2>8, <2>9 DEF Lined
  <2>11. Dispatched'
    BY <1>1, <2>4 DEF InTurn, Dispatched
  <2>12. Sent'
    <3>1. \A j \in Ids : Stage(task'[j]) = 4 <=> Stage(task[j]) = 4
      BY <1>1, <2>4 DEF Stage
    <3> QED
      BY <1>1, <2>1, <3>1 DEF InTurn, Sent
  <2>13. Slots'
    <3>1. Holding(task)' = Holding(task) /\ In("granted")' = In("granted")
      BY <1>1, <2>4 DEF Holding, In
    <3> QED
      BY <1>5, <2>1, <3>1 DEF InTurn, Slots, Locked
  <2> QED
    BY <2>10, <2>11, <2>12, <2>13 DEF InTurn
<1> QED
  BY <1>4, <1>5

\* A slot changes hands in full: the one who gives it and the one who gets it.
LEMMA HandOver ==
  ASSUME InTurn, NEW n \in Nat, NEW t, Lined(t, queue), WakeUpNext(n, t),
         n + Cardinality(Holding(t)) = MaxInflight,
         UNCHANGED <<trace, now, next, pc>>,
         \A j \in Ids : t[j] = "none" <=> task[j] = "none"
  PROVE  /\ Lined(task, queue)' /\ Dispatched' /\ Slots'
         /\ \A j \in Ids : Stage(task'[j]) = 4 <=> Stage(t[j]) = 4
<1>1. Ids' = Ids
  BY DEF Ids
<1>2. /\ Lined(task', queue') /\ slots' \in Nat
      /\ slots' + Cardinality(Holding(task')) = n + Cardinality(Holding(t))
      /\ \A i \in Ids : \/ task'[i] = t[i]
                        \/ t[i] = "waiting" /\ task'[i] = "granted"
      /\ (\E i \in Ids : task'[i] = "waiting") =>
           slots' = 0 \/ \E i \in Ids : task'[i] = "granted"
  BY WakeStep DEF InTurn
<1>3. Lined(task, queue)'
  BY <1>1, <1>2 DEF Lined
<1>4. Dispatched'
  <2>1. \A j \in Ids : task'[j] = "none" <=> task[j] = "none"
    BY <1>2
  <2> QED
    BY <1>1, <2>1 DEF InTurn, Dispatched
<1>5. Slots'
  <2>1. Holding(task)' = Holding(task')
    BY <1>1 DEF Holding
  <2>2. In("waiting")' # {} => \E i \in Ids : task'[i] = "waiting"
    BY <1>1 DEF In
  <2>3. (\E i \in Ids : task'[i] = "granted") => In("granted")' # {}
    BY <1>1 DEF In
  <2> QED
    BY <1>2, <2>1, <2>2, <2>3 DEF Slots
<1>6. \A j \in Ids : Stage(task'[j]) = 4 <=> Stage(t[j]) = 4
  BY <1>2 DEF Stage
<1> QED
  BY <1>3, <1>4, <1>5, <1>6

LEMMA GrantedStep ==
  ASSUME InTurn, NEW i \in Ids, Granted(i)
  PROVE  InTurn'
<1> DEFINE t == [task EXCEPT ![i] = "posting"]
<1>1. /\ UNCHANGED <<trace, now, next, pc>> /\ task[i] = "granted"
      /\ \A j \in Ids : task[j] = "granted" => i <= j
      /\ sent' = [sent EXCEPT ![i] = now] /\ WakeUpNext(slots, t)
  BY DEF Granted, clock, loop
<1>2. /\ task \in [Ids -> State] /\ Ids \subseteq Int /\ Stage(task[i]) = 3
      /\ \A j \in Ids : task[j] \in State /\ Stage(task[j]) \in 0..4
      /\ "posting" \in State /\ Stage("posting") = 4
  BY <1>1, StateFacts DEF InTurn, Lined, Stage
<1>3. \A j \in Ids : j < i => Stage(task[j]) = 4
  <2>1. SUFFICES ASSUME NEW j \in Ids, j < i PROVE Stage(task[j]) = 4
    OBVIOUS
  <2>2. Stage(task[j]) >= 3 /\ task[j] # "granted"
    BY <1>1, <1>2, <2>1 DEF InTurn, Lined
  <2> QED
    BY <1>2, <2>2, StageFacts
<1>4. Lined(t, queue)
  <2>1. /\ Stage(task[i]) <= Stage("posting") /\ task[i] # "waiting"
        /\ \A j \in Ids : j < i => Stage("posting") <= Stage(task[j])
    BY <1>1, <1>2, <1>3
  <2> QED
    BY <1>2, <2>1, LinedMoves DEF InTurn
<1>5. slots \in Nat /\ slots + Cardinality(Holding(t)) = MaxInflight
  <2>1. i \in Holding(task)
    BY <1>1 DEF Holding
  <2>2. /\ Cardinality(Holding(task)) \in Nat
        /\ Cardinality(Holding(t)) =
             Cardinality(Holding(task)) + IF i \in Holding(task) THEN 0 ELSE 1
    BY <1>2, HoldingFacts DEF InTurn
  <2>3. Cardinality(Holding(t)) = Cardinality(Holding(task))
    BY <2>1, <2>2
  <2> QED
    BY <2>3 DEF InTurn, Slots
<1>6. t[i] = "posting" /\ \A j \in Ids \ {i} : t[j] = task[j]
  BY <1>2
<1> HIDE DEF t
<1>7. \A j \in Ids : t[j] = "none" <=> task[j] = "none"
  BY <1>1, <1>6
<1>8. /\ Lined(task, queue)' /\ Dispatched' /\ Slots'
      /\ \A j \in Ids : Stage(task'[j]) = 4 <=> Stage(t[j]) = 4
  BY <1>1, <1>4, <1>5, <1>7, HandOver
<1>9. \A j \in Ids : Stage(task'[j]) = 4 <=> j = i \/ Stage(task[j]) = 4
  <2>1. Stage(t[i]) = 4
    BY <1>2, <1>6
  <2>2. \A j \in Ids \ {i} : Stage(t[j]) = 4 <=> Stage(task[j]) = 4
    BY <1>6
  <2> QED
    BY <1>8, <2>1, <2>2
<1>10. Sent'
  <2>1. Stage(task[i]) < 4 /\ task[i] # "none"
    BY <1>1, <1>2
  <2> QED
    BY <1>1, <1>3, <1>9, <2>1, SendStep
<1> QED
  BY <1>8, <1>10 DEF InTurn

LEMMA AnsweredStep ==
  ASSUME InTurn, NEW i \in Ids, Answered(i)
  PROVE  InTurn'
<1>1. PICK s \in {"done", "failed"} : Release(i, s)
  BY DEF Answered, Finish, Fail
<1> DEFINE t == [task EXCEPT ![i] = s]
<1>2. /\ UNCHANGED <<trace, now, next, pc, sent>> /\ task[i] \in {"posting", "open"}
      /\ WakeUpNext(slots + 1, t)
  BY <1>1 DEF Answered, Finish, Fail, clock, loop, times, Release
<1>3. /\ task \in [Ids -> State] /\ Stage(task[i]) = 4 /\ Ids' = Ids
      /\ s \in State /\ Stage(s) = 4 /\ \A j \in Ids : Stage(task[j]) \in 0..4
  BY <1>2, StateFacts DEF InTurn, Lined, Stage, Ids
<1>4. Lined(t, queue)
  <2>1. \A j \in Ids : j < i => Stage(s) <= Stage(task[j])
    BY <1>3 DEF InTurn, Lined
  <2>2. Stage(task[i]) <= Stage(s) /\ task[i] # "waiting" /\ s # "waiting"
    BY <1>2, <1>3
  <2> QED
    BY <1>3, <2>1, <2>2, LinedMoves DEF InTurn
<1>5. slots + 1 \in Nat /\ (slots + 1) + Cardinality(Holding(t)) = MaxInflight
  <2>1. i \in Holding(task)
    BY <1>2 DEF Holding
  <2>2. Cardinality(Holding(t)) = Cardinality(Holding(task)) - 1 /\ Cardinality(Holding(task)) \in Nat
    BY <1>3, <2>1, HoldingFacts DEF InTurn
  <2> QED
    BY <2>2 DEF InTurn, Slots
<1>6. t[i] = s /\ \A j \in Ids \ {i} : t[j] = task[j]
  BY <1>3
<1> HIDE DEF t
<1>7. \A j \in Ids : t[j] = "none" <=> task[j] = "none"
  BY <1>2, <1>6
<1>8. /\ Lined(task, queue)' /\ Dispatched' /\ Slots'
      /\ \A j \in Ids : Stage(task'[j]) = 4 <=> Stage(t[j]) = 4
  BY <1>2, <1>4, <1>5, <1>7, HandOver
<1>9. \A j \in Ids : Stage(task'[j]) = 4 <=> Stage(task[j]) = 4
  BY <1>3, <1>6, <1>8
<1>10. Sent'
  BY <1>2, <1>3, <1>9 DEF InTurn, Sent
<1> QED
  BY <1>8, <1>10 DEF InTurn

LEMMA AcceptedStep ==
  ASSUME InTurn, NEW i \in Ids, Accepted(i)
  PROVE  InTurn'
<1>1. /\ UNCHANGED <<trace, now, next, pc, sent, slots, queue>> /\ task[i] = "posting"
      /\ task' = [task EXCEPT ![i] = "open"]
  BY DEF Accepted, clock, loop, times, sem
<1>2. /\ task \in [Ids -> State] /\ Ids' = Ids /\ "open" \in State /\ Stage("open") = 4
      /\ Stage(task[i]) = 4 /\ \A j \in Ids : Stage(task[j]) \in 0..4
  BY <1>1, StateFacts DEF InTurn, Lined, Stage, Ids
<1>3. task'[i] = "open" /\ \A j \in Ids \ {i} : task'[j] = task[j]
  BY <1>1, <1>2
<1>4. Lined(task, queue)'
  <2>1. \A j \in Ids : j < i => Stage("open") <= Stage(task[j])
    BY <1>2 DEF InTurn, Lined
  <2>2. Stage(task[i]) <= Stage("open") /\ task[i] # "waiting"
    BY <1>1, <1>2
  <2>3. Lined(task', queue)
    BY <1>1, <1>2, <2>1, <2>2, LinedMoves DEF InTurn
  <2> QED
    BY <1>1, <1>2, <2>3 DEF Lined
<1>5. Dispatched'
  BY <1>1, <1>2, <1>3 DEF InTurn, Dispatched
<1>6. Sent'
  <2>1. \A j \in Ids : Stage(task'[j]) = 4 <=> Stage(task[j]) = 4
    BY <1>2, <1>3
  <2> QED
    BY <1>1, <1>2, <2>1 DEF InTurn, Sent
<1>7. Slots'
  <2>1. Holding(task)' = Holding(task)
    BY <1>1, <1>2, <1>3 DEF Holding
  <2>2. In("waiting")' = In("waiting") /\ In("granted")' = In("granted")
    BY <1>1, <1>2, <1>3 DEF In
  <2> QED
    BY <1>1, <2>1, <2>2 DEF InTurn, Slots
<1> QED
  BY <1>4, <1>5, <1>6, <1>7 DEF InTurn

-----------------------------------------------------------------------------
(* The report.                                                             *)

\* A request is answered or goes on; who is woken was waiting.
LEMMA WokenOnly ==
  ASSUME Lined(task, queue), NEW i \in Ids, NEW s, NEW n, task[i] # "waiting",
         WakeUpNext(n, [task EXCEPT ![i] = s])
  PROVE  /\ task'[i] = s
         /\ \A j \in Ids \ {i} : \/ task'[j] = task[j]
                                 \/ task[j] = "waiting" /\ task'[j] = "granted"
<1> DEFINE t == [task EXCEPT ![i] = s]
<1>1. t[i] = s /\ \A j \in Ids \ {i} : t[j] = task[j]
  BY DEF Lined
<1>2. DOMAIN t = Ids
  BY DEF Lined
<1>3. WakeUpNext(n, t)
  OBVIOUS
<1> HIDE DEF t
<1>4. CASE task' = t
  BY <1>1, <1>4
<1>5. CASE queue # <<>> /\ task' = [t EXCEPT ![Head(queue)] = "granted"]
  <2>1. Head(queue) \in Ids /\ task[Head(queue)] = "waiting"
    <3>1. queue \in Seq(Ids) /\ Len(queue) \in Nat /\ Len(queue) # 0
      BY <1>5, LenProperties, EmptySeq DEF Lined
    <3>2. Head(queue) = queue[1] /\ 1 \in 1..Len(queue)
      BY <1>5, <3>1
    <3> QED
      BY <3>1, <3>2, ElementOfSeq DEF Lined
  <2> QED
    BY <1>1, <1>2, <1>5, <2>1
<1> QED
  BY <1>3, <1>4, <1>5 DEF WakeUpNext

\* The steps that answer nothing and report nothing.
LEMMA KeepsReport ==
  ASSUME Reported, UNCHANGED <<trace, first, results, out, dump>>,
         pc' \in Label, pc' \in {"report", "dump", "exited"} => pc' = pc,
         \A i \in Ids : task'[i] = "done" <=> task[i] = "done",
         \A i \in Ids : sent[i] # Never => sent'[i] = sent[i]
  PROVE  Reported'
<1>1. Ids' = Ids /\ Kept' = Kept
  BY DEF Ids, Kept, Dropped
<1>2. In("done")' = In("done")
  BY <1>1 DEF In
<1> QED
  BY <1>1, <1>2 DEF Reported

LEMMA NextReported ==
  ASSUME InTurn, Reported, [Next]_vars
  PROVE  Reported'
<1>1. /\ Lined(task, queue) /\ task \in [Ids -> State] /\ pc \in Label
      /\ \A i \in Ids : sent[i] # Never <=> Stage(task[i]) = 4
      /\ sent \in [Ids -> -1..MaxTime]
  BY DEF InTurn, Lined, Sent, Reported
<1>2. CASE Dispatch \/ Wake
  <2>1. /\ next \in Ids /\ UNCHANGED <<trace, first, results, out, dump, sent>>
        /\ task' = [task EXCEPT ![next] = "new"]
        /\ pc' = "dispatch"
    BY <1>2 DEF Dispatch, Wake, clock, times, report, InTurn, Dispatched
  <2>2. task[next] = "none"
    BY <2>1 DEF InTurn, Dispatched, Ids
  <2>3. \A i \in Ids : task'[i] = "done" <=> task[i] = "done"
    BY <1>1, <2>1, <2>2
  <2> QED
    BY <2>1, <2>3, KeepsReport DEF Label
<1>3. CASE Sleep \/ AllDispatched \/ Raise \/ Tick \/ UNCHANGED vars
  <2>1. /\ UNCHANGED <<trace, first, results, out, dump, sent, task>>
        /\ pc' \in Label /\ (pc' \in {"report", "dump", "exited"} => pc' = pc)
    BY <1>1, <1>3 DEF Sleep, AllDispatched, Raise, Tick, vars, clock, loop, times, report, Label
  <2> QED
    BY <2>1, KeepsReport
<1>4. CASE Collect
  <2>1. /\ UNCHANGED <<trace, first, results, out, dump, sent, task>> /\ pc' = "report"
        /\ In("done") = Ids
    BY <1>4 DEF Collect, Gathered, clock, times, report
  <2>2. Ids' = Ids /\ In("done")' = In("done")
    BY <2>1 DEF Ids, In
  <2> QED
    BY <2>1, <2>2 DEF Reported, Label
<1>5. CASE Summarize
  <2>1. /\ UNCHANGED <<trace, first, results, dump, sent, task>> /\ pc = "report"
        /\ \/ pc' = "dump" /\ out' = Kept
           \/ pc' = "failed" /\ out' = out
    BY <1>5 DEF Summarize, clock, times
  <2>2. Ids' = Ids /\ In("done")' = In("done") /\ Kept' = Kept /\ Kept \subseteq results
    BY <2>1 DEF Ids, In, Kept, Dropped
  <2> QED
    BY <2>1, <2>2 DEF Reported, Label
<1>6. CASE WriteDump
  <2>1. /\ UNCHANGED <<trace, first, results, out, sent, task>> /\ pc = "dump"
        /\ dump' = {i \in results : \A j \in 1..i : j \in results => first[j] # Never}
        /\ pc' = IF dump' = results THEN "exited" ELSE "failed"
    BY <1>6 DEF WriteDump, clock, times
  <2>2. Ids' = Ids /\ In("done")' = In("done") /\ Kept' = Kept
    BY <2>1 DEF Ids, In, Kept, Dropped
  <2>3. dump' = results => \A i \in Ids : first[i] # Never
    <3>1. SUFFICES ASSUME dump' = results, NEW i \in Ids PROVE first[i] # Never
      OBVIOUS
    <3>2. i \in results /\ i \in 1..i
      BY <2>1 DEF Reported, Ids
    <3> QED
      BY <2>1, <3>1, <3>2
  <2>4. dump' \subseteq results /\ pc' \in {"exited", "failed"} /\ (pc' = "exited" => dump' = results)
    BY <2>1
  <2> QED
    BY <2>1, <2>2, <2>3, <2>4 DEF Reported, Label
<1>7. ASSUME NEW i \in Ids, Begin(i) \/ Granted(i) \/ Accepted(i) \/ Fail(i) PROVE Reported'
  <2>1. UNCHANGED <<trace, first, results, out, dump, pc>>
    BY <1>7 DEF Begin, Granted, Accepted, Fail, clock, loop, times, report
  <2>2. task[i] \notin {"waiting", "done"}
    BY <1>7 DEF Begin, Granted, Accepted, Fail
  <2>3. /\ task'[i] # "done"
        /\ \A j \in Ids \ {i} : task'[j] = "done" <=> task[j] = "done"
    <3>1. CASE Begin(i) \/ Accepted(i)
      <4>1. PICK s \in {"posting", "waiting", "open"} : task' = [task EXCEPT ![i] = s]
        BY <3>1 DEF Begin, Accepted
      <4> QED
        BY <1>1, <4>1
    <3>2. CASE Granted(i) \/ Fail(i)
      <4>1. PICK s \in {"posting", "failed"}, n \in {slots, slots + 1} :
              WakeUpNext(n, [task EXCEPT ![i] = s])
        BY <3>2 DEF Granted, Fail, Release
      <4>2. /\ task'[i] = s
            /\ \A j \in Ids \ {i} : \/ task'[j] = task[j]
                                    \/ task[j] = "waiting" /\ task'[j] = "granted"
        BY <1>1, <2>2, <4>1, WokenOnly
      <4> QED
        BY <4>2
    <3> QED
      BY <1>7, <3>1, <3>2
  <2>4. \A j \in Ids : task'[j] = "done" <=> task[j] = "done"
    BY <2>2, <2>3
  <2>5. \A j \in Ids : sent[j] # Never => sent'[j] = sent[j]
    <3>1. sent' = sent \/ (sent' = [sent EXCEPT ![i] = now] /\ task[i] \in {"new", "granted"})
      BY <1>7 DEF Begin, Granted, Accepted, Fail, times
    <3>2. task[i] \in {"new", "granted"} => sent[i] = Never
      BY <1>1 DEF Stage
    <3> QED
      BY <1>1, <3>1, <3>2
  <2> QED
    BY <1>1, <2>1, <2>4, <2>5, KeepsReport
<1>8. ASSUME NEW i \in Ids, FirstLine(i) PROVE Reported'
  <2>1. /\ UNCHANGED <<trace, results, out, dump, pc, task, sent>>
        /\ first' = [first EXCEPT ![i] = now] /\ task[i] = "open"
        /\ pc \in {"sleep", "gather"}
    BY <1>8 DEF FirstLine, clock, loop, report, Yielded
  <2>2. sent[i] # Never /\ sent[i] <= now /\ now \in -1..MaxTime
    <3>1. Stage(task[i]) = 4
      BY <2>1 DEF Stage
    <3>2. sent[i] # Never
      BY <1>1, <3>1
    <3> QED
      BY <3>2, BenchAssumption DEF InTurn, Sent, Dispatched
  <2>3. Ids' = Ids /\ In("done")' = In("done")
    BY <2>1 DEF Ids, In
  <2> QED
    BY <2>1, <2>2, <2>3 DEF Reported, Label
<1>9. ASSUME NEW i \in Ids, Finish(i) PROVE Reported'
  <2>1. /\ UNCHANGED <<trace, out, dump, pc, sent, first>> /\ results' = results \cup {i}
        /\ WakeUpNext(slots + 1, [task EXCEPT ![i] = "done"]) /\ task[i] = "open"
        /\ pc \in {"sleep", "gather"}
    BY <1>9 DEF Finish, Release, clock, loop, times, Yielded
  <2>2. /\ task'[i] = "done"
        /\ \A j \in Ids \ {i} : \/ task'[j] = task[j]
                                \/ task[j] = "waiting" /\ task'[j] = "granted"
    BY <1>1, <2>1, WokenOnly
  <2>3. Ids' = Ids /\ In("done")' = In("done") \cup {i}
    BY <2>1, <2>2 DEF Ids, In
  <2> QED
    BY <2>1, <2>3 DEF Reported, Label
<1> QED
  BY <1>2, <1>3, <1>4, <1>5, <1>6, <1>7, <1>8, <1>9 DEF Next, Run, Step, Answered

-----------------------------------------------------------------------------
(* The theorems.                                                           *)

LEMMA InitInTurn == Init => InTurn
<1> SUFFICES ASSUME Init PROVE InTurn
  OBVIOUS
<1>1. /\ trace \in Seq(0..MaxTime) /\ now = 0 /\ pc = "dispatch" /\ next = 1
      /\ task = [i \in Ids |-> "none"] /\ slots = MaxInflight /\ queue = <<>>
      /\ sent = [i \in Ids |-> Never] /\ MaxInflight \in Nat /\ MaxTime \in Nat
  BY BenchAssumption DEF Init
<1>2. Len(trace) \in Nat /\ queue \in Seq(Ids) /\ Len(queue) = 0
  BY <1>1, LenProperties
<1>3. Lined(task, queue)
  BY <1>1, <1>2 DEF Lined, State, Stage
<1>4. Dispatched
  BY <1>1, <1>2 DEF Dispatched, Ids
<1>5. Sent
  BY <1>1 DEF Sent, Stage, Never
<1>6. Slots
  <2>1. Holding(task) = {} /\ In("waiting") = {}
    BY <1>1 DEF Holding, In
  <2>2. Cardinality(Holding(task)) = 0
    BY <2>1, FS_EmptySet
  <2>3. slots \in Nat /\ slots + Cardinality(Holding(task)) = MaxInflight
    BY <1>1, <2>2
  <2> QED
    BY <2>1, <2>3 DEF Slots
<1> QED
  BY <1>3, <1>4, <1>5, <1>6 DEF InTurn

LEMMA NextInTurn == InTurn /\ [Next]_vars => InTurn'
<1> SUFFICES ASSUME InTurn, [Next]_vars PROVE InTurn'
  OBVIOUS
<1>1. now \in 0..MaxTime /\ MaxTime \in Nat /\ (pc = "sleep" => next \in Ids)
  BY BenchAssumption DEF InTurn, Dispatched
<1>2. CASE Dispatch \/ Wake
  BY <1>2, DispatchStep
<1>3. CASE Sleep \/ AllDispatched \/ Raise \/ Collect \/ Summarize \/ WriteDump \/ UNCHANGED vars
  <2>1. /\ UNCHANGED <<trace, next, task, sem, sent, now>>
        /\ pc' = "sleep" => next \in Ids
    BY <1>1, <1>3 DEF Sleep, AllDispatched, Raise, Collect, Summarize, WriteDump, vars,
                      clock, loop, times
  <2> QED
    BY <1>1, <2>1, QuietStep
<1>4. CASE Tick
  <2>1. /\ UNCHANGED <<trace, next, task, sem, sent, pc>> /\ now' = now + 1 /\ now < MaxTime
    BY <1>4 DEF Tick, loop, times
  <2> QED
    BY <1>1, <2>1, QuietStep
<1>5. ASSUME NEW i \in Ids, Step(i) PROVE InTurn'
  <2>1. CASE FirstLine(i)
    <3>1. UNCHANGED <<trace, now, next, pc, task, sem, sent>>
      BY <2>1 DEF FirstLine, clock, loop
    <3> QED
      BY <1>1, <3>1, QuietStep
  <2> QED
    BY <1>5, <2>1, BeginStep, GrantedStep, AcceptedStep, AnsweredStep DEF Step
<1> QED
  BY <1>2, <1>3, <1>4, <1>5 DEF Next, Run

\* Whatever the server answers and however long it takes, no request is sent before
\* its time or before one that comes earlier in the trace.
THEOREM ArrivalsRespected == Spec => []SentInOrder
<1>1. InTurn => SentInOrder
  <2> SUFFICES ASSUME InTurn PROVE SentInOrder
    OBVIOUS
  <2>1. /\ Ids \subseteq Int /\ \A i \in Ids : \A j \in 1..(i - 1) : j \in Ids /\ j < i
        /\ \A i \in Ids : Stage(task[i]) \in 0..4
    <3>1. Len(trace) \in Nat
      BY LenProperties DEF InTurn, Dispatched
    <3> QED
      BY <3>1, StateFacts DEF InTurn, Ids
  <2>2. ASSUME NEW i \in Ids, sent[i] # Never
        PROVE  /\ sent[i] >= trace[i]
               /\ \A j \in 1..(i - 1) : sent[j] # Never /\ sent[j] <= sent[i]
    <3>1. sent[i] \in Int /\ trace[i] \in Int /\ trace[i] <= sent[i]
      <4>1. trace[i] \in 0..MaxTime
        BY ElementOfSeq DEF InTurn, Dispatched, Ids
      <4> QED
        BY <2>2, <4>1 DEF InTurn, Sent
    <3>2. ASSUME NEW j \in 1..(i - 1) PROVE sent[j] # Never /\ sent[j] <= sent[i]
      <4>1. j \in Ids /\ j < i /\ Stage(task[i]) = 4
        BY <2>1, <2>2 DEF InTurn, Sent
      <4>2. Stage(task[j]) = 4
        BY <2>1, <4>1 DEF InTurn, Lined
      <4> QED
        BY <2>2, <4>1, <4>2 DEF InTurn, Sent
    <3> QED
      BY <3>1, <3>2
  <2> QED
    BY <2>2 DEF SentInOrder
<1> QED
  BY <1>1, InitInTurn, NextInTurn, PTL DEF Spec

\* No failure and no hand-over loses a slot or makes one, and nobody waits for a slot
\* that nobody will hand on.
THEOREM SlotsKept == Spec => []SlotsExact
<1>1. InTurn => SlotsExact
  <2> SUFFICES ASSUME InTurn PROVE SlotsExact
    OBVIOUS
  <2>1. DOMAIN queue = 1..Len(queue) /\ \A k \in 1..Len(queue) : queue[k] \in Ids
    BY LenProperties, ElementOfSeq DEF InTurn, Lined
  <2>2. In("waiting") = {queue[k] : k \in DOMAIN queue}
    BY <2>1 DEF InTurn, Lined, In
  <2> QED
    BY <2>2 DEF InTurn, Slots, SlotsExact
<1> QED
  BY <1>1, InitInTurn, NextInTurn, PTL DEF Spec

LEMMA InitReported == Init => Reported
<1> SUFFICES ASSUME Init PROVE Reported
  OBVIOUS
<1>1. In("done") = {} /\ MaxTime \in Nat
  BY BenchAssumption DEF Init, In
<1> QED
  BY <1>1 DEF Init, Reported, Label, Never

\* Every field of the client keeps its type; no more slots are free than there are.
THEOREM ClientTypes == Spec => []TypeOK
<1>1. InTurn /\ Reported => TypeOK
  <2> SUFFICES ASSUME InTurn, Reported PROVE TypeOK
    OBVIOUS
  <2>1. Cardinality(Holding(task)) \in Nat
    <3>1. CASE Ids = {}
      <4>1. Holding(task) = {}
        BY <3>1 DEF Holding
      <4> QED
        BY <4>1, FS_EmptySet
    <3>2. CASE Ids # {}
      <4>1. PICK i \in Ids : TRUE
        BY <3>2
      <4> QED
        BY <4>1, HoldingFacts DEF InTurn, Lined, State
    <3> QED
      BY <3>1, <3>2
  <2>2. slots \in 0..MaxInflight
    BY <2>1, BenchAssumption DEF InTurn, Slots
  <2>3. /\ task \in [Ids -> State] /\ queue \in Seq(Ids) /\ sent \in [Ids -> -1..MaxTime]
        /\ now \in 0..MaxTime /\ next \in 1..(Len(trace) + 1)
    BY DEF InTurn, Lined, Dispatched, Sent
  <2>4. /\ trace \in Traces /\ first \in [Ids -> -1..MaxTime] /\ pc \in Label
        /\ results \subseteq Ids /\ out \subseteq results /\ dump \subseteq results
    BY DEF Reported, In
  <2> QED
    BY <2>2, <2>3, <2>4 DEF TypeOK, Label
<1>2. InTurn /\ Reported /\ [Next]_vars => Reported'
  BY NextReported
<1> QED
  BY <1>1, <1>2, InitInTurn, NextInTurn, InitReported, PTL DEF Spec

\* A run that ends with 0 has had every answer, and reports all requests but the
\* first arrivals.
THEOREM NothingLeftOut == Spec => []ReportIsWhole
<1>1. InTurn /\ Reported => ReportIsWhole
  <2> SUFFICES ASSUME InTurn, Reported, pc = "exited"
               PROVE  /\ In("done") = Ids /\ dump = Ids
                      /\ out = (DropFirst + 1)..Len(trace)
                      /\ \A i \in Ids : trace[i] <= sent[i] /\ sent[i] <= first[i]
    BY DEF ReportIsWhole
  <2>1. In("done") = Ids /\ dump = Ids /\ results = Ids /\ out = Kept
    BY DEF Reported
  <2>2. Len(trace) \in Nat /\ DropFirst \in Nat
    BY LenProperties, BenchAssumption DEF InTurn, Dispatched
  <2>3. \A i \in Ids : Cardinality({j \in Ids : j < i}) = i - 1
    <3>1. SUFFICES ASSUME NEW i \in Ids PROVE Cardinality({j \in Ids : j < i}) = i - 1
      OBVIOUS
    <3>2. i \in 1..Len(trace)
      BY DEF Ids
    <3>3. {j \in Ids : j < i} = 1..(i - 1)
      BY <2>2, <3>2 DEF Ids
    <3>4. i - 1 \in Int /\ i - 1 >= 0
      BY <2>2, <3>2
    <3>5. Cardinality(1..(i - 1)) = i - 1
      <4> DEFINE k == i - 1
      <4>1. k \in Int /\ k >= 0
        BY <3>4
      <4> HIDE DEF k
      <4>2. Cardinality(1..k) = IF 1 > k THEN 0 ELSE k - 1 + 1
        BY <4>1, FS_Interval
      <4>3. Cardinality(1..k) = k
        BY <4>1, <4>2
      <4> QED
        BY <4>3 DEF k
    <3> QED
      BY <3>3, <3>5
  <2>4. \A i \in Ids : i \in Kept <=> i > DropFirst
    BY <2>1, <2>2, <2>3 DEF Kept, Dropped, Ids
  <2>5. Kept = (DropFirst + 1)..Len(trace)
    BY <2>1, <2>2, <2>4 DEF Kept, Ids
  <2>6. \A i \in Ids : trace[i] <= sent[i] /\ sent[i] <= first[i]
    BY DEF Reported, InTurn, Sent
  <2> QED
    BY <2>1, <2>5, <2>6
<1>2. InTurn /\ Reported /\ [Next]_vars => Reported'
  BY NextReported
<1> QED
  BY <1>1, <1>2, InitInTurn, NextInTurn, InitReported, PTL DEF Spec
=============================================================================
