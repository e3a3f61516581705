----------------------------- MODULE BenchClient ----------------------------
(***************************************************************************)
(* replay_sim/bench.py: the client that replays a trace against a server.  *)
(*                                                                         *)
(* One thread runs the coroutine run() and a task one() for each request;  *)
(* each goes on until its next await.  A request is named by its place in  *)
(* the trace, which is its req_id: every trace maker numbers its requests  *)
(* in order of arrival.  Time passes between any two steps.                *)
(***************************************************************************)
EXTENDS Integers, Sequences, FiniteSets

CONSTANTS
  Traces,       \* the arrival times of each trace, arrival_s / speedup
  MaxInflight,  \* --max-inflight
  DropFirst,    \* --drop-first
  MaxTime       \* a bound: the clock stops here

ASSUME BenchAssumption ==
  /\ MaxInflight \in Nat \ {0} /\ DropFirst \in Nat /\ MaxTime \in Nat
  /\ \A tr \in Traces :
       /\ tr \in Seq(0..MaxTime)
       /\ \A i, j \in DOMAIN tr : i <= j => tr[i] <= tr[j]

VARIABLES
  trace,
  now,     \* perf_counter() - t_start
  pc,      \* where run() is
  next,    \* the request of the dispatch loop
  task,    \* where one() is, for each request
  slots,   \* sem._value
  queue,   \* sem._waiters
  sent,    \* sent_s, or Never
  first,   \* t0 + ttft, or Never
  results, \* the requests in results
  out,     \* the requests summed up in --out
  dump     \* the requests written to --per-request

clock  == <<trace, now>>
loop   == <<pc, next>>
sem    == <<slots, queue>>
times  == <<sent, first>>
report == <<results, out, dump>>
vars   == <<clock, loop, task, sem, times, report>>

-----------------------------------------------------------------------------
Never   == -1
Ids     == 1..Len(trace)
In(s)   == {i \in Ids : task[i] = s}

\* The requests that have a slot: those sent and not over, and those about to be.
Holding(t) == {i \in Ids : t[i] \in {"granted", "posting", "open"}}

\* The requests that count: all but the first of sorted(results.keys()).
Dropped == {i \in results : Cardinality({j \in results : j < i}) < DropFirst}
Kept    == results \ Dropped

Init ==
  /\ trace \in Traces /\ now = 0
  /\ pc = "dispatch" /\ next = 1
  /\ task = [i \in Ids |-> "none"]
  /\ slots = MaxInflight /\ queue = <<>>
  /\ sent = [i \in Ids |-> Never] /\ first = [i \in Ids |-> Never]
  /\ results = {} /\ out = {} /\ dump = {}

-----------------------------------------------------------------------------
(* run(), until gather.                                                    *)

\* delay > 0 does not hold.
Due(i) == trace[i] <= now

\* No await: the tasks created so far have not begun.
Dispatch ==
  /\ pc = "dispatch" /\ next \in Ids /\ Due(next)
  /\ task' = [task EXCEPT ![next] = "new"]
  /\ next' = next + 1
  /\ UNCHANGED <<clock, pc, sem, times, report>>

Sleep ==
  /\ pc = "dispatch" /\ next \in Ids /\ ~Due(next)
  /\ pc' = "sleep"
  /\ UNCHANGED <<clock, next, task, sem, times, report>>

\* sleep(delay) has returned; the request is sent however late it is.
Wake ==
  /\ pc = "sleep" /\ Due(next)
  /\ task' = [task EXCEPT ![next] = "new"]
  /\ next' = next + 1 /\ pc' = "dispatch"
  /\ UNCHANGED <<clock, sem, times, report>>

AllDispatched ==
  /\ pc = "dispatch" /\ next \notin Ids
  /\ pc' = "gather"
  /\ UNCHANGED <<clock, next, task, sem, times, report>>

-----------------------------------------------------------------------------
(* one(), while run() waits.                                               *)

Yielded == pc \in {"sleep", "gather"}

\* Mutant of Locked: only the count decides.
LockedByCount == slots = 0

\* asyncio.Semaphore: a newcomer waits behind those that wait or were just woken.
Locked == slots = 0 \/ In("waiting") # {} \/ In("granted") # {}

\* asyncio.Semaphore: with n free slots and the tasks at t, the first waiter is woken
\* and has its slot.
WakeUpNext(n, t) ==
  IF n > 0 /\ queue # <<>>
  THEN /\ slots' = n - 1 /\ queue' = Tail(queue)
       /\ task' = [t EXCEPT ![Head(queue)] = "granted"]
  ELSE slots' = n /\ task' = t /\ UNCHANGED queue

\* A new task takes a free slot or joins the waiters; tasks begin in order.
Begin(i) ==
  /\ Yielded /\ task[i] = "new" /\ \A j \in Ids : task[j] = "new" => i <= j
  /\ IF ~Locked
     THEN /\ slots' = slots - 1 /\ sent' = [sent EXCEPT ![i] = now]
          /\ task' = [task EXCEPT ![i] = "posting"] /\ UNCHANGED queue
     ELSE /\ queue' = Append(queue, i) /\ task' = [task EXCEPT ![i] = "waiting"]
          /\ UNCHANGED <<slots, sent>>
  /\ UNCHANGED <<clock, loop, first, report>>

\* A waiter that was woken goes on, in the order they were woken; it wakes another
\* if there is a slot.
Granted(i) ==
  /\ Yielded /\ task[i] = "granted" /\ \A j \in Ids : task[j] = "granted" => i <= j
  /\ sent' = [sent EXCEPT ![i] = now]
  /\ WakeUpNext(slots, [task EXCEPT ![i] = "posting"])
  /\ UNCHANGED <<clock, loop, first, report>>

\* The end of "async with sem", with or without an exception.
Release(i, s) == WakeUpNext(slots + 1, [task EXCEPT ![i] = s])

\* Mutant of Accepted: the slot is given back when the answer begins.
AcceptedReleases(i) ==
  /\ Yielded /\ task[i] = "posting"
  /\ Release(i, "open")
  /\ UNCHANGED <<clock, loop, times, report>>

\* The server accepts the request: raise_for_status passes.
Accepted(i) ==
  /\ Yielded /\ task[i] = "posting"
  /\ task' = [task EXCEPT ![i] = "open"]
  /\ UNCHANGED <<clock, loop, sem, times, report>>

\* The first data line; the others change nothing.
FirstLine(i) ==
  /\ Yielded /\ task[i] = "open" /\ first[i] = Never
  /\ first' = [first EXCEPT ![i] = now]
  /\ UNCHANGED <<clock, loop, task, sem, sent, report>>

\* Mutant of Finish: the slot is kept.
FinishKeepsSlot(i) ==
  /\ Yielded /\ task[i] = "open"
  /\ results' = results \cup {i}
  /\ task' = [task EXCEPT ![i] = "done"]
  /\ UNCHANGED <<clock, loop, sem, times, out, dump>>

\* The stream ends, after any number of lines.
Finish(i) ==
  /\ Yielded /\ task[i] = "open"
  /\ results' = results \cup {i}
  /\ Release(i, "done")
  /\ UNCHANGED <<clock, loop, times, out, dump>>

\* An error status, a broken connection or a timeout.
Fail(i) ==
  /\ Yielded /\ task[i] \in {"posting", "open"}
  /\ Release(i, "failed")
  /\ UNCHANGED <<clock, loop, times, report>>

-----------------------------------------------------------------------------
(* run(), from gather.                                                     *)

\* gather raises what a task has raised, and asyncio.run cancels the others.
Raise ==
  /\ pc = "gather" /\ In("failed") # {}
  /\ pc' = "failed"
  /\ UNCHANGED <<clock, next, task, sem, times, report>>

\* Mutant of Gathered: gather(return_exceptions=True).
GatheredAny == In("done") \cup In("failed") = Ids

Gathered == In("done") = Ids

Collect ==
  /\ pc = "gather" /\ Gathered
  /\ pc' = "report"
  /\ UNCHANGED <<clock, next, task, sem, times, report>>

\* The summary; a request without a first line cannot be sorted or rounded, and
\* without requests there is no percentile.
Summarize ==
  /\ pc = "report"
  /\ IF Kept # {} /\ \A i \in Kept : first[i] # Never
     THEN out' = Kept /\ pc' = "dump"
     ELSE pc' = "failed" /\ UNCHANGED out
  /\ UNCHANGED <<clock, next, task, sem, times, results, dump>>

\* Row by row, in order: a request without a first line stops it, even a dropped one.
WriteDump ==
  /\ pc = "dump"
  /\ dump' = {i \in results : \A j \in 1..i : j \in results => first[j] # Never}
  /\ pc' = IF dump' = results THEN "exited" ELSE "failed"
  /\ UNCHANGED <<clock, next, task, sem, times, results, out>>

Tick ==
  /\ now < MaxTime /\ pc \notin {"exited", "failed"}
  /\ now' = now + 1
  /\ UNCHANGED <<trace, loop, task, sem, times, report>>

-----------------------------------------------------------------------------
Run == Dispatch \/ Sleep \/ Wake \/ AllDispatched \/ Raise \/ Collect \/ Summarize \/ WriteDump
Answered(i) == Finish(i) \/ Fail(i)
Step(i) == Begin(i) \/ Granted(i) \/ Accepted(i) \/ FirstLine(i) \/ Answered(i)

Next == Run \/ Tick \/ \E i \in Ids : Step(i)

Spec == Init /\ [][Next]_vars

\* The event loop runs what is ready, time passes, and every request comes to an end:
\* a read without an answer fails after timeout=600.
FairSpec == Spec /\ WF_vars(Run) /\ WF_vars(Tick) /\ WF_vars(\E i \in Ids : Step(i))

-----------------------------------------------------------------------------
(* Properties.                                                             *)

State == {"none", "new", "waiting", "granted", "posting", "open", "done", "failed"}

\* The type invariant.
TypeOK ==
  /\ trace \in Traces /\ now \in 0..MaxTime
  /\ pc \in {"dispatch", "sleep", "gather", "report", "dump", "exited", "failed"}
  /\ next \in 1..(Len(trace) + 1)
  /\ task \in [Ids -> State]
  /\ slots \in 0..MaxInflight /\ queue \in Seq(Ids)
  /\ sent \in [Ids -> -1..MaxTime] /\ first \in [Ids -> -1..MaxTime]
  /\ results \subseteq Ids /\ out \subseteq results /\ dump \subseteq results

\* "Respects arrival timestamps": no request is sent before its time, and none before
\* one that arrived earlier, however long requests wait for a slot and whatever
\* becomes of those ahead of them.
SentInOrder ==
  \A i \in Ids : sent[i] # Never =>
    /\ sent[i] >= trace[i]
    /\ \A j \in 1..(i - 1) : sent[j] # Never /\ sent[j] <= sent[i]

\* Slots are neither lost nor made, through failures and hand-overs: a request waits
\* only while --max-inflight others are in flight, or one is about to go on and wake it.
SlotsExact ==
  /\ slots + Cardinality(Holding(task)) = MaxInflight
  /\ In("waiting") # {} => slots = 0 \/ In("granted") # {}
  /\ In("waiting") = {queue[k] : k \in DOMAIN queue}

\* A run that exits with 0 has sent every request once and had its answer; its summary
\* leaves out the first arrivals and no other, and its dump leaves out none.
ReportIsWhole ==
  pc = "exited" =>
    /\ In("done") = Ids /\ dump = Ids
    /\ out = (DropFirst + 1)..Len(trace)
    /\ \A i \in Ids : trace[i] <= sent[i] /\ sent[i] <= first[i]

\* Whatever the server does, the client comes to an end.
Ends == <>(pc \in {"exited", "failed"})
=============================================================================
