-------------------------- MODULE SchedulerService --------------------------
(* simulate() implements Service: where a request is follows from the      *)
(* queue it is in.                                                         *)
EXTENDS Scheduler

Place ==
  [r \in Requests |-> IF r \in Range(pending) THEN "pending"
                      ELSE IF r \in Range(waiting) THEN "waiting"
                      ELSE IF r \in Range(running) THEN "running"
                      ELSE "served"]

S == INSTANCE Service WITH place <- Place

\* First come, first served: each step of simulate() lets the earliest request
\* arrive, admits the earliest that waits, preempts the latest that runs, serves
\* one that runs, or moves none; nothing served comes back (simulate, try_admit,
\* preempt_victim).
FirstComeFirstServed == S!Spec
=============================================================================
