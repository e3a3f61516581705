------------------------------ MODULE Service ------------------------------
(***************************************************************************)
(* What the scheduler of simulate() promises: first come, first served.    *)
(* Requests arrive in the order of their arrival times, the earliest of    *)
(* those that wait is admitted, and if a request must give way it is the   *)
(* latest of those that run.                                               *)
(***************************************************************************)
EXTENDS Integers, Sequences

CONSTANT Traces         \* the traces it may be given

VARIABLES
  trace,        \* the requests
  place         \* where each is: "pending", "waiting", "running", "served"

vars == <<trace, place>>

Requests   == DOMAIN trace
Arrival(r) == trace[r].arrival

Init == trace \in Traces /\ place = [r \in Requests |-> "pending"]

At(p) == {r \in Requests : place[r] = p}

Move(r, from, to) ==
  place[r] = from /\ place' = [place EXCEPT ![r] = to] /\ UNCHANGED trace

Arrive(r)  == (\A q \in At("pending") : Arrival(r) <= Arrival(q)) /\ Move(r, "pending", "waiting")
Admit(r)   == (\A q \in At("waiting") : Arrival(r) <= Arrival(q)) /\ Move(r, "waiting", "running")
Preempt(r) == (\A q \in At("running") : Arrival(q) <= Arrival(r)) /\ Move(r, "running", "waiting")
Serve(r)   == Move(r, "running", "served")

Next == \E r \in Requests : Arrive(r) \/ Admit(r) \/ Preempt(r) \/ Serve(r)

Spec == Init /\ [][Next]_vars

\* Nobody is overtaken: what runs arrived no later than what waits, and what
\* waits no later than what is still to come.
NobodyOvertaken ==
  /\ \A q \in At("running"), r \in At("waiting") \cup At("pending") : Arrival(q) <= Arrival(r)
  /\ \A q \in At("waiting"), r \in At("pending") : Arrival(q) <= Arrival(r)
=============================================================================
