---------------------------- MODULE MCScheduler ----------------------------
(* Traces for the runs of Scheduler. *)
EXTENDS SchedulerService

R(at, words, olen) == [arrival |-> at, words |-> words, olen |-> olen]

\* Prompts of n tokens: a system prompt of one block, then u.
System(n, u) == [i \in 1..n |-> IF i <= BlockSize THEN 0 ELSE u]

\* Every mix of lengths, of shared and of own prompts, with simultaneous and
\* with distinct arrivals.
MixedTraces ==
  {<<R(0, System(l, 1), 2), R(a, System(m, 1), n), R(2, System(k, u), 2)>> :
     l, m \in {1, 3, 4, 5}, k \in {3, 4}, a \in {0, 1}, n \in {2, 4}, u \in {1, 2}}

\* The third request arrives alone, after the first two have been through a
\* preemption, and needs the whole pool.
LastNeedsPool == <<R(0, System(5, 1), 2), R(1, System(1, 1), 2), R(2, System(7, 2), 1)>>

\* One more token than the pool has room for.
TooLong == <<R(0, System(2 * NumBlocks + 1, 1), 1)>>

AnyTraces == MixedTraces \cup {LastNeedsPool, TooLong}

\* Prompts of one token more than full blocks, distinct arrivals, and each
\* request alone fits the pool.
SteadyTraces ==
  {<<R(0, System(l, 1), n), R(1, System(m, u), o), R(2, System(k, 1), 3)>> :
     l, m, k \in {1, 4, 7}, n, o \in {1, 4, 5}, u \in {1, 2}}

\* The traces of the violation runs.
PreemptedInBatch == {LastNeedsPool}
WholeBlocks  == {<<R(0, System(4, 1), 4), R(1, System(4, 2), 4)>>}
ColdChain ==
  {<<R(0, System(5, 1), 1), R(0, <<3, 3, 3>>, 4), R(1, System(7, 1), 1)>>}
OutputTooLong == {<<R(0, System(5, 1), 4)>>}
Burst == {<<R(0, System(1, 1), 3), R(0, System(7, 2), 3)>>}
============================================================================
