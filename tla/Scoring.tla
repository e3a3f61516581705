------------------------------ MODULE Scoring ------------------------------
(***************************************************************************)
(* verdict.score and compare.main: how far the change from the baseline    *)
(* that the simulator predicts is from the one that was measured.  The two *)
(* are separate programs that are meant to count alike.                    *)
(*                                                                         *)
(* A pair is [sim, real], each a summary: a number, or None, per metric.   *)
(* Ratios are compared by multiplying out.                                 *)
(***************************************************************************)
EXTENDS Integers, Sequences, FiniteSets

CONSTANTS Latency, Cost    \* LATENCY, COST: the names of the metrics

Metrics == Latency \cup Cost
None == -1
Bar == 15                  \* BAR, ABS_BAR: percent

AbsOf(n) == IF n < 0 THEN -n ELSE n

(* |(s1 / s0 - 1) - (r1 / r0 - 1)|, times s0 * r0.                         *)
Gap(q) == AbsOf(q.s1 * q.r0 - q.r1 * q.s0)
WithinBar(q)  == 100 * Gap(q) <= Bar * q.s0 * q.r0
CloseEnough(q) == 100 * AbsOf(q.s1 - q.r1) <= Bar * q.r1

Quad(pairs, i, m) == [s0 |-> pairs[1].sim[m], s1 |-> pairs[i].sim[m],
                      r0 |-> pairs[1].real[m], r1 |-> pairs[i].real[m]]
Known(q) == \A f \in DOMAIN q : q[f] # None

(* compare.main: a baseline of 0 is skipped, and gap <= bar is an OK.      *)
Compared(pairs) ==
  {[config |-> i, metric |-> m, ok |-> WithinBar(Quad(pairs, i, m))] :
     <<i, m>> \in {im \in (2 .. Len(pairs)) \X Metrics :
                     LET q == Quad(pairs, im[1], im[2])
                     IN  Known(q) /\ 0 \notin {q.s0, q.r0}}}

(* Mutant: the absolute error saves the cost metrics too.                  *)
V2Any(m, q) == WithinBar(q) \/ CloseEnough(q)
(* verdict.score: a target of 0 is skipped as well.                        *)
V2(m, q) == WithinBar(q) \/ (m \in Latency /\ CloseEnough(q))
Scored(pairs) ==
  {[config |-> im[1], metric |-> im[2], q |-> Quad(pairs, im[1], im[2]),
    v1 |-> WithinBar(Quad(pairs, im[1], im[2])), v2 |-> V2(im[2], Quad(pairs, im[1], im[2]))] :
     im \in {jm \in (2 .. Len(pairs)) \X Metrics :
               LET q == Quad(pairs, jm[1], jm[2])
               IN  Known(q) /\ 0 \notin {q.s0, q.r0, q.r1}}}
=============================================================================
