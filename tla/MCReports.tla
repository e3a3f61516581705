----------------------------- MODULE MCReports -----------------------------
(* Dumps of three requests, one of them dropped, whose p95 are 1, 2, 2 and *)
(* 4; a repeat may be without its dump.  The cost rows are exact, at the   *)
(* bar, beyond it, and 0; the latency rows are within it, saved by their   *)
(* absolute error, or neither; of the rows for the noise band some are     *)
(* J's.  Each study varies a part of that.                                 *)
EXTENDS Reports

Out(dumped, dump) == [clean |-> TRUE, dumped |-> dumped, dump |-> dump]
Two  == {Out(TRUE, <<9, 1, 1>>), Out(TRUE, <<9, 1, 2>>)}
Four == Two \cup {Out(TRUE, <<9, 2, 1>>), Out(TRUE, <<1, 1, 4>>), Out(FALSE, <<1, 1, 2>>)}

Sum(e2e, thr) == [m \in Metrics |-> IF m \in Latency THEN e2e ELSE thr]
PairOf(c, e, f, t, r, g) == [of |-> c, sim |-> Sum(e, t), real |-> Sum(f, r), gpu |-> g]
Pair(e, f, t, r, g) == PairOf("K", e, f, t, r, g)
Base == PairOf("A", 4, 5, 20, 20, 9)
Plan(a, j, c, k) == [d \in Configs |-> CASE d = "A" -> a [] d = "J" -> j [] d = "C" -> c [] d = "K" -> k]

(* One for the scores, one for the noise, one for the modes, one for the   *)
(* ladder.                                                                 *)
MCStudies ==
  {[pairs |-> <<Base, Pair(e, f, t, r, g)>>, repeats |-> Plan(0, 1, 0, 0), outcomes |-> {}] :
      e \in {4, 5, None}, f \in {0, 5}, t \in {23, 30, 31}, r \in {0, 20, 27}, g \in {8, 9}}
    \cup {[pairs    |-> <<Base, Pair(4, 5, 23, 20, 8), Pair(5, 5, 23, 20, 8), Pair(4, 7, 20, 21, 7),
                        PairOf("J", 4, 5, 23, 20, 8), PairOf("J", 5, 5, 23, 20, 8)>>,
           repeats  |-> Plan(2, 2, 0, 0), outcomes |-> Two \cup {Out(TRUE, <<1, 1, 3>>)}],
          [pairs    |-> <<Base>>, repeats |-> Plan(0, 3, 0, 0), outcomes |-> Four],
          [pairs    |-> <<Base>>, repeats |-> Plan(2, 0, 2, 2), outcomes |-> Two]}
=============================================================================
