---------------------------- MODULE MCBenchQueue ----------------------------
(* Drivers for the runs of BenchQueue. *)
EXTENDS BenchQueue, TLC

CONSTANTS n1, n2, l1

TwoNoise  == {n1, n2}
OneLadder == {l1}
Both      == {n1, l1}

ScriptOf(D) == [d \in D |-> IF d = l1 THEN "ladder" ELSE "noise"]
NoiseScripts  == ScriptOf(TwoNoise)
LadderScripts == ScriptOf(OneLadder)
BothScripts   == ScriptOf(Both)

\* The two executions of a script are alike.
Alike == Permutations(TwoNoise)
=============================================================================
