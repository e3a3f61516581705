---------------------------- MODULE MCBenchClient ---------------------------
(* Traces for the run of BenchClient: four requests, so that one may come  *)
(* while another has been woken and not gone on.                           *)
EXTENDS BenchClient

AllTraces == {<<0, 0, 0, 1>>, <<0, 0, 1>>, <<0, 1, 1>>, <<0, 1, 2>>}
=============================================================================
