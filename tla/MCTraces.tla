------------------------------ MODULE MCTraces ------------------------------
(* Two sessions of two turns, bursts of one or two, prompts shorter and    *)
(* longer than the prefix, and a gap wider than most of the arrivals'.     *)
EXTENDS Traces

MCSizes == <<1, 4>>
=============================================================================
