--------------------------- MODULE MCCalibration ---------------------------
(* Two streams, two points; the second is too long for the pool, so that   *)
(* gen_for shortens it.                                                    *)
EXTENDS Calibration

MCGrid  == <<[B |-> 2, C |-> 4], [B |-> 2, C |-> 8]>>
MCCheck == <<[B |-> 1, C |-> 4]>>
=============================================================================
