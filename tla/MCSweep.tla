------------------------------ MODULE MCSweep ------------------------------
(* Three configurations, two speeds.  The tables hold each p95 below, on   *)
(* and beyond the guard, and costs that tie.                               *)
EXTENDS Sweep

A == "A"  G == "G"  H == "H"
MCConfigs == <<G, A, H>>
MCSpeeds  == <<2, 3>>
MCAnchors == <<[sp \in 1 .. 2 |-> 10 * sp], <<9, 20>> >>

Row(cost, p95) == [cost |-> cost, p95 |-> p95]
MCTables ==
  {[cell \in {A, G, H} \X (1 .. 2) |->
      CASE cell = <<A, 1>> -> Row(3, 10)
        [] cell = <<A, 2>> -> Row(2, 20)
        [] cell = <<G, 1>> -> Row(g, p)
        [] cell = <<G, 2>> -> Row(g - 1, q)
        [] cell = <<H, 1>> -> Row(3, r)
        [] cell = <<H, 2>> -> Row(2, h)] :
    g \in {2, 3}, p \in {11, 12}, q \in {22, 23}, r \in {9, 11}, h \in {22, 23}}
=============================================================================
