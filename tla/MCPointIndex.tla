---------------------------- MODULE MCPointIndex ----------------------------
(* PointIndex for TLC: which thread lives in which process. *)
EXTENDS PointIndex, TLC
CONSTANTS w1, w2, p1, p2

OneProcess   == [w \in {w1, w2} |-> p1]
TwoProcesses == (w1 :> p1) @@ (w2 :> p2)
OneThread    == (w1 :> p1)
=============================================================================
