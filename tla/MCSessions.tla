---------------------------- MODULE MCSessions -----------------------------
(* Two sessions and two runs with the same plan.                           *)
EXTENDS Sessions, TLC

CONSTANTS s1, s2, r1, r2, n1, t1, p1, p2

MCMatchOf == [r \in {r1, r2} |-> n1 :> t1]
=============================================================================
