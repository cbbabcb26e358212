----------------------------- MODULE MCGateway -----------------------------
(* Small instances of Gateway for TLC. *)
EXTENDS Gateway, TLC

CONSTANTS m1, m2, t1, t2, c1, c2, r1, r2, r3

OneConv == [m \in Messages |-> c1]
OwnConv == [m \in Messages |-> IF m = m1 THEN c1 ELSE c2]
RunSymmetry == Permutations(Runs)
=============================================================================
