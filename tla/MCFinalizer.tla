---------------------------- MODULE MCFinalizer ----------------------------
(* Two matches of four players, one player connection and two workers.     *)
EXTENDS Finalizer, TLC

CONSTANTS u1, u2, u3, u4, m1, m2, k1, brief, slow, c1, w1, w2

MCSeating == (m1 :> <<u1, u2>>) @@ (m2 :> <<u3, u4>>)
MCDuration == [h \in Challenge |-> IF h = brief THEN 1 ELSE 2]
Symmetric == Permutations(Worker)
=============================================================================
