---------------------------- MODULE MCLifecycle ----------------------------
(* Lifecycle on three users who share two join codes and two matches, one  *)
(* of the two challenge versions having no starting files.                 *)
EXTENDS Lifecycle, TLC

CONSTANTS u1, u2, u3, m1, m2, k1, k2, full, bare

MCDuration == [c \in Challenge |-> 1]
Symmetric == Permutations(User) \cup Permutations(Match) \cup Permutations(Code)
=============================================================================
