---------------------------- MODULE MCWorkspaces ----------------------------
(* Workspaces of one match between two players, who start with one file.   *)
EXTENDS Workspaces, TLC

CONSTANTS u1, u2, u3, m1, k1, full, s1, s2, s3, p0, p1, p2, short, long

MCDuration == [h \in Challenge |-> 1]
MCSize == [c \in Content |-> IF c = long THEN 2 ELSE 1]
MCStarting == [h \in Challenge |-> [p \in Path |-> IF p = p0 THEN short ELSE Null]]
Symmetric == Permutations(User) \cup Permutations(Saver) \cup Permutations(Path \ {p0})
=============================================================================
