----------------------------- MODULE MCMatches -----------------------------
(* Matches on a few users, rows, codes and connections.                    *)
EXTENDS Matches, TLC

CONSTANTS u1, u2, u3, m1, m2, k1, k2, full, bare, c1, c2, c3

MCDuration == [h \in Challenge |-> 1]
Symmetric == Permutations(User) \cup Permutations(Match) \cup Permutations(Code)
               \cup Permutations(Conn)
=============================================================================
