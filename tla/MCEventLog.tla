----------------------------- MODULE MCEventLog -----------------------------
(* Writers and a reader on the logs of two matches.                        *)
EXTENDS EventLog, TLC

CONSTANTS m1, m2, w1, w2, r1, start, finish

Symmetric == Permutations(Writer) \cup Permutations(Reader) \cup Permutations(Kind)
               \cup Permutations(Match)
=============================================================================
