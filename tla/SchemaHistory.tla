--------------------------- MODULE SchemaHistory ---------------------------
(***************************************************************************)
(* What migrating promises of the schema, whoever migrates and whatever    *)
(* fails: the migrations that have run are the first ones of one binary's  *)
(* set, in order, each once; another is only ever added at the end; and    *)
(* the table that records them says so.                                    *)
(***************************************************************************)
EXTENDS Naturals, Sequences

CONSTANTS
  Lineages,  \* the sequences of migrations that binaries carry
  Version,   \* versions that the table can hold
  Null       \* not recorded

VARIABLES
  history,   \* the migrations that have run, in the order they ran
  table      \* version -> what it was recorded with

Prefix(s, t) == Len(s) <= Len(t) /\ \A i \in 1..Len(s) : s[i] = t[i]
Recorded(s) == [v \in Version |-> IF v \in 1..Len(s) THEN s[v] ELSE Null]

Init ==
  /\ \E l \in Lineages : Prefix(history, l)
  /\ table = Recorded(history)

Next == \E l \in Lineages :
  /\ Prefix(history', l)
  /\ Prefix(history, history')
  /\ Len(history') = Len(history) + 1
  /\ table' = Recorded(history')

Spec == Init /\ [][Next]_<<history, table>>
=============================================================================
