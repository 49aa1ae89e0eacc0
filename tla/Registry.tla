------------------------------ MODULE Registry ------------------------------
(***************************************************************************)
(* What registering promises of a challenge version: it is registered once *)
(* and never changes, and only whole starting trees are stored for it.  A  *)
(* tree may come later than the version.  It may even join another one,    *)
(* but no file that is stored is ever replaced or removed.                 *)
(***************************************************************************)
EXTENDS Naturals

CONSTANTS
  Key,     \* challenge versions
  Offer,   \* key -> what may be registered for it: [entry, tree]
  Path,    \* paths of files
  Absent   \* not registered, or no file

VARIABLES
  entry,   \* key -> what is registered
  tree     \* key -> path -> content

Join(t, u) == [p \in Path |-> IF t[p] # Absent THEN t[p] ELSE u[p]]
Agree(t, u) == \A p \in Path : Absent \in {t[p], u[p]} \/ t[p] = u[p]

Register(k, o) ==
  /\ entry[k] = Absent
  /\ entry' = [entry EXCEPT ![k] = o.entry]
  /\ tree' = [tree EXCEPT ![k] = o.tree]

Fill(k, o) ==
  /\ entry[k] = o.entry
  /\ Agree(tree[k], o.tree)
  /\ tree' = [tree EXCEPT ![k] = Join(tree[k], o.tree)]
  /\ UNCHANGED entry

\* Versions may be there from before there were trees.
Init == \A k \in Key : tree[k] = [p \in Path |-> Absent]

Next == \E k \in Key : \E o \in Offer[k] : Register(k, o) \/ Fill(k, o)

Spec == Init /\ [][Next]_<<entry, tree>>
=============================================================================
