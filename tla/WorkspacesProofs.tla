-------------------------- MODULE WorkspacesProofs --------------------------
(***************************************************************************)
(* Proofs about the files players edit, for any number of matches, users,  *)
(* paths and connections: where files may appear, how far a tree may       *)
(* outgrow the ceilings on its files and bytes, and who may still write    *)
(* after the match has ended.                                              *)
(***************************************************************************)
EXTENDS Workspaces, FiniteSetTheorems, TLAPS

-----------------------------------------------------------------------------
(***************************************************************************)
(* The inductive invariant.                                                *)
(***************************************************************************)
Save == [at : {"idle", "active", "room", "write", "commit"},
         match : Match \cup {Null}, user : User \cup {Null},
         path : Path \cup {Null}, new : Content \cup {Null}, lands : BOOLEAN]

Played(r, u) == Has(r, u) /\ r.state \in {"active", "judging"}
Admitted(t) == t.at \in {"room", "write", "commit"}

\* A save that passed the check belongs to a player of a match that started.
Placed(t, rows) ==
  /\ t.at # "idle" => t.match \in Match /\ t.user \in User /\ t.path \in Path
  /\ t.at = "room" => t.new \in Content
  /\ Storable(t.new)
  /\ Admitted(t) => Played(rows[t.match], t.user)

(***************************************************************************)
(* The two ceilings are one when a tree is a set of cells: cell 0 of a     *)
(* path stands for the file, cells 1, 2, ... for its bytes.                *)
(***************************************************************************)
Kind == {"files", "bytes"}
Offset(k) == IF k = "files" THEN {0} ELSE 1..MaxFileBytes
Ceiling(k) == IF k = "files" THEN MaxFiles ELSE MaxBytes
Limit(k) == Ceiling(k) + Rivals * Cardinality(Offset(k))
Cells(k) == Path \X Offset(k)
Kept(tree, k) == {o \in Cells(k) : tree[o[1]] # Null /\ o[2] <= Size[tree[o[1]]]}

(***************************************************************************)
(* What a tree may yet become: the cells it has, and those that saves past *)
(* their measurement are going to add.  The bound on the tree is not       *)
(* inductive; the bound on this set is, because committing such a save     *)
(* moves its cells from one part to the other.                             *)
(***************************************************************************)
Adder(t, m, u) ==
  t.at \in {"write", "commit"} /\ t.match = m /\ t.user = u /\ t.new # Null
Brings(t, o, m, u) == Adder(t, m, u) /\ t.path = o[1] /\ o[2] <= Size[t.new]
Coming(sv, m, u, k) == {o \in Cells(k) : \E s \in Saver : Brings(sv[s], o, m, u)}
Claimed(tree, sv, m, u, k) == Kept(tree, k) \cup Coming(sv, m, u, k)
Bounded(fs, sv) == \A m \in Match, u \in User, k \in Kind :
  Cardinality(Claimed(fs[m][u], sv, m, u, k)) <= Limit(k)

IInv ==
  /\ row \in [Match -> Row]
  /\ now \in Nat
  /\ TypeOK
  /\ \A s \in Saver : Placed(save[s], row)
  /\ \A m \in Match, u \in User, p \in Path : Storable(files[m][u][p])
  /\ FilesOnlyWherePlayed
  /\ Bounded(files, save)

-----------------------------------------------------------------------------
(***************************************************************************)
(* The life of the match, as far as files depend on it: a match that is    *)
(* played stays so with the same players, and becomes so only by a start   *)
(* of a lobby whose challenge has files.                                   *)
(***************************************************************************)
Onward(r, q) ==
  /\ q \in Row
  /\ r.state \in {"active", "judging"} =>
       q.state \in {"active", "judging"} /\ q.seat = r.seat
  /\ q.state \in {"active", "judging"} =>
       \/ r.state \in {"active", "judging"}
       \/ r.state = "lobby" /\ q.state = "active" /\ q.seat = r.seat
            /\ r.challenge \in Stocked

LEMMA LifeSameRows ==
  /\ Life!NoRow = NoRow
  /\ \A u, k, h : Life!NewLobby(u, k, h) = NewLobby(u, k, h)
  /\ \A r : (Life!Full(r) <=> Full(r)) /\ Life!FreeSlot(r) = FreeSlot(r)
  /\ \A r, u : Life!Has(r, u) <=> Has(r, u)
  /\ \A r, u, t : Life!Started(r, u, t) = Started(r, u, t)
BY DEF Life!NoRow, NoRow, Life!NewLobby, NewLobby, Life!Full, Full,
       Life!FreeSlot, FreeSlot, Life!Has, Has, Life!Started, Started,
       Life!Slot, Slot

\* A row with a free seat has a lowest one.
LEMMA FreeSlotIsFree ==
  ASSUME NEW r \in Row, ~Full(r)
  PROVE  FreeSlot(r) \in Slot
<1>1. \E s \in Slot : r.seat[s] = Null
  BY DEF Full
<1>2. \E s \in Slot : r.seat[s] = Null /\ \A t \in Slot : r.seat[t] = Null => s <= t
  <2>1. CASE r.seat[1] = Null
    BY <2>1 DEF Slot
  <2>2. CASE r.seat[1] # Null
    BY <1>1, <2>2 DEF Slot
  <2> QED BY <2>1, <2>2
<1> QED BY <1>2 DEF FreeSlot

\* Any row but one that changes is as it was.
LEMMA OneRowMoves ==
  ASSUME row \in [Match -> Row], NEW m \in Match, NEW q, row' = [row EXCEPT ![m] = q],
         Onward(row[m], q)
  PROVE  row' \in [Match -> Row] /\ \A n \in Match : Onward(row[n], row'[n])
BY DEF Onward

LEMMA LifeStep ==
  ASSUME row \in [Match -> Row], now \in Nat, Life!Next
  PROVE  row' \in [Match -> Row] /\ \A m \in Match : Onward(row[m], row'[m])
<1> DEFINE Goal == row' \in [Match -> Row] /\ \A m \in Match : Onward(row[m], row'[m])
<1>1. ASSUME NEW u \in User, NEW m \in Match, NEW k \in Code, NEW c \in Challenge,
             Life!CreateLobby(u, m, k, c)
      PROVE  Goal
  <2>1. PICK q : q = NewLobby(u, k, c)
    OBVIOUS
  <2>2. q \in Row /\ q.state = "lobby"
    BY <2>1, RowAssumption DEF NewLobby, NoRow, Row, State
  <2>3. row' = [row EXCEPT ![m] = q] /\ row[m].state = "none"
    <3>1. NoRow.state = "none"
      BY DEF NoRow
    <3>2. row[m] = NoRow /\ row' = [row EXCEPT ![m] = NewLobby(u, k, c)]
      BY <1>1, LifeSameRows DEF Life!CreateLobby
    <3> QED BY <2>1, <3>1, <3>2
  <2> QED BY <2>2, <2>3, OneRowMoves DEF Onward
<1>2. ASSUME NEW u \in User, NEW m \in Match, Life!JoinLobby(u, m)
      PROVE  Goal
  <2>1. PICK q : q = [row[m] EXCEPT !.seat[FreeSlot(row[m])] = u]
    OBVIOUS
  <2>2. /\ row' = [row EXCEPT ![m] = q] /\ row[m].state = "lobby"
        /\ FreeSlot(row[m]) \in Slot
    BY <1>2, <2>1, LifeSameRows, FreeSlotIsFree DEF Life!JoinLobby
  <2>3. q \in Row /\ q.state = "lobby"
    BY <2>1, <2>2 DEF Row
  <2> QED BY <2>2, <2>3, OneRowMoves DEF Onward
<1>3. ASSUME NEW u \in User, NEW m \in Match, Life!CancelLobby(u, m)
      PROVE  Goal
  <2>1. PICK t \in 0..now : row' = [row EXCEPT ![m].state = "abandoned", ![m].ended = t]
    BY <1>3 DEF Life!CancelLobby
  <2>2. PICK q : q = [row[m] EXCEPT !.state = "abandoned", !.ended = t]
    OBVIOUS
  <2>3. row' = [row EXCEPT ![m] = q] /\ row[m].state = "lobby"
    BY <1>3, <2>1, <2>2 DEF Life!CancelLobby
  <2>4. q \in Row /\ q.state = "abandoned"
    <3>1. row[m] \in Row /\ t \in Nat /\ "abandoned" \in State
      BY DEF State
    <3> QED BY <2>2, <3>1 DEF Row
  <2> QED BY <2>3, <2>4, OneRowMoves DEF Onward
<1>4. ASSUME NEW u \in User, NEW m \in Match, Life!Ready(u, m)
      PROVE  Goal
  <2>1. PICK q : q = [row[m] EXCEPT !.ready = @ \cup {u}]
    OBVIOUS
  <2>2. row' = [row EXCEPT ![m] = q] /\ row[m].state = "lobby"
    BY <1>4, <2>1 DEF Life!Ready, Life!MayReady
  <2>3. q \in Row /\ q.state = "lobby"
    BY <2>1, <2>2, ZenonT(40) DEF Row
  <2> QED BY <2>2, <2>3, OneRowMoves DEF Onward
<1>5. ASSUME NEW u \in User, NEW m \in Match, Life!Start(u, m)
      PROVE  Goal
  <2>1. PICK t \in 0..now : row' = [row EXCEPT ![m] = Started(row[m], u, t)]
    BY <1>5, LifeSameRows DEF Life!Start
  <2>2. PICK q : q = Started(row[m], u, t)
    OBVIOUS
  <2>3. /\ row' = [row EXCEPT ![m] = q] /\ row[m].state = "lobby"
        /\ row[m].challenge \in Stocked
    BY <1>5, <2>1, <2>2 DEF Life!Start, Life!MayReady
  <2>4. t + Duration[row[m].challenge] \in Nat
    BY <2>3, RowAssumption
  <2>5. q \in Row /\ q.state = "active" /\ q.seat = row[m].seat
    <3>1. row[m] \in Row /\ t \in Nat /\ "active" \in State
      BY DEF State
    <3>2. row[m].ready \cup {u} \in SUBSET User
      BY <3>1 DEF Row
    <3> QED BY <2>2, <2>4, <3>1, <3>2 DEF Started, Row
  <2> QED BY <2>3, <2>5, OneRowMoves DEF Onward
<1>6. ASSUME NEW u \in User, NEW m \in Match, Life!Submit(u, m)
      PROVE  Goal
  <2>1. PICK x \in {"active", "judging"} :
          row' = [row EXCEPT ![m].submitted = @ \cup {u}, ![m].state = x]
    BY <1>6 DEF Life!Submit
  <2>2. PICK q : q = [row[m] EXCEPT !.submitted = @ \cup {u}, !.state = x]
    OBVIOUS
  <2>3. row' = [row EXCEPT ![m] = q] /\ row[m].state = "active"
    BY <1>6, <2>1, <2>2 DEF Life!Submit
  <2>4. q \in Row /\ q.state = x /\ q.seat = row[m].seat
    BY <2>2, ZenonT(40) DEF Row, State
  <2> QED BY <2>3, <2>4, OneRowMoves DEF Onward
<1>7. ASSUME NEW S \in SUBSET Match, Life!Expire(S)
      PROVE  Goal
  <2>1. \A m \in Match : LET q == [row[m] EXCEPT !.state = "judging"] IN
          q \in Row /\ q.state = "judging" /\ q.seat = row[m].seat
    BY ZenonT(40) DEF Row, State
  <2>2. \A m \in S : row[m].state = "active"
    BY <1>7 DEF Life!Expire, Life!Due
  <2> QED BY <1>7, <2>1, <2>2 DEF Life!Expire, Onward
<1>8. CASE Life!Tick
  BY <1>8 DEF Life!Tick, Onward
<1> QED
  BY <1>1, <1>2, <1>3, <1>4, <1>5, <1>6, <1>7, <1>8 DEF Life!Next, Life!PlayerStep

-----------------------------------------------------------------------------
(***************************************************************************)
(* Counting.                                                               *)
(***************************************************************************)

LEMMA Numbers ==
  ASSUME NEW k \in Kind
  PROVE  /\ Offset(k) \in SUBSET Nat /\ IsFiniteSet(Offset(k))
         /\ Cardinality(Offset(k)) \in Nat
         /\ Rivals \in Nat /\ Ceiling(k) \in Nat
         /\ Rivals * Cardinality(Offset(k)) \in Nat
         /\ Limit(k) = Ceiling(k) + Rivals * Cardinality(Offset(k))
<1>1. /\ IsFiniteSet(Saver) /\ Saver # {}
      /\ MaxFiles \in Nat /\ MaxBytes \in Nat /\ MaxFileBytes \in Nat
  BY WorkspacesAssumption
<1>2. Rivals \in Nat
  <2>1. Cardinality(Saver) \in Nat /\ Cardinality(Saver) # 0
    BY <1>1, FS_CardinalityType, FS_EmptySet
  <2> QED BY <2>1 DEF Rivals
<1>3. IsFiniteSet(Offset(k))
  <2>1. IsFiniteSet({0})
    BY FS_Singleton
  <2>2. IsFiniteSet(1..MaxFileBytes)
    BY <1>1, FS_Interval
  <2> QED BY <2>1, <2>2 DEF Offset
<1>4. Cardinality(Offset(k)) \in Nat
  BY <1>3, FS_CardinalityType
<1>5. \A a, b \in Nat : a * b \in Nat
  OBVIOUS
<1> QED BY <1>1, <1>2, <1>3, <1>4, <1>5 DEF Offset, Ceiling, Limit

\* A set of cells has a size, and a part of it no larger one.
LEMMA CellsCount ==
  ASSUME NEW k \in Kind, NEW A \in SUBSET Cells(k), NEW B \in SUBSET A
  PROVE  /\ IsFiniteSet(A) /\ Cardinality(A) \in Nat
         /\ Cardinality(B) \in Nat /\ Cardinality(B) <= Cardinality(A)
<1>1. IsFiniteSet(Cells(k))
  <2>1. IsFiniteSet(Path) /\ IsFiniteSet(Offset(k))
    BY WorkspacesAssumption, Numbers
  <2> QED BY <2>1, FS_Product DEF Cells
<1>2. IsFiniteSet(A)
  BY <1>1, FS_Subset
<1>3. IsFiniteSet(B) /\ Cardinality(B) <= Cardinality(A)
  BY <1>2, FS_Subset
<1> QED BY <1>2, <1>3, FS_CardinalityType

\* What lays claim to no more than before stays within the bound.
LEMMA ClaimsShrink ==
  ASSUME NEW k \in Kind, NEW A \in SUBSET Cells(k), NEW B \in SUBSET A,
         Cardinality(A) <= Limit(k)
  PROVE  Cardinality(B) <= Limit(k)
BY CellsCount, Numbers

\* The other connections bring one file each, of at most the largest size.
LEMMA OthersBringOneEach ==
  ASSUME NEW k \in Kind, NEW s \in Saver, NEW path,
         NEW D \in SUBSET ((Saver \ {s}) \X Offset(k)), NEW R \in SUBSET Cells(k),
         \A d \in D : <<path[d[1]], d[2]>> \in R,
         \A o \in R : \E d \in D : o = <<path[d[1]], d[2]>>
  PROVE  Cardinality(R) <= Rivals * Cardinality(Offset(k))
<1> DEFINE f == [d \in D |-> <<path[d[1]], d[2]>>]
<1>1. IsFiniteSet(Saver)
  BY WorkspacesAssumption
<1>2. IsFiniteSet(Saver \ {s}) /\ Cardinality(Saver \ {s}) = Rivals
  BY <1>1, FS_RemoveElement DEF Rivals
<1>3. /\ IsFiniteSet((Saver \ {s}) \X Offset(k))
      /\ Cardinality((Saver \ {s}) \X Offset(k)) = Rivals * Cardinality(Offset(k))
  BY <1>2, Numbers, FS_Product
<1>4. IsFiniteSet(D) /\ Cardinality(D) <= Rivals * Cardinality(Offset(k))
  BY <1>3, FS_Subset
<1>5. f \in Surjection(D, R)
  BY DEF Surjection
<1>6. Cardinality(R) <= Cardinality(D) /\ IsFiniteSet(R)
  BY <1>4, <1>5, FS_Surjection
<1>7. Cardinality(R) \in Nat /\ Cardinality(D) \in Nat
  BY <1>4, <1>6, FS_CardinalityType
<1> QED BY <1>4, <1>6, <1>7, Numbers

(***************************************************************************)
(* The cells of a tree count what the code's query counts.                 *)
(***************************************************************************)
LEMMA KeptMeasures ==
  ASSUME NEW tree \in Tree, \A p \in Path : Storable(tree[p])
  PROVE  /\ Cardinality(Kept(tree, "files")) = Count(tree)
         /\ Cardinality(Kept(tree, "bytes")) = Bytes(tree)
<1>1. \A p \in Files(tree) : p \in Path /\ Size[tree[p]] \in 0..MaxFileBytes
  BY WorkspacesAssumption DEF Files, Tree, Storable
<1>2. Kept(tree, "files") = Files(tree) \X {0}
  BY <1>1 DEF Kept, Cells, Offset, Files
<1>3. IsFiniteSet(Files(tree)) /\ Cardinality(Files(tree)) \in Nat
  <2>1. IsFiniteSet(Path) /\ Files(tree) \in SUBSET Path
    BY WorkspacesAssumption DEF Files
  <2> QED BY <2>1, FS_Subset, FS_CardinalityType
<1>4. Cardinality(Files(tree) \X {0}) = Cardinality(Files(tree)) * Cardinality({0})
  BY <1>3, FS_Singleton, FS_Product
<1>5. Cardinality({0}) = 1
  BY FS_Singleton
<1>6. Cardinality(Kept(tree, "files")) = Count(tree)
  BY <1>2, <1>3, <1>4, <1>5 DEF Count
<1>7. Kept(tree, "bytes") = UNION {{p} \X (1..Size[tree[p]]) : p \in Files(tree)}
  <2> DEFINE U == UNION {{p} \X (1..Size[tree[p]]) : p \in Files(tree)}
  <2>1. ASSUME NEW o \in Kept(tree, "bytes")
        PROVE  o \in U
    <3>1. o[1] \in Files(tree) /\ o \in {o[1]} \X (1..Size[tree[o[1]]])
      BY <1>1 DEF Kept, Cells, Offset, Files
    <3> QED BY <3>1
  <2>2. ASSUME NEW o \in U
        PROVE  o \in Kept(tree, "bytes")
    <3>1. PICK p \in Files(tree) : o \in {p} \X (1..Size[tree[p]])
      OBVIOUS
    <3> QED BY <1>1, <3>1, WorkspacesAssumption DEF Kept, Cells, Offset, Files
  <2> QED BY <2>1, <2>2
<1> QED BY <1>6, <1>7 DEF Bytes

\* A tree that was seeded is within both ceilings.
LEMMA StartingFits ==
  ASSUME NEW c \in Challenge
  PROVE  /\ Starting[c] \in Tree
         /\ \A p \in Path : Storable(Starting[c][p])
         /\ \A k \in Kind : Cardinality(Kept(Starting[c], k)) <= Ceiling(k)
<1>1. /\ Starting[c] \in Tree
      /\ \A p \in Path : Storable(Starting[c][p])
      /\ Count(Starting[c]) <= MaxFiles /\ Bytes(Starting[c]) <= MaxBytes
  BY WorkspacesAssumption
<1> QED BY <1>1, KeptMeasures DEF Kind, Ceiling

-----------------------------------------------------------------------------
(***************************************************************************)
(* A step of one save.                                                     *)
(***************************************************************************)
LEMMA OneSaveMoves ==
  ASSUME IInv, NEW s \in Saver, NEW t \in Save, save' = [save EXCEPT ![s] = t],
         UNCHANGED <<row, now, files>>, Placed(t, row), Bounded(files, save')
  PROVE  IInv'
<1>1. TypeOK'
  BY DEF IInv, TypeOK, Save
<1>2. \A x \in Saver : Placed(save'[x], row)
  BY DEF IInv, TypeOK
<1>3. FilesOnlyWherePlayed'
  BY DEF IInv, FilesOnlyWherePlayed
<1>4. \A m \in Match, u \in User, p \in Path : Storable(files'[m][u][p])
  BY DEF IInv
<1> QED BY <1>1, <1>2, <1>3, <1>4 DEF IInv, Bounded

\* A save that lays claim to nothing new keeps the bound.
LEMMA NothingNewIsComing ==
  ASSUME IInv, NEW s \in Saver, NEW t \in Save, save' = [save EXCEPT ![s] = t],
         t.at \in {"write", "commit"} /\ t.new # Null =>
           /\ save[s].at \in {"write", "commit"}
           /\ t.match = save[s].match /\ t.user = save[s].user
           /\ t.path = save[s].path /\ t.new = save[s].new
  PROVE  Bounded(files, save')
<1> SUFFICES ASSUME NEW m \in Match, NEW u \in User, NEW k \in Kind
             PROVE  Cardinality(Claimed(files[m][u], save', m, u, k)) <= Limit(k)
  BY DEF Bounded
<1>1. Coming(save', m, u, k) \subseteq Coming(save, m, u, k)
  BY DEF Coming, Brings, Adder, IInv, TypeOK
<1>2. Claimed(files[m][u], save', m, u, k) \subseteq Claimed(files[m][u], save, m, u, k)
  BY <1>1 DEF Claimed
<1>3. Claimed(files[m][u], save, m, u, k) \in SUBSET Cells(k)
  BY DEF Claimed, Kept, Coming
<1> QED BY <1>2, <1>3, ClaimsShrink DEF IInv, Bounded

LEMMA NoSaveIsSave == NoSave \in Save /\ NoSave.at = "idle" /\ NoSave.new = Null
BY DEF NoSave, Save

LEMMA LeaveKeeps ==
  ASSUME IInv, NEW s \in Saver, Leave(s), UNCHANGED <<row, now, files>>
  PROVE  IInv'
<1>1. PICK t : t = NoSave
  OBVIOUS
<1>2. t \in Save /\ t.at = "idle" /\ t.new = Null /\ save' = [save EXCEPT ![s] = t]
  BY <1>1, NoSaveIsSave DEF Leave
<1>3. Placed(t, row)
  BY <1>2 DEF Placed, Admitted, Storable
<1> QED BY <1>2, <1>3, NothingNewIsComing, OneSaveMoves

\* A save that goes on to its next statement.
LEMMA ContinueIsSave ==
  ASSUME IInv, NEW s \in Saver, NEW step \in {"room", "write", "commit"}, NEW t,
         t = [save[s] EXCEPT !.at = step]
  PROVE  /\ t \in Save /\ t.at = step /\ t.lands = save[s].lands
         /\ t.match = save[s].match /\ t.user = save[s].user
         /\ t.path = save[s].path /\ t.new = save[s].new
BY DEF IInv, TypeOK, Save

LEMMA BeginKeeps ==
  ASSUME IInv, NEW s \in Saver, NEW u \in User, NEW m \in Match, NEW p \in Path,
         NEW new \in Content \cup {Null}, Begin(s, u, m, p, new)
  PROVE  IInv'
<1>1. PICK t : t = [NoSave EXCEPT !.at = "active", !.match = m, !.user = u,
                                  !.path = p, !.new = new]
  OBVIOUS
<1>2. /\ t \in Save /\ t.at = "active" /\ t.match = m /\ t.user = u /\ t.path = p
      /\ t.new = new
  BY <1>1 DEF NoSave, Save
<1>3. save' = [save EXCEPT ![s] = t] /\ UNCHANGED <<row, now, files>> /\ Storable(new)
  BY <1>1 DEF Begin
<1>4. Placed(t, row)
  BY <1>2, <1>3 DEF Placed, Admitted
<1> QED BY <1>2, <1>3, <1>4, NothingNewIsComing, OneSaveMoves

LEMMA RequireActiveKeeps ==
  ASSUME IInv, NEW s \in Saver, requireActive(s)
  PROVE  IInv'
<1>1. CASE Leave(s)
  BY <1>1, LeaveKeeps DEF requireActive
<1>2. CASE ~Leave(s)
  <2>1. PICK step \in {"room", "write", "commit"} :
          /\ save' = [save EXCEPT ![s].at = step]
          /\ step = IF save[s].new = Null THEN "write" ELSE "room"
    BY <1>2 DEF requireActive, Continue
  <2>2. PICK t : t = [save[s] EXCEPT !.at = step]
    OBVIOUS
  <2>3. /\ t \in Save /\ t.at = step /\ t.match = save[s].match /\ t.user = save[s].user
        /\ t.path = save[s].path /\ t.new = save[s].new
    BY <2>2, ContinueIsSave
  <2>4. save' = [save EXCEPT ![s] = t] /\ UNCHANGED <<row, now, files>>
    BY <2>1, <2>2 DEF requireActive
  <2>5. Placed(t, row)
    <3>1. save[s].at = "active" /\ Played(row[save[s].match], save[s].user)
      BY <1>2 DEF requireActive, Played
    <3>2. t.new \in Content \cup {Null}
      BY <2>3 DEF Save
    <3> QED BY <2>1, <2>3, <3>1, <3>2 DEF IInv, Placed, Admitted
  <2>6. t.at = "room" \/ t.new = Null
    BY <2>1, <2>3
  <2> QED BY <2>3, <2>4, <2>5, <2>6, NothingNewIsComing, OneSaveMoves
<1> QED BY <1>1, <1>2

(***************************************************************************)
(* The measurement: what was measured is the committed tree, within the    *)
(* ceiling with the new file, and every rival may bring one file more.     *)
(* Where the file to replace is the larger one, nothing new is claimed.    *)
(***************************************************************************)
LEMMA MeasuredWithRivals ==
  ASSUME IInv, NEW s \in Saver, NEW k \in Kind, Fits(s),
         NEW m \in Match, NEW u \in User, NEW p \in Path,
         save[s].match = m, save[s].user = u, save[s].path = p, save[s].new \in Content,
         files[m][u][p] = Null \/ Size[files[m][u][p]] <= Size[save[s].new],
         NEW sv, \A x \in Saver \ {s} : sv[x] = save[x],
         sv[s].path = p, sv[s].new = save[s].new
  PROVE  Cardinality(Claimed(files[m][u], sv, m, u, k)) <= Limit(k)
<1> DEFINE tree == files[m][u]
           new == save[s].new
           A == {o \in Kept(tree, k) : o[1] # p}
           N == {i \in Offset(k) : i <= Size[new]}
           B == {p} \X N
           D == {d \in (Saver \ {s}) \X Offset(k) : save[d[1]].path \in Path}
           R == {<<save[d[1]].path, d[2]>> : d \in D}
<1>1. tree \in Tree /\ Size[new] \in 0..MaxFileBytes
  BY WorkspacesAssumption DEF IInv, TypeOK, Placed, Storable
<1>2. PICK others : others = [tree EXCEPT ![p] = Null]
  OBVIOUS
<1>3. others \in Tree /\ \A q \in Path : Storable(others[q])
  BY <1>1, <1>2 DEF IInv, Storable, Tree
<1>4. A = Kept(others, k) /\ A \in SUBSET Cells(k)
  BY <1>1, <1>2 DEF Kept, Cells, Tree
<1>5. /\ IsFiniteSet(N) /\ Cardinality(N) = IF k = "files" THEN 1 ELSE Size[new]
      /\ N \in SUBSET Offset(k)
  <2>1. CASE k = "files"
    <3>1. N = {0}
      BY <1>1, <2>1 DEF Offset
    <3> QED BY <2>1, <3>1, FS_Singleton
  <2>2. CASE k = "bytes"
    <3>1. N = 1..Size[new]
      BY <1>1, <2>2, WorkspacesAssumption DEF Offset
    <3>2. IsFiniteSet(1..Size[new]) /\ Cardinality(1..Size[new]) = Size[new]
      BY <1>1, FS_Interval
    <3>3. N \in SUBSET Offset(k)
      OBVIOUS
    <3> HIDE DEF N
    <3> QED BY <2>2, <3>1, <3>2, <3>3
  <2> QED BY <2>1, <2>2 DEF Kind
<1>6. Cardinality(A) + Cardinality(N) <= Ceiling(k)
  <2>1. Count(others) + 1 <= MaxFiles /\ Bytes(others) + Size[new] <= MaxBytes
    BY <1>2 DEF Fits, TreeOf
  <2> HIDE DEF A, N
  <2> QED BY <1>3, <1>4, <1>5, <2>1, KeptMeasures DEF Kind, Ceiling
<1>7. IsFiniteSet(B) /\ Cardinality(B) = Cardinality(N) /\ B \in SUBSET Cells(k)
  <2>1. Cardinality({p}) = 1 /\ IsFiniteSet({p})
    BY FS_Singleton
  <2>2. Cardinality(N) \in Nat
    BY <1>5, FS_CardinalityType
  <2>3. B \in SUBSET Cells(k)
    BY <1>5 DEF Cells
  <2> HIDE DEF N
  <2>4. IsFiniteSet(B) /\ Cardinality(B) = Cardinality({p}) * Cardinality(N)
    BY <1>5, <2>1, FS_Product
  <2> QED BY <2>1, <2>2, <2>3, <2>4
<1>8. R \in SUBSET Cells(k) /\ Cardinality(R) <= Rivals * Cardinality(Offset(k))
  <2> DEFINE path == [x \in Saver |-> save[x].path]
  <2>1. D \in SUBSET ((Saver \ {s}) \X Offset(k))
    OBVIOUS
  <2>2. /\ \A d \in D : <<path[d[1]], d[2]>> \in R
        /\ \A o \in R : \E d \in D : o = <<path[d[1]], d[2]>>
    <3>1. \A d \in D : path[d[1]] = save[d[1]].path
      OBVIOUS
    <3> HIDE DEF path, D
    <3> QED BY <3>1
  <2>3. R \in SUBSET Cells(k)
    <3>1. \A d \in D : save[d[1]].path \in Path /\ d[2] \in Offset(k)
      OBVIOUS
    <3> QED BY <3>1 DEF Cells
  <2> HIDE DEF path, D, R
  <2> QED BY <2>1, <2>2, <2>3, OthersBringOneEach, ZenonT(40)
<1>9. Claimed(tree, sv, m, u, k) \subseteq (A \cup B) \cup R
  <2> SUFFICES ASSUME NEW o \in Cells(k), o \in Claimed(tree, sv, m, u, k),
                      o \notin A
               PROVE  o \in B \cup R
    BY DEF Claimed, Kept, Coming
  <2>1. CASE o \in Kept(tree, k)
    <3>1. o[1] = p /\ o[2] \in Offset(k) /\ o[2] <= Size[new] /\ o = <<o[1], o[2]>>
      <4>1. o[2] \in Nat /\ Size[tree[o[1]]] \in Nat
        BY <1>1, <2>1, Numbers, WorkspacesAssumption DEF Kept, Cells, Tree
      <4> QED BY <1>1, <2>1, <4>1 DEF Kept, Cells
    <3> QED BY <3>1
  <2>2. ASSUME NEW x \in Saver, Brings(sv[x], o, m, u)
        PROVE  o \in B \cup R
    <3>1. CASE x = s
      BY <2>2, <3>1 DEF Brings, Cells
    <3>2. CASE x # s
      <4>1. Brings(save[x], o, m, u) /\ save[x].path = o[1]
        BY <2>2, <3>2 DEF Brings
      <4>2. <<x, o[2]>> \in D /\ o = <<save[x].path, o[2]>>
        BY <3>2, <4>1 DEF Brings, Cells
      <4> QED BY <4>2
    <3> QED BY <3>1, <3>2
  <2> QED BY <2>1, <2>2 DEF Claimed, Coming
<1> HIDE DEF A, B, N, R, D, tree
<1>10. /\ Cardinality((A \cup B) \cup R) <= Limit(k)
       /\ (A \cup B) \cup R \in SUBSET Cells(k)
  <2>1. /\ (A \cup B) \in SUBSET Cells(k) /\ (A \cup B) \cup R \in SUBSET Cells(k)
        /\ (A \cap B) \in SUBSET Cells(k) /\ ((A \cup B) \cap R) \in SUBSET Cells(k)
    BY <1>4, <1>7, <1>8
  <2>2. \A X \in SUBSET Cells(k) : IsFiniteSet(X) /\ Cardinality(X) \in Nat
    BY CellsCount
  <2>3. /\ IsFiniteSet(A) /\ IsFiniteSet(B) /\ IsFiniteSet(R) /\ IsFiniteSet(A \cup B)
        /\ Cardinality(A) \in Nat /\ Cardinality(B) \in Nat /\ Cardinality(R) \in Nat
        /\ Cardinality(A \cap B) \in Nat /\ Cardinality((A \cup B) \cap R) \in Nat
    BY <1>4, <1>7, <1>8, <2>1, <2>2
  <2>4. Cardinality(A \cup B) = Cardinality(A) + Cardinality(B) - Cardinality(A \cap B)
    BY <2>3, FS_Union
  <2>5. Cardinality((A \cup B) \cup R)
          = Cardinality(A \cup B) + Cardinality(R) - Cardinality((A \cup B) \cap R)
    BY <2>3, FS_Union
  <2> QED BY <1>6, <1>7, <1>8, <2>1, <2>3, <2>4, <2>5, Numbers
<1>11. Cardinality(Claimed(tree, sv, m, u, k)) <= Limit(k)
  BY <1>9, <1>10, ClaimsShrink
<1> QED BY <1>11 DEF tree

LEMMA CheckRoomKeeps ==
  ASSUME IInv, NEW s \in Saver, CheckRoom(s)
  PROVE  IInv'
<1>1. CASE ~Fits(s)
  BY <1>1, LeaveKeeps DEF CheckRoom
<1>2. CASE Fits(s)
  <2>1. PICK t : t = [save[s] EXCEPT !.at = "write"]
    OBVIOUS
  <2>2. /\ t \in Save /\ t.at = "write" /\ t.match = save[s].match /\ t.user = save[s].user
        /\ t.path = save[s].path /\ t.new = save[s].new
    BY <2>1, ContinueIsSave
  <2>3. save' = [save EXCEPT ![s] = t] /\ UNCHANGED <<row, now, files>>
    BY <1>2, <2>1 DEF CheckRoom, Continue
  <2>4. save[s].at = "room" /\ save \in [Saver -> Save]
    BY DEF CheckRoom, IInv, TypeOK, Save
  <2>5. Placed(t, row)
    BY <2>2, <2>4 DEF IInv, Placed, Admitted
  <2>6. ASSUME NEW m \in Match, NEW u \in User, NEW k \in Kind
        PROVE  Cardinality(Claimed(files[m][u], save', m, u, k)) <= Limit(k)
    <3> DEFINE p == save[s].path
    <3>1. \A x \in Saver \ {s} : save'[x] = save[x]
      BY <2>3, <2>4
    <3>2. save'[s] = t
      BY <2>3, <2>4
    <3>3. p \in Path /\ save[s].new \in Content
      BY <2>4 DEF IInv, Placed
    <3>4. CASE /\ m = save[s].match /\ u = save[s].user
               /\ files[m][u][p] = Null \/ Size[files[m][u][p]] <= Size[save[s].new]
      BY <1>2, <2>2, <3>1, <3>2, <3>3, <3>4, MeasuredWithRivals
    <3>5. CASE ~/\ m = save[s].match /\ u = save[s].user
                /\ files[m][u][p] = Null \/ Size[files[m][u][p]] <= Size[save[s].new]
      <4>1. ASSUME NEW o \in Cells(k), Brings(t, o, m, u)
            PROVE  o \in Kept(files[m][u], k)
        <5>1. o[1] = p /\ o[2] <= Size[save[s].new] /\ o[2] \in Nat
          BY <2>2, <4>1, Numbers DEF Brings, Cells
        <5>2. /\ files[m][u][p] # Null /\ ~(Size[files[m][u][p]] <= Size[save[s].new])
              /\ Size[save[s].new] \in Nat /\ Size[files[m][u][p]] \in Nat
          BY <2>2, <3>3, <3>5, <4>1, WorkspacesAssumption
             DEF Brings, Adder, IInv, TypeOK, Tree
        <5> QED BY <5>1, <5>2 DEF Kept
      <4>2. Claimed(files[m][u], save', m, u, k) \subseteq Claimed(files[m][u], save, m, u, k)
        BY <3>1, <3>2, <4>1 DEF Claimed, Coming
      <4>3. Claimed(files[m][u], save, m, u, k) \in SUBSET Cells(k)
        BY DEF Claimed, Kept, Coming
      <4> QED BY <4>2, <4>3, ClaimsShrink DEF IInv, Bounded
    <3> QED BY <3>4, <3>5
  <2> QED BY <2>2, <2>3, <2>5, <2>6, OneSaveMoves DEF Bounded
<1> QED BY <1>1, <1>2

LEMMA WriteFileKeeps ==
  ASSUME IInv, NEW s \in Saver, WriteFile(s)
  PROVE  IInv'
<1>1. PICK finds \in BOOLEAN :
        save' = [save EXCEPT ![s].at = "commit", ![s].lands = finds]
  BY DEF WriteFile
<1>2. PICK t : t = [save[s] EXCEPT !.at = "commit", !.lands = finds]
  OBVIOUS
<1>3. /\ t \in Save /\ t.at = "commit" /\ t.match = save[s].match /\ t.user = save[s].user
      /\ t.path = save[s].path /\ t.new = save[s].new
  BY <1>2 DEF IInv, TypeOK, Save
<1>4. save' = [save EXCEPT ![s] = t] /\ UNCHANGED <<row, now, files>> /\ save[s].at = "write"
  BY <1>1, <1>2 DEF WriteFile
<1>5. Placed(t, row)
  BY <1>3, <1>4 DEF IInv, Placed, Admitted
<1> QED BY <1>3, <1>4, <1>5, NothingNewIsComing, OneSaveMoves

(***************************************************************************)
(* A commit writes one file of one tree: that of a player of a match that  *)
(* started, and of a path that was claimed before.                         *)
(***************************************************************************)
LEMMA CommitKeeps ==
  ASSUME IInv, NEW s \in Saver, Commit(s)
  PROVE  IInv'
<1> DEFINE m == save[s].match
           u == save[s].user
           p == save[s].path
<1>1. /\ save \in [Saver -> Save] /\ files \in [Match -> [User -> Tree]]
      /\ save[s] \in Save /\ Placed(save[s], row) /\ save[s].at = "commit"
      /\ UNCHANGED <<row, now>> /\ save' = [save EXCEPT ![s] = NoSave]
  BY DEF Commit, Leave, IInv, TypeOK, Save
<1>2. /\ m \in Match /\ u \in User /\ p \in Path /\ save[s].new \in Content \cup {Null}
      /\ Played(row[m], u)
  BY <1>1 DEF Placed, Admitted, Save
<1>3. /\ files' \in [Match -> [User -> Tree]]
      /\ \A n \in Match, v \in User, q \in Path :
           files'[n][v][q] # files[n][v][q] =>
             n = m /\ v = u /\ q = p /\ files'[n][v][q] = save[s].new
  <2>1. CASE save[s].lands
    <3>1. files' = [files EXCEPT ![m][u][p] = save[s].new]
      BY <2>1 DEF Commit
    <3> HIDE DEF m, u, p
    <3> QED BY <1>1, <1>2, <3>1 DEF Tree
  <2>2. CASE ~save[s].lands
    BY <1>1, <2>2 DEF Commit
  <2> QED BY <2>1, <2>2
<1>4. TypeOK'
  <2> HIDE DEF NoSave
  <2> QED BY <1>1, <1>3, NoSaveIsSave DEF TypeOK, Save
<1>5. \A x \in Saver : Placed(save'[x], row)
  <2>1. Placed(NoSave, row)
    BY NoSaveIsSave DEF Placed, Admitted, Storable
  <2> HIDE DEF NoSave
  <2> QED BY <1>1, <2>1 DEF IInv
<1>6. FilesOnlyWherePlayed'
  <2> SUFFICES ASSUME NEW n \in Match, NEW v \in User, files'[n][v] # Empty
               PROVE  Played(row[n], v)
    BY <1>1 DEF FilesOnlyWherePlayed, Played
  <2>1. CASE files[n][v] # Empty
    BY <2>1 DEF IInv, FilesOnlyWherePlayed, Played
  <2>2. CASE files[n][v] = Empty
    <3>1. files'[n][v] \in Tree /\ files[n][v] \in Tree
      BY <1>1, <1>3
    <3>2. PICK q \in Path : files'[n][v][q] # files[n][v][q]
      BY <2>2, <3>1 DEF Tree
    <3> QED BY <1>2, <1>3, <3>2
  <2> QED BY <2>1, <2>2
<1>7. Bounded(files', save')
  <2> SUFFICES ASSUME NEW n \in Match, NEW v \in User, NEW k \in Kind
               PROVE  Cardinality(Claimed(files'[n][v], save', n, v, k)) <= Limit(k)
    BY DEF Bounded
  <2>1. Coming(save', n, v, k) \subseteq Coming(save, n, v, k)
    <3>1. \A x \in Saver \ {s} : save'[x] = save[x]
      BY <1>1
    <3>2. save'[s].at = "idle"
      BY <1>1, NoSaveIsSave
    <3> QED BY <3>1, <3>2 DEF Coming, Brings, Adder
  <2>2. Kept(files'[n][v], k) \subseteq Claimed(files[n][v], save, n, v, k)
    <3> SUFFICES ASSUME NEW o \in Cells(k), o \in Kept(files'[n][v], k),
                        o \notin Kept(files[n][v], k)
                 PROVE  o \in Coming(save, n, v, k)
      BY DEF Kept, Claimed
    <3>1. files'[n][v][o[1]] # files[n][v][o[1]] /\ o[1] \in Path
      BY DEF Kept, Cells
    <3>2. n = m /\ v = u /\ o[1] = p /\ files'[n][v][o[1]] = save[s].new
      BY <1>3, <3>1
    <3> QED BY <1>1, <3>2 DEF Kept, Coming, Brings, Adder
  <2>3. Claimed(files'[n][v], save', n, v, k) \subseteq Claimed(files[n][v], save, n, v, k)
    BY <2>1, <2>2 DEF Claimed
  <2>4. Claimed(files[n][v], save, n, v, k) \in SUBSET Cells(k)
    BY DEF Claimed, Kept, Coming
  <2> QED BY <2>3, <2>4, ClaimsShrink DEF IInv, Bounded
<1>8. \A n \in Match, v \in User, q \in Path : Storable(files'[n][v][q])
  BY <1>1, <1>3 DEF IInv, Placed, Storable
<1> QED BY <1>1, <1>4, <1>5, <1>6, <1>7, <1>8 DEF IInv

-----------------------------------------------------------------------------
(***************************************************************************)
(* A step of the match.  Files appear for the players of a match that      *)
(* starts; nobody was admitted to it while it was a lobby, so nothing is   *)
(* on its way there, and the tree is the challenge's.                      *)
(***************************************************************************)
LEMMA ClockStep ==
  ASSUME now \in Nat, Life!Next
  PROVE  now' \in Nat
<1>1. ASSUME NEW u \in User, NEW m \in Match, Life!PlayerStep(u, m)
      PROVE  now' = now
  BY <1>1 DEF Life!PlayerStep, Life!CreateLobby, Life!JoinLobby, Life!CancelLobby,
              Life!Ready, Life!Start, Life!Submit
<1>2. ASSUME NEW S \in SUBSET Match, Life!Expire(S)
      PROVE  now' = now
  BY <1>2 DEF Life!Expire
<1>3. CASE Life!Tick
  BY <1>3 DEF Life!Tick
<1> QED BY <1>1, <1>2, <1>3 DEF Life!Next

LEMMA MatchStepKeeps ==
  ASSUME IInv, MatchStep
  PROVE  IInv'
<1>1. /\ row' \in [Match -> Row] /\ now' \in Nat /\ UNCHANGED save
      /\ \A m \in Match : Onward(row[m], row'[m])
  BY LifeStep, ClockStep DEF MatchStep, IInv
<1>2. /\ files' \in [Match -> [User -> Tree]]
      /\ \A m \in Match, u \in User :
           \/ files'[m][u] = files[m][u]
           \/ /\ Starts(m) /\ Has(row[m], u) /\ row[m].challenge \in Challenge
              /\ files'[m][u] = Starting[row[m].challenge]
  <2>1. ASSUME NEW m \in Match, Starts(m)
        PROVE  row[m].challenge \in Challenge
    BY <1>1, <2>1, RowAssumption DEF Starts, Onward
  <2>2. \A m \in Match : Starts(m) => Starting[row[m].challenge] \in Tree
    BY <2>1, StartingFits
  <2>3. \A m \in Match, u \in User : files[m][u] \in Tree
    BY DEF IInv, TypeOK
  <2> HIDE DEF Starts, Has
  <2>4. files' = [m \in Match |-> [u \in User |->
          IF Starts(m) /\ Has(row[m], u) THEN Starting[row[m].challenge] ELSE files[m][u]]]
    BY DEF MatchStep, seedWorkspaces
  <2> QED BY <2>1, <2>2, <2>3, <2>4
<1>3. TypeOK'
  BY <1>1, <1>2 DEF IInv, TypeOK
<1>4. \A m \in Match, u \in User : Played(row[m], u) => Played(row'[m], u)
  BY <1>1 DEF Played, Has, Onward
<1>5. \A s \in Saver : Placed(save'[s], row')
  <2> SUFFICES ASSUME NEW s \in Saver
               PROVE  Placed(save[s], row')
    BY <1>1
  <2>1. Placed(save[s], row)
    BY DEF IInv
  <2>2. Admitted(save[s]) => save[s].at # "idle"
    BY DEF Admitted
  <2> QED BY <1>4, <2>1, <2>2 DEF Placed
<1>6. FilesOnlyWherePlayed'
  <2> SUFFICES ASSUME NEW m \in Match, NEW u \in User, files'[m][u] # Empty
               PROVE  Played(row'[m], u)
    BY DEF FilesOnlyWherePlayed, Played
  <2>1. CASE files'[m][u] = files[m][u]
    BY <1>4, <2>1 DEF IInv, FilesOnlyWherePlayed, Played
  <2>2. CASE Starts(m) /\ Has(row[m], u)
    BY <1>1, <2>2 DEF Starts, Onward, Played, Has
  <2> QED BY <1>2, <2>1, <2>2
<1>7. Bounded(files', save')
  <2> SUFFICES ASSUME NEW m \in Match, NEW u \in User, NEW k \in Kind
               PROVE  Cardinality(Claimed(files'[m][u], save', m, u, k)) <= Limit(k)
    BY DEF Bounded
  <2>1. CASE files'[m][u] = files[m][u]
    BY <1>1, <2>1 DEF IInv, Bounded
  <2>2. CASE /\ Starts(m) /\ row[m].challenge \in Challenge
             /\ files'[m][u] = Starting[row[m].challenge]
    <3>1. Coming(save', m, u, k) = {}
      <4>1. ~Played(row[m], u)
        BY <2>2 DEF Starts, Played
      <4>2. ASSUME NEW s \in Saver
            PROVE  ~Adder(save[s], m, u)
        BY <4>1 DEF IInv, Placed, Admitted, Adder
      <4> QED BY <1>1, <4>2 DEF Coming, Brings
    <3>2. Claimed(files'[m][u], save', m, u, k) = Kept(Starting[row[m].challenge], k)
      BY <2>2, <3>1 DEF Claimed
    <3>3. /\ Cardinality(Kept(Starting[row[m].challenge], k)) <= Ceiling(k)
          /\ Kept(Starting[row[m].challenge], k) \in SUBSET Cells(k)
      BY <2>2, StartingFits DEF Kept
    <3>4. Cardinality(Kept(Starting[row[m].challenge], k)) \in Nat
      BY <3>3, CellsCount
    <3> QED BY <3>2, <3>3, <3>4, Numbers
  <2> QED BY <1>2, <2>1, <2>2
<1>8. \A m \in Match, u \in User, p \in Path : Storable(files'[m][u][p])
  BY <1>2, StartingFits DEF IInv
<1> QED BY <1>1, <1>3, <1>5, <1>6, <1>7, <1>8 DEF IInv

-----------------------------------------------------------------------------
LEMMA InitInv == Init => IInv
<1> SUFFICES ASSUME Init
             PROVE  IInv
  OBVIOUS
<1>1. row = [m \in Match |-> NoRow] /\ NoRow \in Row /\ now \in Nat
  <2>1. NoRow \in Row
    BY DEF NoRow, Row, State
  <2>2. row = [m \in Match |-> Life!NoRow] /\ now = 0
    BY DEF Init, Life!Init
  <2>3. Life!NoRow = NoRow
    BY LifeSameRows
  <2> QED BY <2>1, <2>2, <2>3
<1>2. /\ Empty \in Tree
      /\ files = [m \in Match |-> [u \in User |-> Empty]]
      /\ save = [s \in Saver |-> NoSave]
  BY DEF Init, Empty, Tree
<1>3. TypeOK
  <2> HIDE DEF NoSave, Empty
  <2>1. files \in [Match -> [User -> Tree]]
    BY <1>2
  <2>2. save \in [Saver -> Save]
    BY <1>2, NoSaveIsSave
  <2> QED BY <2>1, <2>2 DEF TypeOK, Save
<1>4. \A s \in Saver : Placed(save[s], row)
  <2> HIDE DEF NoSave
  <2> QED BY <1>2, NoSaveIsSave DEF Placed, Admitted, Storable
<1>5. FilesOnlyWherePlayed
  <2> HIDE DEF Empty
  <2> QED BY <1>2 DEF FilesOnlyWherePlayed
<1>6. ASSUME NEW m \in Match, NEW u \in User, NEW k \in Kind
      PROVE  Claimed(files[m][u], save, m, u, k) = {}
  <2>1. Kept(files[m][u], k) = {}
    BY <1>2 DEF Kept, Cells, Empty
  <2>2. Coming(save, m, u, k) = {}
    <3> HIDE DEF NoSave
    <3> QED BY <1>2, NoSaveIsSave DEF Coming, Brings, Adder
  <2> QED BY <2>1, <2>2 DEF Claimed
<1>7. \A k \in Kind : Cardinality({}) <= Limit(k)
  BY FS_EmptySet, Numbers
<1>8. \A m \in Match, u \in User, p \in Path : Storable(files[m][u][p])
  BY <1>2 DEF Empty, Storable
<1> QED BY <1>1, <1>3, <1>4, <1>5, <1>6, <1>7, <1>8 DEF IInv, Bounded

LEMMA NextInv == IInv /\ [Next]_vars => IInv'
<1> SUFFICES ASSUME IInv, [Next]_vars
             PROVE  IInv'
  OBVIOUS
<1>1. CASE MatchStep
  BY <1>1, MatchStepKeeps
<1>2. ASSUME NEW s \in Saver, NEW u \in User, NEW m \in Match, NEW p \in Path,
             NEW new \in Content \cup {Null}, Begin(s, u, m, p, new)
      PROVE  IInv'
  BY <1>2, BeginKeeps
<1>3. ASSUME NEW s \in Saver, Statement(s)
      PROVE  IInv'
  BY <1>3, RequireActiveKeeps, CheckRoomKeeps, WriteFileKeeps, CommitKeeps DEF Statement
<1>4. ASSUME NEW s \in Saver, Abort(s)
      PROVE  IInv'
  BY <1>4, LeaveKeeps DEF Abort
<1>5. CASE UNCHANGED vars
  <2>1. UNCHANGED <<row, now, files, save>>
    BY <1>5 DEF vars
  <2>2. TypeOK' /\ FilesOnlyWherePlayed'
    BY <2>1 DEF IInv, TypeOK, FilesOnlyWherePlayed
  <2>3. Bounded(files, save)'
    BY <2>1 DEF IInv, Bounded
  <2> QED BY <2>1, <2>2, <2>3 DEF IInv, Bounded
<1> QED BY <1>1, <1>2, <1>3, <1>4, <1>5 DEF Next

LEMMA InvAlways == Spec => []IInv
BY InitInv, NextInv, PTL DEF Spec

-----------------------------------------------------------------------------
(***************************************************************************)
(* Every tree is a set of files over the paths in use, and every save has  *)
(* the shape its statements rely on.                                       *)
(***************************************************************************)
THEOREM TypeCorrect == Spec => []TypeOK
<1>1. IInv => TypeOK
  BY DEF IInv
<1> QED BY <1>1, InvAlways, PTL

(***************************************************************************)
(* Files belong to players of matches that started, whatever the order in  *)
(* which matches move and saves read, measure, write and commit: the check *)
(* of requireActiveMatch is old news by the time the file lands, but what  *)
(* it found, a seat in a match that started, is never taken back.          *)
(***************************************************************************)
THEOREM FilesOnlyForPlayers == Spec => []FilesOnlyWherePlayed
<1>1. IInv => FilesOnlyWherePlayed
  BY DEF IInv
<1> QED BY <1>1, InvAlways, PTL

(***************************************************************************)
(* The unlocked measurement of WriteWorkspaceFile lets a tree outgrow the  *)
(* ceilings by no more than one file of the largest size for each other    *)
(* connection, however many connections, paths and matches there are and   *)
(* whatever the sizes of what is written, replaced and deleted.            *)
(***************************************************************************)
THEOREM TreesStayBounded == Spec => []OverrunBounded
<1>1. IInv => OverrunBounded
  <2> SUFFICES ASSUME IInv, NEW m \in Match, NEW u \in User
               PROVE  /\ Count(files[m][u]) <= MaxFiles + Rivals
                      /\ Bytes(files[m][u]) <= MaxBytes + Rivals * MaxFileBytes
    BY DEF OverrunBounded
  <2>1. ASSUME NEW k \in Kind
        PROVE  Cardinality(Kept(files[m][u], k)) <= Limit(k)
    <3>1. Kept(files[m][u], k) \subseteq Claimed(files[m][u], save, m, u, k)
      BY DEF Claimed
    <3>2. Claimed(files[m][u], save, m, u, k) \in SUBSET Cells(k)
      BY DEF Claimed, Kept, Coming
    <3> QED BY <3>1, <3>2, ClaimsShrink DEF IInv, Bounded
  <2>2. /\ Cardinality(Kept(files[m][u], "files")) = Count(files[m][u])
        /\ Cardinality(Kept(files[m][u], "bytes")) = Bytes(files[m][u])
    BY KeptMeasures DEF IInv, TypeOK
  <2>3. /\ Offset("files") = {0} /\ Ceiling("files") = MaxFiles
        /\ Offset("bytes") = 1..MaxFileBytes /\ Ceiling("bytes") = MaxBytes
    BY DEF Offset, Ceiling
  <2>4. Cardinality({0}) = 1 /\ Cardinality(1..MaxFileBytes) = MaxFileBytes
    <3>1. MaxFileBytes \in Nat
      BY WorkspacesAssumption
    <3>2. Cardinality(1..MaxFileBytes) = IF 1 > MaxFileBytes THEN 0 ELSE MaxFileBytes - 1 + 1
      BY <3>1, FS_Interval
    <3>3. Cardinality({0}) = 1
      BY FS_Singleton
    <3>4. Cardinality(1..MaxFileBytes) = MaxFileBytes
      BY <3>1, <3>2
    <3> QED BY <3>3, <3>4
  <2>5. "files" \in Kind /\ "bytes" \in Kind
    BY DEF Kind
  <2>6. Limit("files") = MaxFiles + Rivals /\ Limit("bytes") = MaxBytes + Rivals * MaxFileBytes
    <3>1. Rivals \in Nat
      BY <2>5, Numbers
    <3>2. Rivals * 1 = Rivals
      BY <3>1
    <3>4. Limit("files") = Ceiling("files") + Rivals * Cardinality(Offset("files"))
      BY DEF Limit
    <3>5. Limit("bytes") = Ceiling("bytes") + Rivals * Cardinality(Offset("bytes"))
      BY DEF Limit
    <3>6. Cardinality(Offset("files")) = 1 /\ Cardinality(Offset("bytes")) = MaxFileBytes
      BY <2>3, <2>4
    <3> QED BY <2>3, <3>2, <3>4, <3>5, <3>6
  <2> QED BY <2>1, <2>2, <2>5, <2>6
<1> QED BY <1>1, InvAlways, PTL

\* The four places a save can be at, before and after a step.
LEMMA StageNow ==
  ASSUME NEW s
  PROVE  /\ save[s].at = "room" => Stage(s) = 1
         /\ save[s].at = "write" => Stage(s) = 2
         /\ save[s].at = "commit" => Stage(s) = 3
         /\ save[s].at \notin {"room", "write", "commit"} => Stage(s) = 0
BY DEF Stage

LEMMA StageThen ==
  ASSUME NEW s
  PROVE  /\ save'[s].at = "room" => Stage(s)' = 1
         /\ save'[s].at = "write" => Stage(s)' = 2
         /\ save'[s].at = "commit" => Stage(s)' = 3
         /\ save'[s].at \notin {"room", "write", "commit"} => Stage(s)' = 0
BY DEF Stage

(***************************************************************************)
(* Once a match is no longer active nobody new comes to write: whoever may *)
(* still land a file there was past the check before, and has come no      *)
(* nearer its commit than it was.                                          *)
(***************************************************************************)
THEOREM NoNewWritersEver == Spec => NoNewWriters
<1> DEFINE A == \A m \in Match : row[m].state # "active" =>
                  \A s \in Poised(m)' : s \in Poised(m) /\ Stage(s)' >= Stage(s)
<1>1. IInv /\ [Next]_vars => [A]_vars
  <2> SUFFICES ASSUME IInv, Next, NEW m \in Match, row[m].state # "active",
                      NEW s \in Saver, save'[s].match = m, Stage(s)' > 0
               PROVE  save[s].match = m /\ Stage(s) > 0 /\ Stage(s)' >= Stage(s)
    BY DEF Poised
  <2>1. save \in [Saver -> Save]
    BY DEF IInv, TypeOK, Save
  <2>2. save'[s].at \in {"room", "write", "commit"}
    BY StageThen
  <2>3. CASE save'[s] = save[s]
    BY <2>2, <2>3, StageNow, StageThen
  <2>4. ASSUME NEW t \in Saver, t # s, NEW x,
               save' = [save EXCEPT ![t] = x]
        PROVE  save'[s] = save[s]
    BY <2>1, <2>4
  <2>5. CASE MatchStep
    BY <2>3, <2>5 DEF MatchStep
  <2>6. ASSUME NEW t \in Saver, NEW u \in User, NEW n \in Match, NEW p \in Path,
               NEW new \in Content \cup {Null}, Begin(t, u, n, p, new)
        PROVE  save'[s] = save[s]
    <3>1. PICK x : x = [NoSave EXCEPT !.at = "active", !.match = n, !.user = u,
                                      !.path = p, !.new = new]
      OBVIOUS
    <3>2. save' = [save EXCEPT ![t] = x] /\ x.at = "active"
      BY <2>6, <3>1 DEF Begin, NoSave
    <3> QED BY <2>1, <2>2, <2>4, <3>2
  <2>7. ASSUME NEW t \in Saver, Leave(t)
        PROVE  save'[s] = save[s]
    <3>1. PICK x : x = NoSave
      OBVIOUS
    <3>2. save' = [save EXCEPT ![t] = x] /\ x.at = "idle"
      BY <2>7, <3>1, NoSaveIsSave DEF Leave
    <3> QED BY <2>1, <2>2, <2>4, <3>2
  <2>8. ASSUME NEW t \in Saver, requireActive(t)
        PROVE  save'[s] = save[s]
    <3>1. CASE Leave(t)
      BY <2>7, <3>1
    <3>2. CASE ~Leave(t)
      <4>1. PICK step \in {"room", "write"} : save' = [save EXCEPT ![t].at = step]
        BY <2>8, <3>2 DEF requireActive, Continue
      <4>2. row[save[t].match].state = "active"
        BY <2>8, <3>2 DEF requireActive
      <4>3. t # s
        BY <2>1, <4>1, <4>2 DEF Save
      <4> QED BY <2>1, <4>1, <4>3
    <3> QED BY <3>1, <3>2
  <2>9. ASSUME NEW t \in Saver, CheckRoom(t)
        PROVE  \/ save'[s] = save[s]
               \/ save'[s] = [save[s] EXCEPT !.at = "write"] /\ save[s].at = "room"
    <3>1. CASE Leave(t)
      BY <2>7, <3>1
    <3>2. CASE ~Leave(t)
      BY <2>1, <2>9, <3>2 DEF CheckRoom, Continue
    <3> QED BY <3>1, <3>2
  <2>10. ASSUME NEW t \in Saver, WriteFile(t)
         PROVE  \/ save'[s] = save[s]
                \/ /\ save'[s].at = "commit" /\ save'[s].match = save[s].match
                   /\ save[s].at = "write"
    BY <2>1, <2>10 DEF WriteFile, Save
  <2>11. ASSUME NEW t \in Saver, Commit(t) \/ Abort(t)
         PROVE  save'[s] = save[s]
    BY <2>7, <2>11 DEF Commit, Abort
  <2>12. CASE save'[s] = [save[s] EXCEPT !.at = "write"] /\ save[s].at = "room"
    <3>1. save'[s].at = "write" /\ save'[s].match = save[s].match
      BY <2>1, <2>12 DEF Save
    <3> QED BY <2>12, <3>1, StageNow, StageThen
  <2>13. CASE /\ save'[s].at = "commit" /\ save'[s].match = save[s].match
              /\ save[s].at = "write"
    BY <2>13, StageNow, StageThen
  <2> QED
    BY <2>3, <2>5, <2>6, <2>8, <2>9, <2>10, <2>11, <2>12, <2>13 DEF Next, Statement
<1>2. Spec => [][A]_vars
  BY <1>1, InvAlways, PTL DEF Spec
<1> QED BY <1>2 DEF NoNewWriters
=============================================================================
