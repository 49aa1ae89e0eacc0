----------------------------- MODULE Workspaces -----------------------------
(***************************************************************************)
(* The files two players edit while their match is active                  *)
(* (internal/store/workspaces.go, and seedWorkspaces in matches.go), on    *)
(* top of the life of the match.                                           *)
(*                                                                         *)
(* Matches change in the atomic steps of Lifecycle, which the transactions *)
(* of Matches implement.  A save or a delete is a transaction of its own,  *)
(* and its statements are the steps here: it reads the state of the match  *)
(* without locking it, a write then measures the tree, and only the last   *)
(* statement takes a lock, on the one file it touches.                     *)
(***************************************************************************)
EXTENDS MatchRow, FiniteSets

CONSTANTS
  Saver,     \* connections serving workspace requests
  Path,      \* the paths players use
  Content,   \* the contents they write
  Size,      \* content -> bytes
  Starting,  \* challenge version -> path -> content or Null: challenge_files
  MaxFiles,  \* MaxWorkspaceFiles
  MaxBytes,  \* MaxWorkspaceBytes
  MaxFileBytes

VARIABLES row, now,
  files,  \* match -> user -> path -> committed content, or Null
  save    \* what each saver is doing

vars == <<row, now, files, save>>

Life == INSTANCE Lifecycle

Empty == [p \in Path |-> Null]
Tree == [Path -> Content \cup {Null}]
Files(tree) == {p \in Path : tree[p] # Null}
Count(tree) == Cardinality(Files(tree))

\* The sum of the sizes, as the number of octets there are to number.
Bytes(tree) == Cardinality(UNION {{p} \X (1..Size[tree[p]]) : p \in Files(tree)})

\* What a row may hold, by the schema's check on a file's size.
Storable(c) == c # Null => Size[c] <= MaxFileBytes

ASSUME WorkspacesAssumption ==
  /\ IsFiniteSet(Saver) /\ Saver # {} /\ IsFiniteSet(Path)
  /\ MaxFiles \in Nat /\ MaxBytes \in Nat /\ MaxFileBytes \in Nat
  /\ Null \notin Content
  /\ Size \in [Content -> Nat]
  /\ Starting \in [Challenge -> Tree]
  /\ Stocked = {c \in Challenge : Starting[c] # Empty}
  /\ \A c \in Challenge : /\ Count(Starting[c]) <= MaxFiles
                          /\ Bytes(Starting[c]) <= MaxBytes
                          /\ \A p \in Path : Storable(Starting[c][p])

NoSave == [at |-> "idle", match |-> Null, user |-> Null, path |-> Null,
           new |-> Null, lands |-> FALSE]

Init ==
  /\ Life!Init
  /\ files = [m \in Match |-> [u \in User |-> Empty]]
  /\ save = [s \in Saver |-> NoSave]

-----------------------------------------------------------------------------
(***************************************************************************)
(* The transaction that starts a match also seeds both workspaces from the *)
(* challenge's files.                                                      *)
(***************************************************************************)
Starts(m) == row[m].state = "lobby" /\ row'[m].state = "active"

seedWorkspaces ==
  files' = [m \in Match |-> [u \in User |->
    IF Starts(m) /\ Has(row[m], u) THEN Starting[row[m].challenge] ELSE files[m][u]]]

MatchStep == Life!Next /\ seedWorkspaces /\ UNCHANGED save

-----------------------------------------------------------------------------
Leave(s) == save' = [save EXCEPT ![s] = NoSave]
Continue(s, step) == save' = [save EXCEPT ![s].at = step]
TreeOf(s) == files[save[s].match][save[s].user]

\* A write of new content, or, new being Null, a delete.  Content that no row
\* could hold is refused before anything is read.
Begin(s, u, m, p, new) ==
  /\ save[s] = NoSave
  /\ Storable(new)
  /\ row[m] # NoRow
  /\ save' = [save EXCEPT ![s] = [NoSave EXCEPT
       !.at = "active", !.match = m, !.user = u, !.path = p, !.new = new]]
  /\ UNCHANGED <<row, now, files>>

\* Mutant: the player's seat is not looked up.
requireActiveMatch(s) ==
  /\ save[s].at = "active"
  /\ IF row[save[s].match].state = "active"
       THEN Continue(s, IF save[s].new = Null THEN "write" ELSE "room")
       ELSE Leave(s)
  /\ UNCHANGED <<row, now, files>>

\* Mutant: a match that is being judged is still open to its players.
requireStarted(s) ==
  /\ save[s].at = "active"
  /\ IF /\ row[save[s].match].state \in {"active", "judging"}
        /\ Has(row[save[s].match], save[s].user)
       THEN Continue(s, IF save[s].new = Null THEN "write" ELSE "room")
       ELSE Leave(s)
  /\ UNCHANGED <<row, now, files>>

\* One read of the match and the seat, with no lock that outlives it.
requireActive(s) ==
  /\ save[s].at = "active"
  /\ IF row[save[s].match].state = "active" /\ Has(row[save[s].match], save[s].user)
       THEN Continue(s, IF save[s].new = Null THEN "write" ELSE "room")
       ELSE Leave(s)
  /\ UNCHANGED <<row, now, files>>

\* Mutant: the file to be written is not counted.
FitsWithoutIt(s) == LET others == [TreeOf(s) EXCEPT ![save[s].path] = Null] IN
  /\ Count(others) <= MaxFiles
  /\ Bytes(others) <= MaxBytes

(***************************************************************************)
(* The ceilings, against the committed tree without the file to replace.   *)
(***************************************************************************)
Fits(s) == LET others == [TreeOf(s) EXCEPT ![save[s].path] = Null] IN
  /\ Count(others) + 1 <= MaxFiles
  /\ Bytes(others) + Size[save[s].new] <= MaxBytes

CheckRoom(s) ==
  /\ save[s].at = "room"
  /\ IF Fits(s) THEN Continue(s, "write") ELSE Leave(s)
  /\ UNCHANGED <<row, now, files>>

\* Another transaction has written the same file and not ended.
SameFile(s, t) == /\ save[t].at = "commit" /\ save[t].lands
                  /\ save[s].match = save[t].match
                  /\ save[s].user = save[t].user
                  /\ save[s].path = save[t].path

(***************************************************************************)
(* The insert waits for whoever holds the file's key, and the delete for   *)
(* whoever holds the row it found; a delete that finds nothing does        *)
(* nothing, even if the file is about to appear.                           *)
(***************************************************************************)
WriteFile(s) ==
  /\ save[s].at = "write"
  /\ LET finds == save[s].new # Null \/ TreeOf(s)[save[s].path] # Null IN
       /\ finds => \A t \in Saver \ {s} : ~SameFile(s, t)
       /\ save' = [save EXCEPT ![s].at = "commit", ![s].lands = finds]
  /\ UNCHANGED <<row, now, files>>

\* Mutant: the update does not name the path.
CommitEverywhere(s) ==
  /\ save[s].at = "commit"
  /\ files' = [files EXCEPT ![save[s].match][save[s].user] = save[s].new]
  /\ Leave(s)
  /\ UNCHANGED <<row, now>>

Commit(s) ==
  /\ save[s].at = "commit"
  /\ files' = IF save[s].lands
                THEN [files EXCEPT ![save[s].match][save[s].user][save[s].path] = save[s].new]
                ELSE files
  /\ Leave(s)
  /\ UNCHANGED <<row, now>>

\* A failed statement, a cancelled request or a crash.
Abort(s) ==
  /\ save[s] # NoSave
  /\ Leave(s)
  /\ UNCHANGED <<row, now, files>>

Statement(s) ==
  \/ requireActive(s)
  \/ CheckRoom(s)
  \/ WriteFile(s)
  \/ Commit(s)

Next ==
  \/ MatchStep
  \/ \E s \in Saver :
       \/ \E u \in User, m \in Match, p \in Path, new \in Content \cup {Null} :
            Begin(s, u, m, p, new)
       \/ Statement(s)
       \/ Abort(s)

Spec == Init /\ [][Next]_vars

\* A saver that can go on does; one waiting for a file is served in turn.
FairSpec == Spec /\ \A s \in Saver : SF_vars(Statement(s))
-----------------------------------------------------------------------------
TypeOK ==
  /\ files \in [Match -> [User -> Tree]]
  /\ save \in [Saver -> [at : {"idle", "active", "room", "write", "commit"},
                         match : Match \cup {Null}, user : User \cup {Null},
                         path : Path \cup {Null}, new : Content \cup {Null},
                         lands : BOOLEAN]]

(***************************************************************************)
(* The ceilings as workspaces.go states them: "two concurrent writes       *)
(* cannot both squeeze past the last byte".                                *)
(***************************************************************************)
CeilingHolds ==
  \A m \in Match, u \in User :
    Count(files[m][u]) <= MaxFiles /\ Bytes(files[m][u]) <= MaxBytes

(***************************************************************************)
(* What the unlocked measurement does guarantee: a tree outgrows a ceiling *)
(* by no more than every other connection adding one file of the largest   *)
(* size a file may have.                                                   *)
(***************************************************************************)
Rivals == Cardinality(Saver) - 1

OverrunBounded ==
  \A m \in Match, u \in User :
    /\ Count(files[m][u]) <= MaxFiles + Rivals
    /\ Bytes(files[m][u]) <= MaxBytes + Rivals * MaxFileBytes

(***************************************************************************)
(* Files belong to players of matches that started.  A save that began in  *)
(* a lobby, or by a stranger, or that outlives its match, leaves nothing.  *)
(***************************************************************************)
FilesOnlyWherePlayed ==
  \A m \in Match, u \in User :
    files[m][u] # Empty => Has(row[m], u) /\ row[m].state \in {"active", "judging"}

(***************************************************************************)
(* "Once the clock stops, the tree the judge will read is the tree that    *)
(* existed at the buzzer" (workspaces.go): no tree changes once its match  *)
(* is being judged.                                                        *)
(***************************************************************************)
JudgedTreeFixed ==
  [][\A m \in Match : row[m].state = "judging" => files'[m] = files[m]]_vars

(***************************************************************************)
(* What the code does guarantee of a match that is being judged: only      *)
(* saves that found it active can still land, each of them once, and none  *)
(* starts anew, so at most one change per connection is left to come.      *)
(***************************************************************************)
Stage(s) == CASE save[s].at = "room"   -> 1
              [] save[s].at = "write"  -> 2
              [] save[s].at = "commit" -> 3
              [] OTHER                 -> 0
Poised(m) == {s \in Saver : save[s].match = m /\ Stage(s) > 0}

NoNewWriters ==
  [][\A m \in Match : row[m].state # "active" =>
       \A s \in Poised(m)' : s \in Poised(m) /\ Stage(s)' >= Stage(s)]_vars
=============================================================================
