------------------------------ MODULE Migrate ------------------------------
(***************************************************************************)
(* Migrating the database (internal/store/migrate.go): any number of       *)
(* processes, each with the migrations its binary carries, that contend    *)
(* for one advisory lock, compare what the database has run with what they *)
(* carry, and apply what is missing, one transaction per migration.        *)
(***************************************************************************)
EXTENDS Naturals, Sequences, FiniteSets

CONSTANTS
  Migrator,  \* calls of Migrate that may run at the same time
  Binary,    \* the binaries they run
  Files,     \* binary -> its set of migration files
  Version,   \* versions that any file has
  Text,      \* contents, as told apart by their checksums
  Null       \* nobody, or not applied

ASSUME MigrateAssumption ==
  /\ Version \subseteq Nat
  /\ Files \in [Binary -> SUBSET [version : Version, text : Text]]
  /\ \A b \in Binary : IsFiniteSet(Files[b])
  /\ Null \notin Migrator \cup Text \cup Binary

VARIABLES
  schema,    \* the migrations whose statements have run and are committed
  recorded,  \* schema_migrations: version -> the checksum it was applied with
  lock,      \* the session that holds the advisory lock
  call       \* what each migrator is doing

mvars == <<schema, recorded, lock, call>>

(***************************************************************************)
(* loadMigrations: versions are numbered from 1, each once and without a   *)
(* gap, and there is at least one.                                         *)
(***************************************************************************)
WellFormed(b) ==
  /\ Files[b] # {}
  /\ {f.version : f \in Files[b]} = 1..Cardinality(Files[b])

TextOf(b, v) == (CHOOSE f \in Files[b] : f.version = v).text
Carried(b) == 1..Cardinality(Files[b])
Lineage(b) == [v \in Carried(b) |-> TextOf(b, v)]
Lineages == {Lineage(b) : b \in {c \in Binary : WellFormed(c)}}

(***************************************************************************)
(* checkAgainstFiles: everything applied is carried, unchanged.            *)
(***************************************************************************)
Agrees(b) == \A v \in Version :
  recorded[v] # Null => v \in Carried(b) /\ recorded[v] = TextOf(b, v)

NoCall == [at |-> "idle", binary |-> Null, left |-> {}, collided |-> FALSE]

Applied(s) == [v \in Version |-> IF v \in 1..Len(s) THEN s[v] ELSE Null]

\* A database that some of the binaries have migrated, up to some version.
MigrateInit ==
  /\ \E l \in Lineages : \E n \in 0..Len(l) : schema = SubSeq(l, 1, n)
  /\ recorded = Applied(schema)
  /\ lock = Null
  /\ call = [p \in Migrator |-> NoCall]

-----------------------------------------------------------------------------
Goto(p, step) == call' = [call EXCEPT ![p].at = step]
Leave(p, collided) ==
  call' = [call EXCEPT ![p] = [NoCall EXCEPT !.at = "unlock", !.collided = collided]]

\* A malformed set of files is refused before the database is touched.
Migrate(p, b) ==
  /\ call[p].at = "idle"
  /\ call' = [call EXCEPT ![p] =
       IF WellFormed(b) THEN [NoCall EXCEPT !.at = "lock", !.binary = b] ELSE NoCall]
  /\ UNCHANGED <<schema, recorded, lock>>

\* Mutant: nobody waits for the advisory lock.
TakeNoLock(p) ==
  /\ call[p].at = "lock"
  /\ Goto(p, "read")
  /\ UNCHANGED <<schema, recorded, lock>>

TakeLock(p) ==
  /\ call[p].at = "lock"
  /\ lock = Null
  /\ lock' = p
  /\ Goto(p, "read")
  /\ UNCHANGED <<schema, recorded>>

\* Mutant: what is missing is applied without comparing what is there.
ReadUnchecked(p) ==
  /\ call[p].at = "read"
  /\ call' = [call EXCEPT ![p].at = "apply",
       ![p].left = {v \in Carried(call[p].binary) : recorded[v] = Null}]
  /\ UNCHANGED <<schema, recorded, lock>>

(***************************************************************************)
(* The table is made if it is not there, what it records is read, and      *)
(* compared: a database that is newer or different is left alone.          *)
(***************************************************************************)
ReadApplied(p) == LET b == call[p].binary IN
  /\ call[p].at = "read"
  /\ IF Agrees(b)
       THEN call' = [call EXCEPT ![p].at = "apply",
                       ![p].left = {v \in Carried(b) : recorded[v] = Null}]
       ELSE Leave(p, FALSE)
  /\ UNCHANGED <<schema, recorded, lock>>

Missing(p) == CHOOSE v \in call[p].left : \A w \in call[p].left : v <= w

(***************************************************************************)
(* The next missing migration: its statements, and the insert of its row,  *)
(* in one transaction.  The version is the key of the row, so the insert   *)
(* waits for an uncommitted one of the same version, and fails if there is *)
(* one already.                                                            *)
(***************************************************************************)
Apply(p) ==
  /\ call[p].at = "apply"
  /\ call[p].left # {}
  /\ \A q \in Migrator \ {p} : call[q].at = "commit" => Missing(q) # Missing(p)
  /\ IF recorded[Missing(p)] = Null THEN Goto(p, "commit") ELSE Leave(p, TRUE)
  /\ UNCHANGED <<schema, recorded, lock>>

\* Nothing is missing any more.
Finish(p) ==
  /\ call[p].at = "apply"
  /\ call[p].left = {}
  /\ Leave(p, FALSE)
  /\ UNCHANGED <<schema, recorded, lock>>

Lands(p) == LET v == Missing(p) IN
  /\ schema' = Append(schema, TextOf(call[p].binary, v))
  /\ recorded' = [recorded EXCEPT ![v] = TextOf(call[p].binary, v)]

Commit(p) ==
  /\ call[p].at = "commit"
  /\ Lands(p)
  /\ call' = [call EXCEPT ![p].at = "apply", ![p].left = @ \ {Missing(p)}]
  /\ UNCHANGED lock

\* The deferred unlock, which runs whether or not the caller has given up.
Unlock(p) ==
  /\ call[p].at = "unlock"
  /\ lock' = IF lock = p THEN Null ELSE lock
  /\ call' = [call EXCEPT ![p] = NoCall]
  /\ UNCHANGED <<schema, recorded>>

(***************************************************************************)
(* A statement fails or the context is cancelled.  An open transaction is  *)
(* undone; a commit whose answer is lost may have been carried out.        *)
(***************************************************************************)
MayLand(p) == \/ UNCHANGED <<schema, recorded>>
              \/ call[p].at = "commit" /\ Lands(p)

Interrupt(p) ==
  /\ call[p].at \notin {"idle", "unlock"}
  /\ MayLand(p)
  /\ Leave(p, FALSE)
  /\ UNCHANGED lock

\* The process dies, and with it the session that holds the lock.
Die(p) ==
  /\ call[p].at # "idle"
  /\ MayLand(p)
  /\ lock' = IF lock = p THEN Null ELSE lock
  /\ call' = [call EXCEPT ![p] = NoCall]

MigrateStep(p) ==
  \/ TakeLock(p)
  \/ ReadApplied(p)
  \/ Apply(p)
  \/ Finish(p)
  \/ Commit(p)
  \/ Unlock(p)

MigrateNext == \E p \in Migrator :
  \/ \E b \in Binary : Migrate(p, b)
  \/ MigrateStep(p)
  \/ Interrupt(p)
  \/ Die(p)

MigrateSpec == MigrateInit /\ [][MigrateNext]_mvars
-----------------------------------------------------------------------------
MigrateTypeOK ==
  /\ schema \in Seq(Text)
  /\ recorded \in [Version -> Text \cup {Null}]
  /\ lock \in Migrator \cup {Null}
  /\ call \in [Migrator -> [
       at : {"idle", "lock", "read", "apply", "commit", "unlock"},
       binary : Binary \cup {Null}, left : SUBSET Version,
       collided : BOOLEAN]]

(***************************************************************************)
(* "Two API instances starting at once apply each migration exactly once": *)
(* whichever binaries run, and whatever fails, the schema is the beginning *)
(* of one binary's migrations, it only ever grows by the next of them, and *)
(* the table records exactly what has run.                                 *)
(***************************************************************************)
History == INSTANCE SchemaHistory
             WITH Lineages <- Lineages, history <- schema, table <- recorded

FollowsOneLineage == History!Spec
=============================================================================
