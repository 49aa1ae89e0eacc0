------------------------------ MODULE Catalog ------------------------------
(***************************************************************************)
(* API instances that boot (cmd/api/main.go): each loads the challenges in *)
(* its checkout and registers them one by one (internal/store/catalog.go), *)
(* while other instances do the same, with the same checkout or another,   *)
(* and while an operator migrates the database.  One registration is one   *)
(* transaction, and one action here is one of its statements.              *)
(***************************************************************************)
EXTENDS Migrate, ChallengeFormat

CONSTANTS
  Instance,    \* API processes
  Checkout,    \* states of the repository they are deployed from
  Root,        \* checkout -> its challenge directories
  Versioned    \* the schema version that has challenges, and challenge_files

VARIABLES
  challenges,       \* key -> the committed rows of challenges and requirements
  challenge_files,  \* key -> path -> committed content
  boot              \* what each instance is doing

cvars == <<challenges, challenge_files, boot>>
vars == <<schema, recorded, lock, call, challenges, challenge_files, boot>>

\* What the tables keep of a specification.
Registration(s) ==
  [category |-> s.category, difficulty |-> s.difficulty, duration |-> s.duration,
   tag |-> s.tag, requirements |-> s.requirements]

Challenge(dir) ==
  [key |-> KeyOf(SpecOf(dir)), entry |-> Registration(SpecOf(dir)), tree |-> dir.tree]

\* The checkouts that load and hold something to play, and what an instance registers.
Sound == {c \in Checkout : LoadAll(Root[c]) /\ Root[c] # {}}
Loaded == [c \in Sound |-> LET dirs == InKeyOrder(Root[c])
                           IN [n \in DOMAIN dirs |-> Challenge(dirs[n])]]

Challenges == UNION {Range(Loaded[c]) : c \in Sound}
Key == {c.key : c \in Challenges}
Registrations == {c.entry : c \in Challenges}

ASSUME CatalogAssumption ==
  /\ Versioned.challenges \in Nat /\ Versioned.files \in Nat
  /\ Versioned.challenges <= Versioned.files
  /\ \A c \in Checkout : IsFiniteSet(Root[c]) /\ Root[c] \subseteq Directory
  /\ Absent \notin Registrations

NoBoot == [at |-> "down", checkout |-> Null, todo |-> <<>>,
           inserted |-> FALSE, wrote |-> {}, left |-> {}]

Current(i) == Head(boot[i].todo)
InTx(i) == boot[i].at \in {"insert", "check", "count", "fill", "compare", "commit"}

(***************************************************************************)
(* Versions may be registered already, by builds older than the starting   *)
(* files, and then have none.                                              *)
(***************************************************************************)
CatalogInit ==
  /\ challenges \in [Key -> Registrations \cup {Absent}]
  /\ \A k \in Key : challenges[k] # Absent =>
       /\ Len(schema) >= Versioned.challenges
       /\ \E c \in Challenges : c.key = k /\ c.entry = challenges[k] /\ Storable(c)
  /\ challenge_files = [k \in Key |-> NoFiles]
  /\ boot = [i \in Instance |-> NoBoot]

-----------------------------------------------------------------------------
Step(i, to) == boot' = [boot EXCEPT ![i].at = to]
Fails(i) == boot' = [boot EXCEPT ![i] = NoBoot]

\* The checkout is loaded as a whole, and has to hold something to play.
Boot(i, c) ==
  /\ boot[i].at = "down"
  /\ IF c \in Sound
       THEN boot' = [boot EXCEPT ![i] = [NoBoot EXCEPT
              !.at = "read", !.checkout = c, !.todo = Loaded[c]]]
       ELSE Fails(i)
  /\ UNCHANGED <<challenges, challenge_files>>

ReadWorkspace(i) ==
  /\ boot[i].at = "read"
  /\ IF LoadWorkspace(Current(i).tree) THEN Step(i, "insert") ELSE Fails(i)
  /\ UNCHANGED <<challenges, challenge_files>>

\* Mutant: the files come in the order the directory was walked.
NextPathUnsorted(i) ==
  CHOOSE p \in boot[i].left : \A q \in boot[i].left : IF i = (CHOOSE j \in Instance : TRUE) THEN p <= q ELSE p >= q

\* LoadWorkspace sorts, so every instance inserts in path order.
NextPath(i) == CHOOSE p \in boot[i].left : \A q \in boot[i].left : p <= q

(***************************************************************************)
(* An insert waits for an uncommitted insert of the same row.              *)
(***************************************************************************)
Waits(i, j) ==
  /\ InTx(j) /\ boot[i].todo # <<>> /\ Current(i).key = Current(j).key
  /\ \/ boot[i].at = "insert" /\ boot[j].inserted
     \/ boot[i].at = "fill" /\ NextPath(i) \in boot[j].wrote

(***************************************************************************)
(* The insert of the version.  It fails before the table is there, waits   *)
(* for an uncommitted insert of the same version, does nothing if there is *)
(* one already, and is followed by the requirements if it did insert.      *)
(***************************************************************************)
InsertChallenge(i) == LET fresh == challenges[Current(i).key] = Absent IN
  /\ boot[i].at = "insert"
  /\ \A j \in Instance \ {i} : ~Waits(i, j)
  /\ IF \/ Len(schema) < Versioned.challenges
        \/ fresh /\ ~Storable(Current(i))
       THEN Fails(i)
       ELSE boot' = [boot EXCEPT ![i].at = IF fresh THEN "count" ELSE "check",
                                 ![i].inserted = fresh]
  /\ UNCHANGED <<challenges, challenge_files>>

checkRegistration(i) ==
  /\ boot[i].at = "check"
  /\ IF challenges[Current(i).key] = Current(i).entry
       THEN Step(i, "count") ELSE Fails(i)
  /\ UNCHANGED <<challenges, challenge_files>>

\* Mutant: only a version that was just inserted is given its files.
FillNewOnly(i) ==
  /\ boot[i].at = "count"
  /\ IF Len(schema) < Versioned.files
       THEN Fails(i)
       ELSE IF boot[i].inserted
         THEN boot' = [boot EXCEPT ![i].at = "fill", ![i].left = Stored(Current(i).tree)]
         ELSE Step(i, "commit")
  /\ UNCHANGED <<challenges, challenge_files>>

(***************************************************************************)
(* registerFiles: the files are inserted only when the version has none.   *)
(* An uncommitted file of another transaction does not count.              *)
(***************************************************************************)
registerFiles(i) ==
  /\ boot[i].at = "count"
  /\ IF Len(schema) < Versioned.files
       THEN Fails(i)
       ELSE IF challenge_files[Current(i).key] = NoFiles
         THEN boot' = [boot EXCEPT ![i].at = "fill", ![i].left = Stored(Current(i).tree)]
         ELSE Step(i, "compare")
  /\ UNCHANGED <<challenges, challenge_files>>

\* Mutant: on conflict, the file is replaced.
InsertFileOver(i) == LET p == NextPath(i) IN
  /\ boot[i].at = "fill"
  /\ \A j \in Instance \ {i} : ~Waits(i, j)
  /\ boot' = [boot EXCEPT
       ![i].left = @ \ {p},
       ![i].wrote = @ \cup {p},
       ![i].at = IF boot[i].left = {p} THEN "compare" ELSE "fill"]
  /\ UNCHANGED <<challenges, challenge_files>>

(***************************************************************************)
(* One file, on conflict do nothing: it waits for an uncommitted insert of *)
(* the same path, and leaves a committed one as it is.  The table may      *)
(* refuse it.                                                              *)
(***************************************************************************)
InsertFile(i) == LET p == NextPath(i) IN
  /\ boot[i].at = "fill"
  /\ \A j \in Instance \ {i} : ~Waits(i, j)
  /\ IF StorableFile(p, Current(i).tree[p])
       THEN boot' = [boot EXCEPT
              ![i].left = @ \ {p},
              ![i].wrote = IF challenge_files[Current(i).key][p] = Absent
                             THEN @ \cup {p} ELSE @,
              ![i].at = IF boot[i].left = {p} THEN "compare" ELSE "fill"]
       ELSE Fails(i)
  /\ UNCHANGED <<challenges, challenge_files>>

\* What the transaction sees of a version's files: its own, and committed ones.
Visible(i) == [p \in Path |-> IF p \in boot[i].wrote THEN Current(i).tree[p]
                                                      ELSE challenge_files[Current(i).key][p]]

\* As many files, and each with the digest of the one on disk.
checkWorkspace(i) ==
  /\ boot[i].at = "compare"
  /\ IF Visible(i) = Current(i).tree THEN Step(i, "commit") ELSE Fails(i)
  /\ UNCHANGED <<challenges, challenge_files>>

Publish(i) == LET k == Current(i).key IN
  /\ challenges' = IF boot[i].inserted
                     THEN [challenges EXCEPT ![k] = Current(i).entry] ELSE challenges
  /\ challenge_files' = [challenge_files EXCEPT ![k] = Visible(i)]

\* The next challenge is registered, or the instance begins to serve.
CommitRegistration(i) ==
  /\ boot[i].at = "commit"
  /\ Publish(i)
  /\ boot' = [boot EXCEPT ![i].todo = Tail(@), ![i].inserted = FALSE, ![i].wrote = {},
              ![i].at = IF Len(boot[i].todo) = 1 THEN "serving" ELSE "read"]

(***************************************************************************)
(* A failed statement, a lost connection, or the end of the process.  The  *)
(* answer to a commit may be lost after it was carried out.                *)
(***************************************************************************)
Stop(i) ==
  /\ boot[i].at # "down"
  /\ \/ UNCHANGED <<challenges, challenge_files>>
     \/ boot[i].at = "commit" /\ Publish(i)
  /\ boot' = [boot EXCEPT ![i] = NoBoot]

Register(i) ==
  \/ ReadWorkspace(i)
  \/ InsertChallenge(i)
  \/ checkRegistration(i)
  \/ registerFiles(i)
  \/ InsertFile(i)
  \/ checkWorkspace(i)
  \/ CommitRegistration(i)

BootNext == \E i \in Instance :
  \/ \E c \in Checkout : Boot(i, c)
  \/ Register(i)
  \/ Stop(i)

Init == MigrateInit /\ CatalogInit

Next == \/ MigrateNext /\ UNCHANGED cvars
        \/ BootNext /\ UNCHANGED mvars

Spec == Init /\ [][Next]_vars

-----------------------------------------------------------------------------
BootType == [at : {"down", "read", "insert", "check", "count", "fill", "compare",
                   "commit", "serving"},
             checkout : Checkout \cup {Null}, todo : Seq(Challenges),
             inserted : BOOLEAN, wrote : SUBSET Path, left : SUBSET Path]

TypeOK ==
  /\ MigrateTypeOK
  /\ challenges \in [Key -> Registrations \cup {Absent}]
  /\ challenge_files \in [Key -> Tree]
  /\ boot \in [Instance -> BootType]

(***************************************************************************)
(* "A challenge version is immutable": once registered it never changes,   *)
(* and what is stored for it is a tree that some instance brought, whole.  *)
(* Two instances that fill in missing files at the same moment can both    *)
(* succeed with different trees, and then only if the trees agree wherever *)
(* they overlap; what is stored is their union.                            *)
(***************************************************************************)
Offer == [k \in Key |-> {c \in Challenges : c.key = k /\ LoadWorkspace(c.tree)}]

Promise == INSTANCE Registry
             WITH entry <- challenges, tree <- challenge_files, Offer <- Offer

KeepsRegistrations == Promise!Spec

(***************************************************************************)
(* An instance that serves finds registered, for every challenge of its    *)
(* checkout, what it carries, and every file of its starting tree, so that *)
(* no match it starts lacks a file.                                        *)
(***************************************************************************)
ServesWhatItCarries ==
  \A i \in Instance : boot[i].at = "serving" =>
    \A c \in Range(Loaded[boot[i].checkout]) :
      /\ challenges[c.key] = c.entry
      /\ Stored(c.tree) # {}
      /\ \A p \in Stored(c.tree) : challenge_files[c.key][p] = c.tree[p]

(***************************************************************************)
(* What passes the checks of the loader and of LoadWorkspace satisfies     *)
(* every constraint that the tables spell out.  They can refuse it for one *)
(* reason only, which the loader does not look at: a number or a text that *)
(* its column, or the index over it, cannot hold.  Then the registration   *)
(* fails, maybe after others of the checkout succeeded, and no instance    *)
(* serves it.                                                              *)
(***************************************************************************)
RefusedByTypeOnly ==
  \A i \in Instance :
    /\ boot[i].at = "insert" =>
         LET c == Current(i) IN
         Checked(c) /\ \A p \in Stored(c.tree) : filesCheck(p, c.tree[p])
    /\ boot[i].at = "serving" =>
         \A c \in Range(Loaded[boot[i].checkout]) :
           ColumnsHold(c) /\ Stored(c.tree) \cap UnwritablePath = {}

(***************************************************************************)
(* "Running it twice, or from two places at the same moment, is safe": no  *)
(* call of Migrate fails because another applied the migration that it was *)
(* about to apply, and instances that insert the same versions or files    *)
(* never wait for one another in a circle, which PostgreSQL would break by *)
(* failing one of the boots.                                               *)
(***************************************************************************)
NobodyInTheWay ==
  /\ \A p \in Migrator : ~call[p].collided
  /\ \A s \in (SUBSET Instance) \ {{}} : \E i \in s : \A j \in s : ~Waits(i, j)
=============================================================================
