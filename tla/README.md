# DevDuel in TLA+

DevDuel is a service in which two players race to repair the same broken
program. This directory models the parts of it where things happen at the same
time or fail half way: the life of a match in PostgreSQL, the workspaces the
players edit, the worker that ends matches whose time is up, the event log of a
match, the boot of API instances with the migration of their database and the
registration of their challenges, the judging of a tree with containers, and
accounts with their sessions. The models are checked with TLC on small
instances, and the results that matter most are proved with TLAPS for every
instance.

## The system

| Component | State | Operations | What is hard |
|---|---|---|---|
| Match life cycle (`internal/store/lobbies.go`, `matches.go`, `internal/match`) | rows of `matches` and `match_players`, the derived column `unfinished`, the index on open join codes | create, join, cancel, ready/start, submit, expire, current | requests interleave statement by statement; the last ready and the last submission race; deadline against submission; lock order; recycled codes |
| Workspaces (`internal/store/workspaces.go`, seeding in `matches.go`) | rows of `workspace_files` | seed, write, delete, list, read | a check and a write in different statements; the ceilings; the buzzer |
| Deadline finalizer (`internal/finalizer`, `cmd/worker`) | none of its own: the claim of a pass | run, tick, `ExpireDue` | several workers, rows that are skipped, failed passes, restarts, backlog |
| Event log (`internal/store/events.go`) | `matches.event_seq`, rows of `match_events` | append, read after | gaps, duplicates, commits out of order, savepoints |
| Transactions (`internal/store/store.go`) | a transaction, or a savepoint in one | `InTx` | rollback on every path |
| Migrations (`internal/store/migrate.go`, `cmd/devduelctl`) | `schema_migrations`, an advisory lock, a call's list of what is missing | migrate | several processes with different binaries, a crash half way, a lost answer |
| Challenge specifications (`internal/challenge`) | none | decode, default, validate, load a directory, load a starting tree | what the checks let through has to fit the tables |
| Challenge catalog (`internal/store/catalog.go`, `cmd/api`) | `challenges`, `requirements`, `challenge_files` | boot, register, fill in files | instances that boot together, from different checkouts, on a database that is being migrated |
| Judge (`internal/judge`, `internal/container`) | a network and two containers per run, a capped log | run, wait, read, tear down | commands that time out after they worked, partial failure, names in use, leaks, a tester that never exits |
| Tester results (`internal/tester`) | none | parse, collect | noise, repeated markers, truncated documents |
| Verification (`internal/verify`) | what the runs of a challenge found | build, judge three times, compare | a run that failed must conclude nothing |
| Accounts and sessions (`internal/auth`, `internal/api/auth.go`, `session.go`, `users.go`, `sessions.go`) | `users`, `ratings`, `sessions`, the cookie of a browser | register, log in, authenticate, log out | registration races, rehashing, expiry under two clocks, tabs that share a cookie |
| HTTP API (`internal/api`) and processes (`cmd`) | none | decode, authenticate, map errors | – |

Players call the HTTP API, which calls `internal/match`, which calls the store;
the worker calls the store. The components meet only in the database: in the
match row, which every writer of a match locks first; in the triggers of
migration 0003, which keep the flag `unfinished` of every seat equal to the
state of its match; and in the workspace rows, which are seeded by the
transaction that starts a match and are written only while it is active.
An API process loads and registers its challenges before it serves; it does not
migrate, which `devduelctl migrate` does. Nothing in the repository moves a
match out of `judging`: the judge is called by `devduelctl verify` alone, and
nothing yet appends to the event log from a match transition.

What makes each part correct:

- **Match life cycle**: nobody is in two unfinished matches; a code names one
  open lobby; an earned transition is never lost; exactly one caller is told
  of a transition; a match only moves forward; no deadlock.
- **Workspaces**: files exist only where a match was played; a tree stays
  within its ceilings; what is judged stops changing.
- **Finalizer**: nothing is expired early or twice; everything overdue is
  expired; a backlog is drained.
- **Event log**: numbers without gaps or repeats; a reader that resumes misses
  nothing.
- **Migrations**: each is applied once and in order; a database that is newer
  or different is left alone; nobody fails because somebody else was faster.
- **Catalog**: a registered version never changes; an instance serves only what
  it carries; the tables refuse nothing that the loader accepted but what the
  type of a column cannot hold; no deadlock.
- **Judge**: a run removes nothing that is not its own, and leaves nothing
  behind that it does not report.
- **Results and verification**: every requirement gets exactly one verdict, the
  one the tester gave last; a challenge is valid exactly when the testers said
  what it claims; a report rests on three runs that each have their results;
  every verification ends.
- **Accounts**: an address and a name belong to one account in any
  capitalisation; every account has a rating; a session lets in nobody but the
  one whose password opened it, and nobody once it expired or its logout was
  answered.

## The modules

```
MatchRow ── Lifecycle ── LifecycleProofs          EventLog ── EventLogProofs
   │            ▲
   │            │ INSTANCE (refinement)           Accounts ── AccountsProofs
   ├──────── Matches ── MatchesProofs ─▶ INSTANCE LifecycleProofs
   │            └────── Finalizer ── FinalizerProofs ─▶ INSTANCE MatchesProofs
   └──────── Workspaces ─▶ INSTANCE Lifecycle     Workspaces ── WorkspacesProofs

Migrate ─▶ INSTANCE SchemaHistory (refinement)
   └──┬── Catalog ─▶ INSTANCE Registry (refinement)
      │      └────── CatalogProofs
ChallengeFormat

TesterResults ─┬─ Judge ── Verify ── VerifyProofs
CappedBuffer ──┘
```

A line is EXTENDS, an arrow is INSTANCE.

- **MatchRow**: a match row with its seats as one record, and the pure readings
  and updates of it. `seat` is indexed by slot; `ready` and `submitted` are the
  users whose `ready_at` and `submitted_at` are set, of which the code only
  asks whether they are null.
- **Lifecycle**: the abstract specification. Every operation takes effect in
  one step, as its commit does. The state is `row` and the clock `now`. A
  timestamp that the code takes from `now()` is the start of its transaction,
  so here it is some time not after the commit.
- **Matches**: the same operations as the code writes them. A connection's
  record `tx` says which operation it runs, which statement is next, and what
  it has written and not committed; `held` is what it has locked. One action is
  one statement: the select for update (`LockMatch`), the check in Go
  (`Admit`, `Refuse`), the update of a seat (`MarkPlayer`), the insert of a
  match (`InsertMatch`) and of a seat (`TakeSeat`), the compare and swap with
  its trigger and its seeding (`MoveMatch`), and `Commit`. What a statement
  waits for (`Wanted`) follows from the row locks and from the two unique
  indexes. `unfinished` is the trigger-kept column, and `told` counts the
  calls that were told they moved a match.
- **Finalizer**: Matches with workers. A pass of `ExpireDue` is two steps, the
  locking of a batch (`Claim`, skip locked) and the move with the commit
  (`Move`); it may fail, and a worker may stop and start again. `left` is a
  history of what a pass saw due and free and did not take. `Seating` gives the
  matches that were started before the worker came up, and who plays them.
- **Workspaces**: Lifecycle, with the saves and deletes of the players as
  transactions of three or four statements. A match step is atomic here, since
  Matches implements it; the start of a match also seeds. A file that is too
  large is refused. The bytes of a tree are counted as the octets there are to
  number, so that the sum needs no recursion.
- **EventLog**: allocators, committed logs, writers whose transaction appends
  any number of events with a savepoint around each, and readers.
- **SchemaHistory**: the abstract specification of migrating. `history` is a
  prefix of one binary's migrations and grows by its next one, and the table
  records exactly that.
- **Migrate**: calls of `Migrate`, statement by statement: the advisory lock,
  the reading and comparison of `schema_migrations`, one transaction per missing
  migration, the deferred unlock. `schema` is what the statements of the
  migrations did, `recorded` the table, and `call` what each process does.
- **ChallengeFormat**: a challenge directory as a value, of which `Directory`
  is the set. `SpecOf` is decoding with its defaults, `validate` finds what is
  wrong, `LoadAll` and `LoadWorkspace` are the loaders. What the tables accept
  is in two parts: the constraints they spell out (`challengesCheck`,
  `requirementsCheck`, `filesCheck`), and what the types of their columns hold
  (`ColumnsHold`, `UnwritablePath`): integers up to `MaxInteger`, and texts
  without a NUL, in UTF-8, and short enough for an index. The loader looks at
  the first part only.
- **Registry**: the abstract specification of registering. A version is
  registered once; its files are given whole, and never replaced.
- **Catalog**: instances that boot, next to migrators. One action is one
  statement of `RegisterChallenge`; `boot` is what an instance has done and not
  committed, and `Waits` says which insert waits for which. Challenges are
  registered in the order of their keys, and files in the order of their paths.
- **CappedBuffer**, **TesterResults**: operators for the capped log and for the
  reading of what a tester printed. A document is a symbol followed by `end`,
  after any number of blank lines, so a document can be cut off. `Said` is the
  reference definition: the reading of the whole output, stated without a cap
  and without steps.
- **Judge**: runs over the objects of the container engine. One action is one
  docker command, which works (`done`), fails (`refused`), or works while its
  caller is told that it failed (`lost`). `owned` is what the code believes to
  have made, and `left` is what teardown still has to remove, `NextToRemove`
  first; `made`, what it did make, and `said` are histories that only properties
  read. `Kept` is what is left of an output that arrived in some writes, and
  `OutputsFit` says of the testers that their last marker line is in it.
- **Verify**: Judge with verifiers that run it three times, and with other
  callers that use the same names.
- **Accounts**: tabs of browsers whose requests interleave statement by
  statement. `sessions` are the rows, `cookie` what a browser holds, `ended`
  the tokens whose logout was answered.
- **LifecycleProofs**, **MatchesProofs**, **FinalizerProofs**,
  **WorkspacesProofs**, **EventLogProofs**, **CatalogProofs** (with what is
  proved of Migrate), **AccountsProofs**, **VerifyProofs** (with what is proved
  of CappedBuffer, TesterResults and Judge): theorems and their proofs.
- **MC...**: instances for TLC.

Operators commented as *Mutant* are deliberate mistakes, of the kind a later
change of the code could introduce. They are used by nothing; replacing the
definition that follows one by it makes a property below fail, which shows
that the property depends on that code. `PROJECT.json` pairs them.

### Modelling decisions

- *READ COMMITTED.* A statement sees what is committed when it runs and what
  its own transaction wrote. An update that had to wait re-evaluates its
  condition (`Swaps`) on the row as it is then.
- *Failure.* `Abort` rolls a transaction back at any point: a failed
  statement, a cancelled context, a lost connection, a crash of the process.
  A rolled-back transaction and a request that never came are the same, so a
  lost response followed by a retry is a second request in the model.
- *now().* `began` is the clock when the transaction began; time may pass
  while it waits for locks.
- *Locks.* `MatchLock`, `SeatLock` and `CodeLock` stand for the row locks and
  for the uncommitted index entries that make a unique insert wait. The
  key-share locks of foreign keys are left out: an update here changes no key
  column, so it takes a lock that key-share does not conflict with, and the
  selects `for update`, all on match rows, meet key-share locks only of seat and
  event inserts, whose transactions already hold that row. A workspace file
  refers to the seat and not to the match.
- *Identifiers* come from `internal/id` and are never drawn twice.
- *Scores, ratings of a match and winners* have columns that no code writes,
  and are left out. The rating that a new account gets is in Accounts.
- *Lost commits.* Where a caller acts on whether a commit worked (Migrate,
  Catalog, Accounts), a commit that fails may have been carried out
  (`MayLand`, `Stop`, `Fails`).
- *Texts* of a specification are members of sets: `Slugs` are those the pattern
  accepts, `Pinned` the image references with a tag, and so on. Numbers and
  durations are themselves, since the checks are about their bounds. Paths are
  numbers, in the order of the bytes; `PathBytes` and `PathLength` say how long
  one is to the loader, which counts bytes, and to the table, which counts
  characters. `MaxInteger` stands for 2^31 - 1 and is small in the run.
- *Checksums and digests* are the contents they are made from, which supposes
  that no two contents share one.
- *Output* of a container is a sequence of symbols: an end of line, the marker,
  noise, and each document as a body and an `end`. The cap is in symbols.
- *A hash* is the password it was made from and whether it is cheap; a session
  row stands for the digest of its token.
- *Clocks.* The expiry of a session is computed by the process that opens it,
  whose clock is off by some `Skew`; its start and its end are judged by the
  database's.

## Runs

| Run | Bounds | Shows |
|---|---|---|
| `lifecycle` | 3 users, 2 matches, 2 codes, 2 challenges (one without files), clock 0..2 | all promises of the atomic life cycle |
| `matches` | 2 users, 2 matches, 1 code, 2 connections, 2 draws, clock 0..1 | Matches implements Lifecycle; no deadlock; the flag follows the state; one mover per transition |
| `matches_race` | 2 users, 1 match, 3 connections, one challenge without files | no deadlock, and Lifecycle implemented, with three transactions on one match and a start that is rolled back |
| `matches_live` | 2 users, 1 match, 2 connections | every request ends |
| `workspaces` | 3 users, 1 match, 2 savers, 3 paths of which 1 has a file, files of 1 byte and of 2, of which the second is too large, ceilings of 1 file and 1 byte, clock 0..1 | no files where nothing was played; the ceilings are exceeded by at most what the other savers add; only saves under way can land after the end |
| `workspaces_ceiling` | 2 users, 2 savers, 3 paths | *violation*: the ceilings are exceeded |
| `workspaces_judged` | 1 saver | *violation*: the tree changes in judging |
| `finalizer` | 2 matches that are due together, batch 1, 2 workers, 1 player connection, clock 0..1 | nothing expired early or twice; backlog drained; overdue matches are judged |
| `event_log` | 2 logs of up to 3 events, 2 writers, 1 reader | no gaps, nothing missed |
| `boot` | 2 migrators, 4 binaries (old, newer, diverged, with a gap), 2 instances, 10 checkouts (one file tree, two challenges, another tree, an edited challenge, a malformed one, one with a link, one with a challenge twice; a version, a weight and a title that no column holds, a path that is too long, and a second challenge with a path that is not UTF-8), integers up to 2 | Migrate implements SchemaHistory and the catalog implements Registry; an instance serves what it carries; the tables refuse by type only; nobody is in another's way |
| `judge` | 1 verifier and 1 other caller of the same names, 1 suffix, 1 fault, testers that are quiet, noisy, partial, foreign, cut off or silent, a log of 8 symbols | nothing is left unsaid or taken from another; scores and reports say what the testers said; a report rests on three runs; every verification ends |
| `accounts` | 2 tabs of 1 browser, 4 forms (two that differ in case, an invalid one), 2 tokens, clock 0..2, skew -1..1, 1 fault, perhaps an account with a cheap hash | accounts are whole; nobody is let in wrongly |

Why these bounds reach the interesting cases. Two matches are needed for a
player to be in two, for a code to be used twice and for a batch to be full;
two connections for every pairwise race, three for a lock cycle of three and
for a third party that overtakes. One join code makes every second lobby
collide. A clock of one or two units has a time before, at and after each
deadline. The third user of `workspaces` is a stranger to the match.
Two of its paths start empty, which is more than the ceiling has room for, and
two savers are the fewest that overrun one; both bounds of `OverrunBounded`, of
files and of bytes, are reached.

In `boot` the binaries and checkouts are one of each kind, since what matters
is how two of them relate: equal, ahead, different, refused. Two processes race
for the lock, for a version and for a file; a third would wait with the second.
Trees have up to two files, so that two can agree, overlap or be disjoint. Of
the checkouts that the tables refuse, one is refused with its first challenge,
and one with its second, after the first was registered. The
database may begin at any version of any binary, and challenges may be
registered from before there were files. In `judge` two callers of one name
suffice for each to meet what the other made or left; one fault puts a failure
or a death at every step, and since a run cleans up one command at a time, the
effects of a first failure are seen in full. Ctrl-C is no fault: it may come at
any moment, and a command that it kills may have worked all the same. The log of 8 symbols is shorter
than the longest output, and its kept end still holds each last marker line,
which `MCOutputsFit` checks.
In `accounts`, two tabs race for an address, for one session, and with a
logout; the clock runs past the lifetime of 1, and a skew of -1 makes a session
that the table refuses.

`Horizon`, `MaxEvents`, `CodeAttempts`, `MaxFaults`, `MaxTime`, `MaxTokens` and
`LogLimit` bound the clocks, the logs, the draws, the failures and the tokens;
`CodeAttempts` and `LogLimit` are constants of the code too, the others exist
for TLC only.

`CHECK_DEADLOCK FALSE` is set for `lifecycle`, where nothing is left to do when
every match has ended, the identifiers are used up and the clock is at its
horizon; and for `judge`, where each process verifies or judges once and ends.
In the other specifications a request can always begin, or fail.

### Fairness

- `Matches!FairSpec`: strong fairness of each connection's next statement. A
  statement that waits for a lock is queued by PostgreSQL and gets it in its
  turn, although others may take the lock in between; a statement that does not
  wait runs. Requests need not arrive, the clock need not move, and nothing
  has to fail.
- `Workspaces!FairSpec`: the same for the savers. It is used by
  `workspaces_judged` alone, which needs the match to end.
- `Finalizer!FinalizerFairness`: the same for the players; a claimed batch is
  not failed for ever (`Move`); and a due match that is free again and again
  while a worker could look is eventually found by a tick (`Finds`). The last
  is an assumption on the world, not on the code: skip locked never waits, so
  a match that happened to be held at every tick would never be expired. Locks
  are held for moments and ticks are seconds apart. `OverdueIsJudged` further
  presumes that some worker is not stopped for good. Ticks and passes that find
  nothing need no fairness.
- `Verify!FairSpec`: weak fairness of each verifier's next step. Every docker
  command runs under a timeout and so does the wait for the tester, hence each
  step ends, in success or not; a build has no timeout in the code, and is
  assumed to end. Testers need not exit, and nothing else need happen.

### Findings

The two violation runs show places where a comment says more than the code does.

1. `workspaces_judged`: `requireActive` reads the state without a lock, so a
   save that found the match active may commit in `judging`. What does hold:
   only saves that were already past the check can land, and they only move
   towards their end (`NoNewWriters`).
2. `workspaces_ceiling`: two concurrent writes can exceed a ceiling together.
   What does hold: `OverrunBounded`.

Smaller observations have no run.

- Saves are refused by the state of the match, not by its deadline, so they are
  accepted until a tick has moved it (`requireActive`). `CurrentMatch` finds a
  membership and reads the match in two statements without a transaction, so it
  can return a match that was abandoned in between (`BeginCurrent`,
  `ReadCurrent`).
- Two instances whose trees differ can both fill in the files of a version that
  has none, when the trees agree where they overlap: neither sees the
  uncommitted files of the other. The union is stored (`Registry!Fill`), which
  the next boot of either then refuses (`catalog.go:74-77` means to rule out such a
  mix).
- `checkRegistration` compares category, difficulty, duration, tag and
  requirements. A change of the app, the tester or the limits without a new
  version is not noticed, although `catalog.go:22-24` speaks of the exact spec
  (`Registration` is what is compared).
- A create whose command times out, or is killed by Ctrl-C, may still be carried
  out by the engine, and its run does not remove the object, since only what
  succeeded is owned (`judge.go:178-185`). "Removed when the job ends, on every
  path including the ones that error" (`judge.go:22-23`) says more than that;
  `NothingLeftUnsaid` bounds it to one object, of a run that failed, and says
  that nothing is left when the engine serves and nobody cancels.
- A verifier goes on with a run that has results although it left something
  behind, and the leak is not shown (`Counts`). A run that is cancelled while it
  waits has an error as the result of every requirement; when it is the last of
  the three, a report is given that finds the challenge invalid, and
  `ReportsAreComplete` says this of the last run only.
- `validPath` "rejects a path the workspace tables would refuse"
  (`workspace.go:132-134`), but a name that is not UTF-8 passes it. Nor does
  `validate` limit a version or a weight from above (`validate.go:122`, `:271`),
  which are `integer` columns, or look for a NUL in a text, or limit the length
  of a requirement's key. All of these load, and then fail when they are
  registered: the instance does not serve, and the challenges before the one
  that is refused stay registered (`InsertChallenge`, `InsertFile`,
  `RefusedByTypeOnly`).
- A session row that expired is never deleted. A request that was admitted
  before a logout still runs its handler. The answer to a logout clears the
  cookie of a login that came in between. When the answer to the commit of a
  registration is lost, a retry is told that the name is taken.

## Proofs

TLAPS proves the following for any constants that satisfy the modules'
assumptions. Every invariant and every action property that a passing run
checks is proved, and every refinement; liveness is not.

- `LifecycleProofs`
  - `TypeCorrect`: `[]TypeOK`.
  - `AtMostOneUnfinished`: `[]OneUnfinished`. The property is inductive given
    the types: `OnlyTheFreeEnter` shows that a user comes to be in an
    unfinished match only by a step in which they were in none, and that such
    a step changes one match only.
  - `OpenCodesUnique`: `[]CodeNamesOneLobby`, in the same way for codes.
  - `EveryMatchSound`: `[]EveryMatchInOrder`, the conjunction of `LobbyWaits`,
    `PlayedByTwo`, `NoLostTransition` and `JudgedForAReason`. None of them is
    inductive: that
    both were ready when a match started needs that a lobby counts only seated
    players as ready, and that a judged match has a reason needs what its
    deadline was set to. `AllSound` is their conjunction row by row. It is
    inductive together with the types and `OneUnfinished`, which keeps a host
    out of the second seat. There is one lemma per operation (`JoinSound`,
    `StartSound`, ...).
  - `OnlyForward`: the action property `Forward`, from the types and
    `AllSound`.
- `MatchesProofs`
  - The inductive invariant `IInv` says of each transaction what shape it has
    at each statement (`Formed`), which locks go with that (`Holds`), what it
    has checked and may rely on because it holds the row of its match
    (`Checked`), and what it may rely on of all other matches because it holds
    a key of a unique index (`Cleared`); and of each two transactions what sets
    them apart (`Apart`). None of the properties is inductive without it: a
    commit is a step of Lifecycle only because what was checked some
    statements earlier is still so, which is what the locks are for.
  - `TypeCorrect`, `FlagsAreRight` (`FlagFollowsState`) and `MovesAreToldOnce`
    (`OneMover`) follow, the last two because the flags and the count of the
    calls that were told are functions of the committed row.
  - `StatementsKeepThePromise`: Matches implements Lifecycle. Every `Commit` is
    one operation of Lifecycle, and every other statement a stutter.
  - `NobodyWaitsInACircle`: `[]NoDeadlock`, for any number of connections. What
    a first statement waits for is held by a transaction past its own; one that
    takes a seat waits only for seats that are written; and a transaction past
    its match row that takes no seat waits for nobody.
  - `StatementsInherit`: `OneUnfinished`, `CodeNamesOneLobby` and
    `EveryMatchInOrder` hold of the interleaved statements, from the refinement
    and LifecycleProofs.
- `FinalizerProofs`
  - The players' part is not proved again. With the workers' locks left out
    (`ClientsHold`) every step of a player is a step of Matches, so the
    invariant of MatchesProofs holds of them; `FInv` adds that a worker holds
    the rows it has claimed and nothing else, that these are due and that no
    player is at work on them, and that a pass whose batch is not full left
    nothing.
  - `FinalizerTyped`, `BacklogIsDrained` (`DrainsBacklog`),
    `WorkersKeepThePromise` (the refinement `EveryStepIsLifecycle`),
    `WorkersTellTheTruth` (flags and tellings with workers), and
    `WorkersNeverWait`: the seats of claimed matches are locked by nobody, which
    is why the model may let a worker's triggers run without a wait.
- `WorkspacesProofs`
  - `IInv` has what a save has found out (`Placed`) and `Bounded`. The bound on
    a tree is not inductive, as the danger is in saves that have measured and
    not yet written. The bound on the tree together with what such saves will
    add is (`Claimed`): a commit moves cells from the second part to the first,
    and a measurement lets a save in only when the tree it sees has room for it.
    Files and bytes are one argument, since a tree is counted as a set of cells.
  - `TypeCorrect`, `FilesOnlyForPlayers` (`FilesOnlyWherePlayed`),
    `TreesStayBounded` (`OverrunBounded`) and `NoNewWritersEver`
    (`NoNewWriters`).
- `EventLogProofs`
  - `EventLogTyped`: `[]TypeOK`.
  - `LogIsGapless`, `ReadersMissNothing`: `[]Gapless` and `[]NothingMissed`,
    from the inductive invariant `LogInv`. Neither is inductive, because both
    are about committed state and the danger is in transactions that are
    still open. `LogInv` adds that a transaction which has allocated is the
    only one to hold its match, that its uncommitted rows are exactly the
    numbers between the committed allocator and its own last one
    (`AllComplete`), and that no reader is ahead of the allocator
    (`NoneAhead`). Savepoint rollback is where this is subtle: it gives the
    number back, and with the first number the lock.
- `CatalogProofs`
  - `MigrateTyped`: `[]MigrateTypeOK`.
  - `MigrateFollowsOneLineage`: Migrate implements SchemaHistory. The invariant
    `MigrateInv` adds to the types that whoever is past the lock holds it, that
    the schema begins some binary's migrations and the table agrees with it,
    and that what a process has left to apply is what its binary carries
    beyond the schema. `AgreeingBinaryExtends` shows that the comparison with
    the table is enough for that, `MissingIsNext` that the next one is applied,
    and `LandingExtends` that a commit, with its answer or without, is a step of
    SchemaHistory. `SchemaFollowsOneLineage` is the same with instances that
    boot in between.
  - `MigratorsTakeTurns`: one process at a time is between the lock and the
    unlock, and none fails because another was faster.
  - `CatalogInv` is the invariant of migrators and instances: `BootInv` says
    what an instance may rely on at each statement of a registration
    (`TxSound`), that two transactions have not written the same row (`Apart`),
    and that what an instance is through with is registered as it carries it
    (`Carries`), which is the part that the commits of others could spoil.
  - `TypeCorrect`, `ServesAllItCarries` (`ServesWhatItCarries`),
    `RegistrationsAreKept` (the refinement of Registry), and
    `NobodyGetsInTheWay` (`NobodyInTheWay`): who is waited for is filling in
    files, and if it waits itself then for a greater path, so of any set of
    instances some one waits for none of the others.
  - `OnlyTypesRefuse` (`RefusedByTypeOnly`): whatever directory is loaded
    satisfies the constraints that the tables spell out (`LoadedIsSound`,
    `ReadFilesPass`), and an instance that serves carries nothing that a column
    cannot hold. The second half needs the invariant: an instance may find its
    version registered by another and insert nothing, so `TablesSound` says of
    every committed row and path that it was insertable.
- `AccountsProofs`
  - `IInv` has four parts: accounts are whole and their identifiers are
    consecutive (`Whole`); a session belongs to the account whose password was
    typed, and is gone when its logout was answered (`Sessions`); what each
    request has found out is still so (`Requests`); and there are tokens for all
    logins under way (`Room`), which only the bound on tokens makes necessary.
    `AccountsAreWhole` is not inductive, since a registration inserts its user
    and its rating in different statements and others run in between.
  - `TypeCorrect`, `AccountsStayWhole` (`AccountsAreWhole`) and
    `AlwaysLetInRightly` (`LetInRightly`).
- `VerifyProofs`
  - `VerifyInv` says of each run what it owns at each of its stages, and that it
    made exactly that until something fails; that what is left to remove is
    owned and made, and what was made and owned is left or reported; that of
    what was made one part at most is not owned, and then the run failed
    (`RunSound`); that two runs of one name have not made the same object
    (`Apart`); and that while nothing has failed what runs has its maker, and a
    run that nobody cancelled has made only what it owns (`Undisturbed`).
    `TypeCorrect`, `NothingIsLeftUnsaid` (`NothingLeftUnsaid`) and
    `OnlyItsOwnIsRemoved` (`RemovesOnlyItsOwn`) follow from it.
  - `BufferHolds`: after any writes the capped buffer has the beginning and the
    end of what was written and counts what is between. `DocumentSurvives`: then
    what is kept of an output has a marker line exactly when all of it has one,
    and the same last document, wherever the cut falls and whether or not the
    notice is printed. For this the notice has to end its line.
  - `ResultsAreAsSaid` (`ScoresWhatTheTesterSaid`): what `Collect` reads off the
    kept output is what `Said` reads off the whole. `ReportsAreTrue`
    (`ValidMeansAsClaimed`) adds that `inspect` finds nothing exactly when all
    three runs are as claimed. Their invariant is `ScoresInv`, over `VerifyInv`.
  - `ReportsRestOnRuns` (`ReportsAreComplete`): a run that counts has one result
    for every requirement (`Settled`), a phase is only reached when the one
    before it counted, and a run that begins after Ctrl-C fails at its first
    command (`Doomed`), so it never counts. The invariant is `CompleteInv`.
  - `DocumentSurvives`, `ResultsAreAsSaid` and `ReportsAreTrue` have `OutputsFit`
    as a hypothesis, and it is needed: a tester
    that prints more after its last marker than the buffer keeps loses its
    results. The instance of `judge` satisfies it.

The assumptions say what the code's own constants or its database give:

- the sets of things that are counted are finite (`Match` for the batch of a
  worker, `Saver` and `Path`, `Tab`, `Files[b]`, `Root[c]`);
- limits, sizes and versions are naturals, with batches, durations and draws of
  at least one;
- the values that stand for absence are not values of anything (`Null`,
  `Absent`, `Link`);
- what a checkout or a worker is given to start with is well formed: a checkout
  holds directories, starting trees obey the ceilings they are validated for
  (`WorkspacesAssumption`), and nobody plays in two matches (`Seating`);
- a challenge that is verified declares something broken, and its keys differ,
  both of which `validate` enforces; no symbol of output is both a document and
  a marker or an end of line; the notice of the buffer ends with an end of line
  (`capped.go:66`).

What would be an induction is stated as a least counterexample among numbers
(`SomeLeast`): the first write after which the buffer is wrong, the instance
with the greatest next path. Counting arguments go through the cardinality of
sets.

Only model-checked: liveness (`RequestsEnd`, `OverdueIsJudged`,
`EveryVerificationEnds`), which is out of the prover's reach, and the two
violations.

## Not modelled

- Identifiers, tokens and join codes (`internal/id`): random values that are
  assumed fresh; the retry when a join code is not is in Matches.
- The text of things: YAML and JSON decoding beyond which document is accepted,
  the patterns of names and paths, digests, wording of errors, cookie
  attributes, HTTP status codes, logging. These are sequential, and tests reach
  them.
- The arguments of the docker commands (`internal/container/cli.go`): what the
  commands do is modelled, external to the code, by `Command` and the state of
  the engine's objects.
- The HTTP server, its shutdown, configuration from the environment, and the
  lobby and workspace handlers, which decode, call one operation and encode.
- The challenges themselves, their images and testers, which are data.
- Test helpers such as `internal/store/storetest`.

## Plan

1. Done: the models of every component named above, and the runs.
2. Done: the invariants, action properties and refinements of all of them,
   proved.
3. To be proved further: that an instance which fails to boot, or a migrator
   that is refused, had a reason in the tables or a failure; that a tree whose
   match is judged changes at most once for each saver that was past the check,
   which `NoNewWriters` implies over a behaviour; that an operation which is
   refused leaves no trace.
4. To be modelled further: a save after the deadline and before the tick, with a
   bound on how late it may come, which needs the clock of the worker.
