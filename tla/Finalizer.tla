----------------------------- MODULE Finalizer -----------------------------
(***************************************************************************)
(* The worker that ends matches whose time is up (internal/finalizer and   *)
(* store.ExpireDue), racing the players' own transactions and other        *)
(* workers.                                                                *)
(*                                                                         *)
(* A worker is a connection that runs no request.  Its pass is one         *)
(* statement with two moments that others can tell apart: it locks the due *)
(* rows nobody else holds, earliest deadline first and at most a batch,    *)
(* and then it moves them and commits.  A full batch is followed by        *)
(* another pass at once; after a short one the worker waits for its        *)
(* ticker.                                                                 *)
(***************************************************************************)
EXTENDS Matches, FiniteSets

CONSTANTS
  Worker,  \* the connections of the workers
  Batch,   \* how many matches one pass may move
  Seating  \* who sits where in the matches that are started before it comes up

Underway == DOMAIN Seating

\* Nobody plays two matches, and nobody plays themselves.
ASSUME FinalizerAssumption ==
  /\ Worker \subseteq Conn
  /\ Batch \in Nat \ {0}
  /\ IsFiniteSet(Match) /\ Code # {}
  /\ Underway \subseteq Match /\ Seating \in [Underway -> [Slot -> User]]
  /\ \A m, n \in Underway, s, t \in Slot : Seating[m][s] = Seating[n][t] => m = n /\ s = t

VARIABLE
  pass  \* worker -> what it is at, the rows it claimed, and those it left

fvars == <<row, unfinished, now, tx, held, told, pass>>

Waiting == [at |-> "waiting", claim |-> {}, left |-> {}]
Looking == [Waiting EXCEPT !.at = "looking"]
Stopped == [Waiting EXCEPT !.at = "stopped"]

(***************************************************************************)
(* The matches that are underway were started at time 0, over every        *)
(* challenge: a row as the last of its players to get ready left it.       *)
(***************************************************************************)
StartedRow(seat, h) ==
  [NoRow EXCEPT !.state = "active", !.code = CHOOSE k \in Code : TRUE,
                !.challenge = h, !.seat = seat, !.ready = {seat[s] : s \in Slot},
                !.started = 0, !.deadline = Duration[h]]

FinalizerInit ==
  /\ \E h \in [Underway -> Stocked] :
       row = [m \in Match |-> IF m \in Underway THEN StartedRow(Seating[m], h[m]) ELSE NoRow]
  /\ unfinished = [m \in Match |-> Players(row[m])]
  /\ now = 0
  /\ tx = [c \in Conn |-> Idle]
  /\ held = [c \in Conn |-> {}]
  /\ told = [m \in Match |-> [start |-> IF m \in Underway THEN 1 ELSE 0, judge |-> 0]]
  /\ pass = [w \in Worker |-> Looking]

-----------------------------------------------------------------------------
\* Mutant: the deadline is off by one.
DueEarly(m) == row[m].state = "active" /\ row[m].deadline <= now + 1

Due(m) == row[m].state = "active" /\ row[m].deadline <= now
Locked(m) == \E c \in Conn : MatchLock(m) \in held[c]
Claimable == {m \in Match : Due(m) /\ ~Locked(m)}

\* Mutant: no limit on the inner select.
WholeBacklog(S) == {S}

Batches(S) == {B \in SUBSET S :
  /\ Cardinality(B) = (IF Cardinality(S) < Batch THEN Cardinality(S) ELSE Batch)
  /\ \A m \in B, n \in S \ B : row[m].deadline <= row[n].deadline}

(***************************************************************************)
(* The inner select: for update skip locked.  A worker takes this step     *)
(* when it starts, when its ticker fires, or right after a full batch.     *)
(***************************************************************************)
Claim(w) ==
  /\ pass[w].at \in {"waiting", "looking"}
  /\ Claimable # {}
  /\ \E B \in Batches(Claimable) :
       /\ pass' = [pass EXCEPT ![w] =
            [at |-> "claimed", claim |-> B, left |-> Claimable \ B]]
       /\ held' = [held EXCEPT ![w] = {MatchLock(m) : m \in B}]
  /\ UNCHANGED <<row, unfinished, now, tx, told>>

\* Nothing is due, or all that is due is held: the pass is over.
LookInVain(w) ==
  /\ pass[w].at \in {"waiting", "looking"}
  /\ Claimable = {}
  /\ pass' = [pass EXCEPT ![w] = Waiting]
  /\ UNCHANGED <<row, unfinished, now, tx, held, told>>

\* Mutant: a full batch counts as the last one.
MoveOnce(w) == LET B == pass[w].claim IN
  /\ pass[w].at = "claimed"
  /\ \A c \in Conn \ {w} : held[c] \cap UNION {Seats(m) : m \in B} = {}
  /\ row' = [m \in Match |-> IF m \in B THEN [row[m] EXCEPT !.state = "judging"] ELSE row[m]]
  /\ unfinished' = [m \in Match |-> IF m \in B THEN Players(row[m]) ELSE unfinished[m]]
  /\ told' = [m \in Match |-> IF m \in B THEN [told[m] EXCEPT !.judge = @ + 1] ELSE told[m]]
  /\ held' = [held EXCEPT ![w] = {}]
  /\ pass' = [pass EXCEPT ![w].claim = {}, ![w].at = "waiting"]
  /\ UNCHANGED <<now, tx>>

(***************************************************************************)
(* The outer update, its trigger on the seats, and the commit.  The update *)
(* repeats neither guard: the claim's locks are what keeps them true.      *)
(***************************************************************************)
Move(w) == LET B == pass[w].claim IN
  /\ pass[w].at = "claimed"
  /\ \A c \in Conn \ {w} : held[c] \cap UNION {Seats(m) : m \in B} = {}
  /\ row' = [m \in Match |-> IF m \in B THEN [row[m] EXCEPT !.state = "judging"] ELSE row[m]]
  /\ unfinished' = [m \in Match |-> IF m \in B THEN Players(row[m]) ELSE unfinished[m]]
  /\ told' = [m \in Match |-> IF m \in B THEN [told[m] EXCEPT !.judge = @ + 1] ELSE told[m]]
  /\ held' = [held EXCEPT ![w] = {}]
  /\ pass' = [pass EXCEPT ![w].claim = {},
                          ![w].at = IF Cardinality(B) < Batch THEN "waiting" ELSE "looking"]
  /\ UNCHANGED <<now, tx>>

\* Mutant: the failed statement is not rolled back.
FailOpen(w) ==
  /\ pass[w].at = "claimed"
  /\ pass' = [pass EXCEPT ![w] = Waiting]
  /\ UNCHANGED <<row, unfinished, now, tx, told, held>>

\* The statement failed: it is rolled back, logged, and the next tick tries
\* again.
Fail(w) ==
  /\ pass[w].at = "claimed"
  /\ held' = [held EXCEPT ![w] = {}]
  /\ pass' = [pass EXCEPT ![w] = Waiting]
  /\ UNCHANGED <<row, unfinished, now, tx, told>>

\* The process is told to stop, or dies; its statement does not survive it.
Stop(w) ==
  /\ pass[w].at # "stopped"
  /\ held' = [held EXCEPT ![w] = {}]
  /\ pass' = [pass EXCEPT ![w] = Stopped]
  /\ UNCHANGED <<row, unfinished, now, tx, told>>

\* A worker that has just started looks before it waits.
Restart(w) ==
  /\ pass[w].at = "stopped"
  /\ pass' = [pass EXCEPT ![w] = Looking]
  /\ UNCHANGED <<row, unfinished, now, tx, held, told>>

PlayerNext ==
  /\ \/ Tick
     \/ \E c \in Conn \ Worker :
          \/ \E m \in Match : Begin(c, m)
          \/ Statement(c)
          \/ Abort(c)
  /\ UNCHANGED pass

FinalizerNext ==
  \/ PlayerNext
  \/ \E w \in Worker :
       \/ Claim(w)
       \/ LookInVain(w)
       \/ Move(w)
       \/ Fail(w)
       \/ Stop(w)
       \/ Restart(w)

FinalizerSpec == FinalizerInit /\ [][FinalizerNext]_fvars

(***************************************************************************)
(* Players' statements run, a claim does not fail for ever, and a due      *)
(* match that is free again and again while a worker could look is found   *)
(* free by some tick.  The last is what skip locked asks of the world:     *)
(* locks are held for moments and ticks are seconds apart.                 *)
(***************************************************************************)
Finds(m) == \E w \in Worker : Claim(w) /\ m \in pass'[w].claim

FinalizerFairness ==
  /\ \A c \in Conn \ Worker : SF_fvars(Statement(c) /\ UNCHANGED pass)
  /\ \A w \in Worker : SF_fvars(Move(w))
  /\ \A m \in Match : SF_fvars(Finds(m))

FinalizerFairSpec == FinalizerSpec /\ FinalizerFairness
-----------------------------------------------------------------------------
FinalizerTypeOK ==
  /\ TypeOK
  /\ pass \in [Worker -> [at : {"waiting", "looking", "claimed", "stopped"},
                          claim : SUBSET Match, left : SUBSET Match]]
  /\ \A w \in Worker : Cardinality(pass[w].claim) <= Batch

(***************************************************************************)
(* Whatever interleaves, a step of the workers and the players is a step   *)
(* of a match's life or none: no match is expired early, twice, or after   *)
(* a player's last submission already moved it.                            *)
(***************************************************************************)
EveryStepIsLifecycle == [][Promise!Next]_<<row, now>>

(***************************************************************************)
(* A worker goes back to waiting for its ticker only when its last pass    *)
(* left no due match that it could have taken, so a backlog is not worked  *)
(* off one batch per interval.                                             *)
(***************************************************************************)
DrainsBacklog == \A w \in Worker : pass[w].at = "waiting" => pass[w].left = {}

(***************************************************************************)
(* Every match whose deadline has passed is handed to judging, although    *)
(* passes fail and rows that are held are skipped, as long as one worker   *)
(* is not stopped for good.                                                *)
(***************************************************************************)
SomeWorkerStaysUp == \E w \in Worker : <>[](pass[w].at # "stopped")

OverdueIsJudged ==
  SomeWorkerStaysUp => \A m \in Match : Due(m) ~> row[m].state = "judging"
=============================================================================
