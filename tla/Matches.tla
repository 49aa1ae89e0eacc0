------------------------------ MODULE Matches ------------------------------
(***************************************************************************)
(* The operations of internal/store/lobbies.go and matches.go, statement   *)
(* by statement, as PostgreSQL runs them at READ COMMITTED.                *)
(*                                                                         *)
(* A connection carries one request: a transaction that reads committed    *)
(* rows, keeps what it wrote to itself until it commits, and holds what it *)
(* locked until it ends.  Any statement may fail, and a request may be     *)
(* cancelled or its process die between two of them; all of these roll the *)
(* transaction back (store.go, InTx).                                      *)
(*                                                                         *)
(* What can be waited for is a match row, a seat (a row of match_players), *)
(* and the key a transaction has put into the index on open join codes but *)
(* not committed.  An insert into match_players also waits for any         *)
(* transaction that has written another seat of the same user, because the *)
(* index on unfinished memberships cannot answer until that one ends.      *)
(***************************************************************************)
EXTENDS MatchRow

CONSTANTS
  Conn,         \* database connections, each serving one request at a time
  Ops,          \* the operations an instance exercises
  CodeAttempts  \* join codes one Create draws before it gives up

ASSUME MatchesAssumption ==
  /\ Ops \subseteq {"create", "join", "cancel", "ready", "submit", "expire", "current"}
  /\ CodeAttempts \in Nat \ {0}
  /\ "idle" \notin Ops

VARIABLES
  row,         \* the committed match rows
  unfinished,  \* match -> the users whose committed seat has the flag set
  now,         \* the database's clock
  tx,          \* what each connection is doing
  held,        \* the locks each connection holds
  told         \* match -> how many committed calls reported each transition

vars == <<row, unfinished, now, tx, held, told>>

MatchLock(m) == <<"match", m>>
SeatLock(m, u) == <<"seat", m, u>>
CodeLock(k) == <<"code", k>>
Lock == {MatchLock(m) : m \in Match} \cup {CodeLock(k) : k \in Code}
          \cup {SeatLock(m, u) : m \in Match, u \in User}

Seats(m) == {SeatLock(m, u) : u \in Players(row[m])}
Memberships(u) == {SeatLock(m, u) : m \in Match}

Idle == [op |-> "idle", at |-> "idle", user |-> Null, match |-> Null,
         code |-> Null, challenge |-> Null, began |-> 0,
         wrote |-> FALSE, moved |-> FALSE, tries |-> 0]

Step == {"idle", "insert", "lock", "check", "seat", "move", "commit", "read"}

\* Mutant: Submit marks the seat before it has the match row.
SeatFirst(op) ==
  CASE op = "create"  -> "insert"
    [] op = "current" -> "read"
    [] op = "submit"  -> "check"
    [] OTHER          -> "lock"

\* The first statement of each operation.
FirstStep(op) ==
  CASE op = "create"  -> "insert"
    [] op = "current" -> "read"
    [] OTHER          -> "lock"

Init ==
  /\ row = [m \in Match |-> NoRow]
  /\ unfinished = [m \in Match |-> {}]
  /\ now = 0
  /\ tx = [c \in Conn |-> Idle]
  /\ held = [c \in Conn |-> {}]
  /\ told = [m \in Match |-> [start |-> 0, judge |-> 0]]

-----------------------------------------------------------------------------
(***************************************************************************)
(* What a transaction sees and what its next statement needs.              *)
(***************************************************************************)

\* The ready and submitted players as connection c sees them: what others
\* committed, and its own write.
Seen(set, c) == IF tx[c].wrote THEN set \cup {tx[c].user} ELSE set

AllReady(c) == LET r == row[tx[c].match] IN
  Full(r) /\ Players(r) \subseteq Seen(r.ready, c)
AllSubmitted(c) == LET r == row[tx[c].match] IN
  Players(r) \subseteq Seen(r.submitted, c)

\* Mutant: the expiry does not say "where state = 'active'".
SwapsBlindly(c) == LET r == row[tx[c].match] IN
  CASE tx[c].op = "ready"  -> r.state = "lobby" /\ AllReady(c)
    [] tx[c].op = "submit" -> r.state = "active" /\ AllSubmitted(c)
    [] tx[c].op = "expire" -> r.deadline <= tx[c].began
    [] tx[c].op = "cancel" -> r.state = "lobby"
    [] OTHER               -> FALSE

(***************************************************************************)
(* The compare and swap: the update of the match row touches it exactly    *)
(* when its where clause holds of the row as it is by then.                *)
(***************************************************************************)
Swaps(c) == LET r == row[tx[c].match] IN
  CASE tx[c].op = "ready"  -> r.state = "lobby" /\ AllReady(c)
    [] tx[c].op = "submit" -> r.state = "active" /\ AllSubmitted(c)
    [] tx[c].op = "expire" -> r.state = "active" /\ r.deadline <= tx[c].began
    [] tx[c].op = "cancel" -> r.state = "lobby"
    [] OTHER               -> FALSE

Wanted(c) == LET t == tx[c] IN
  CASE t.at = "insert" -> {CodeLock(t.code)}
    [] t.at = "lock"   -> {MatchLock(t.match)}
    [] t.at = "seat"   -> Memberships(t.user)
    [] t.at = "check" /\ t.op \in {"ready", "submit"} -> {SeatLock(t.match, t.user)}
    [] t.at = "move"   -> {MatchLock(t.match)} \cup (IF Swaps(c) THEN Seats(t.match) ELSE {})
    [] OTHER           -> {}

WaitsFor(c) == {d \in Conn \ {c} : held[d] \cap Wanted(c) # {}}
Granted(c) == WaitsFor(c) = {}

\* Mutant: the transaction is left open on its connection.
EndOpen(c) ==
  /\ tx' = [tx EXCEPT ![c] = Idle]
  /\ UNCHANGED held

\* The transaction ends, committed or not, and lets go of everything.
End(c) ==
  /\ tx' = [tx EXCEPT ![c] = Idle]
  /\ held' = [held EXCEPT ![c] = {}]

Unwritten == UNCHANGED <<row, unfinished, now, told>>

-----------------------------------------------------------------------------
(***************************************************************************)
(* Requests arrive.  now() is fixed for the whole transaction here.        *)
(***************************************************************************)
Request(c, op, u, m, k, h) ==
  /\ tx[c] = Idle
  /\ op \in Ops
  /\ tx' = [tx EXCEPT ![c] = [Idle EXCEPT
       !.op = op, !.at = FirstStep(op), !.user = u, !.match = m,
       !.code = k, !.challenge = h, !.began = now]]
  /\ UNCHANGED held
  /\ Unwritten

\* A new lobby has an identifier nothing else has used (id.New).
BeginCreate(c, u, m) ==
  /\ row[m] = NoRow
  /\ \A d \in Conn : tx[d].match # m
  /\ \E k \in Code, h \in Challenge : Request(c, "create", u, m, k, h)

\* The lobby is looked up before its row is locked.
BeginJoin(c, u, m) ==
  /\ row[m].state = "lobby"
  /\ Request(c, "join", u, m, Null, Null)

BeginOnMatch(c, u, m) ==
  /\ row[m] # NoRow
  /\ \E op \in {"cancel", "ready", "submit"} : Request(c, op, u, m, Null, Null)

\* An update waits only for a row that qualifies when the statement starts.
BeginExpire(c, m) ==
  /\ row[m].state = "active"
  /\ row[m].deadline <= now
  /\ Request(c, "expire", Null, m, Null, Null)

\* The first of CurrentMatch's two statements finds the membership.
BeginCurrent(c, u, m) ==
  /\ u \in unfinished[m]
  /\ Request(c, "current", u, m, Null, Null)

-----------------------------------------------------------------------------
(***************************************************************************)
(* Opening a lobby: the match row goes in first, and the index on open     *)
(* codes refuses one that another open lobby is using.  Create then draws  *)
(* again, in a new transaction, until its attempts run out.                *)
(***************************************************************************)
CodeTaken(c) == \E m \in Match : row[m].state = "lobby" /\ row[m].code = tx[c].code

InsertMatch(c) ==
  /\ tx[c].at = "insert"
  /\ Granted(c)
  /\ ~CodeTaken(c)
  /\ tx' = [tx EXCEPT ![c].at = "seat"]
  /\ held' = [held EXCEPT ![c] = {MatchLock(tx[c].match), CodeLock(tx[c].code)}]
  /\ Unwritten

\* Mutant: one draw too many.
DrawOnceMore(c) ==
  /\ tx[c].at = "insert"
  /\ Granted(c)
  /\ CodeTaken(c)
  /\ \/ /\ tx[c].tries < CodeAttempts
        /\ \E k \in Code : tx' = [tx EXCEPT
             ![c].code = k, ![c].tries = @ + 1, ![c].began = now]
        /\ UNCHANGED held
     \/ /\ tx[c].tries = CodeAttempts
        /\ End(c)
  /\ Unwritten

DrawAgain(c) ==
  /\ tx[c].at = "insert"
  /\ Granted(c)
  /\ CodeTaken(c)
  /\ \/ /\ tx[c].tries + 1 < CodeAttempts
        /\ \E k \in Code : tx' = [tx EXCEPT
             ![c].code = k, ![c].tries = @ + 1, ![c].began = now]
        /\ UNCHANGED held
     \/ /\ tx[c].tries + 1 = CodeAttempts
        /\ End(c)
  /\ Unwritten

\* Mutant: the select does not say "for update".
ReadMatch(c) ==
  /\ tx[c].at = "lock"
  /\ Granted(c)
  /\ tx' = [tx EXCEPT ![c].at = "check"]
  /\ UNCHANGED held
  /\ Unwritten

(***************************************************************************)
(* Every other writer takes the match row before it reads or writes        *)
(* anything else (select ... for update).                                  *)
(***************************************************************************)
LockMatch(c) ==
  /\ tx[c].at = "lock"
  /\ Granted(c)
  /\ held' = [held EXCEPT ![c] = @ \cup {MatchLock(tx[c].match)}]
  /\ tx' = [tx EXCEPT ![c].at = "check"]
  /\ Unwritten

\* What each operation requires of the match it has locked.
Admits(c) == LET r == row[tx[c].match] IN
  CASE tx[c].op = "join"   -> r.state = "lobby" /\ ~Full(r) /\ ~Has(r, tx[c].user)
    [] tx[c].op = "ready"  -> r.state = "lobby" /\ Full(r) /\ Has(r, tx[c].user)
    [] tx[c].op = "submit" -> r.state = "active" /\ Has(r, tx[c].user)
    [] tx[c].op = "cancel" -> r.state = "lobby" /\ Has(r, tx[c].user)
    [] OTHER               -> TRUE

\* Refused, or answered without a write: a lobby already joined, a match
\* already abandoned.
Refuse(c) ==
  /\ tx[c].at = "check"
  /\ ~Admits(c)
  /\ End(c)
  /\ Unwritten

Admit(c) ==
  /\ tx[c].at = "check"
  /\ tx[c].op \in {"join", "cancel", "expire"}
  /\ Admits(c)
  /\ tx' = [tx EXCEPT ![c].at = IF tx[c].op = "join" THEN "seat" ELSE "move"]
  /\ UNCHANGED held
  /\ Unwritten

(***************************************************************************)
(* ready_at or submitted_at, written once: "and ready_at is null".         *)
(***************************************************************************)
Marked(c) == LET r == row[tx[c].match] IN
  tx[c].user \in (IF tx[c].op = "ready" THEN r.ready ELSE r.submitted)

MarkPlayer(c) ==
  /\ tx[c].at = "check"
  /\ tx[c].op \in {"ready", "submit"}
  /\ Admits(c)
  /\ Granted(c)
  /\ tx' = [tx EXCEPT ![c].at = "move", ![c].wrote = ~Marked(c)]
  /\ held' = [held EXCEPT ![c] =
       IF Marked(c) THEN @ ELSE @ \cup {SeatLock(tx[c].match, tx[c].user)}]
  /\ Unwritten

(***************************************************************************)
(* A seat is inserted, by a host or a guest.  The trigger of 0003 derives  *)
(* the flag; the unique index refuses a user with another unfinished seat. *)
(***************************************************************************)
Engaged(u) == \E m \in Match : u \in unfinished[m]

TakeSeat(c) ==
  /\ tx[c].at = "seat"
  /\ Granted(c)
  /\ \/ /\ Engaged(tx[c].user)
        /\ End(c)
     \/ /\ ~Engaged(tx[c].user)
        /\ tx' = [tx EXCEPT ![c].at = "commit", ![c].wrote = TRUE]
        /\ held' = [held EXCEPT ![c] = @ \cup {SeatLock(tx[c].match, tx[c].user)}]
  /\ Unwritten

(***************************************************************************)
(* The transition.  Its trigger rewrites every seat of the match, and a    *)
(* lobby that is left gives up its code.  A start whose challenge has no   *)
(* starting files fails in seedWorkspaces and rolls everything back.       *)
(***************************************************************************)
Unseedable(c) == tx[c].op = "ready" /\ row[tx[c].match].challenge \notin Stocked

MoveMatch(c) ==
  /\ tx[c].at = "move"
  /\ Granted(c)
  /\ \/ /\ ~Swaps(c)
        /\ tx' = [tx EXCEPT ![c].at = "commit"]
        /\ UNCHANGED held
     \/ /\ Swaps(c) /\ Unseedable(c)
        /\ End(c)
     \/ /\ Swaps(c) /\ ~Unseedable(c)
        /\ tx' = [tx EXCEPT ![c].at = "commit", ![c].moved = TRUE]
        /\ held' = [held EXCEPT ![c] = @ \cup {MatchLock(tx[c].match)} \cup Seats(tx[c].match)
             \cup (IF row[tx[c].match].state = "lobby" THEN {CodeLock(row[tx[c].match].code)} ELSE {})]
  /\ Unwritten

-----------------------------------------------------------------------------
\* What transaction t leaves of row r.
Written(r, t) ==
  CASE t.op = "create" -> NewLobby(t.user, t.code, t.challenge)
    [] t.op = "join"   -> [r EXCEPT !.seat[FreeSlot(r)] = t.user]
    [] t.op = "ready"  ->
         IF t.moved THEN Started(r, t.user, t.began) ELSE [r EXCEPT !.ready = @ \cup {t.user}]
    [] t.op = "submit" -> [r EXCEPT !.submitted = @ \cup {t.user},
                                    !.state = IF t.moved THEN "judging" ELSE @]
    [] t.op = "expire" -> [r EXCEPT !.state = IF t.moved THEN "judging" ELSE @]
    [] t.op = "cancel" ->
         IF t.moved THEN [r EXCEPT !.state = "abandoned", !.ended = t.began] ELSE r
    [] OTHER -> r

\* Mutant: no trigger on the transition.
FlaggedOnce(m, t, r) ==
  IF t.op \in {"create", "join"} THEN unfinished[m] \cup {t.user} ELSE unfinished[m]

\* The derived column: a new seat copies the match's state, a transition
\* rewrites every seat, and no other write touches it.
Flagged(m, t, r) ==
  LET seats == IF r.state \in Unfinished THEN Players(r) ELSE {} IN
  CASE t.op \in {"create", "join"} -> unfinished[m] \cup (seats \cap {t.user})
    [] t.moved                     -> seats
    [] OTHER                       -> unfinished[m]

Commit(c) == LET t == tx[c]  m == t.match IN
  /\ t.at = "commit"
  /\ row' = [row EXCEPT ![m] = Written(@, t)]
  /\ unfinished' = [unfinished EXCEPT ![m] = Flagged(m, t, Written(row[m], t))]
  /\ told' = [told EXCEPT
       ![m].start = IF t.op = "ready" /\ t.moved THEN @ + 1 ELSE @,
       ![m].judge = IF t.op \in {"submit", "expire"} /\ t.moved THEN @ + 1 ELSE @]
  /\ End(c)
  /\ UNCHANGED now

\* The second statement of CurrentMatch reads the match found by the first.
ReadCurrent(c) ==
  /\ tx[c].at = "read"
  /\ End(c)
  /\ Unwritten

\* A failed statement, a cancelled request, a lost connection, a crash.
Abort(c) ==
  /\ tx[c] # Idle
  /\ End(c)
  /\ Unwritten

Tick ==
  /\ now < Horizon
  /\ now' = now + 1
  /\ UNCHANGED <<row, unfinished, tx, held, told>>

-----------------------------------------------------------------------------
Begin(c, m) ==
  \/ BeginExpire(c, m)
  \/ \E u \in User :
       \/ BeginCreate(c, u, m)
       \/ BeginJoin(c, u, m)
       \/ BeginOnMatch(c, u, m)
       \/ BeginCurrent(c, u, m)

Statement(c) ==
  \/ InsertMatch(c)
  \/ DrawAgain(c)
  \/ LockMatch(c)
  \/ Refuse(c)
  \/ Admit(c)
  \/ MarkPlayer(c)
  \/ TakeSeat(c)
  \/ MoveMatch(c)
  \/ Commit(c)
  \/ ReadCurrent(c)

Next ==
  \/ \E c \in Conn :
       \/ \E m \in Match : Begin(c, m)
       \/ Statement(c)
       \/ Abort(c)
  \/ Tick

Spec == Init /\ [][Next]_vars

(***************************************************************************)
(* A statement that is not waiting runs, and a waiting one is granted its  *)
(* lock in its turn: PostgreSQL queues the waiters of a row.               *)
(***************************************************************************)
FairSpec == Spec /\ \A c \in Conn : SF_vars(Statement(c))
-----------------------------------------------------------------------------
TypeOK ==
  /\ row \in [Match -> Row]
  /\ unfinished \in [Match -> SUBSET User]
  /\ now \in 0..Horizon
  /\ tx \in [Conn -> [op : Ops \cup {"idle"}, at : Step, user : User \cup {Null},
                      match : Match \cup {Null}, code : Code \cup {Null},
                      challenge : Challenge \cup {Null}, began : 0..Horizon,
                      wrote : BOOLEAN, moved : BOOLEAN, tries : 0..(CodeAttempts - 1)]]
  /\ held \in [Conn -> SUBSET Lock]
  /\ told \in [Match -> [start : Nat, judge : Nat]]

(***************************************************************************)
(* The statements together keep the promise made of them: every commit is  *)
(* one atomic operation of Lifecycle, and everything else is invisible.    *)
(***************************************************************************)
Promise == INSTANCE Lifecycle
ImplementsLifecycle == Promise!Spec

(***************************************************************************)
(* No set of transactions waits on itself.  matches.go claims this of the  *)
(* order of its locks (match row, then seats), and the waits on the two    *)
(* unique indexes must not close a cycle either.                           *)
(***************************************************************************)
NoDeadlock ==
  \A S \in (SUBSET Conn) \ {{}} : \E c \in S : WaitsFor(c) \cap S = {}

(***************************************************************************)
(* The copied column agrees with the state it copies, in every committed   *)
(* state: no player is locked out by a match that ended, and none is let   *)
(* into a second one while the first goes on.                              *)
(***************************************************************************)
FlagFollowsState ==
  \A m \in Match :
    unfinished[m] = IF row[m].state \in Unfinished THEN Players(row[m]) ELSE {}

(***************************************************************************)
(* The bool that ReadyUp, Submit and Expire return: of all the calls that  *)
(* race to move a match exactly one is told that it did, the start and the *)
(* move to judging alike, and nobody is told of a move that did not stay.  *)
(***************************************************************************)
OneMover ==
  \A m \in Match :
    /\ told[m].start = IF row[m].state \in {"active", "judging"} THEN 1 ELSE 0
    /\ told[m].judge = IF row[m].state = "judging" THEN 1 ELSE 0

(***************************************************************************)
(* Every request ends, whatever the others do with the rows it needs.      *)
(***************************************************************************)
RequestsEnd == \A c \in Conn : (tx[c] # Idle) ~> (tx[c] = Idle)
=============================================================================
