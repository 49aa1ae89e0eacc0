--------------------------- MODULE MatchesProofs ---------------------------
(***************************************************************************)
(* Proofs about the statements, locks and indexes of Matches.tla, for any  *)
(* number of connections, matches, users and codes: the four invariants    *)
(* and the refinement of Lifecycle.                                        *)
(***************************************************************************)
EXTENDS Matches, TLAPS

-----------------------------------------------------------------------------
(***************************************************************************)
(* The inductive invariant.  It says, of each transaction, what shape it   *)
(* has, what it holds, what it may rely on of its own match because it     *)
(* holds the row, and what it may rely on of all the others because it     *)
(* holds a key of a unique index; and of each two, what sets them apart.   *)
(***************************************************************************)
Tx == [op : Ops \cup {"idle"}, at : Step, user : User \cup {Null},
       match : Match \cup {Null}, code : Code \cup {Null},
       challenge : Challenge \cup {Null}, began : 0..Horizon,
       wrote : BOOLEAN, moved : BOOLEAN, tries : 0..(CodeAttempts - 1)]

Takers == {"create", "join"}
Movers == {"cancel", "ready", "submit", "expire"}

\* The statements at which a transaction has its match row.
AtWork(t) == t.at \in {"check", "seat", "move", "commit"}
Seated(t) == t.op \in Takers /\ t.at = "commit"
HasCode(t) == t.op = "create" /\ t.at \in {"seat", "commit"}

Formed(t) ==
  /\ t.at = "idle" <=> t.op = "idle"
  /\ t.at = "insert" => t.op = "create"
  /\ t.at \in {"lock", "check"} => t.op \in Movers \cup {"join"}
  /\ t.at = "seat" => t.op \in Takers
  /\ t.at = "move" => t.op \in Movers
  /\ t.at = "commit" => t.op \in Movers \cup Takers
  /\ t.at = "read" => t.op = "current"
  /\ t.op # "idle" => t.match \in Match
  /\ t.op \notin {"idle", "expire"} => t.user \in User
  /\ t.op = "create" => t.code \in Code /\ t.challenge \in Challenge
  /\ t.moved => t.at = "commit" /\ t.op \in Movers

Holds(t, h) ==
  /\ ~AtWork(t) => h = {}
  /\ AtWork(t) => MatchLock(t.match) \in h
  /\ \A m \in Match : MatchLock(m) \in h => m = t.match
  /\ \A m \in Match, u \in User :
       SeatLock(m, u) \in h => m = t.match /\ t.at \in {"move", "commit"}
  /\ HasCode(t) => CodeLock(t.code) \in h
  /\ Seated(t) => SeatLock(t.match, t.user) \in h

\* What t has checked of its own row r, and nobody can have changed since.
Checked(t, r) ==
  /\ t.op = "create" => r = NoRow
  /\ t.op = "join" /\ t.at \in {"seat", "commit"} =>
       r.state = "lobby" /\ ~Full(r) /\ ~Has(r, t.user)
  /\ t.op = "ready" /\ t.at \in {"move", "commit"} =>
       /\ r.state = "lobby" /\ Full(r) /\ Has(r, t.user)
       /\ t.wrote \/ t.user \in r.ready
  /\ t.op = "ready" /\ t.at = "commit" =>
       /\ t.moved <=> Completes(r.ready, t.user, r)
       /\ t.moved => r.challenge \in Stocked
  /\ t.op = "submit" /\ t.at \in {"move", "commit"} =>
       /\ r.state = "active" /\ Has(r, t.user)
       /\ t.wrote \/ t.user \in r.submitted
  /\ t.op = "submit" /\ t.at = "commit" =>
       (t.moved <=> Completes(r.submitted, t.user, r))
  /\ t.op = "cancel" /\ t.at \in {"move", "commit"} =>
       r.state = "lobby" /\ Has(r, t.user)
  /\ t.op = "expire" /\ t.moved => r.state = "active" /\ r.deadline <= t.began

\* What t has asked of the two unique indexes, whose keys it holds since.
Cleared(t, rows, unf) ==
  /\ HasCode(t) => \A m \in Match : ~(rows[m].state = "lobby" /\ rows[m].code = t.code)
  /\ Seated(t) => \A m \in Match : t.user \notin unf[m]

Sound(t, h, rows, unf, clock) ==
  /\ Formed(t)
  /\ t.began <= clock
  /\ Holds(t, h)
  /\ Checked(t, rows[t.match])
  /\ Cleared(t, rows, unf)

\* What sets two transactions apart.
Apart(s, t) ==
  /\ AtWork(s) /\ AtWork(t) => s.match # t.match
  /\ s.op = "create" /\ t.op # "idle" => s.match # t.match
  /\ HasCode(s) /\ HasCode(t) => s.code # t.code
  /\ Seated(s) /\ Seated(t) => s.user # t.user

Whole(r) ==
  /\ r.state = "lobby" => r.code \in Code
  /\ r.state = "active" => r.deadline \in Nat
Flags(r, f) == f = IF r.state \in Unfinished THEN Players(r) ELSE {}
Tally(r, n) ==
  /\ n.start = IF r.state \in {"active", "judging"} THEN 1 ELSE 0
  /\ n.judge = IF r.state = "judging" THEN 1 ELSE 0

IInv ==
  /\ TypeOK
  /\ \A m \in Match : Whole(row[m]) /\ Flags(row[m], unfinished[m]) /\ Tally(row[m], told[m])
  /\ \A c \in Conn : Sound(tx[c], held[c], row, unfinished, now)
  /\ \A c, d \in Conn : c # d => Apart(tx[c], tx[d])

-----------------------------------------------------------------------------
(***************************************************************************)
(* Facts about the operators of the model.                                 *)
(***************************************************************************)

\* A lock is on one row, one key or one seat.
LEMMA LocksDiffer ==
  /\ \A m, n : MatchLock(m) = MatchLock(n) => m = n
  /\ \A k, l : CodeLock(k) = CodeLock(l) => k = l
  /\ \A m, n, u, v : SeatLock(m, u) = SeatLock(n, v) => m = n /\ u = v
  /\ \A m, k : MatchLock(m) # CodeLock(k)
  /\ \A m, n, u : MatchLock(m) # SeatLock(n, u)
  /\ \A k, n, u : CodeLock(k) # SeatLock(n, u)
BY DEF MatchLock, CodeLock, SeatLock

\* The players of a match are users, and are those who have a seat.
LEMMA PlayersHaveSeats ==
  ASSUME NEW r \in Row
  PROVE  /\ Players(r) \subseteq User
         /\ \A u \in User : u \in Players(r) <=> Has(r, u)
BY RowAssumption DEF Players, Has, Row

\* A row with a free seat has a lowest one.
LEMMA FreeSlotIsFree ==
  ASSUME NEW r \in Row, ~Full(r)
  PROVE  /\ FreeSlot(r) \in Slot
         /\ r.seat[FreeSlot(r)] = Null
<1>1. \E s \in Slot : r.seat[s] = Null
  BY DEF Full
<1>2. \E s \in Slot : r.seat[s] = Null /\ \A t \in Slot : r.seat[t] = Null => s <= t
  <2>1. CASE r.seat[1] = Null
    BY <2>1 DEF Slot
  <2>2. CASE r.seat[1] # Null
    BY <1>1, <2>2 DEF Slot
  <2> QED BY <2>1, <2>2
<1> QED BY <1>2 DEF FreeSlot

\* A connection that serves nobody satisfies everything asked of one.
LEMMA IdleIsSound ==
  ASSUME NEW rows, NEW unf, NEW clock \in Nat
  PROVE  /\ Idle \in Tx
         /\ Sound(Idle, {}, rows, unf, clock)
         /\ \A t : Apart(Idle, t) /\ Apart(t, Idle)
<1>1. Idle \in Tx
  BY MatchesAssumption, RowAssumption DEF Idle, Tx, Step
<1>2. /\ Idle.op = "idle" /\ Idle.at = "idle" /\ Idle.began = 0 /\ Idle.moved = FALSE
  BY DEF Idle
<1>3. ~AtWork(Idle) /\ ~Seated(Idle) /\ ~HasCode(Idle)
  BY <1>2 DEF AtWork, Seated, HasCode
<1>4. Formed(Idle)
  BY <1>2 DEF Formed, Movers, Takers
<1>5. Checked(Idle, rows[Idle.match])
  BY <1>2 DEF Checked
<1>6. \A t : Apart(Idle, t) /\ Apart(t, Idle)
  BY <1>2, <1>3 DEF Apart
<1> QED
  BY <1>1, <1>2, <1>3, <1>4, <1>5, <1>6 DEF Sound, Holds, Cleared

\* The invariant holds at the start.
LEMMA InitInv == Init => IInv
<1> SUFFICES ASSUME Init
             PROVE  IInv
  OBVIOUS
<1> USE DEF Init
<1>1. NoRow \in Row /\ NoRow.state = "none"
  BY DEF NoRow, Row, State
<1>2. \A c \in Conn : tx[c] = Idle /\ held[c] = {}
  OBVIOUS
<1>3. TypeOK
  <2>1. now \in 0..Horizon
    BY RowAssumption
  <2>2. tx \in [Conn -> Tx] /\ held \in [Conn -> SUBSET Lock]
    BY IdleIsSound
  <2>3. told \in [Match -> [start : Nat, judge : Nat]]
    OBVIOUS
  <2> QED BY <1>1, <2>1, <2>2, <2>3 DEF TypeOK, Tx
<1>4. \A m \in Match : Whole(row[m]) /\ Flags(row[m], unfinished[m]) /\ Tally(row[m], told[m])
  BY <1>1 DEF Whole, Flags, Tally, Unfinished
<1>5. \A c \in Conn : Sound(tx[c], held[c], row, unfinished, now)
  BY <1>2, IdleIsSound
<1>6. \A c, d \in Conn : c # d => Apart(tx[c], tx[d])
  BY <1>2, IdleIsSound
<1> QED BY <1>3, <1>4, <1>5, <1>6 DEF IInv

-----------------------------------------------------------------------------
(***************************************************************************)
(* A step of one connection that writes nothing.  It preserves the         *)
(* invariant if it leaves the connection's transaction sound and apart     *)
(* from the others: those have not changed, and neither has what they      *)
(* rely on.                                                                *)
(***************************************************************************)
LEMMA OneConnMoves ==
  ASSUME IInv, NEW c \in Conn, NEW t \in Tx, NEW h \in SUBSET Lock,
         tx' = [tx EXCEPT ![c] = t], held' = [held EXCEPT ![c] = h], Unwritten,
         Sound(t, h, row, unfinished, now),
         \A d \in Conn \ {c} : Apart(t, tx[d]) /\ Apart(tx[d], t)
  PROVE  IInv'
<1>1. /\ tx \in [Conn -> Tx] /\ held \in [Conn -> SUBSET Lock]
  BY DEF IInv, TypeOK, Tx
<1>2. /\ tx'[c] = t /\ held'[c] = h
      /\ \A d \in Conn \ {c} : tx'[d] = tx[d] /\ held'[d] = held[d]
  BY <1>1
<1>3. row' = row /\ unfinished' = unfinished /\ now' = now /\ told' = told
  BY DEF Unwritten
<1>4. TypeOK'
  <2>1. tx' \in [Conn -> Tx] /\ held' \in [Conn -> SUBSET Lock]
    BY <1>1
  <2> QED BY <1>3, <2>1 DEF IInv, TypeOK, Tx
<1>5. \A m \in Match :
        Whole(row'[m]) /\ Flags(row'[m], unfinished'[m]) /\ Tally(row'[m], told'[m])
  BY <1>3 DEF IInv
<1>6. \A d \in Conn : Sound(tx'[d], held'[d], row', unfinished', now')
  BY <1>2, <1>3 DEF IInv
<1>7. \A d, e \in Conn : d # e => Apart(tx'[d], tx'[e])
  BY <1>2 DEF IInv
<1> QED BY <1>4, <1>5, <1>6, <1>7 DEF IInv

\* A transaction that ends without writing: Refuse, Abort, and their like.
LEMMA EndKeeps ==
  ASSUME IInv, NEW c \in Conn, End(c), Unwritten
  PROVE  IInv'
<1>1. now \in Nat
  BY RowAssumption DEF IInv, TypeOK
<1>2. /\ Idle \in Tx
      /\ Sound(Idle, {}, row, unfinished, now)
      /\ \A d \in Conn \ {c} : Apart(Idle, tx[d]) /\ Apart(tx[d], Idle)
  BY <1>1, IdleIsSound
<1>3. tx' = [tx EXCEPT ![c] = Idle] /\ held' = [held EXCEPT ![c] = {}]
  BY DEF End
<1>4. {} \in SUBSET Lock
  OBVIOUS
<1> HIDE DEF Idle
<1> QED BY <1>2, <1>3, <1>4, OneConnMoves

-----------------------------------------------------------------------------
(***************************************************************************)
(* A statement changes a few fields of its transaction's record.           *)
(***************************************************************************)
SameRequest(s, t) ==
  /\ t.op = s.op /\ t.user = s.user /\ t.match = s.match /\ t.code = s.code
  /\ t.challenge = s.challenge /\ t.began = s.began

LEMMA NextStatement ==
  ASSUME NEW s \in Tx, NEW a \in Step
  PROVE  LET t == [s EXCEPT !.at = a] IN
         /\ t \in Tx /\ SameRequest(s, t)
         /\ t.at = a /\ t.wrote = s.wrote /\ t.moved = s.moved
BY DEF Tx, SameRequest

LEMMA NextStatementWrote ==
  ASSUME NEW s \in Tx, NEW a \in Step, NEW b \in BOOLEAN
  PROVE  LET t == [s EXCEPT !.at = a, !.wrote = b] IN
         /\ t \in Tx /\ SameRequest(s, t)
         /\ t.at = a /\ t.wrote = b /\ t.moved = s.moved
BY DEF Tx, SameRequest

LEMMA NextStatementMoved ==
  ASSUME NEW s \in Tx, NEW a \in Step
  PROVE  LET t == [s EXCEPT !.at = a, !.moved = TRUE] IN
         /\ t \in Tx /\ SameRequest(s, t)
         /\ t.at = a /\ t.wrote = s.wrote /\ t.moved = TRUE
BY DEF Tx, SameRequest

-----------------------------------------------------------------------------
(***************************************************************************)
(* Requests arrive.                                                        *)
(***************************************************************************)
LEMMA RequestKeeps ==
  ASSUME IInv, NEW c \in Conn, NEW op \in Ops, NEW u \in User \cup {Null}, NEW m \in Match,
         NEW k \in Code \cup {Null}, NEW h \in Challenge \cup {Null},
         Request(c, op, u, m, k, h),
         op # "expire" => u \in User,
         op = "create" => /\ k \in Code /\ h \in Challenge /\ row[m] = NoRow
                          /\ \A d \in Conn : tx[d].match # m,
         op # "create" => row[m] # NoRow
  PROVE  IInv'
<1>0. PICK t : t = [Idle EXCEPT !.op = op, !.at = FirstStep(op), !.user = u, !.match = m,
                                !.code = k, !.challenge = h, !.began = now]
  OBVIOUS
<1>1. now \in 0..Horizon
  BY DEF IInv, TypeOK
<1>2. /\ t \in Tx
      /\ t.op = op /\ t.user = u /\ t.match = m /\ t.code = k
      /\ t.challenge = h /\ t.began = now
      /\ t.at = FirstStep(op) /\ t.moved = FALSE
  <2>1. FirstStep(op) \in Step
    BY DEF FirstStep, Step
  <2>2. 0 \in 0..(CodeAttempts - 1)
    BY MatchesAssumption
  <2> QED BY <1>0, <1>1, <2>1, <2>2 DEF Idle, Tx
<1>3. /\ tx' = [tx EXCEPT ![c] = t] /\ held' = held /\ Unwritten /\ tx[c] = Idle
  BY <1>0 DEF Request
<1>4. held[c] = {} /\ held' = [held EXCEPT ![c] = {}] /\ {} \in SUBSET Lock
  <2>1. ~AtWork(Idle)
    BY DEF AtWork, Idle
  <2> QED BY <1>3, <2>1 DEF IInv, Sound, Holds, TypeOK
<1>5. /\ op # "idle"
      /\ t.at \in {"insert", "read", "lock"}
      /\ t.at = "insert" <=> op = "create"
      /\ t.at = "read" <=> op = "current"
      /\ t.at = "lock" => op \in Movers \cup {"join"}
  BY <1>2, MatchesAssumption DEF FirstStep, Movers
<1>6. ~AtWork(t) /\ ~HasCode(t) /\ ~Seated(t)
  BY <1>5 DEF AtWork, HasCode, Seated
<1>7. Formed(t)
  BY <1>2, <1>5 DEF Formed
<1>8. Checked(t, row[t.match])
  BY <1>2, <1>5 DEF Checked
<1>9. Sound(t, {}, row, unfinished, now)
  BY <1>1, <1>2, <1>6, <1>7, <1>8 DEF Sound, Holds, Cleared
<1>10. ASSUME NEW d \in Conn \ {c}
       PROVE  Apart(t, tx[d]) /\ Apart(tx[d], t)
  <2>1. tx[d].op = "create" => tx[d].match # m
    BY DEF IInv, Sound, Checked
  <2> QED BY <1>2, <1>6, <2>1 DEF Apart
<1> QED BY <1>2, <1>3, <1>4, <1>9, <1>10, OneConnMoves

LEMMA BeginKeeps ==
  ASSUME IInv, NEW c \in Conn, NEW m \in Match, Begin(c, m)
  PROVE  IInv'
<1>1. NoRow.state = "none"
  BY DEF NoRow
<1>2. CASE BeginExpire(c, m)
  <2>1. row[m] # NoRow
    BY <1>1, <1>2 DEF BeginExpire
  <2> QED BY <1>2, <2>1, RequestKeeps DEF BeginExpire, Request
<1>3. ASSUME NEW u \in User, BeginCreate(c, u, m)
      PROVE  IInv'
  <2>1. PICK k \in Code, h \in Challenge : Request(c, "create", u, m, k, h)
    BY <1>3 DEF BeginCreate
  <2>2. "create" \in Ops
    BY <2>1 DEF Request
  <2> QED BY <1>3, <2>1, <2>2, RequestKeeps DEF BeginCreate
<1>4. ASSUME NEW u \in User, BeginJoin(c, u, m)
      PROVE  IInv'
  <2>1. row[m] # NoRow
    BY <1>1, <1>4 DEF BeginJoin
  <2> QED BY <1>4, <2>1, RequestKeeps DEF BeginJoin, Request
<1>5. ASSUME NEW u \in User, BeginOnMatch(c, u, m)
      PROVE  IInv'
  <2>1. PICK op \in {"cancel", "ready", "submit"} : Request(c, op, u, m, Null, Null)
    BY <1>5 DEF BeginOnMatch
  <2>2. op \in Ops /\ op # "create"
    BY <2>1 DEF Request
  <2> QED BY <1>5, <2>1, <2>2, RequestKeeps DEF BeginOnMatch
<1>6. ASSUME NEW u \in User, BeginCurrent(c, u, m)
      PROVE  IInv'
  <2>1. row[m] # NoRow
    BY <1>1, <1>6 DEF BeginCurrent, IInv, Flags, Unfinished
  <2> QED BY <1>6, <2>1, RequestKeeps DEF BeginCurrent, Request
<1> QED BY <1>2, <1>3, <1>4, <1>5, <1>6 DEF Begin

-----------------------------------------------------------------------------
(***************************************************************************)
(* The statements that write nothing others can see.                       *)
(***************************************************************************)

\* What the invariant says of one connection.
LEMMA OneConn ==
  ASSUME IInv, NEW c \in Conn
  PROVE  /\ tx[c] \in Tx /\ held[c] \in SUBSET Lock
         /\ Formed(tx[c]) /\ Holds(tx[c], held[c])
         /\ Checked(tx[c], row[tx[c].match]) /\ Cleared(tx[c], row, unfinished)
         /\ tx[c].began \in 0..now
BY DEF IInv, TypeOK, Tx, Sound

\* A statement that was granted what it wanted finds nobody holding it.
LEMMA GrantedIsFree ==
  ASSUME NEW c \in Conn, Granted(c), NEW d \in Conn \ {c}, NEW l \in Wanted(c)
  PROVE  l \notin held[d]
BY DEF Granted, WaitsFor

LEMMA InsertMatchKeeps ==
  ASSUME IInv, NEW c \in Conn, InsertMatch(c)
  PROVE  IInv'
<1> DEFINE s == tx[c]
           h == {MatchLock(s.match), CodeLock(s.code)}
<1>1. PICK t : t = [s EXCEPT !.at = "seat"]
  OBVIOUS
<1>2. /\ s \in Tx /\ held[c] \in SUBSET Lock
      /\ Formed(s) /\ Checked(s, row[s.match]) /\ s.began \in 0..now
  BY OneConn
<1>3. /\ t \in Tx /\ SameRequest(s, t)
      /\ t.at = "seat" /\ t.wrote = s.wrote /\ t.moved = s.moved
  BY <1>1, <1>2, NextStatement DEF Step
<1>4. /\ s.at = "insert" /\ s.op = "create" /\ s.match \in Match /\ s.code \in Code
      /\ ~s.moved
  BY <1>2 DEF InsertMatch, Formed
<1>5. /\ tx' = [tx EXCEPT ![c] = t] /\ held' = [held EXCEPT ![c] = h] /\ Unwritten
      /\ h \in SUBSET Lock
  BY <1>1, <1>4 DEF InsertMatch, Lock
<1>6. /\ AtWork(t) /\ HasCode(t) /\ ~Seated(t) /\ t.op # "idle"
  BY <1>3, <1>4 DEF AtWork, HasCode, Seated, SameRequest
<1>7. Sound(t, h, row, unfinished, now)
  <2>1. Formed(t)
    BY <1>2, <1>3, <1>4 DEF Formed, SameRequest, Takers
  <2>2. Holds(t, h)
    BY <1>3, <1>6, LocksDiffer DEF Holds, SameRequest
  <2>3. Checked(t, row[t.match])
    BY <1>2, <1>3, <1>4 DEF Checked, SameRequest
  <2>4. Cleared(t, row, unfinished)
    BY <1>3, <1>6 DEF Cleared, InsertMatch, CodeTaken, SameRequest
  <2> QED BY <1>2, <1>3, <2>1, <2>2, <2>3, <2>4 DEF Sound, SameRequest
<1>8. ASSUME NEW d \in Conn \ {c}
      PROVE  Apart(t, tx[d]) /\ Apart(tx[d], t)
  <2>1. tx[d].op # "idle" => s.match # tx[d].match
    BY <1>4 DEF IInv, Apart
  <2>2. AtWork(tx[d]) => tx[d].op # "idle"
    BY OneConn DEF AtWork, Formed
  <2>3. HasCode(tx[d]) => tx[d].code # s.code
    <3>1. CodeLock(s.code) \notin held[d]
      BY <1>4, GrantedIsFree DEF InsertMatch, Wanted
    <3> QED BY <3>1, OneConn DEF Holds
  <2> QED BY <1>3, <1>6, <2>1, <2>2, <2>3 DEF Apart, SameRequest
<1> HIDE DEF h
<1> QED BY <1>3, <1>5, <1>7, <1>8, OneConnMoves

LEMMA DrawAgainKeeps ==
  ASSUME IInv, NEW c \in Conn, DrawAgain(c)
  PROVE  IInv'
<1>1. CASE End(c)
  BY <1>1, EndKeeps DEF DrawAgain
<1>2. ASSUME NEW k \in Code, tx[c].tries + 1 < CodeAttempts, held' = held,
             tx' = [tx EXCEPT ![c].code = k, ![c].tries = @ + 1, ![c].began = now]
      PROVE  IInv'
  <2> DEFINE s == tx[c]
             h == held[c]
  <2>1. PICK t : t = [s EXCEPT !.code = k, !.tries = @ + 1, !.began = now]
    OBVIOUS
  <2>2. /\ s \in Tx /\ h \in SUBSET Lock /\ held \in [Conn -> SUBSET Lock]
        /\ tx \in [Conn -> Tx]
        /\ Formed(s) /\ Holds(s, h) /\ Checked(s, row[s.match]) /\ now \in 0..Horizon
    BY OneConn DEF IInv, TypeOK, Tx
  <2>3. /\ t \in Tx
        /\ t.op = s.op /\ t.user = s.user /\ t.match = s.match /\ t.code = k
        /\ t.challenge = s.challenge /\ t.began = now
        /\ t.at = s.at /\ t.wrote = s.wrote /\ t.moved = s.moved
    <3>1. s.tries + 1 \in 0..(CodeAttempts - 1)
      BY <1>2, <2>2, MatchesAssumption DEF Tx
    <3> QED BY <2>1, <2>2, <3>1 DEF Tx
  <2>4. /\ s.at = "insert" /\ s.op = "create"
    BY <2>2 DEF DrawAgain, Formed
  <2>5. /\ tx' = [tx EXCEPT ![c] = t] /\ held' = [held EXCEPT ![c] = h] /\ Unwritten
    BY <1>2, <2>1, <2>2 DEF DrawAgain
  <2>6. ~AtWork(t) /\ ~HasCode(t) /\ ~Seated(t)
    BY <2>3, <2>4 DEF AtWork, HasCode, Seated
  <2>7. ~AtWork(s)
    BY <2>4 DEF AtWork
  <2>8. Sound(t, h, row, unfinished, now)
    <3>1. Formed(t)
      BY <2>2, <2>3, <2>4 DEF Formed
    <3>2. Checked(t, row[t.match])
      BY <2>2, <2>3, <2>4 DEF Checked
    <3> QED BY <2>2, <2>3, <2>6, <2>7, <3>1, <3>2 DEF Sound, Holds, Cleared
  <2>9. \A d \in Conn \ {c} : Apart(t, tx[d]) /\ Apart(tx[d], t)
    BY <2>3, <2>6 DEF IInv, Apart
  <2> HIDE DEF h
  <2> QED BY <2>2, <2>3, <2>5, <2>8, <2>9, OneConnMoves
<1> QED BY <1>1, <1>2 DEF DrawAgain

LEMMA LockMatchKeeps ==
  ASSUME IInv, NEW c \in Conn, LockMatch(c)
  PROVE  IInv'
<1> DEFINE s == tx[c]
           h == held[c] \cup {MatchLock(s.match)}
<1>1. PICK t : t = [s EXCEPT !.at = "check"]
  OBVIOUS
<1>2. /\ s \in Tx /\ held[c] \in SUBSET Lock
      /\ Formed(s) /\ Holds(s, held[c]) /\ s.began \in 0..now
  BY OneConn
<1>3. /\ t \in Tx /\ SameRequest(s, t)
      /\ t.at = "check" /\ t.wrote = s.wrote /\ t.moved = s.moved
  BY <1>1, <1>2, NextStatement DEF Step
<1>4. /\ s.at = "lock" /\ s.op \in Movers \cup {"join"} /\ s.match \in Match
      /\ ~s.moved /\ held[c] = {}
  BY <1>2 DEF LockMatch, Formed, Holds, AtWork, Movers
<1>5. /\ tx' = [tx EXCEPT ![c] = t] /\ held' = [held EXCEPT ![c] = h] /\ Unwritten
      /\ h \in SUBSET Lock
  BY <1>1, <1>2, <1>4 DEF LockMatch, Lock
<1>6. AtWork(t) /\ ~HasCode(t) /\ ~Seated(t) /\ t.op \notin {"idle", "create"}
  BY <1>3, <1>4 DEF AtWork, HasCode, Seated, SameRequest, Movers
<1>7. Sound(t, h, row, unfinished, now)
  <2>1. Formed(t)
    BY <1>2, <1>3, <1>4 DEF Formed, SameRequest
  <2>2. Holds(t, h)
    BY <1>3, <1>4, <1>6, LocksDiffer DEF Holds, SameRequest
  <2>3. Checked(t, row[t.match])
    BY <1>3, <1>4, <1>6 DEF Checked, SameRequest
  <2> QED BY <1>2, <1>3, <1>6, <2>1, <2>2, <2>3 DEF Sound, Cleared, SameRequest
<1>8. ASSUME NEW d \in Conn \ {c}
      PROVE  Apart(t, tx[d]) /\ Apart(tx[d], t)
  <2>1. AtWork(tx[d]) => tx[d].match # s.match
    <3>1. MatchLock(s.match) \notin held[d]
      BY <1>4, GrantedIsFree DEF LockMatch, Wanted
    <3> QED BY <3>1, OneConn DEF Holds
  <2>2. tx[d].op = "create" => tx[d].match # s.match
    BY <1>3, <1>6 DEF IInv, Apart, SameRequest
  <2> QED BY <1>3, <1>6, <2>1, <2>2 DEF Apart, SameRequest
<1> HIDE DEF h
<1> QED BY <1>3, <1>5, <1>7, <1>8, OneConnMoves

LEMMA AdmitKeeps ==
  ASSUME IInv, NEW c \in Conn, Admit(c)
  PROVE  IInv'
<1> DEFINE s == tx[c]
           h == held[c]
           a == IF s.op = "join" THEN "seat" ELSE "move"
<1>1. PICK t : t = [s EXCEPT !.at = a]
  OBVIOUS
<1>2. /\ s \in Tx /\ h \in SUBSET Lock /\ held \in [Conn -> SUBSET Lock]
      /\ Formed(s) /\ Holds(s, h) /\ s.began \in 0..now
  BY OneConn DEF IInv, TypeOK
<1>3. a \in Step
  BY DEF Step
<1>4. /\ t \in Tx /\ SameRequest(s, t)
      /\ t.at = a /\ t.wrote = s.wrote /\ t.moved = s.moved
  BY <1>1, <1>2, <1>3, NextStatement
<1>5. /\ s.at = "check" /\ s.op \in {"join", "cancel", "expire"} /\ ~s.moved /\ AtWork(s)
  BY <1>2 DEF Admit, Formed, AtWork
<1>6. /\ tx' = [tx EXCEPT ![c] = t] /\ held' = [held EXCEPT ![c] = h] /\ Unwritten
  BY <1>1, <1>2 DEF Admit
<1>7. AtWork(t) /\ ~HasCode(t) /\ ~Seated(t)
  BY <1>4, <1>5 DEF AtWork, HasCode, Seated, SameRequest
<1>8. Sound(t, h, row, unfinished, now)
  <2>1. Formed(t)
    BY <1>2, <1>4, <1>5 DEF Formed, SameRequest, Movers, Takers
  <2>2. Holds(t, h)
    BY <1>2, <1>4, <1>5, <1>7 DEF Holds, SameRequest
  <2>3. Checked(t, row[t.match])
    BY <1>4, <1>5 DEF Checked, SameRequest, Admit, Admits
  <2> QED BY <1>2, <1>4, <1>7, <2>1, <2>2, <2>3 DEF Sound, Cleared, SameRequest
<1>9. \A d \in Conn \ {c} : Apart(t, tx[d]) /\ Apart(tx[d], t)
  BY <1>4, <1>5, <1>7 DEF IInv, Apart, SameRequest
<1> HIDE DEF h
<1> QED BY <1>2, <1>4, <1>6, <1>8, <1>9, OneConnMoves

LEMMA MarkPlayerKeeps ==
  ASSUME IInv, NEW c \in Conn, MarkPlayer(c)
  PROVE  IInv'
<1> DEFINE s == tx[c]
           h == IF Marked(c) THEN held[c] ELSE held[c] \cup {SeatLock(s.match, s.user)}
           b == ~Marked(c)
<1>1. PICK t : t = [s EXCEPT !.at = "move", !.wrote = b]
  OBVIOUS
<1>2. /\ s \in Tx /\ held[c] \in SUBSET Lock
      /\ Formed(s) /\ Holds(s, held[c]) /\ s.began \in 0..now
  BY OneConn
<1>3. "move" \in Step /\ b \in BOOLEAN
  BY DEF Step
<1>4. /\ t \in Tx /\ SameRequest(s, t)
      /\ t.at = "move" /\ t.wrote = b /\ t.moved = s.moved
  BY <1>1, <1>2, <1>3 DEF Tx, SameRequest
<1>5. /\ s.at = "check" /\ s.op \in {"ready", "submit"} /\ ~s.moved /\ AtWork(s)
      /\ s.match \in Match /\ s.user \in User
  BY <1>2 DEF MarkPlayer, Formed, AtWork
<1>6. /\ tx' = [tx EXCEPT ![c] = t] /\ held' = [held EXCEPT ![c] = h] /\ Unwritten
      /\ h \in SUBSET Lock
  <2>1. SeatLock(s.match, s.user) \in Lock
    BY <1>5 DEF Lock
  <2> QED BY <1>1, <1>2, <1>5, <2>1 DEF MarkPlayer
<1>7. AtWork(t) /\ ~HasCode(t) /\ ~Seated(t)
  BY <1>4, <1>5 DEF AtWork, HasCode, Seated, SameRequest
<1>8. Sound(t, h, row, unfinished, now)
  <2>1. Formed(t)
    BY <1>2, <1>4, <1>5 DEF Formed, SameRequest, Movers, Takers
  <2>2. Holds(t, h)
    BY <1>2, <1>4, <1>5, <1>7, LocksDiffer DEF Holds, SameRequest
  <2>3. Checked(t, row[t.match])
    BY <1>4, <1>5 DEF Checked, SameRequest, MarkPlayer, Admits, Marked
  <2> QED BY <1>2, <1>4, <1>7, <2>1, <2>2, <2>3 DEF Sound, Cleared, SameRequest
<1>9. \A d \in Conn \ {c} : Apart(t, tx[d]) /\ Apart(tx[d], t)
  BY <1>4, <1>5, <1>7 DEF IInv, Apart, SameRequest
<1> HIDE DEF h
<1> QED BY <1>4, <1>6, <1>8, <1>9, OneConnMoves

LEMMA TakeSeatKeeps ==
  ASSUME IInv, NEW c \in Conn, TakeSeat(c)
  PROVE  IInv'
<1>1. CASE Engaged(tx[c].user)
  BY <1>1, EndKeeps DEF TakeSeat
<1>2. CASE ~Engaged(tx[c].user)
  <2> DEFINE s == tx[c]
             h == held[c] \cup {SeatLock(s.match, s.user)}
  <2>1. PICK t : t = [s EXCEPT !.at = "commit", !.wrote = TRUE]
    OBVIOUS
  <2>2. /\ s \in Tx /\ held[c] \in SUBSET Lock
        /\ Formed(s) /\ Holds(s, held[c]) /\ s.began \in 0..now
        /\ Checked(s, row[s.match]) /\ Cleared(s, row, unfinished)
    BY OneConn
  <2>3. /\ t \in Tx /\ SameRequest(s, t)
        /\ t.at = "commit" /\ t.wrote = TRUE /\ t.moved = s.moved
    BY <2>1, <2>2, NextStatementWrote DEF Step
  <2>4. /\ s.at = "seat" /\ s.op \in Takers /\ ~s.moved /\ AtWork(s)
        /\ s.match \in Match /\ s.user \in User
    BY <2>2 DEF TakeSeat, Formed, AtWork, Takers
  <2>5. /\ tx' = [tx EXCEPT ![c] = t] /\ held' = [held EXCEPT ![c] = h] /\ Unwritten
        /\ h \in SUBSET Lock
    <3>1. SeatLock(s.match, s.user) \in Lock
      BY <2>4 DEF Lock
    <3> QED BY <1>2, <2>1, <2>2, <2>4, <3>1 DEF TakeSeat
  <2>6. AtWork(t) /\ Seated(t) /\ (HasCode(t) <=> HasCode(s)) /\ t.op # "idle"
    BY <2>3, <2>4 DEF AtWork, HasCode, Seated, SameRequest, Takers
  <2>7. Sound(t, h, row, unfinished, now)
    <3>1. Formed(t)
      BY <2>2, <2>3, <2>4 DEF Formed, SameRequest, Movers, Takers
    <3>2. Holds(t, h)
      BY <2>2, <2>3, <2>4, <2>6, LocksDiffer DEF Holds, SameRequest
    <3>3. Checked(t, row[t.match])
      BY <2>2, <2>3, <2>4 DEF Checked, SameRequest, Takers
    <3>4. Cleared(t, row, unfinished)
      BY <1>2, <2>2, <2>3, <2>6 DEF Cleared, SameRequest, Engaged
    <3> QED BY <2>2, <2>3, <3>1, <3>2, <3>3, <3>4 DEF Sound, SameRequest
  <2>8. ASSUME NEW d \in Conn \ {c}
        PROVE  Apart(t, tx[d]) /\ Apart(tx[d], t)
    <3>1. Seated(tx[d]) => tx[d].user # s.user
      <4>1. ASSUME Seated(tx[d]), tx[d].user = s.user
            PROVE  FALSE
        <5>1. tx[d].match \in Match /\ SeatLock(tx[d].match, s.user) \in held[d]
          BY <4>1, OneConn DEF Holds, Formed, Seated, Takers
        <5>2. SeatLock(tx[d].match, s.user) \in Wanted(c)
          BY <2>4, <5>1 DEF Wanted, Memberships
        <5> QED BY <5>1, <5>2, GrantedIsFree DEF TakeSeat
      <4> QED BY <4>1
    <3> QED BY <2>3, <2>4, <2>6, <3>1 DEF IInv, Apart, SameRequest, HasCode
  <2> HIDE DEF h
  <2> QED BY <2>3, <2>5, <2>7, <2>8, OneConnMoves
<1> QED BY <1>1, <1>2

(***************************************************************************)
(* By the time it moves the match, a call that sets a flag counts its own  *)
(* player in, whether it wrote the flag or found it set.                   *)
(***************************************************************************)
LEMMA SwapsWhenComplete ==
  ASSUME IInv, NEW c \in Conn, tx[c].at = "move"
  PROVE  LET r == row[tx[c].match] IN
         /\ tx[c].op = "ready" => (Swaps(c) <=> Completes(r.ready, tx[c].user, r))
         /\ tx[c].op = "submit" => (Swaps(c) <=> Completes(r.submitted, tx[c].user, r))
         /\ tx[c].op = "expire" /\ Swaps(c) => r.state = "active" /\ r.deadline <= tx[c].began
<1> DEFINE s == tx[c]
           r == row[s.match]
<1>1. Checked(s, r)
  BY OneConn
<1>2. ASSUME s.op = "ready"
      PROVE  Swaps(c) <=> Completes(r.ready, s.user, r)
  <2>1. /\ r.state = "lobby" /\ Full(r)
        /\ s.wrote \/ s.user \in r.ready
    BY <1>1, <1>2 DEF Checked
  <2>2. Seen(r.ready, c) = r.ready \cup {s.user}
    BY <2>1 DEF Seen
  <2> QED BY <1>2, <2>1, <2>2 DEF Swaps, AllReady, Completes
<1>3. ASSUME s.op = "submit"
      PROVE  Swaps(c) <=> Completes(r.submitted, s.user, r)
  <2>1. /\ r.state = "active"
        /\ s.wrote \/ s.user \in r.submitted
    BY <1>1, <1>3 DEF Checked
  <2>2. Seen(r.submitted, c) = r.submitted \cup {s.user}
    BY <2>1 DEF Seen
  <2> QED BY <1>3, <2>1, <2>2 DEF Swaps, AllSubmitted, Completes
<1>4. ASSUME s.op = "expire", Swaps(c)
      PROVE  r.state = "active" /\ r.deadline <= s.began
  BY <1>4 DEF Swaps
<1> QED BY <1>2, <1>3, <1>4

\* The statement done, the transaction is still as it should be.
LEMMA MovedIsSound ==
  ASSUME IInv, NEW c \in Conn, tx[c].at = "move", NEW t \in Tx, NEW h,
         SameRequest(tx[c], t), t.at = "commit", t.wrote = tx[c].wrote,
         t.moved <=> Swaps(c),
         t.moved => ~Unseedable(c),
         held[c] \subseteq h,
         \A l \in h \ held[c] :
           \/ l = MatchLock(t.match)
           \/ \E u \in User : l = SeatLock(t.match, u)
           \/ \E k \in Code : l = CodeLock(k)
  PROVE  /\ Sound(t, h, row, unfinished, now)
         /\ \A d \in Conn \ {c} : Apart(t, tx[d]) /\ Apart(tx[d], t)
<1> DEFINE s == tx[c]
           r == row[s.match]
<1>1. /\ s \in Tx /\ Formed(s) /\ Holds(s, held[c]) /\ Checked(s, r) /\ s.began \in 0..now
  BY OneConn
<1>2. s.op \in Movers /\ AtWork(s) /\ s.match \in Match
  BY <1>1 DEF Formed, AtWork, Movers
<1>3. AtWork(t) /\ ~HasCode(t) /\ ~Seated(t)
  BY <1>2 DEF AtWork, HasCode, Seated, SameRequest, Movers, Takers
<1>4. Formed(t)
  BY <1>1, <1>2 DEF Formed, SameRequest
<1>5. Holds(t, h)
  BY <1>1, <1>2, <1>3, LocksDiffer DEF Holds, SameRequest
<1>6. Checked(t, row[t.match])
  <2>1. t.match = s.match /\ t.op = s.op /\ t.user = s.user /\ t.began = s.began
    BY DEF SameRequest
  <2>2. t.op = "ready" /\ t.moved => r.challenge \in Stocked
    BY <2>1 DEF Unseedable
  <2>3. t.op \notin {"create", "join"}
    BY <1>2, <2>1 DEF Movers
  <2> QED BY <1>1, <2>1, <2>2, <2>3, SwapsWhenComplete DEF Checked
<1>7. \A d \in Conn \ {c} : Apart(t, tx[d]) /\ Apart(tx[d], t)
  BY <1>2, <1>3 DEF IInv, Apart, SameRequest
<1> QED BY <1>1, <1>3, <1>4, <1>5, <1>6, <1>7 DEF Sound, Cleared, SameRequest

LEMMA MoveMatchKeeps ==
  ASSUME IInv, NEW c \in Conn, MoveMatch(c)
  PROVE  IInv'
<1> DEFINE s == tx[c]
           r == row[s.match]
<1>1. /\ s \in Tx /\ held[c] \in SUBSET Lock /\ held \in [Conn -> SUBSET Lock]
      /\ Formed(s)
  BY OneConn DEF IInv, TypeOK
<1>2. s.at = "move" /\ s.match \in Match /\ ~s.moved /\ Unwritten /\ "commit" \in Step
  BY <1>1 DEF MoveMatch, Formed, Step
<1>3. CASE ~Swaps(c)
  <2>1. PICK t : t = [s EXCEPT !.at = "commit"]
    OBVIOUS
  <2>2. /\ t \in Tx /\ SameRequest(s, t)
        /\ t.at = "commit" /\ t.wrote = s.wrote /\ t.moved = s.moved
    BY <1>1, <1>2, <2>1, NextStatement
  <2>3. tx' = [tx EXCEPT ![c] = t] /\ held' = [held EXCEPT ![c] = held[c]]
    BY <1>1, <1>3, <2>1 DEF MoveMatch
  <2>4. /\ Sound(t, held[c], row, unfinished, now)
        /\ \A d \in Conn \ {c} : Apart(t, tx[d]) /\ Apart(tx[d], t)
    BY <1>2, <1>3, <2>2, MovedIsSound
  <2> QED BY <1>1, <1>2, <2>2, <2>3, <2>4, OneConnMoves
<1>4. CASE Swaps(c) /\ Unseedable(c)
  BY <1>4, EndKeeps DEF MoveMatch, Unwritten
<1>5. CASE Swaps(c) /\ ~Unseedable(c)
  <2> DEFINE h == held[c] \cup {MatchLock(s.match)} \cup Seats(s.match)
                  \cup (IF r.state = "lobby" THEN {CodeLock(r.code)} ELSE {})
  <2>1. PICK t : t = [s EXCEPT !.at = "commit", !.moved = TRUE]
    OBVIOUS
  <2>2. /\ t \in Tx /\ SameRequest(s, t)
        /\ t.at = "commit" /\ t.wrote = s.wrote /\ t.moved = TRUE
    BY <1>1, <1>2, <2>1, NextStatementMoved
  <2>3. tx' = [tx EXCEPT ![c] = t] /\ held' = [held EXCEPT ![c] = h]
    BY <1>5, <2>1 DEF MoveMatch
  <2>4. r \in Row
    BY <1>2 DEF IInv, TypeOK
  <2>5. \A l \in h \ held[c] :
           \/ l = MatchLock(s.match)
           \/ \E u \in User : l = SeatLock(s.match, u)
           \/ \E k \in Code : l = CodeLock(k)
    BY <1>2, <2>4, PlayersHaveSeats DEF Seats, IInv, Whole
  <2>6. h \in SUBSET Lock
    BY <1>1, <1>2, <2>5 DEF Lock
  <2>7. /\ Sound(t, h, row, unfinished, now)
        /\ \A d \in Conn \ {c} : Apart(t, tx[d]) /\ Apart(tx[d], t)
    <3>1. t.match = s.match
      BY <2>2 DEF SameRequest
    <3>2. held[c] \subseteq h
      OBVIOUS
    <3> HIDE DEF h
    <3> QED BY <1>2, <1>5, <2>2, <2>5, <3>1, <3>2, MovedIsSound
  <2> HIDE DEF h
  <2> QED BY <1>2, <2>2, <2>3, <2>6, <2>7, OneConnMoves
<1> QED BY <1>3, <1>4, <1>5 DEF MoveMatch

-----------------------------------------------------------------------------
(***************************************************************************)
(* The clock.                                                              *)
(***************************************************************************)
LEMMA TickKeeps ==
  ASSUME IInv, Tick
  PROVE  IInv'
<1>1. /\ row' = row /\ unfinished' = unfinished /\ tx' = tx /\ held' = held /\ told' = told
      /\ now \in 0..Horizon /\ now' = now + 1 /\ now' \in 0..Horizon
  BY RowAssumption DEF Tick, IInv, TypeOK
<1>2. TypeOK'
  BY <1>1 DEF IInv, TypeOK
<1>3. \A c \in Conn : Sound(tx[c], held[c], row, unfinished, now + 1)
  <2> SUFFICES ASSUME NEW c \in Conn
               PROVE  Sound(tx[c], held[c], row, unfinished, now + 1)
    OBVIOUS
  <2>1. tx[c].began <= now + 1
    BY <1>1, OneConn
  <2> QED BY <2>1, OneConn DEF Sound
<1> QED BY <1>1, <1>2, <1>3 DEF IInv

-----------------------------------------------------------------------------
(***************************************************************************)
(* A commit: what it leaves of its match's row w, flags g and tally q, and *)
(* how that relates to what it found, r, f and n.                          *)
(***************************************************************************)
Leaves(t, r, f, w, g, q) ==
  /\ w \in Row /\ Whole(w) /\ Flags(w, g) /\ Tally(w, q)
  /\ w.state = "lobby" => \/ r.state = "lobby" /\ w.code = r.code
                          \/ t.op = "create" /\ w.code = t.code
  /\ g \subseteq f \cup (IF t.op \in Takers THEN {t.user} ELSE {})

\* What the triggers make of the flags, by the kind of the write.
LEMMA FlaggedCases ==
  ASSUME NEW m, NEW t, NEW w
  PROVE  /\ t.op \in Takers /\ ~t.moved /\ w.state \in Unfinished =>
              Flagged(m, t, w) = unfinished[m] \cup (Players(w) \cap {t.user})
         /\ t.op \notin Takers /\ t.moved =>
              Flagged(m, t, w) = IF w.state \in Unfinished THEN Players(w) ELSE {}
         /\ t.op \notin Takers /\ ~t.moved => Flagged(m, t, w) = unfinished[m]
<1>1. CASE t.op \in Takers /\ ~t.moved
  BY <1>1 DEF Flagged, Takers
<1>2. CASE t.op \notin Takers /\ t.moved
  BY <1>2 DEF Flagged, Takers
<1>3. CASE t.op \notin Takers /\ ~t.moved
  BY <1>3 DEF Flagged, Takers
<1> QED BY <1>1, <1>2, <1>3

\* The commit statement, read on the one match it writes.
LEMMA CommitWrites ==
  ASSUME IInv, NEW c \in Conn, Commit(c)
  PROVE  LET t == tx[c]  m == t.match IN
         /\ t.at = "commit" /\ m \in Match /\ t.op \in Movers \cup Takers
         /\ row[m] \in Row /\ Whole(row[m]) /\ Flags(row[m], unfinished[m])
         /\ Tally(row[m], told[m])
         /\ Checked(t, row[m]) /\ Formed(t)
         /\ row' = [row EXCEPT ![m] = Written(row[m], t)]
         /\ row'[m] = Written(row[m], t)
         /\ unfinished' = [unfinished EXCEPT ![m] = unfinished'[m]]
         /\ t.op \in Takers /\ row'[m].state \in Unfinished =>
              unfinished'[m] = unfinished[m] \cup (Players(row'[m]) \cap {t.user})
         /\ t.op \in Movers /\ t.moved =>
              unfinished'[m] = IF row'[m].state \in Unfinished THEN Players(row'[m]) ELSE {}
         /\ t.op \in Movers /\ ~t.moved => unfinished'[m] = unfinished[m]
         /\ told' \in [Match -> [start : Nat, judge : Nat]]
         /\ \A n \in Match \ {m} : told'[n] = told[n]
         /\ told'[m].start = IF t.op = "ready" /\ t.moved
                               THEN told[m].start + 1 ELSE told[m].start
         /\ told'[m].judge = IF t.op \in {"submit", "expire"} /\ t.moved
                               THEN told[m].judge + 1 ELSE told[m].judge
         /\ now' = now /\ End(c)
<1> DEFINE t == tx[c]
           m == t.match
<1>1. /\ Checked(t, row[m]) /\ Formed(t)
      /\ row \in [Match -> Row] /\ unfinished \in [Match -> SUBSET User]
      /\ told \in [Match -> [start : Nat, judge : Nat]]
  BY OneConn DEF IInv, TypeOK
<1>2. t.at = "commit" /\ m \in Match /\ t.op \in Movers \cup Takers
  BY <1>1 DEF Commit, Formed, Movers, Takers
<1>3. /\ row' = [row EXCEPT ![m] = Written(row[m], t)]
      /\ row'[m] = Written(row[m], t)
      /\ now' = now /\ End(c)
  BY <1>1, <1>2 DEF Commit
<1>4. /\ unfinished' = [unfinished EXCEPT ![m] = unfinished'[m]]
      /\ unfinished'[m] = Flagged(m, t, row'[m])
  BY <1>1, <1>2, <1>3 DEF Commit
<1>7. /\ t.op \in Takers /\ row'[m].state \in Unfinished =>
           unfinished'[m] = unfinished[m] \cup (Players(row'[m]) \cap {t.user})
      /\ t.op \in Movers /\ t.moved =>
           unfinished'[m] = IF row'[m].state \in Unfinished THEN Players(row'[m]) ELSE {}
      /\ t.op \in Movers /\ ~t.moved => unfinished'[m] = unfinished[m]
  <2>1. t.op \in Takers => ~t.moved /\ t.op \notin Movers
    BY <1>1 DEF Formed, Movers, Takers
  <2> QED BY <1>4, <2>1, FlaggedCases
<1>5. /\ told' \in [Match -> [start : Nat, judge : Nat]]
      /\ \A n \in Match \ {m} : told'[n] = told[n]
      /\ told'[m].start = IF t.op = "ready" /\ t.moved
                            THEN told[m].start + 1 ELSE told[m].start
      /\ told'[m].judge = IF t.op \in {"submit", "expire"} /\ t.moved
                            THEN told[m].judge + 1 ELSE told[m].judge
  <2>1. PICK a : a = IF t.op = "ready" /\ t.moved THEN told[m].start + 1 ELSE told[m].start
    OBVIOUS
  <2>2. PICK b : b = IF t.op \in {"submit", "expire"} /\ t.moved
                       THEN told[m].judge + 1 ELSE told[m].judge
    OBVIOUS
  <2>3. told' = [[told EXCEPT ![m].start = a] EXCEPT ![m].judge = b]
    BY <1>1, <1>2, <2>1, <2>2, SMTT(20) DEF Commit
  <2>4. told[m] \in [start : Nat, judge : Nat]
    BY <1>1, <1>2
  <2>5. a \in Nat /\ b \in Nat
    BY <2>1, <2>2, <2>4
  <2>6. PICK u : u = [told EXCEPT ![m].start = a]
    OBVIOUS
  <2>7. /\ u \in [Match -> [start : Nat, judge : Nat]]
        /\ \A n \in Match \ {m} : u[n] = told[n]
        /\ u[m].start = a
    BY <1>1, <1>2, <2>5, <2>6
  <2>8. told' = [u EXCEPT ![m].judge = b]
    BY <2>3, <2>6
  <2>9. /\ told' \in [Match -> [start : Nat, judge : Nat]]
        /\ \A n \in Match \ {m} : told'[n] = told[n]
        /\ told'[m].start = a
        /\ told'[m].judge = b
    BY <1>2, <2>5, <2>7, <2>8
  <2> QED BY <2>1, <2>2, <2>9
<1>6. Whole(row[m]) /\ Flags(row[m], unfinished[m]) /\ Tally(row[m], told[m])
  BY <1>2 DEF IInv
<1> QED BY <1>1, <1>2, <1>3, <1>4, <1>5, <1>6, <1>7

(***************************************************************************)
(* Whatever leaves its match in order leaves everything in order: nobody   *)
(* else relies on that row, the code it may have opened is one that nobody *)
(* else holds, and the player it may have seated is nobody else's.         *)
(***************************************************************************)
LEMMA CommitKeeps ==
  ASSUME IInv, NEW c \in Conn, Commit(c),
         LET m == tx[c].match IN
           Leaves(tx[c], row[m], unfinished[m], row'[m], unfinished'[m], told'[m])
  PROVE  IInv'
<1> DEFINE s == tx[c]
           m == s.match
<1>1. /\ s.at = "commit" /\ m \in Match /\ s.op \in Movers \cup Takers
      /\ row' = [row EXCEPT ![m] = row'[m]] /\ row'[m] \in Row
      /\ unfinished' = [unfinished EXCEPT ![m] = unfinished'[m]]
      /\ told' \in [Match -> [start : Nat, judge : Nat]]
      /\ \A n \in Match \ {m} : told'[n] = told[n]
      /\ now' = now
      /\ tx' = [tx EXCEPT ![c] = Idle] /\ held' = [held EXCEPT ![c] = {}]
  BY CommitWrites DEF Leaves, End
<1>2. /\ row \in [Match -> Row] /\ unfinished \in [Match -> SUBSET User]
      /\ tx \in [Conn -> Tx] /\ held \in [Conn -> SUBSET Lock] /\ now \in 0..Horizon
  BY DEF IInv, TypeOK, Tx
<1>3. /\ AtWork(s)
      /\ s.op # "idle"
      /\ s.op \in Takers => Seated(s)
      /\ s.op = "create" => HasCode(s)
  BY <1>1 DEF AtWork, Seated, HasCode, Movers, Takers
<1>4. TypeOK'
  <2>1. row'[m] \in Row /\ unfinished'[m] \in SUBSET User
    BY <1>1, PlayersHaveSeats DEF Leaves, Flags
  <2>2. tx' \in [Conn -> Tx] /\ held' \in [Conn -> SUBSET Lock]
    BY <1>1, <1>2, IdleIsSound
  <2> QED BY <1>1, <1>2, <2>1, <2>2 DEF TypeOK, Tx
<1>5. \A n \in Match :
        Whole(row'[n]) /\ Flags(row'[n], unfinished'[n]) /\ Tally(row'[n], told'[n])
  BY <1>1, <1>2 DEF IInv, Leaves
<1>6. ASSUME NEW d \in Conn \ {c}
      PROVE  Sound(tx[d], held[d], row', unfinished', now)
  <2> DEFINE t == tx[d]
  <2>1. /\ Formed(t) /\ Holds(t, held[d]) /\ t.began <= now
        /\ Checked(t, row[t.match]) /\ Cleared(t, row, unfinished)
    BY <1>2, OneConn
  <2>2. Checked(t, row'[t.match])
    <3>1. CASE t.match # m
      <4>1. CASE t.op = "idle"
        BY <2>1, <4>1 DEF Checked, Formed
      <4>2. CASE t.op # "idle"
        <5>1. row'[t.match] = row[t.match]
          BY <1>1, <1>2, <2>1, <3>1, <4>2 DEF Formed
        <5> QED BY <2>1, <5>1
      <4> QED BY <4>1, <4>2
    <3>2. CASE t.match = m
      <4>1. ~AtWork(t) /\ t.op # "create"
        BY <1>3, <3>2 DEF IInv, Apart
      <4> QED BY <2>1, <4>1 DEF Checked, AtWork, Formed
    <3> QED BY <3>1, <3>2
  <2>3. Cleared(t, row', unfinished')
    <3>1. ASSUME HasCode(t), NEW n \in Match, row'[n].state = "lobby", row'[n].code = t.code
          PROVE  FALSE
      <4>1. n = m
        BY <1>1, <1>2, <2>1, <3>1 DEF Cleared
      <4>2. s.op = "create" /\ s.code = t.code
        BY <1>1, <2>1, <3>1, <4>1 DEF Leaves, Cleared
      <4> QED BY <1>3, <3>1, <4>2 DEF IInv, Apart
    <3>2. ASSUME Seated(t), NEW n \in Match, t.user \in unfinished'[n]
          PROVE  FALSE
      <4>1. n = m
        BY <1>1, <1>2, <2>1, <3>2 DEF Cleared
      <4>2. s.op \in Takers /\ s.user = t.user
        BY <1>1, <2>1, <3>2, <4>1 DEF Leaves, Cleared
      <4> QED BY <1>3, <3>2, <4>2 DEF IInv, Apart
    <3> QED BY <3>1, <3>2 DEF Cleared
  <2> QED BY <2>1, <2>2, <2>3 DEF Sound
<1>7. Sound(Idle, {}, row', unfinished', now)
  <2>1. now \in Nat
    BY <1>2, RowAssumption
  <2> QED BY <2>1, IdleIsSound
<1>8. \A d \in Conn : Sound(tx'[d], held'[d], row', unfinished', now')
  <2> HIDE DEF Idle
  <2> QED BY <1>1, <1>2, <1>6, <1>7
<1>9. \A d, e \in Conn : d # e => Apart(tx'[d], tx'[e])
  <2>1. \A t : Apart(Idle, t) /\ Apart(t, Idle)
    BY <1>2, RowAssumption, IdleIsSound
  <2> HIDE DEF Idle
  <2> QED BY <1>1, <1>2, <2>1 DEF IInv
<1> QED BY <1>4, <1>5, <1>8, <1>9 DEF IInv

-----------------------------------------------------------------------------
(***************************************************************************)
(* The commit of each operation leaves its match in order, and is one      *)
(* atomic operation of Lifecycle.                                          *)
(***************************************************************************)
Kept(c) == LET m == tx[c].match IN
  Leaves(tx[c], row[m], unfinished[m], row'[m], unfinished'[m], told'[m])

\* Lifecycle reads a row as this module does.
LEMMA PromiseSameRows ==
  /\ Promise!NoRow = NoRow
  /\ \A u, k, h : Promise!NewLobby(u, k, h) = NewLobby(u, k, h)
  /\ \A r : (Promise!Full(r) <=> Full(r)) /\ Promise!FreeSlot(r) = FreeSlot(r)
  /\ \A r, u : Promise!Has(r, u) <=> Has(r, u)
  /\ \A r, u, t : Promise!Started(r, u, t) = Started(r, u, t)
  /\ \A set, u, r : Promise!Completes(set, u, r) <=> Completes(set, u, r)
  /\ Promise!Unfinished = Unfinished
BY DEF Promise!NoRow, NoRow, Promise!NewLobby, NewLobby, Promise!Full, Full,
       Promise!FreeSlot, FreeSlot, Promise!Has, Has, Promise!Started, Started,
       Promise!Completes, Completes, Promise!Players, Players,
       Promise!Unfinished, Unfinished, Promise!Slot, Slot

\* A player whose flag is set nowhere is in no unfinished match.
LEMMA FreeOfMatches ==
  ASSUME IInv, NEW u \in User, \A m \in Match : u \notin unfinished[m]
  PROVE  ~Promise!InUnfinished(u)
<1> SUFFICES ASSUME NEW m \in Match, row[m].state \in Unfinished, Has(row[m], u)
             PROVE  FALSE
  BY PromiseSameRows DEF Promise!InUnfinished
<1>1. row[m] \in Row /\ unfinished[m] = Players(row[m])
  BY DEF IInv, TypeOK, Flags
<1> QED BY <1>1, PlayersHaveSeats

LEMMA CommitCreate ==
  ASSUME IInv, NEW c \in Conn, Commit(c), tx[c].op = "create"
  PROVE  Kept(c) /\ Promise!Next
<1> DEFINE t == tx[c]
           m == t.match
           w == NewLobby(t.user, t.code, t.challenge)
<1>1. /\ t.at = "commit" /\ m \in Match /\ row[m] = NoRow
      /\ t.user \in User /\ t.code \in Code /\ t.challenge \in Challenge /\ ~t.moved
      /\ Flags(row[m], unfinished[m]) /\ Tally(row[m], told[m])
  BY CommitWrites DEF Checked, Formed, Movers
<1>2. /\ row' = [row EXCEPT ![m] = w] /\ row'[m] = w
      /\ told'[m].start = told[m].start /\ told'[m].judge = told[m].judge
      /\ now' = now
  BY CommitWrites DEF Written
<1>3. NoRow.state = "none"
  BY DEF NoRow
<1>4. /\ w.state = "lobby" /\ w.code = t.code
      /\ w.seat = [s \in Slot |-> IF s = 1 THEN t.user ELSE Null]
      /\ w \in Row
  BY <1>1, RowAssumption DEF NewLobby, NoRow, Row, State
<1>5. Players(w) = {t.user}
  BY <1>1, <1>4, RowAssumption DEF Players, Slot
<1>6. unfinished'[m] = {t.user}
  <2>1. unfinished[m] = {}
    BY <1>1, <1>3 DEF Flags, Unfinished
  <2> HIDE DEF w
  <2> QED BY <1>2, <1>4, <1>5, <2>1, CommitWrites DEF Unfinished, Takers
<1>7. Kept(c)
  <2> HIDE DEF w
  <2>1. Whole(w) /\ Flags(w, {t.user})
    BY <1>1, <1>4, <1>5 DEF Whole, Flags, Unfinished
  <2>2. Tally(w, told'[m])
    BY <1>1, <1>2, <1>3, <1>4 DEF Tally
  <2> QED BY <1>2, <1>4, <1>6, <2>1, <2>2 DEF Kept, Leaves, Takers
<1>8. Promise!Next
  <2>1. HasCode(t) /\ Seated(t)
    BY <1>1 DEF HasCode, Seated, Takers
  <2>2. ~Promise!CodeOpen(t.code)
    BY <2>1, OneConn DEF Cleared, Promise!CodeOpen
  <2>3. ~Promise!InUnfinished(t.user)
    BY <1>1, <2>1, OneConn, FreeOfMatches DEF Cleared
  <2>4. Promise!CreateLobby(t.user, m, t.code, t.challenge)
    BY <1>1, <1>2, <2>2, <2>3, PromiseSameRows DEF Promise!CreateLobby
  <2> QED BY <1>1, <2>4 DEF Promise!Next, Promise!PlayerStep
<1> QED BY <1>7, <1>8

LEMMA CommitJoin ==
  ASSUME IInv, NEW c \in Conn, Commit(c), tx[c].op = "join"
  PROVE  Kept(c) /\ Promise!Next
<1> DEFINE t == tx[c]
           m == t.match
           r == row[m]
           w == [r EXCEPT !.seat[FreeSlot(r)] = t.user]
<1>1. /\ t.at = "commit" /\ m \in Match /\ r \in Row /\ t.user \in User /\ ~t.moved
      /\ r.state = "lobby" /\ ~Full(r) /\ ~Has(r, t.user)
      /\ Whole(r) /\ Flags(r, unfinished[m]) /\ Tally(r, told[m])
  BY CommitWrites DEF Checked, Formed, Movers
<1>2. /\ row' = [row EXCEPT ![m] = w] /\ row'[m] = w
      /\ told'[m].start = told[m].start /\ told'[m].judge = told[m].judge
      /\ now' = now
  BY CommitWrites DEF Written
<1>3. FreeSlot(r) \in Slot /\ r.seat[FreeSlot(r)] = Null
  BY <1>1, FreeSlotIsFree
<1>4. /\ w \in Row /\ w.state = r.state /\ w.code = r.code
      /\ w.seat = [r.seat EXCEPT ![FreeSlot(r)] = t.user]
  BY <1>1, <1>3, ZenonT(40) DEF Row
<1>5. Players(w) = Players(r) \cup {t.user}
  <2>1. r.seat \in [Slot -> User \cup {Null}]
    BY <1>1 DEF Row
  <2> HIDE DEF w
  <2> QED BY <1>1, <1>3, <1>4, <2>1, RowAssumption, SMTT(20) DEF Players
<1>6. unfinished[m] = Players(r) /\ unfinished'[m] = Players(w)
  <2>1. unfinished[m] = Players(r)
    BY <1>1 DEF Flags, Unfinished
  <2> HIDE DEF w
  <2>2. row'[m] = w /\ w.state \in Unfinished
    BY <1>1, <1>2, <1>4 DEF Unfinished
  <2>3. unfinished'[m] = unfinished[m] \cup (Players(w) \cap {t.user})
    BY <2>2, CommitWrites DEF Takers
  <2> QED BY <1>5, <2>1, <2>3
<1>7. Kept(c)
  <2> HIDE DEF w
  <2>1. Whole(w) /\ Flags(w, Players(w))
    BY <1>1, <1>4 DEF Whole, Flags, Unfinished
  <2>2. Tally(w, told'[m])
    BY <1>1, <1>2, <1>4 DEF Tally
  <2> QED BY <1>2, <1>4, <1>5, <1>6, <2>1, <2>2 DEF Kept, Leaves, Takers
<1>8. Promise!Next
  <2>1. Seated(t)
    BY <1>1 DEF Seated, Takers
  <2>2. ~Promise!InUnfinished(t.user)
    BY <1>1, <2>1, OneConn, FreeOfMatches DEF Cleared
  <2>3. Promise!JoinLobby(t.user, m)
    BY <1>1, <1>2, <2>2, PromiseSameRows DEF Promise!JoinLobby
  <2> QED BY <1>1, <2>3 DEF Promise!Next, Promise!PlayerStep
<1> QED BY <1>7, <1>8

\* The four that may move a match seat nobody and open nothing.
LEMMA MoverKeeps ==
  ASSUME IInv, NEW c \in Conn, Commit(c), tx[c].op \in Movers, NEW w \in Row,
         row'[tx[c].match] = w, Whole(w),
         LET t == tx[c]  r == row[t.match] IN
           /\ w.seat = r.seat /\ w.code = r.code
           /\ ~t.moved => w.state = r.state
           /\ t.moved /\ t.op = "cancel" => r.state = "lobby" /\ w.state = "abandoned"
           /\ t.moved /\ t.op = "ready" => r.state = "lobby" /\ w.state = "active"
           /\ t.moved /\ t.op \in {"submit", "expire"} =>
                r.state = "active" /\ w.state = "judging"
  PROVE  Kept(c)
<1> DEFINE t == tx[c]
           m == t.match
           r == row[m]
<1>1. /\ Flags(r, unfinished[m]) /\ Tally(r, told[m])
      /\ t.moved => unfinished'[m] = IF w.state \in Unfinished THEN Players(w) ELSE {}
      /\ ~t.moved => unfinished'[m] = unfinished[m]
  BY CommitWrites
<1>2. Players(w) = Players(r)
  BY DEF Players
<1>3. Flags(w, unfinished'[m]) /\ unfinished'[m] \subseteq unfinished[m]
  <2>1. CASE t.moved
    <3>1. r.state \in Unfinished
      BY <2>1 DEF Unfinished, Movers
    <3> QED BY <1>1, <1>2, <2>1, <3>1 DEF Flags
  <2>2. CASE ~t.moved
    BY <1>1, <1>2, <2>2 DEF Flags
  <2> QED BY <2>1, <2>2
<1>4. Tally(w, told'[m])
  <2>1. /\ told'[m].start = IF t.op = "ready" /\ t.moved
                              THEN told[m].start + 1 ELSE told[m].start
        /\ told'[m].judge = IF t.op \in {"submit", "expire"} /\ t.moved
                              THEN told[m].judge + 1 ELSE told[m].judge
    BY CommitWrites
  <2>2. CASE t.moved
    BY <1>1, <2>1, <2>2 DEF Tally, Movers
  <2>3. CASE ~t.moved
    BY <1>1, <2>1, <2>3 DEF Tally
  <2> QED BY <2>2, <2>3
<1>5. w.state = "lobby" => r.state = "lobby" /\ w.code = r.code
  BY DEF Movers
<1> QED BY <1>3, <1>4, <1>5 DEF Kept, Leaves

LEMMA CommitCancel ==
  ASSUME IInv, NEW c \in Conn, Commit(c), tx[c].op = "cancel"
  PROVE  Kept(c) /\ [Promise!Next]_(Promise!vars)
<1> DEFINE t == tx[c]
           m == t.match
           r == row[m]
<1>1. /\ m \in Match /\ r \in Row /\ Whole(r) /\ row \in [Match -> Row]
      /\ t.user \in User /\ t.began \in 0..now /\ t.began \in Nat
      /\ r.state = "lobby" /\ Has(r, t.user)
  BY CommitWrites, OneConn, RowAssumption DEF Checked, Formed, IInv, TypeOK, Tx
<1>2. CASE t.moved
  <2> DEFINE w == [r EXCEPT !.state = "abandoned", !.ended = t.began]
  <2>1. row' = [row EXCEPT ![m] = w] /\ row'[m] = w /\ now' = now
    BY <1>2, CommitWrites DEF Written
  <2>2. /\ w \in Row /\ w.state = "abandoned" /\ w.seat = r.seat /\ w.code = r.code
    BY <1>1 DEF Row, State
  <2>3. Promise!CancelLobby(t.user, m)
    BY <1>1, <2>1, PromiseSameRows DEF Promise!CancelLobby
  <2>4. Kept(c)
    <3> HIDE DEF w
    <3>1. Whole(w)
      BY <2>2 DEF Whole
    <3> QED BY <1>1, <1>2, <2>1, <2>2, <3>1, MoverKeeps DEF Movers
  <2> QED BY <1>1, <2>3, <2>4 DEF Promise!Next, Promise!PlayerStep
<1>3. CASE ~t.moved
  <2>1. row' = row /\ row'[m] = r /\ now' = now
    <3>1. Written(r, t) = r
      BY <1>3 DEF Written
    <3>2. row' = [row EXCEPT ![m] = Written(r, t)] /\ now' = now
      BY CommitWrites
    <3> QED BY <1>1, <3>1, <3>2
  <2>2. Kept(c)
    BY <1>1, <1>3, <2>1, MoverKeeps DEF Movers
  <2> QED BY <2>1, <2>2 DEF Promise!vars
<1> QED BY <1>2, <1>3

LEMMA CommitReady ==
  ASSUME IInv, NEW c \in Conn, Commit(c), tx[c].op = "ready"
  PROVE  Kept(c) /\ Promise!Next
<1> DEFINE t == tx[c]
           m == t.match
           r == row[m]
<1>1. /\ m \in Match /\ r \in Row /\ Whole(r)
      /\ t.user \in User /\ t.began \in 0..now /\ t.began \in Nat
      /\ r.state = "lobby" /\ Full(r) /\ Has(r, t.user)
      /\ t.moved <=> Completes(r.ready, t.user, r)
      /\ t.moved => r.challenge \in Stocked
  BY CommitWrites, OneConn, RowAssumption DEF Checked, Formed, IInv, TypeOK, Tx
<1>2. r.ready \cup {t.user} \in SUBSET User
  BY <1>1 DEF Row
<1>3. Promise!MayReady(t.user, m)
  BY <1>1, PromiseSameRows DEF Promise!MayReady
<1>4. CASE t.moved
  <2> DEFINE w == Started(r, t.user, t.began)
  <2>1. row' = [row EXCEPT ![m] = w] /\ row'[m] = w /\ now' = now
    BY <1>4, CommitWrites DEF Written
  <2>2. t.began + Duration[r.challenge] \in Nat
    BY <1>1, <1>4, RowAssumption
  <2>3. /\ w \in Row /\ w.state = "active" /\ w.seat = r.seat /\ w.code = r.code
        /\ w.deadline \in Nat
    BY <1>1, <1>2, <2>2 DEF Started, Row, State
  <2>4. Promise!Start(t.user, m)
    BY <1>1, <1>3, <1>4, <2>1, PromiseSameRows DEF Promise!Start
  <2>5. Kept(c)
    <3> HIDE DEF w
    <3>1. Whole(w)
      BY <2>3 DEF Whole
    <3> QED BY <1>1, <1>4, <2>1, <2>3, <3>1, MoverKeeps DEF Movers
  <2> QED BY <1>1, <2>4, <2>5 DEF Promise!Next, Promise!PlayerStep
<1>5. CASE ~t.moved
  <2> DEFINE w == [r EXCEPT !.ready = @ \cup {t.user}]
  <2>1. row' = [row EXCEPT ![m] = w] /\ row'[m] = w /\ now' = now
    BY <1>5, CommitWrites DEF Written
  <2>2. /\ w \in Row /\ w.state = "lobby" /\ w.seat = r.seat /\ w.code = r.code
    BY <1>1, <1>2 DEF Row
  <2>3. Promise!Ready(t.user, m)
    BY <1>1, <1>3, <1>5, <2>1, PromiseSameRows DEF Promise!Ready
  <2>4. Kept(c)
    <3> HIDE DEF w
    <3>1. Whole(w)
      BY <1>1, <2>2 DEF Whole
    <3> QED BY <1>1, <1>5, <2>1, <2>2, <3>1, MoverKeeps DEF Movers
  <2> QED BY <1>1, <2>3, <2>4 DEF Promise!Next, Promise!PlayerStep
<1> QED BY <1>4, <1>5

LEMMA CommitSubmit ==
  ASSUME IInv, NEW c \in Conn, Commit(c), tx[c].op = "submit"
  PROVE  Kept(c) /\ Promise!Next
<1> DEFINE t == tx[c]
           m == t.match
           r == row[m]
           x == IF t.moved THEN "judging" ELSE r.state
           w == [r EXCEPT !.submitted = @ \cup {t.user}, !.state = x]
<1>1. /\ m \in Match /\ r \in Row /\ Whole(r) /\ t.user \in User
      /\ r.state = "active" /\ Has(r, t.user)
      /\ t.moved <=> Completes(r.submitted, t.user, r)
  BY CommitWrites DEF Checked, Formed
<1>2. r.submitted \cup {t.user} \in SUBSET User /\ x \in State
  BY <1>1 DEF Row, State
<1>3. row' = [row EXCEPT ![m] = w] /\ row'[m] = w /\ now' = now
  BY CommitWrites DEF Written
<1>4. /\ w \in Row /\ w.state = x /\ w.seat = r.seat /\ w.code = r.code
      /\ w.deadline = r.deadline
  BY <1>1, <1>2 DEF Row
<1>5. Promise!Submit(t.user, m)
  BY <1>1, <1>3, PromiseSameRows DEF Promise!Submit
<1>6. Kept(c)
  <2> HIDE DEF w
  <2>1. Whole(w)
    BY <1>1, <1>4 DEF Whole
  <2> QED BY <1>1, <1>3, <1>4, <2>1, MoverKeeps DEF Movers
<1> QED BY <1>1, <1>5, <1>6 DEF Promise!Next, Promise!PlayerStep

LEMMA CommitExpire ==
  ASSUME IInv, NEW c \in Conn, Commit(c), tx[c].op = "expire"
  PROVE  Kept(c) /\ [Promise!Next]_(Promise!vars)
<1> DEFINE t == tx[c]
           m == t.match
           r == row[m]
<1>1. /\ m \in Match /\ r \in Row /\ Whole(r) /\ row \in [Match -> Row]
      /\ t.began \in 0..now /\ t.began \in Nat /\ now \in Nat
      /\ t.moved => r.state = "active" /\ r.deadline <= t.began
  BY CommitWrites, OneConn, RowAssumption, SMTT(20) DEF Checked, Formed, IInv, TypeOK, Tx
<1>2. CASE t.moved
  <2> DEFINE w == [r EXCEPT !.state = "judging"]
  <2>1. row' = [row EXCEPT ![m] = w] /\ row'[m] = w /\ now' = now
    BY <1>2, CommitWrites DEF Written
  <2>2. /\ w \in Row /\ w.state = "judging" /\ w.seat = r.seat /\ w.code = r.code
    BY <1>1 DEF Row, State
  <2>3. r.deadline <= now
    BY <1>1, <1>2 DEF Whole
  <2>4. Promise!Expire({m})
    BY <1>1, <1>2, <2>1, <2>3 DEF Promise!Expire, Promise!Due
  <2>5. Kept(c)
    <3> HIDE DEF w
    <3>1. Whole(w)
      BY <2>2 DEF Whole
    <3> QED BY <1>1, <1>2, <2>1, <2>2, <3>1, MoverKeeps DEF Movers
  <2> QED BY <1>1, <2>4, <2>5 DEF Promise!Next
<1>3. CASE ~t.moved
  <2>1. [r EXCEPT !.state = r.state] = r
    BY <1>1 DEF Row
  <2>2. row' = row /\ row'[m] = r /\ now' = now
    <3>1. Written(r, t) = r
      BY <1>3, <2>1 DEF Written
    <3>2. row' = [row EXCEPT ![m] = Written(r, t)] /\ now' = now
      BY CommitWrites
    <3> QED BY <1>1, <3>1, <3>2
  <2>3. Kept(c)
    BY <1>1, <1>3, <2>2, MoverKeeps DEF Movers
  <2> QED BY <2>2, <2>3 DEF Promise!vars
<1> QED BY <1>2, <1>3

-----------------------------------------------------------------------------
(***************************************************************************)
(* Every step.                                                             *)
(***************************************************************************)
LEMMA EveryCommit ==
  ASSUME IInv, NEW c \in Conn, Commit(c)
  PROVE  IInv' /\ [Promise!Next]_(Promise!vars)
<1>1. Kept(c) /\ [Promise!Next]_(Promise!vars)
  <2>1. tx[c].op \in Movers \cup Takers
    BY CommitWrites
  <2> QED
    BY <2>1, CommitCreate, CommitJoin, CommitCancel, CommitReady, CommitSubmit,
       CommitExpire DEF Movers, Takers
<1> QED BY <1>1, CommitKeeps DEF Kept

LEMMA EveryStep ==
  ASSUME IInv, [Next]_vars
  PROVE  IInv' /\ [Promise!Next]_(Promise!vars)
<1>1. ASSUME Unwritten
      PROVE  UNCHANGED Promise!vars
  BY <1>1 DEF Unwritten, Promise!vars
<1>2. ASSUME NEW c \in Conn, NEW m \in Match, Begin(c, m)
      PROVE  IInv' /\ Unwritten
  <2>1. Unwritten
    BY <1>2 DEF Begin, BeginExpire, BeginCreate, BeginJoin, BeginOnMatch, BeginCurrent, Request
  <2> QED BY <1>2, <2>1, BeginKeeps
<1>3. ASSUME NEW c \in Conn, InsertMatch(c)
      PROVE  IInv' /\ Unwritten
  BY <1>3, InsertMatchKeeps DEF InsertMatch
<1>4. ASSUME NEW c \in Conn, DrawAgain(c)
      PROVE  IInv' /\ Unwritten
  BY <1>4, DrawAgainKeeps DEF DrawAgain
<1>5. ASSUME NEW c \in Conn, LockMatch(c)
      PROVE  IInv' /\ Unwritten
  BY <1>5, LockMatchKeeps DEF LockMatch
<1>6. ASSUME NEW c \in Conn, Refuse(c) \/ ReadCurrent(c) \/ Abort(c)
      PROVE  IInv' /\ Unwritten
  BY <1>6, EndKeeps DEF Refuse, ReadCurrent, Abort
<1>7. ASSUME NEW c \in Conn, Admit(c)
      PROVE  IInv' /\ Unwritten
  BY <1>7, AdmitKeeps DEF Admit
<1>8. ASSUME NEW c \in Conn, MarkPlayer(c)
      PROVE  IInv' /\ Unwritten
  BY <1>8, MarkPlayerKeeps DEF MarkPlayer
<1>9. ASSUME NEW c \in Conn, TakeSeat(c)
      PROVE  IInv' /\ Unwritten
  BY <1>9, TakeSeatKeeps DEF TakeSeat
<1>10. ASSUME NEW c \in Conn, MoveMatch(c)
       PROVE  IInv' /\ Unwritten
  BY <1>10, MoveMatchKeeps DEF MoveMatch
<1>11. ASSUME NEW c \in Conn, Commit(c)
       PROVE  IInv' /\ [Promise!Next]_(Promise!vars)
  BY <1>11, EveryCommit
<1>12. CASE Tick
  BY <1>12, TickKeeps DEF Tick, Promise!Tick, Promise!Next
<1>13. CASE UNCHANGED vars
  <2>1. IInv'
    BY <1>13 DEF vars, IInv, TypeOK
  <2> QED BY <1>13, <2>1 DEF vars, Promise!vars
<1> QED
  BY <1>1, <1>2, <1>3, <1>4, <1>5, <1>6, <1>7, <1>8, <1>9, <1>10, <1>11, <1>12, <1>13
  DEF Next, Statement

LEMMA InvAlways == Spec => []IInv
<1>1. IInv /\ [Next]_vars => IInv'
  BY EveryStep
<1> QED BY <1>1, InitInv, PTL DEF Spec

(***************************************************************************)
(* Type correctness: every committed row, lock and transaction record is   *)
(* what its column or its protocol allows, whatever the connections do.    *)
(***************************************************************************)
THEOREM TypeCorrect == Spec => []TypeOK
BY InvAlways, PTL DEF IInv

(***************************************************************************)
(* The flag the triggers of migration 0003 maintain agrees with the state  *)
(* it is derived from, in every committed state.                           *)
(***************************************************************************)
THEOREM FlagsAreRight == Spec => []FlagFollowsState
<1>1. IInv => FlagFollowsState
  BY DEF IInv, Flags, FlagFollowsState
<1> QED BY <1>1, InvAlways, PTL

(***************************************************************************)
(* Of the calls that race to start a match, and of those that race to hand *)
(* it to judging, exactly one is told that it was the one.                 *)
(***************************************************************************)
THEOREM MovesAreToldOnce == Spec => []OneMover
<1>1. IInv => OneMover
  BY DEF IInv, Tally, OneMover
<1> QED BY <1>1, InvAlways, PTL

(***************************************************************************)
(* Statement by statement, with locks and rollbacks, the store does what   *)
(* Lifecycle promises of its operations taken as atomic.                   *)
(***************************************************************************)
THEOREM StatementsKeepThePromise == Spec => ImplementsLifecycle
<1>1. Init => Promise!Init
  BY PromiseSameRows DEF Init, Promise!Init
<1>2. IInv /\ [Next]_vars => [Promise!Next]_(Promise!vars)
  BY EveryStep
<1> QED BY <1>1, <1>2, InvAlways, PTL DEF Spec, ImplementsLifecycle, Promise!Spec

-----------------------------------------------------------------------------
(***************************************************************************)
(* No deadlock.  A waits-for edge always leads from an earlier phase of a  *)
(* transaction to a later one: what is waited for at the first statement   *)
(* is held by one past it, a taker waits only for seats that are written,  *)
(* and those that write them, or are on their way to, wait for nobody.     *)
(***************************************************************************)

\* Past its match row, no transaction but a taker of seats waits.
LEMMA MoversDoNotWait ==
  ASSUME IInv, NEW c \in Conn, tx[c].at \notin {"insert", "lock", "seat"}
  PROVE  WaitsFor(c) = {}
<1> DEFINE m == tx[c].match
<1>1. SUFFICES ASSUME NEW d \in Conn \ {c}, NEW l \in held[d] \cap Wanted(c)
               PROVE  FALSE
  BY DEF WaitsFor
<1>2. tx[c].at \in {"check", "move"}
  BY <1>1 DEF Wanted
<1>3. /\ AtWork(tx[c]) /\ m \in Match
      /\ tx[c].at = "check" /\ tx[c].op \in {"ready", "submit"} => tx[c].user \in User
  BY <1>2, OneConn DEF AtWork, Formed, Movers
<1>4. l = MatchLock(m) \/ \E u \in User : l = SeatLock(m, u)
  <2>1. row[m] \in Row
    BY <1>3 DEF IInv, TypeOK
  <2>2. Players(row[m]) \subseteq User
    BY <2>1, PlayersHaveSeats
  <2>3. CASE tx[c].at = "check"
    BY <1>1, <1>3, <2>3 DEF Wanted
  <2>4. CASE tx[c].at = "move"
    BY <1>1, <2>2, <2>4 DEF Wanted, Seats
  <2> QED BY <1>2, <2>3, <2>4
<1>5. AtWork(tx[d]) /\ tx[d].match = m
  BY <1>1, <1>3, <1>4, OneConn DEF Holds
<1> QED BY <1>3, <1>5 DEF IInv, Apart

\* A taker of seats waits only for transactions past that.
LEMMA TakersWaitForWriters ==
  ASSUME IInv, NEW c \in Conn, tx[c].at = "seat", NEW d \in WaitsFor(c)
  PROVE  tx[d].at \in {"move", "commit"}
<1>1. d \in Conn
  BY DEF WaitsFor
<1>2. tx[c].user \in User
  BY OneConn DEF Formed, Takers
<1>3. PICK m \in Match : SeatLock(m, tx[c].user) \in held[d]
  BY DEF WaitsFor, Wanted, Memberships
<1> QED BY <1>1, <1>2, <1>3, OneConn DEF Holds

\* Whoever is waited for has its match row.
LEMMA WaitedForIsAtWork ==
  ASSUME IInv, NEW c \in Conn, NEW d \in WaitsFor(c)
  PROVE  AtWork(tx[d])
BY OneConn DEF WaitsFor, Holds

(***************************************************************************)
(* No set of transactions waits on itself, whatever the operations, the    *)
(* matches and the number of connections: the lock order that matches.go   *)
(* relies on, together with the waits on its two unique indexes.           *)
(***************************************************************************)
THEOREM NobodyWaitsInACircle == Spec => []NoDeadlock
<1>1. IInv => NoDeadlock
  <2> SUFFICES ASSUME IInv, NEW S \in (SUBSET Conn) \ {{}}
               PROVE  \E c \in S : WaitsFor(c) \cap S = {}
    BY DEF NoDeadlock
  <2>1. CASE \E c \in S : tx[c].at \notin {"insert", "lock", "seat"}
    BY <2>1, MoversDoNotWait
  <2>2. CASE /\ \A c \in S : tx[c].at \in {"insert", "lock", "seat"}
             /\ \E c \in S : tx[c].at = "seat"
    BY <2>2, TakersWaitForWriters
  <2>3. CASE \A c \in S : tx[c].at \in {"insert", "lock"}
    <3>1. PICK c \in S : TRUE
      OBVIOUS
    <3>2. \A d \in S : ~AtWork(tx[d])
      BY <2>3 DEF AtWork
    <3>3. WaitsFor(c) \cap S = {}
      BY <3>2, WaitedForIsAtWork
    <3> QED BY <3>1, <3>3
  <2> QED BY <2>1, <2>2, <2>3
<1> QED BY <1>1, InvAlways, PTL

-----------------------------------------------------------------------------
(***************************************************************************)
(* What LifecycleProofs proves of the promise therefore holds of the       *)
(* statements.                                                             *)
(***************************************************************************)
Proved == INSTANCE LifecycleProofs

\* The promise as this module and as that one read it.
LEMMA PromiseIsProved == Promise!Spec => Proved!Spec
<1>1. Promise!Init => Proved!Init
  BY DEF Promise!Init, Proved!Init, Promise!NoRow, Proved!NoRow, Promise!Slot, Proved!Slot
<1>2. ASSUME NEW u \in User, NEW m \in Match
      PROVE  /\ \A k \in Code, h \in Challenge :
                  Promise!CreateLobby(u, m, k, h) => Proved!CreateLobby(u, m, k, h)
             /\ Promise!JoinLobby(u, m) => Proved!JoinLobby(u, m)
  BY DEF Promise!CreateLobby, Proved!CreateLobby, Promise!JoinLobby, Proved!JoinLobby,
         Promise!NewLobby, Proved!NewLobby, Promise!NoRow, Proved!NoRow, Promise!Full, Proved!Full, Promise!FreeSlot, Proved!FreeSlot,
         Promise!CodeOpen, Proved!CodeOpen, Promise!InUnfinished, Proved!InUnfinished, Promise!Unfinished, Proved!Unfinished, Promise!Has, Proved!Has, Promise!Slot, Proved!Slot
<1>3. ASSUME NEW u \in User, NEW m \in Match
      PROVE  /\ Promise!CancelLobby(u, m) => Proved!CancelLobby(u, m)
             /\ Promise!Submit(u, m) => Proved!Submit(u, m)
             /\ Promise!MayReady(u, m) => Proved!MayReady(u, m)
  BY DEF Promise!CancelLobby, Proved!CancelLobby, Promise!Submit, Proved!Submit,
         Promise!MayReady, Proved!MayReady, Promise!Full, Proved!Full,
         Promise!Has, Proved!Has, Promise!Slot, Proved!Slot, Promise!Completes, Proved!Completes, Promise!Players, Proved!Players
<1>4. ASSUME NEW u \in User, NEW m \in Match
      PROVE  /\ Promise!Ready(u, m) => Proved!Ready(u, m)
             /\ Promise!Start(u, m) => Proved!Start(u, m)
  BY <1>3 DEF Promise!Ready, Proved!Ready, Promise!Start, Proved!Start,
         Promise!Started, Proved!Started, Promise!Completes, Proved!Completes, Promise!Players, Proved!Players, Promise!Slot, Proved!Slot
<1>5. /\ \A S \in SUBSET Match : Promise!Expire(S) => Proved!Expire(S)
      /\ Promise!Tick => Proved!Tick
  BY DEF Promise!Expire, Proved!Expire, Promise!Due, Proved!Due, Promise!Tick, Proved!Tick
<1>6. Promise!Next => Proved!Next
  BY <1>2, <1>3, <1>4, <1>5 DEF Promise!Next, Proved!Next, Promise!PlayerStep, Proved!PlayerStep
<1>7. [Promise!Next]_(Promise!vars) => [Proved!Next]_(Proved!vars)
  BY <1>6 DEF Promise!vars, Proved!vars
<1> QED BY <1>1, <1>7, PTL DEF Promise!Spec, Proved!Spec

(***************************************************************************)
(* No player in two unfinished matches, no code naming two open lobbies,   *)
(* and every match in order for its state: not only when an operation is   *)
(* one step, but as PostgreSQL interleaves its statements.                 *)
(***************************************************************************)
THEOREM StatementsInherit ==
  Spec => /\ []Promise!OneUnfinished
          /\ []Promise!CodeNamesOneLobby
          /\ []Promise!EveryMatchInOrder
<1>1. Proved!OneUnfinished => Promise!OneUnfinished
  BY DEF Promise!OneUnfinished, Proved!OneUnfinished, Promise!Unfinished, Proved!Unfinished, Promise!Has, Proved!Has, Promise!Slot, Proved!Slot
<1>2. Proved!CodeNamesOneLobby => Promise!CodeNamesOneLobby
  BY DEF Promise!CodeNamesOneLobby, Proved!CodeNamesOneLobby
<1>3. Proved!EveryMatchInOrder => Promise!EveryMatchInOrder
  BY DEF Promise!EveryMatchInOrder, Proved!EveryMatchInOrder, Promise!LobbyWaits, Proved!LobbyWaits,
         Promise!PlayedByTwo, Proved!PlayedByTwo, Promise!NoLostTransition, Proved!NoLostTransition,
         Promise!JudgedForAReason, Proved!JudgedForAReason, Promise!Players, Proved!Players, Promise!Full, Proved!Full, Promise!Slot, Proved!Slot
<1>4. Proved!Spec => []Proved!OneUnfinished
  BY Proved!AtMostOneUnfinished, RowAssumption
<1>5. Proved!Spec => []Proved!CodeNamesOneLobby
  BY Proved!OpenCodesUnique, RowAssumption
<1>6. Proved!Spec => []Proved!EveryMatchInOrder
  BY Proved!EveryMatchSound, RowAssumption
<1>7. Spec => Promise!Spec
  BY StatementsKeepThePromise DEF ImplementsLifecycle
<1> QED BY <1>1, <1>2, <1>3, <1>4, <1>5, <1>6, <1>7, PromiseIsProved, PTL
=============================================================================
