--------------------------- MODULE FinalizerProofs ---------------------------
(***************************************************************************)
(* Proofs about the worker of Finalizer.tla, for any number of workers,    *)
(* players' connections and matches, and any size of a batch.              *)
(*                                                                         *)
(* The players' side is not proved again.  With the workers' locks left    *)
(* out, what the connections do is what Matches allows them: a claim only  *)
(* makes them wait.  The invariant of MatchesProofs therefore holds of     *)
(* them, and what is left to show is that the workers' updates keep it.    *)
(***************************************************************************)
EXTENDS Finalizer, FiniteSetTheorems, TLAPS

ClientsHold == [c \in Conn |-> IF c \in Worker THEN {} ELSE held[c]]

Clients == INSTANCE MatchesProofs WITH held <- ClientsHold

-----------------------------------------------------------------------------
(***************************************************************************)
(* The inductive invariant.  A worker holds the rows it has claimed and    *)
(* nothing else, and they stay due because nobody else is at work on them; *)
(* what it left is nothing once its batch is not full.                     *)
(***************************************************************************)
Pass == [at : {"waiting", "looking", "claimed", "stopped"},
         claim : SUBSET Match, left : SUBSET Match]

Working(w, p, h) ==
  /\ tx[w] = Idle
  /\ h = {MatchLock(m) : m \in p.claim}
  /\ p.at # "claimed" => p.claim = {}
  /\ Cardinality(p.claim) <= Batch
  /\ p.at = "waiting" => p.left = {}
  /\ p.at = "claimed" /\ Cardinality(p.claim) < Batch => p.left = {}

Client == Conn \ Worker

ClaimsHold ==
  /\ \A w \in Worker : \A m \in pass[w].claim : Due(m)
  /\ \A w \in Worker, c \in Client :
       Clients!AtWork(tx[c]) => tx[c].match \notin pass[w].claim
  /\ \A v, w \in Worker : v # w => pass[v].claim \cap pass[w].claim = {}

FInv ==
  /\ Clients!IInv
  /\ held \in [Conn -> SUBSET Lock]
  /\ pass \in [Worker -> Pass]
  /\ \A w \in Worker : Working(w, pass[w], held[w])
  /\ ClaimsHold

-----------------------------------------------------------------------------
(***************************************************************************)
(* A step of a client changes what it holds and is at work on, and at most *)
(* the one row it is at work on.  With the workers left out it is a step   *)
(* of Matches.                                                             *)
(***************************************************************************)
LEMMA ClientHolds ==
  ASSUME FInv, NEW c \in Client
  PROVE  /\ ClientsHold[c] = held[c]
         /\ \A d \in Conn : ClientsHold[d] \subseteq held[d]
BY DEF ClientsHold, Client

LEMMA ClientLocks ==
  ASSUME FInv, NEW c \in Client, NEW h, held' = [held EXCEPT ![c] = h]
  PROVE  ClientsHold' = [ClientsHold EXCEPT ![c] = h]
BY DEF ClientsHold, Client, FInv

\* Lifecycle's and Matches' texts read the same in Clients.
LEMMA SameLocks ==
  /\ \A m : Clients!MatchLock(m) = MatchLock(m)
  /\ \A k : Clients!CodeLock(k) = CodeLock(k)
  /\ \A m, u : Clients!SeatLock(m, u) = SeatLock(m, u)
  /\ \A m : Clients!Seats(m) = Seats(m)
  /\ \A u : Clients!Memberships(u) = Memberships(u)
BY DEF Clients!MatchLock, MatchLock, Clients!CodeLock, CodeLock, Clients!SeatLock, SeatLock,
       Clients!Seats, Seats, Clients!Memberships, Memberships,
       Clients!Players, Players, Clients!Slot, Slot

LEMMA SameRows ==
  /\ Clients!NoRow = NoRow
  /\ Clients!Idle = Idle
  /\ \A r : (Clients!Full(r) <=> Full(r)) /\ Clients!Players(r) = Players(r)
            /\ Clients!FreeSlot(r) = FreeSlot(r)
  /\ \A r, u : Clients!Has(r, u) <=> Has(r, u)
  /\ \A op : Clients!FirstStep(op) = FirstStep(op)
  /\ Clients!Unfinished = Unfinished
BY DEF Clients!NoRow, NoRow, Clients!Idle, Idle, Clients!Full, Full, Clients!Players, Players,
       Clients!FreeSlot, FreeSlot, Clients!Has, Has, Clients!FirstStep, FirstStep,
       Clients!Slot, Slot, Clients!Unfinished, Unfinished

LEMMA SameChecks ==
  ASSUME NEW c \in Conn
  PROVE  /\ Clients!CodeTaken(c) <=> CodeTaken(c)
         /\ Clients!Admits(c) <=> Admits(c)
         /\ Clients!Marked(c) <=> Marked(c)
         /\ Clients!Swaps(c) <=> Swaps(c)
         /\ Clients!Unseedable(c) <=> Unseedable(c)
         /\ Clients!Wanted(c) = Wanted(c)
<1>1. Clients!Swaps(c) <=> Swaps(c)
  BY SameRows DEF Clients!Swaps, Swaps, Clients!AllReady, AllReady, Clients!AllSubmitted,
     AllSubmitted, Clients!Seen, Seen
<1>2. Clients!Admits(c) <=> Admits(c)
  BY SameRows DEF Clients!Admits, Admits
<1>3. Clients!Wanted(c) = Wanted(c)
  BY <1>1, SameLocks DEF Clients!Wanted, Wanted
<1> QED
  BY <1>1, <1>2, <1>3 DEF Clients!CodeTaken, CodeTaken, Clients!Marked, Marked,
     Clients!Unseedable, Unseedable

\* A lock that is granted with the workers is granted without them.
LEMMA ClientGranted ==
  ASSUME NEW c \in Client, Granted(c)
  PROVE  Clients!Granted(c)
<1>1. Clients!Wanted(c) = Wanted(c)
  BY SameChecks DEF Client
<1> QED
  BY <1>1 DEF Granted, WaitsFor, Clients!Granted, Clients!WaitsFor, ClientsHold

LEMMA SameWrites ==
  ASSUME NEW m, NEW t, NEW r
  PROVE  /\ Clients!Written(r, t) = Written(r, t)
         /\ Clients!Flagged(m, t, r) = Flagged(m, t, r)
<1>1. Clients!Written(r, t) = Written(r, t)
  BY SameRows DEF Clients!Written, Written, Clients!NewLobby, NewLobby, Clients!NoRow, NoRow,
     Clients!Started, Started, Clients!Slot, Slot
<1>2. Clients!Flagged(m, t, r) = Flagged(m, t, r)
  BY SameRows DEF Clients!Flagged, Flagged
<1> QED BY <1>1, <1>2

LEMMA ClientEnds ==
  ASSUME FInv, NEW c \in Client, End(c)
  PROVE  Clients!End(c)
<1>1. ClientsHold' = [ClientsHold EXCEPT ![c] = {}]
  BY ClientLocks DEF End
<1> QED BY <1>1, SameRows DEF End, Clients!End

LEMMA ClientKeepsLocks ==
  ASSUME UNCHANGED held
  PROVE  UNCHANGED ClientsHold
BY DEF ClientsHold

LEMMA ClientStatement ==
  ASSUME FInv, NEW c \in Client, Statement(c)
  PROVE  Clients!Statement(c)
<1> USE DEF Clients!Statement
<1>0. c \in Conn /\ ClientsHold[c] = held[c]
  BY ClientHolds DEF Client
<1>1. CASE InsertMatch(c)
  <2>1. ClientsHold' = [ClientsHold EXCEPT ![c] = {MatchLock(tx[c].match), CodeLock(tx[c].code)}]
    BY <1>1, ClientLocks DEF InsertMatch
  <2>2. Clients!Granted(c) /\ ~Clients!CodeTaken(c)
    BY <1>0, <1>1, ClientGranted, SameChecks DEF InsertMatch
  <2>3. Clients!InsertMatch(c)
    BY <1>1, <2>1, <2>2, SameLocks
    DEF InsertMatch, Clients!InsertMatch, Unwritten, Clients!Unwritten
  <2> QED BY <2>3
<1>2. CASE DrawAgain(c)
  <2>1. Clients!Granted(c) /\ Clients!CodeTaken(c)
    BY <1>0, <1>2, ClientGranted, SameChecks DEF DrawAgain
  <2>2. End(c) => Clients!End(c)
    BY ClientEnds
  <2>3. Clients!DrawAgain(c)
    BY <1>2, <2>1, <2>2, ClientKeepsLocks
    DEF DrawAgain, Clients!DrawAgain, Unwritten, Clients!Unwritten
  <2> QED BY <2>3
<1>3. CASE LockMatch(c)
  <2>1. ClientsHold' = [ClientsHold EXCEPT ![c] = @ \cup {MatchLock(tx[c].match)}]
    <3>1. held' = [held EXCEPT ![c] = held[c] \cup {MatchLock(tx[c].match)}]
      BY <1>3 DEF LockMatch
    <3> QED BY <1>0, <3>1, ClientLocks
  <2>2. Clients!Granted(c)
    BY <1>3, ClientGranted DEF LockMatch
  <2>3. Clients!LockMatch(c)
    BY <1>3, <2>1, <2>2, SameLocks
    DEF LockMatch, Clients!LockMatch, Unwritten, Clients!Unwritten
  <2> QED BY <2>3
<1>4. CASE Refuse(c)
  <2>1. Clients!Refuse(c)
    BY <1>0, <1>4, SameChecks, ClientEnds
    DEF Refuse, Clients!Refuse, Unwritten, Clients!Unwritten
  <2> QED BY <2>1
<1>5. CASE Admit(c)
  <2>1. Clients!Admit(c)
    BY <1>0, <1>5, SameChecks, ClientKeepsLocks
    DEF Admit, Clients!Admit, Unwritten, Clients!Unwritten
  <2> QED BY <2>1
<1>6. CASE MarkPlayer(c)
  <2> DEFINE h == IF Marked(c) THEN held[c]
                  ELSE held[c] \cup {SeatLock(tx[c].match, tx[c].user)}
  <2>1. ClientsHold' = [ClientsHold EXCEPT ![c] = h]
    <3>1. held' = [held EXCEPT ![c] = h]
      BY <1>6 DEF MarkPlayer
    <3> HIDE DEF h
    <3> QED BY <3>1, ClientLocks
  <2>2. Clients!Granted(c) /\ Clients!Admits(c) /\ (Clients!Marked(c) <=> Marked(c))
    BY <1>0, <1>6, ClientGranted, SameChecks DEF MarkPlayer
  <2>3. Clients!MarkPlayer(c)
    BY <1>0, <1>6, <2>1, <2>2, SameLocks
    DEF MarkPlayer, Clients!MarkPlayer, Unwritten, Clients!Unwritten
  <2> QED BY <2>3
<1>7. CASE TakeSeat(c)
  <2>1. Clients!Granted(c)
    BY <1>7, ClientGranted DEF TakeSeat
  <2>2. End(c) => Clients!End(c)
    BY ClientEnds
  <2>3. held' = [held EXCEPT ![c] = @ \cup {SeatLock(tx[c].match, tx[c].user)}]
        => ClientsHold' = [ClientsHold EXCEPT ![c] = @ \cup {SeatLock(tx[c].match, tx[c].user)}]
    BY <1>0, ClientLocks
  <2>4. Clients!TakeSeat(c)
    BY <1>7, <2>1, <2>2, <2>3, SameLocks
    DEF TakeSeat, Clients!TakeSeat, Unwritten, Clients!Unwritten, Engaged, Clients!Engaged
  <2> QED BY <2>4
<1>8. CASE MoveMatch(c)
  <2> DEFINE g == {MatchLock(tx[c].match)} \cup Seats(tx[c].match)
             \cup (IF row[tx[c].match].state = "lobby" THEN {CodeLock(row[tx[c].match].code)} ELSE {})
  <2>1. /\ Clients!Granted(c) /\ (Clients!Swaps(c) <=> Swaps(c))
        /\ Clients!Unseedable(c) <=> Unseedable(c)
    BY <1>0, <1>8, ClientGranted, SameChecks DEF MoveMatch
  <2>2. End(c) => Clients!End(c)
    BY ClientEnds
  <2>3. CASE ~Swaps(c) \/ Unseedable(c)
    <3>1. Clients!MoveMatch(c)
      BY <1>8, <2>1, <2>2, <2>3, ClientKeepsLocks
      DEF MoveMatch, Clients!MoveMatch, Unwritten, Clients!Unwritten
    <3> QED BY <3>1
  <2>4. CASE Swaps(c) /\ ~Unseedable(c)
    <3>1. /\ held' = [held EXCEPT ![c] = held[c] \cup g]
          /\ tx' = [tx EXCEPT ![c].at = "commit", ![c].moved = TRUE]
          /\ tx[c].at = "move" /\ Unwritten
      BY <1>8, <2>4 DEF MoveMatch
    <3>2. ClientsHold' = [ClientsHold EXCEPT ![c] = @ \cup g]
      <4> HIDE DEF g
      <4> QED BY <1>0, <3>1, ClientLocks
    <3>3. Clients!MoveMatch(c)
      BY <2>1, <2>4, <3>1, <3>2, SameLocks
      DEF Clients!MoveMatch, Unwritten, Clients!Unwritten
    <3> QED BY <3>3
  <2> QED BY <2>3, <2>4
<1>9. CASE Commit(c)
  <2>1. Clients!End(c)
    BY <1>9, ClientEnds DEF Commit
  <2> DEFINE t == tx[c]
             m == t.match
             r == Written(row[m], t)
  <2>2. Clients!Written(row[m], t) = r /\ Clients!Flagged(m, t, r) = Flagged(m, t, r)
    BY SameWrites
  <2>3. /\ row' = [row EXCEPT ![m] = Clients!Written(row[m], t)]
        /\ unfinished' = [unfinished EXCEPT ![m] = Clients!Flagged(m, t, Clients!Written(row[m], t))]
    BY <1>9, <2>2 DEF Commit
  <2>4. Clients!Commit(c)
    BY <1>9, <2>1, <2>3 DEF Commit, Clients!Commit
  <2> QED BY <2>4
<1>10. CASE ReadCurrent(c)
  <2>1. Clients!ReadCurrent(c)
    BY <1>10, ClientEnds DEF ReadCurrent, Clients!ReadCurrent, Unwritten, Clients!Unwritten
  <2> QED BY <2>1
<1> QED
  BY <1>1, <1>2, <1>3, <1>4, <1>5, <1>6, <1>7, <1>8, <1>9, <1>10 DEF Statement

LEMMA ClientBegins ==
  ASSUME FInv, NEW c \in Client, NEW m \in Match, Begin(c, m)
  PROVE  Clients!Begin(c, m)
<1>1. \A op, u, k, h : Request(c, op, u, m, k, h) => Clients!Request(c, op, u, m, k, h)
  BY SameRows, ClientKeepsLocks DEF Request, Clients!Request, Unwritten, Clients!Unwritten
<1>2. CASE BeginExpire(c, m)
  BY <1>1, <1>2 DEF BeginExpire, Clients!BeginExpire, Clients!Begin
<1>3. ASSUME NEW u \in User, BeginCreate(c, u, m)
      PROVE  Clients!BeginCreate(c, u, m)
  BY <1>1, <1>3, SameRows DEF BeginCreate, Clients!BeginCreate
<1>4. ASSUME NEW u \in User, BeginJoin(c, u, m)
      PROVE  Clients!BeginJoin(c, u, m)
  BY <1>1, <1>4 DEF BeginJoin, Clients!BeginJoin
<1>5. ASSUME NEW u \in User, BeginOnMatch(c, u, m)
      PROVE  Clients!BeginOnMatch(c, u, m)
  BY <1>1, <1>5, SameRows DEF BeginOnMatch, Clients!BeginOnMatch
<1>6. ASSUME NEW u \in User, BeginCurrent(c, u, m)
      PROVE  Clients!BeginCurrent(c, u, m)
  BY <1>1, <1>6 DEF BeginCurrent, Clients!BeginCurrent
<1> QED
  BY <1>2, <1>3, <1>4, <1>5, <1>6 DEF Begin, Clients!Begin

LEMMA ClientStep ==
  ASSUME FInv, PlayerNext
  PROVE  Clients!Next
<1>1. CASE Tick
  BY <1>1, ClientKeepsLocks DEF Tick, Clients!Tick, Clients!Next
<1>2. ASSUME NEW c \in Client, Abort(c)
      PROVE  Clients!Abort(c)
  BY <1>2, ClientEnds, SameRows DEF Abort, Clients!Abort, Unwritten, Clients!Unwritten
<1> QED
  BY <1>1, <1>2, ClientBegins, ClientStatement DEF PlayerNext, Client, Clients!Next

(***************************************************************************)
(* What a client is at work on after its step, it was at work on before,   *)
(* or has been granted, or has just made.                                  *)
(***************************************************************************)
ClaimsElsewhere(m) == \A w \in Worker : m \notin pass[w].claim

LEMMA AtWorkIsElsewhere ==
  ASSUME FInv, NEW c \in Client, Clients!AtWork(tx[c])
  PROVE  ClaimsElsewhere(tx[c].match)
BY DEF FInv, ClaimsHold, ClaimsElsewhere

LEMMA ClientMoves ==
  ASSUME FInv, NEW c \in Client,
         (\E m \in Match : Begin(c, m)) \/ Statement(c) \/ Abort(c)
  PROVE  /\ \A d \in Conn \ {c} : tx'[d] = tx[d] /\ held'[d] = held[d]
         /\ held' \in [Conn -> SUBSET Lock]
         /\ Clients!AtWork(tx'[c]) => ClaimsElsewhere(tx'[c].match)
         /\ \A m \in Match : row'[m] = row[m] \/ ClaimsElsewhere(m)
         /\ now' = now
<1> USE DEF Client
<1> DEFINE s == tx[c]
           Goal(t, h) == /\ tx' = [tx EXCEPT ![c] = t]
                         /\ held' = [held EXCEPT ![c] = h]
                         /\ h \in SUBSET Lock
                         /\ Clients!AtWork(t) => ClaimsElsewhere(t.match)
                         /\ \A m \in Match : row'[m] = row[m] \/ ClaimsElsewhere(m)
                         /\ now' = now
<1>1. /\ tx \in [Conn -> Clients!Tx] /\ held \in [Conn -> SUBSET Lock]
      /\ held[c] \in SUBSET Lock /\ s \in Clients!Tx /\ held = [held EXCEPT ![c] = held[c]]
      /\ row \in [Match -> Clients!Row]
  BY DEF FInv, Clients!IInv, Clients!TypeOK, Clients!Tx
<1>2. Idle.at = "idle"
  BY DEF Idle
<1>3. SUFFICES \E t, h : Goal(t, h)
  <2>1. PICK t, h : Goal(t, h)
    BY <1>3
  <2> QED BY <1>1, <2>1
<1>4. ASSUME End(c), Unwritten
      PROVE  Goal(Idle, {})
  BY <1>2, <1>4 DEF End, Unwritten, Clients!AtWork
<1>5. /\ Clients!Formed(s) /\ Clients!Holds(s, held[c]) /\ Clients!Checked(s, row[s.match])
  <2>1. ClientsHold[c] = held[c]
    BY ClientHolds
  <2> QED BY <2>1, Clients!OneConn, RowAssumption, MatchesAssumption DEF FInv
<1>6. ASSUME NEW m \in Match, Begin(c, m)
      PROVE  \E t, h : Goal(t, h)
  <2>1. PICK op, u, k, h : Request(c, op, u, m, k, h)
    BY <1>6 DEF Begin, BeginExpire, BeginCreate, BeginJoin, BeginOnMatch, BeginCurrent
  <2>2. PICK t : t = [Idle EXCEPT !.op = op, !.at = FirstStep(op), !.user = u, !.match = m,
                                  !.code = k, !.challenge = h, !.began = now]
    OBVIOUS
  <2>3. t.at = FirstStep(op)
    BY <2>2 DEF Idle
  <2>4. ~Clients!AtWork(t)
    BY <2>3 DEF FirstStep, Clients!AtWork
  <2>5. Goal(t, held[c])
    BY <1>1, <2>1, <2>2, <2>4 DEF Request, Unwritten
  <2> QED BY <2>5
<1>7. ASSUME NEW a, NEW t, t = [s EXCEPT !.at = a]
      PROVE  t.at = a /\ t.match = s.match
  BY <1>1, <1>7 DEF Clients!Tx
<1>8. CASE InsertMatch(c)
  <2>1. PICK t : t = [s EXCEPT !.at = "seat"]
    OBVIOUS
  <2>2. s.at = "insert" /\ s.op = "create" /\ s.match \in Match /\ s.code \in Code
    BY <1>5, <1>8 DEF InsertMatch, Clients!Formed
  <2>3. ClaimsElsewhere(s.match)
    <3>1. row[s.match].state = "none"
      BY <1>5, <2>2, SameRows DEF Clients!Checked, NoRow
    <3> QED BY <3>1 DEF FInv, ClaimsHold, Due, ClaimsElsewhere
  <2>4. Goal(t, {MatchLock(s.match), CodeLock(s.code)})
    BY <1>1, <1>7, <1>8, <2>1, <2>2, <2>3 DEF InsertMatch, Unwritten, Lock
  <2> QED BY <2>4
<1>9. CASE DrawAgain(c)
  <2>1. CASE End(c)
    BY <1>4, <1>9, <2>1 DEF DrawAgain
  <2>2. CASE ~End(c)
    <3>1. PICK k \in Code : tx' = [tx EXCEPT ![c].code = k, ![c].tries = @ + 1, ![c].began = now]
      BY <1>9, <2>2 DEF DrawAgain
    <3>2. PICK t : t = [s EXCEPT !.code = k, !.tries = @ + 1, !.began = now]
      OBVIOUS
    <3>3. t.at = "insert"
      BY <1>1, <1>9, <3>2 DEF DrawAgain, Clients!Tx
    <3>4. Goal(t, held[c])
      BY <1>1, <1>9, <2>2, <3>1, <3>2, <3>3 DEF DrawAgain, Unwritten, Clients!AtWork
    <3> QED BY <3>4
  <2> QED BY <2>1, <2>2
<1>10. CASE LockMatch(c)
  <2>1. PICK t : t = [s EXCEPT !.at = "check"]
    OBVIOUS
  <2>2. s.match \in Match /\ s.at = "lock"
    BY <1>5, <1>10 DEF LockMatch, Clients!Formed
  <2>3. ClaimsElsewhere(s.match)
    <3>1. SUFFICES ASSUME NEW w \in Worker, s.match \in pass[w].claim
                   PROVE  FALSE
      BY DEF ClaimsElsewhere
    <3>2. MatchLock(s.match) \in held[w] /\ w \in Conn \ {c}
      BY <3>1, FinalizerAssumption DEF FInv, Working
    <3>3. MatchLock(s.match) \in Wanted(c)
      BY <2>2 DEF Wanted
    <3> QED BY <1>10, <3>2, <3>3 DEF LockMatch, Granted, WaitsFor
  <2>4. Goal(t, held[c] \cup {MatchLock(s.match)})
    BY <1>1, <1>7, <1>10, <2>1, <2>2, <2>3 DEF LockMatch, Unwritten, Lock
  <2> QED BY <2>4
<1>11. CASE Admit(c)
  <2>1. PICK t : t = [s EXCEPT !.at = IF s.op = "join" THEN "seat" ELSE "move"]
    OBVIOUS
  <2>2. Clients!AtWork(s)
    BY <1>11 DEF Admit, Clients!AtWork
  <2>3. tx' = [tx EXCEPT ![c] = t] /\ held' = held /\ Unwritten
    BY <1>11, <2>1 DEF Admit
  <2>4. Goal(t, held[c])
    BY <1>1, <1>7, <2>1, <2>2, <2>3, AtWorkIsElsewhere DEF Unwritten
  <2> QED BY <2>4
<1>12. CASE MarkPlayer(c)
  <2>1. PICK t : t = [s EXCEPT !.at = "move", !.wrote = ~Marked(c)]
    OBVIOUS
  <2>2. t.match = s.match
    BY <1>1, <2>1 DEF Clients!Tx
  <2>3. PICK h : h = IF Marked(c) THEN held[c] ELSE held[c] \cup {SeatLock(s.match, s.user)}
    OBVIOUS
  <2>4. Clients!AtWork(s) /\ s.match \in Match /\ s.user \in User
    BY <1>5, <1>12 DEF MarkPlayer, Clients!AtWork, Clients!Formed
  <2>5. tx' = [tx EXCEPT ![c] = t] /\ held' = [held EXCEPT ![c] = h] /\ Unwritten
    BY <1>12, <2>1, <2>3 DEF MarkPlayer
  <2>6. h \in SUBSET Lock
    BY <1>1, <2>3, <2>4 DEF Lock
  <2>7. Goal(t, h)
    BY <2>2, <2>4, <2>5, <2>6, AtWorkIsElsewhere DEF Unwritten
  <2> QED BY <2>7
<1>13. CASE TakeSeat(c)
  <2>1. CASE End(c)
    BY <1>4, <1>13, <2>1 DEF TakeSeat
  <2>2. CASE ~End(c)
    <3>1. PICK t : t = [s EXCEPT !.at = "commit", !.wrote = TRUE]
      OBVIOUS
    <3>2. t.match = s.match
      BY <1>1, <3>1 DEF Clients!Tx
    <3>3. Clients!AtWork(s) /\ s.match \in Match /\ s.user \in User
      BY <1>5, <1>13 DEF TakeSeat, Clients!AtWork, Clients!Formed, Clients!Takers
    <3>4. /\ tx' = [tx EXCEPT ![c] = t] /\ Unwritten
          /\ held' = [held EXCEPT ![c] = held[c] \cup {SeatLock(s.match, s.user)}]
      BY <1>13, <2>2, <3>1 DEF TakeSeat
    <3>5. held[c] \cup {SeatLock(s.match, s.user)} \in SUBSET Lock
      BY <1>1, <3>3 DEF Lock
    <3>6. Goal(t, held[c] \cup {SeatLock(s.match, s.user)})
      BY <3>2, <3>3, <3>4, <3>5, AtWorkIsElsewhere DEF Unwritten
    <3> QED BY <3>6
  <2> QED BY <2>1, <2>2
<1>14. CASE MoveMatch(c)
  <2>1. Clients!AtWork(s) /\ Unwritten
    BY <1>14 DEF MoveMatch, Clients!AtWork
  <2>2. CASE End(c)
    BY <1>4, <2>1, <2>2
  <2>3. CASE ~Swaps(c)
    <3>1. PICK t : t = [s EXCEPT !.at = "commit"]
      OBVIOUS
    <3>2. tx' = [tx EXCEPT ![c] = t] /\ held' = held
      BY <1>14, <2>3, <3>1 DEF MoveMatch
    <3>3. Goal(t, held[c])
      BY <1>1, <1>7, <2>1, <3>1, <3>2, AtWorkIsElsewhere DEF Unwritten
    <3> QED BY <3>3
  <2>4. CASE Swaps(c) /\ ~End(c)
    <3>1. PICK t : t = [s EXCEPT !.at = "commit", !.moved = TRUE]
      OBVIOUS
    <3>2. t.match = s.match
      BY <1>1, <3>1 DEF Clients!Tx
    <3>3. PICK g : g = {MatchLock(s.match)} \cup Seats(s.match)
             \cup (IF row[s.match].state = "lobby" THEN {CodeLock(row[s.match].code)} ELSE {})
      OBVIOUS
    <3>4. /\ tx' = [tx EXCEPT ![c] = t]
          /\ held' = [held EXCEPT ![c] = held[c] \cup g]
      BY <1>14, <2>4, <3>1, <3>3 DEF MoveMatch
    <3>5. s.match \in Match
      BY <1>5, <1>14 DEF MoveMatch, Clients!Formed
    <3>6. row[s.match] \in Row /\ (row[s.match].state = "lobby" => row[s.match].code \in Code)
      BY <3>5 DEF FInv, Clients!IInv, Clients!TypeOK, Clients!Whole, Clients!Row, Row,
                  Clients!State, State, Clients!Slot, Slot
    <3>7. Players(row[s.match]) \subseteq User
      BY <3>6 DEF Players, Row
    <3>8. held[c] \cup g \in SUBSET Lock
      BY <1>1, <3>3, <3>5, <3>6, <3>7 DEF Lock, Seats
    <3>9. Goal(t, held[c] \cup g)
      BY <2>1, <3>2, <3>4, <3>8, AtWorkIsElsewhere DEF Unwritten
    <3> QED BY <3>9
  <2> QED BY <2>2, <2>3, <2>4
<1>15. CASE Commit(c)
  <2>1. Clients!AtWork(s) /\ End(c) /\ now' = now
    BY <1>15 DEF Commit, Clients!AtWork
  <2>2. \A m \in Match : m # s.match => row'[m] = row[m]
    BY <1>1, <1>15 DEF Commit
  <2>3. \A m \in Match : row'[m] = row[m] \/ ClaimsElsewhere(m)
    BY <2>1, <2>2, AtWorkIsElsewhere
  <2>4. Goal(Idle, {})
    BY <1>2, <2>1, <2>3 DEF End, Clients!AtWork
  <2> QED BY <2>4
<1> QED
  BY <1>4, <1>6, <1>8, <1>9, <1>10, <1>11, <1>12, <1>13, <1>14, <1>15
  DEF Statement, Refuse, Abort, ReadCurrent

-----------------------------------------------------------------------------
(***************************************************************************)
(* The promise, as Clients and as Finalizer read it.                       *)
(***************************************************************************)
LEMMA SamePromise ==
  [Clients!Promise!Next]_(Clients!Promise!vars) => [Promise!Next]_<<row, now>>
<1>1. /\ Clients!Promise!NoRow = Promise!NoRow
      /\ \A u, k, h : Clients!Promise!NewLobby(u, k, h) = Promise!NewLobby(u, k, h)
      /\ \A r : (Clients!Promise!Full(r) <=> Promise!Full(r))
                /\ Clients!Promise!FreeSlot(r) = Promise!FreeSlot(r)
      /\ \A r, u : Clients!Promise!Has(r, u) <=> Promise!Has(r, u)
      /\ \A r, u, t : Clients!Promise!Started(r, u, t) = Promise!Started(r, u, t)
      /\ \A set, u, r : Clients!Promise!Completes(set, u, r) <=> Promise!Completes(set, u, r)
      /\ Clients!Promise!Unfinished = Promise!Unfinished
  BY DEF Clients!Promise!NoRow, Promise!NoRow, Clients!Promise!NewLobby, Promise!NewLobby,
         Clients!Promise!Full, Promise!Full, Clients!Promise!FreeSlot, Promise!FreeSlot,
         Clients!Promise!Has, Promise!Has, Clients!Promise!Started, Promise!Started,
         Clients!Promise!Completes, Promise!Completes, Clients!Promise!Players, Promise!Players,
         Clients!Promise!Unfinished, Promise!Unfinished, Clients!Promise!Slot, Promise!Slot
<1>2. ASSUME NEW u \in User, NEW m \in Match
      PROVE  /\ \A k \in Code, h \in Challenge :
                  Clients!Promise!CreateLobby(u, m, k, h) => Promise!CreateLobby(u, m, k, h)
             /\ Clients!Promise!JoinLobby(u, m) => Promise!JoinLobby(u, m)
  BY <1>1 DEF Clients!Promise!CreateLobby, Promise!CreateLobby,
     Clients!Promise!JoinLobby, Promise!JoinLobby, Clients!Promise!CodeOpen, Promise!CodeOpen,
     Clients!Promise!InUnfinished, Promise!InUnfinished
<1>3. ASSUME NEW u \in User, NEW m \in Match
      PROVE  /\ Clients!Promise!CancelLobby(u, m) => Promise!CancelLobby(u, m)
             /\ Clients!Promise!Submit(u, m) => Promise!Submit(u, m)
             /\ Clients!Promise!MayReady(u, m) => Promise!MayReady(u, m)
  BY <1>1 DEF Clients!Promise!CancelLobby, Promise!CancelLobby,
     Clients!Promise!Submit, Promise!Submit, Clients!Promise!MayReady, Promise!MayReady
<1>4. ASSUME NEW u \in User, NEW m \in Match
      PROVE  /\ Clients!Promise!Ready(u, m) => Promise!Ready(u, m)
             /\ Clients!Promise!Start(u, m) => Promise!Start(u, m)
  BY <1>1, <1>3 DEF Clients!Promise!Ready, Promise!Ready, Clients!Promise!Start, Promise!Start
<1>5. /\ \A S \in SUBSET Match : Clients!Promise!Expire(S) => Promise!Expire(S)
      /\ Clients!Promise!Tick => Promise!Tick
  BY DEF Clients!Promise!Expire, Promise!Expire, Clients!Promise!Due, Promise!Due,
         Clients!Promise!Tick, Promise!Tick
<1>6. Clients!Promise!Next => Promise!Next
  BY <1>2, <1>3, <1>4, <1>5 DEF Clients!Promise!Next, Promise!Next,
     Clients!Promise!PlayerStep, Promise!PlayerStep
<1> QED BY <1>6 DEF Clients!Promise!vars

\* What MatchesProofs says of every step.
LEMMA MatchesKeepTheirWord ==
  ASSUME Clients!IInv, [Clients!Next]_(Clients!vars)
  PROVE  Clients!IInv' /\ [Promise!Next]_<<row, now>>
<1>1. Clients!IInv' /\ [Clients!Promise!Next]_(Clients!Promise!vars)
  BY Clients!EveryStep, RowAssumption, MatchesAssumption
<1> QED BY <1>1, SamePromise

-----------------------------------------------------------------------------
(***************************************************************************)
(* The players' steps keep the invariant.                                  *)
(***************************************************************************)
LEMMA PlayersKeep ==
  ASSUME FInv, PlayerNext
  PROVE  FInv' /\ [Promise!Next]_<<row, now>>
<1>1. Clients!IInv' /\ [Promise!Next]_<<row, now>>
  BY ClientStep, MatchesKeepTheirWord DEF FInv
<1>2. pass' = pass /\ Worker \subseteq Conn
  BY FinalizerAssumption DEF PlayerNext
<1>3. CASE Tick
  <2>1. held' = held /\ tx' = tx /\ row' = row /\ now' = now + 1 /\ now \in Int
    BY <1>3 DEF Tick, FInv, Clients!IInv, Clients!TypeOK
  <2>2. \A w \in Worker : Working(w, pass[w], held[w])'
    BY <1>2, <2>1 DEF FInv, Working
  <2>3. ASSUME NEW w \in Worker, NEW m \in pass[w].claim
        PROVE  Due(m)'
    <3>1. row[m].state = "active" /\ row[m].deadline <= now /\ m \in Match
      BY DEF FInv, ClaimsHold, Due, Pass
    <3>2. row[m].deadline \in Int
      BY <3>1 DEF FInv, Clients!IInv, Clients!Whole
    <3> QED BY <2>1, <3>1, <3>2 DEF Due
  <2>4. ClaimsHold'
    BY <1>2, <2>1, <2>3 DEF FInv, ClaimsHold
  <2> QED BY <1>1, <1>2, <2>1, <2>2, <2>4 DEF FInv
<1>4. ASSUME NEW c \in Client, (\E m \in Match : Begin(c, m)) \/ Statement(c) \/ Abort(c)
      PROVE  FInv'
  <2>1. /\ \A d \in Conn \ {c} : tx'[d] = tx[d] /\ held'[d] = held[d]
        /\ held' \in [Conn -> SUBSET Lock]
        /\ Clients!AtWork(tx'[c]) => ClaimsElsewhere(tx'[c].match)
        /\ \A m \in Match : row'[m] = row[m] \/ ClaimsElsewhere(m)
        /\ now' = now
    BY <1>4, ClientMoves
  <2>2. \A w \in Worker : Working(w, pass[w], held[w])'
    BY <1>2, <2>1 DEF FInv, Working, Client
  <2>3. \A w \in Worker : \A m \in pass'[w].claim : Due(m)'
    BY <1>2, <2>1 DEF FInv, ClaimsHold, ClaimsElsewhere, Due, Pass
  <2>4. \A w \in Worker, d \in Client : Clients!AtWork(tx'[d]) => tx'[d].match \notin pass'[w].claim
    BY <1>2, <2>1 DEF FInv, ClaimsHold, ClaimsElsewhere, Client
  <2>5. ClaimsHold'
    BY <1>2, <2>3, <2>4 DEF FInv, ClaimsHold
  <2> QED BY <1>1, <1>2, <2>1, <2>2, <2>5 DEF FInv
<1> QED BY <1>1, <1>3, <1>4 DEF PlayerNext, Client

-----------------------------------------------------------------------------
(***************************************************************************)
(* A worker's step keeps the invariant if it leaves the worker holding     *)
(* what it claims, which is due and nobody else's, and writes only rows it *)
(* had claimed.                                                            *)
(***************************************************************************)
LEMMA WorkerTurn ==
  ASSUME FInv, NEW w \in Worker, NEW p \in Pass, NEW h \in SUBSET Lock,
         pass' = [pass EXCEPT ![w] = p], held' = [held EXCEPT ![w] = h],
         tx' = tx, now' = now, Clients!IInv', Working(w, p, h),
         \A m \in Match : row'[m] = row[m] \/ m \in pass[w].claim,
         \A m \in p.claim : Due(m)' /\ \A v \in Worker \ {w} : m \notin pass[v].claim,
         \A c \in Client : Clients!AtWork(tx[c]) => tx[c].match \notin p.claim
  PROVE  FInv'
<1>1. w \in Conn /\ pass \in [Worker -> Pass] /\ held \in [Conn -> SUBSET Lock]
  BY FinalizerAssumption DEF FInv
<1>2. pass' \in [Worker -> Pass] /\ held' \in [Conn -> SUBSET Lock]
  BY <1>1
<1>3. /\ pass'[w] = p /\ held'[w] = h
      /\ \A v \in Worker \ {w} : pass'[v] = pass[v] /\ held'[v] = held[v]
  BY <1>1, FinalizerAssumption
<1>4. \A v \in Worker : Working(v, pass[v], held[v])'
  BY <1>3 DEF FInv, Working
<1>5. \A v \in Worker : \A m \in pass'[v].claim : Due(m)'
  BY <1>1, <1>3 DEF FInv, ClaimsHold, Due, Pass
<1>6. \A v \in Worker, c \in Client : Clients!AtWork(tx'[c]) => tx'[c].match \notin pass'[v].claim
  BY <1>3 DEF FInv, ClaimsHold
<1>7. \A u, v \in Worker : u # v => pass'[u].claim \cap pass'[v].claim = {}
  BY <1>3 DEF FInv, ClaimsHold
<1> QED BY <1>2, <1>4, <1>5, <1>6, <1>7 DEF FInv, ClaimsHold

\* The players do not see what a worker holds.
LEMMA ClientsUnmoved ==
  ASSUME FInv, NEW w \in Worker, NEW h, held' = [held EXCEPT ![w] = h],
         UNCHANGED <<row, unfinished, now, tx, told>>
  PROVE  Clients!IInv'
<1>1. UNCHANGED ClientsHold
  BY DEF ClientsHold, FInv
<1>2. UNCHANGED Clients!vars
  BY <1>1 DEF Clients!vars
<1> QED BY <1>2, MatchesKeepTheirWord DEF FInv

LEMMA EmptyClaim == IsFiniteSet({}) /\ Cardinality({}) = 0 /\ 0 <= Batch
BY FS_EmptySet, FinalizerAssumption

\* The passes that claim nothing: nothing found, failed, stopped, restarted.
LEMMA IdlePassKeeps ==
  ASSUME FInv, NEW w \in Worker, NEW a \in {"waiting", "looking", "stopped"},
         pass' = [pass EXCEPT ![w] = [Waiting EXCEPT !.at = a]],
         held' = [held EXCEPT ![w] = {}],
         UNCHANGED <<row, unfinished, now, tx, told>>
  PROVE  FInv'
<1>1. PICK p : p = [Waiting EXCEPT !.at = a]
  OBVIOUS
<1>2. p \in Pass /\ p.at = a /\ p.claim = {} /\ p.left = {}
  BY <1>1 DEF Waiting, Pass
<1>3. Working(w, p, {})
  BY <1>2, EmptyClaim DEF FInv, Working
<1>4. Clients!IInv'
  BY ClientsUnmoved
<1>5. pass' = [pass EXCEPT ![w] = p]
  BY <1>1
<1> QED BY <1>2, <1>3, <1>4, <1>5, WorkerTurn

LEMMA BatchOf ==
  ASSUME NEW S \in SUBSET Match, NEW B \in Batches(S)
  PROVE  /\ B \subseteq S
         /\ Cardinality(B) <= Batch
         /\ Cardinality(B) < Batch => B = S
<1>1. B \subseteq S /\ Cardinality(B) = (IF Cardinality(S) < Batch THEN Cardinality(S) ELSE Batch)
  BY DEF Batches
<1>2. IsFiniteSet(S) /\ Cardinality(S) \in Nat
  BY FinalizerAssumption, FS_Subset, FS_CardinalityType
<1>3. Cardinality(B) = Cardinality(S) => B = S
  BY <1>1, <1>2, FS_Subset
<1> QED BY <1>1, <1>2, <1>3, FinalizerAssumption

LEMMA ClaimKeeps ==
  ASSUME FInv, NEW w \in Worker, Claim(w)
  PROVE  FInv'
<1>1. PICK B \in Batches(Claimable) :
        /\ pass' = [pass EXCEPT ![w] = [at |-> "claimed", claim |-> B, left |-> Claimable \ B]]
        /\ held' = [held EXCEPT ![w] = {MatchLock(m) : m \in B}]
  BY DEF Claim
<1>2. PICK p : p = [at |-> "claimed", claim |-> B, left |-> Claimable \ B]
  OBVIOUS
<1>3. B \subseteq Claimable /\ Claimable \in SUBSET Match
  BY BatchOf DEF Claimable
<1>4. p \in Pass /\ p.at = "claimed" /\ p.claim = B /\ p.left = Claimable \ B
  BY <1>2, <1>3 DEF Pass
<1>5. Working(w, p, {MatchLock(m) : m \in B})
  <2>1. tx[w] = Idle
    BY DEF FInv, Working
  <2>2. Cardinality(B) <= Batch /\ (Cardinality(B) < Batch => p.left = {})
    BY <1>3, <1>4, BatchOf
  <2> QED BY <1>4, <2>1, <2>2 DEF Working
<1>6. Clients!IInv'
  BY <1>1, ClientsUnmoved DEF Claim
<1>7. ASSUME NEW m \in B
      PROVE  Due(m)' /\ \A c \in Conn : MatchLock(m) \notin held[c]
  BY <1>3 DEF Claim, Claimable, Locked, Due
<1>8. \A m \in B, v \in Worker \ {w} : m \notin pass[v].claim
  BY <1>7, FinalizerAssumption DEF FInv, Working
<1>9. ASSUME NEW c \in Client, Clients!AtWork(tx[c])
      PROVE  tx[c].match \notin B
  <2>1. ClientsHold[c] = held[c]
    BY ClientHolds
  <2>2. MatchLock(tx[c].match) \in held[c]
    BY <1>9, <2>1, SameLocks, Clients!OneConn, RowAssumption, MatchesAssumption
    DEF FInv, Client, Clients!Holds
  <2> QED BY <1>7, <2>2 DEF Client
<1>10. {MatchLock(m) : m \in B} \in SUBSET Lock
  BY <1>3 DEF Lock
<1> QED
  <2> DEFINE h == {MatchLock(m) : m \in B}
  <2>1. pass' = [pass EXCEPT ![w] = p] /\ held' = [held EXCEPT ![w] = h]
    BY <1>1, <1>2
  <2>2. tx' = tx /\ now' = now /\ row' = row
    BY DEF Claim
  <2> HIDE DEF h
  <2>3. h \in SUBSET Lock /\ Working(w, p, h)
    BY <1>5, <1>10 DEF h
  <2> QED BY <1>4, <1>6, <1>7, <1>8, <1>9, <2>1, <2>2, <2>3, WorkerTurn

(***************************************************************************)
(* The update of a claimed batch.  Nobody relies on the rows it moves: who *)
(* is at work on a row is at work elsewhere, who made a row has one that   *)
(* was not inserted, and a match that moves to judging opens no code and   *)
(* frees no player.                                                        *)
(***************************************************************************)
LEMMA MoveKeepsClients ==
  ASSUME FInv, NEW w \in Worker, Move(w)
  PROVE  Clients!IInv'
<1> DEFINE B == pass[w].claim
<1>1. /\ row' = [m \in Match |-> IF m \in B THEN [row[m] EXCEPT !.state = "judging"] ELSE row[m]]
      /\ unfinished' = [m \in Match |-> IF m \in B THEN Players(row[m]) ELSE unfinished[m]]
      /\ told' = [m \in Match |-> IF m \in B THEN [told[m] EXCEPT !.judge = @ + 1] ELSE told[m]]
      /\ now' = now /\ tx' = tx /\ held' = [held EXCEPT ![w] = {}]
  BY DEF Move
<1>2. /\ row \in [Match -> Clients!Row] /\ unfinished \in [Match -> SUBSET User]
      /\ told \in [Match -> [start : Nat, judge : Nat]]
  BY DEF FInv, Clients!IInv, Clients!TypeOK
<1>3. \A m \in B : m \in Match /\ row[m].state = "active"
  BY DEF FInv, ClaimsHold, Due, Pass
<1>4. ClientsHold' = ClientsHold
  BY <1>1 DEF ClientsHold, FInv
<1>5. ASSUME NEW m \in Match
      PROVE  /\ row'[m] = IF m \in B THEN [row[m] EXCEPT !.state = "judging"] ELSE row[m]
             /\ row'[m] \in Clients!Row
             /\ m \in B => row'[m].state = "judging" /\ row'[m].seat = row[m].seat
  <2> HIDE DEF B
  <2>1. row[m] \in Clients!Row
    BY <1>2
  <2>2. row'[m] = IF m \in B THEN [row[m] EXCEPT !.state = "judging"] ELSE row[m]
    BY <1>1
  <2> QED BY <2>1, <2>2 DEF Clients!Row, Clients!State
<1>6. ASSUME NEW m \in Match
      PROVE  unfinished'[m] = unfinished[m]
  BY <1>1, <1>3, SameRows DEF FInv, Clients!IInv, Clients!Flags, Unfinished
<1>7. unfinished' = unfinished
  BY <1>1, <1>2, <1>6
<1>8. ASSUME NEW m \in Match
      PROVE  /\ told'[m] \in [start : Nat, judge : Nat]
             /\ told'[m].start = told[m].start
             /\ told'[m].judge = IF m \in B THEN told[m].judge + 1 ELSE told[m].judge
  BY <1>1, <1>2
<1>9. Clients!TypeOK'
  <2>1. row' \in [Match -> Clients!Row]
    BY <1>1, <1>5
  <2>2. told' \in [Match -> [start : Nat, judge : Nat]]
    BY <1>1, <1>8
  <2> QED BY <1>1, <1>4, <1>7, <2>1, <2>2 DEF FInv, Clients!IInv, Clients!TypeOK
<1>10. ASSUME NEW m \in Match
       PROVE  /\ Clients!Whole(row'[m]) /\ Clients!Flags(row'[m], unfinished'[m])
              /\ Clients!Tally(row'[m], told'[m])
  <2>1. /\ Clients!Whole(row[m]) /\ Clients!Flags(row[m], unfinished[m])
        /\ Clients!Tally(row[m], told[m])
    BY DEF FInv, Clients!IInv
  <2>2. CASE m \notin B
    <3>1. row'[m] = row[m] /\ told'[m].start = told[m].start /\ told'[m].judge = told[m].judge
      BY <1>5, <1>8, <2>2
    <3> QED BY <1>7, <2>1, <3>1 DEF Clients!Tally
  <2>3. CASE m \in B
    <3>1. row'[m].state = "judging" /\ row'[m].seat = row[m].seat /\ row[m].state = "active"
      BY <1>3, <1>5, <2>3
    <3>2. Clients!Whole(row'[m])
      BY <3>1 DEF Clients!Whole
    <3>3. Clients!Flags(row'[m], unfinished'[m])
      BY <1>7, <2>1, <3>1 DEF Clients!Flags, Clients!Unfinished, Clients!Players
    <3>4. Clients!Tally(row'[m], told'[m])
      BY <1>8, <2>1, <2>3, <3>1 DEF Clients!Tally
    <3> QED BY <3>2, <3>3, <3>4
  <2> QED BY <2>2, <2>3
<1>11. ASSUME NEW c \in Conn
       PROVE  Clients!Sound(tx[c], ClientsHold[c], row', unfinished, now)
  <2> DEFINE t == tx[c]
             m == t.match
  <2>1. /\ Clients!Formed(t) /\ Clients!Holds(t, ClientsHold[c]) /\ t.began <= now
        /\ Clients!Checked(t, row[m]) /\ Clients!Cleared(t, row, unfinished)
    BY DEF FInv, Clients!IInv, Clients!Sound
  <2>2. Clients!Checked(t, row'[m])
    <3>1. CASE t.op = "idle"
      BY <2>1, <3>1 DEF Clients!Checked, Clients!Formed
    <3>2. CASE t.op # "idle" /\ m \notin B
      <4>1. row'[m] = row[m]
        BY <1>5, <2>1, <3>2 DEF Clients!Formed
      <4> QED BY <2>1, <4>1
    <3>3. CASE t.op # "idle" /\ m \in B
      <4>1. t.op # "create"
        <5>1. row[m].state # "none"
          BY <1>3, <3>3
        <5> QED BY <2>1, <5>1, SameRows DEF Clients!Checked, NoRow
      <4>2. ~Clients!AtWork(t)
        <5>1. CASE c \in Worker
          BY <3>3, <5>1 DEF FInv, Working, Idle
        <5>2. CASE c \notin Worker
          BY <3>3, <5>2 DEF FInv, ClaimsHold, Client
        <5> QED BY <5>1, <5>2
      <4> QED BY <2>1, <4>1, <4>2 DEF Clients!Checked, Clients!AtWork, Clients!Formed
    <3> QED BY <3>1, <3>2, <3>3
  <2>3. Clients!Cleared(t, row', unfinished)
    BY <1>3, <1>5, <2>1 DEF Clients!Cleared
  <2> QED BY <2>1, <2>2, <2>3 DEF Clients!Sound
<1>12. \A c, d \in Conn : c # d => Clients!Apart(tx'[c], tx'[d])
  BY <1>1 DEF FInv, Clients!IInv
<1>13. \A c \in Conn : Clients!Sound(tx'[c], ClientsHold'[c], row', unfinished', now')
  BY <1>1, <1>4, <1>7, <1>11
<1> QED BY <1>9, <1>10, <1>12, <1>13 DEF Clients!IInv

LEMMA MoveKeeps ==
  ASSUME FInv, NEW w \in Worker, Move(w)
  PROVE  FInv' /\ Promise!Next
<1> DEFINE B == pass[w].claim
<1>1. PICK p : p = [pass[w] EXCEPT !.claim = {},
                                   !.at = IF Cardinality(B) < Batch THEN "waiting" ELSE "looking"]
  OBVIOUS
<1>2. pass[w] \in Pass /\ pass[w].at = "claimed" /\ Working(w, pass[w], held[w])
  BY DEF FInv, Move
<1>3. /\ p \in Pass /\ p.claim = {} /\ p.left = pass[w].left
      /\ p.at = IF Cardinality(B) < Batch THEN "waiting" ELSE "looking"
  BY <1>1, <1>2 DEF Pass
<1>4. pass' = [pass EXCEPT ![w] = p] /\ held' = [held EXCEPT ![w] = {}]
  BY <1>1 DEF Move
<1>5. Working(w, p, {})
  BY <1>2, <1>3, EmptyClaim DEF Working
<1>6. \A m \in Match : row'[m] = row[m] \/ m \in B
  BY DEF Move
<1>7. FInv'
  <2>1. tx' = tx /\ now' = now
    BY DEF Move
  <2> QED BY <1>3, <1>4, <1>5, <1>6, <2>1, MoveKeepsClients, WorkerTurn
<1>8. Promise!Expire(B)
  BY DEF FInv, ClaimsHold, Due, Pass, Move, Promise!Expire, Promise!Due
<1> QED BY <1>7, <1>8, <1>2 DEF Promise!Next, Pass

-----------------------------------------------------------------------------
(***************************************************************************)
(* Every step.                                                             *)
(***************************************************************************)
LEMMA WorkersKeep ==
  ASSUME FInv, NEW w \in Worker,
         Claim(w) \/ LookInVain(w) \/ Move(w) \/ Fail(w) \/ Stop(w) \/ Restart(w)
  PROVE  FInv' /\ [Promise!Next]_<<row, now>>
<1>1. CASE Claim(w)
  BY <1>1, ClaimKeeps DEF Claim
<1>2. CASE Move(w)
  BY <1>2, MoveKeeps
<1>3. /\ pass[w] \in Pass /\ Working(w, pass[w], held[w])
      /\ held \in [Conn -> SUBSET Lock] /\ w \in Conn
  BY FinalizerAssumption DEF FInv
<1>4. pass[w].at # "claimed" => held = [held EXCEPT ![w] = {}]
  BY <1>3 DEF Working
<1>5. Waiting = [Waiting EXCEPT !.at = "waiting"]
  BY DEF Waiting
<1>6. CASE LookInVain(w)
  BY <1>4, <1>5, <1>6, IdlePassKeeps DEF LookInVain
<1>7. CASE Fail(w)
  BY <1>5, <1>7, IdlePassKeeps DEF Fail
<1>8. CASE Stop(w)
  BY <1>8, IdlePassKeeps DEF Stop, Stopped
<1>9. CASE Restart(w)
  BY <1>4, <1>9, IdlePassKeeps DEF Restart, Looking
<1> QED
  <2>1. LookInVain(w) \/ Fail(w) \/ Stop(w) \/ Restart(w) => UNCHANGED <<row, now>>
    BY DEF LookInVain, Fail, Stop, Restart
  <2> QED BY <1>1, <1>2, <1>6, <1>7, <1>8, <1>9, <2>1

LEMMA FinalizerStep ==
  ASSUME FInv, [FinalizerNext]_fvars
  PROVE  FInv' /\ [Promise!Next]_<<row, now>>
<1>1. CASE UNCHANGED fvars
  <2>1. UNCHANGED ClientsHold
    BY <1>1, ClientKeepsLocks DEF fvars
  <2>2. Clients!IInv'
    BY <1>1, <2>1, MatchesKeepTheirWord DEF fvars, Clients!vars, FInv
  <2>3. ClaimsHold'
    BY <1>1 DEF fvars, FInv, ClaimsHold, Due
  <2>4. \A w \in Worker : Working(w, pass[w], held[w])'
    BY <1>1 DEF fvars, FInv, Working
  <2> QED BY <1>1, <2>2, <2>3, <2>4 DEF fvars, FInv
<1> QED BY <1>1, PlayersKeep, WorkersKeep DEF FinalizerNext

LEMMA StartedIsRow ==
  ASSUME NEW m \in Underway, NEW h \in Stocked
  PROVE  LET r == StartedRow(Seating[m], h) IN
         /\ r \in Row /\ r.state = "active" /\ r.deadline \in Nat
<1>1. /\ Seating[m] \in [Slot -> User] /\ h \in Challenge /\ Duration[h] \in Nat
      /\ (CHOOSE k \in Code : TRUE) \in Code
  BY FinalizerAssumption, RowAssumption
<1>2. PICK k \in Code : k = CHOOSE j \in Code : TRUE
  BY <1>1
<1>3. {Seating[m][s] : s \in Slot} \in SUBSET User
  BY <1>1
<1> QED BY <1>1, <1>2, <1>3 DEF StartedRow, NoRow, Row, State

LEMMA FinalizerInitInv == FinalizerInit => FInv
<1> SUFFICES ASSUME FinalizerInit
             PROVE  FInv
  OBVIOUS
<1> USE DEF FinalizerInit
<1>1. PICK h \in [Underway -> Stocked] :
        row = [m \in Match |-> IF m \in Underway THEN StartedRow(Seating[m], h[m]) ELSE NoRow]
  OBVIOUS
<1>2. ASSUME NEW m \in Match
      PROVE  /\ row[m] \in Row
             /\ m \in Underway => row[m].state = "active" /\ row[m].deadline \in Nat
             /\ m \notin Underway => row[m] = NoRow
  <2>1. CASE m \in Underway
    <3>1. h[m] \in Stocked /\ row[m] = StartedRow(Seating[m], h[m])
      BY <1>1, <2>1
    <3> QED BY <2>1, <3>1, StartedIsRow
  <2>2. CASE m \notin Underway
    BY <1>1, <2>2 DEF NoRow, Row, State
  <2> QED BY <2>1, <2>2
<1>3. /\ \A c \in Conn : tx[c] = Clients!Idle /\ held[c] = {} /\ ClientsHold[c] = {}
      /\ held = [c \in Conn |-> {}] /\ ClientsHold = [c \in Conn |-> {}]
      /\ tx = [c \in Conn |-> Clients!Idle]
  BY SameRows DEF ClientsHold
<1>4. /\ Clients!Idle \in Clients!Tx
      /\ Clients!Sound(Clients!Idle, {}, row, unfinished, now)
      /\ \A t : Clients!Apart(Clients!Idle, t) /\ Clients!Apart(t, Clients!Idle)
  BY Clients!IdleIsSound, RowAssumption, MatchesAssumption
<1>5. Clients!TypeOK
  <2>1. row \in [Match -> Clients!Row]
    BY <1>1, <1>2 DEF Row, Clients!Row, State, Clients!State, Slot, Clients!Slot
  <2>2. unfinished \in [Match -> SUBSET User]
    BY <1>2 DEF Players, Row
  <2>3. now \in 0..Horizon
    BY RowAssumption
  <2>4. told \in [Match -> [start : Nat, judge : Nat]]
    OBVIOUS
  <2>5. tx \in [Conn -> Clients!Tx]
    <3> HIDE DEF FinalizerInit
    <3> QED BY <1>3, <1>4
  <2> QED BY <1>3, <2>1, <2>2, <2>3, <2>4, <2>5 DEF Clients!TypeOK, Clients!Tx
<1>6. ASSUME NEW m \in Match
      PROVE  /\ Clients!Whole(row[m]) /\ Clients!Flags(row[m], unfinished[m])
             /\ Clients!Tally(row[m], told[m])
  <2>1. /\ unfinished[m] = Clients!Players(row[m])
        /\ told[m].start = (IF m \in Underway THEN 1 ELSE 0) /\ told[m].judge = 0
    BY SameRows
  <2>2. NoRow.state = "none" /\ Clients!Players(NoRow) = {}
    BY SameRows DEF NoRow, Players, Slot
  <2> QED
    BY <1>2, <2>1, <2>2
    DEF Clients!Whole, Clients!Flags, Clients!Tally, Clients!Unfinished
<1>7. Clients!IInv
  <2> HIDE DEF FinalizerInit
  <2>1. \A c \in Conn : Clients!Sound(tx[c], ClientsHold[c], row, unfinished, now)
    BY <1>3, <1>4
  <2>2. \A c, d \in Conn : c # d => Clients!Apart(tx[c], tx[d])
    BY <1>3, <1>4
  <2> QED BY <1>5, <1>6, <2>1, <2>2 DEF Clients!IInv
<1>8. /\ pass \in [Worker -> Pass] /\ Worker \subseteq Conn
      /\ \A w \in Worker : pass[w].at = "looking" /\ pass[w].claim = {} /\ pass[w].left = {}
  BY FinalizerAssumption DEF Looking, Waiting, Pass
<1>9. \A w \in Worker : Working(w, pass[w], held[w])
  <2> SUFFICES ASSUME NEW w \in Worker PROVE Working(w, pass[w], held[w])
    OBVIOUS
  <2>1. w \in Conn /\ tx[w] = Idle /\ held[w] = {}
    BY <1>8
  <2> HIDE DEF FinalizerInit
  <2>2. pass[w].at = "looking" /\ pass[w].claim = {} /\ pass[w].left = {}
    BY <1>8
  <2>3. held[w] = {MatchLock(m) : m \in pass[w].claim}
    BY <2>1, <2>2
  <2>4. Cardinality(pass[w].claim) <= Batch
    BY <2>2, EmptyClaim
  <2> QED BY <2>1, <2>2, <2>3, <2>4 DEF Working
<1>10. held \in [Conn -> SUBSET Lock]
  BY <1>3
<1>11. ClaimsHold
  BY <1>8 DEF ClaimsHold
<1> QED BY <1>7, <1>8, <1>9, <1>10, <1>11 DEF FInv

LEMMA FInvAlways == FinalizerSpec => []FInv
<1>1. FInv /\ [FinalizerNext]_fvars => FInv'
  BY FinalizerStep
<1> QED BY <1>1, FinalizerInitInv, PTL DEF FinalizerSpec

-----------------------------------------------------------------------------
(***************************************************************************)
(* Type correctness, with the limit on what one pass claims: never more    *)
(* rows than the batch, however many are due (ExpireDue's limit).          *)
(***************************************************************************)
THEOREM FinalizerTyped == FinalizerSpec => []FinalizerTypeOK
<1>1. FInv => FinalizerTypeOK
  <2> SUFFICES ASSUME FInv
               PROVE  FinalizerTypeOK
    OBVIOUS
  <2>1. TypeOK
    BY DEF FInv, Clients!IInv, Clients!TypeOK, TypeOK, Clients!Row, Row, Clients!State, State,
           Clients!Slot, Slot, Clients!Step, Step
  <2>2. \A w \in Worker : Cardinality(pass[w].claim) <= Batch
    BY DEF FInv, Working
  <2> QED BY <2>1, <2>2 DEF FInv, FinalizerTypeOK, Pass
<1> QED BY <1>1, FInvAlways, PTL

(***************************************************************************)
(* A worker waits for its ticker only when its last pass left nothing that *)
(* it could have taken: a pass that is not full took all there was.        *)
(***************************************************************************)
THEOREM BacklogIsDrained == FinalizerSpec => []DrainsBacklog
<1>1. FInv => DrainsBacklog
  BY DEF FInv, Working, DrainsBacklog
<1> QED BY <1>1, FInvAlways, PTL

(***************************************************************************)
(* However workers and players interleave, fail and stop, every step is a  *)
(* step of a match's life or none.  ExpireDue's update repeats neither of  *)
(* the conditions of its select; the locks between them are enough.        *)
(***************************************************************************)
THEOREM WorkersKeepThePromise == FinalizerSpec => EveryStepIsLifecycle
<1>1. FInv /\ [FinalizerNext]_fvars => [Promise!Next]_<<row, now>>
  BY FinalizerStep
<1> QED BY <1>1, FInvAlways, PTL DEF FinalizerSpec, EveryStepIsLifecycle

(***************************************************************************)
(* With the workers too, the flags follow the states, and exactly one of   *)
(* the calls and passes that race for a match is told that it moved it.    *)
(***************************************************************************)
THEOREM WorkersTellTheTruth == FinalizerSpec => [](FlagFollowsState /\ OneMover)
<1>1. FInv => FlagFollowsState /\ OneMover
  BY SameRows DEF FInv, Clients!IInv, Clients!Flags, Clients!Tally, FlagFollowsState, OneMover
<1> QED BY <1>1, FInvAlways, PTL

(***************************************************************************)
(* The update of a claimed batch waits for nobody: a seat of a claimed     *)
(* match is held by no one, since whoever writes a seat holds its match.   *)
(* A worker, which skips the rows that are held, is in no deadlock.        *)
(***************************************************************************)
ClaimedSeatsAreFree ==
  \A w \in Worker : \A m \in pass[w].claim : \A c \in Conn \ {w} : held[c] \cap Seats(m) = {}

THEOREM WorkersNeverWait == FinalizerSpec => []ClaimedSeatsAreFree
<1>1. FInv => ClaimedSeatsAreFree
  <2> SUFFICES ASSUME FInv, NEW w \in Worker, NEW m \in pass[w].claim, NEW c \in Conn \ {w},
                      NEW u \in Players(row[m]), SeatLock(m, u) \in held[c]
               PROVE  FALSE
    BY DEF ClaimedSeatsAreFree, Seats
  <2>1. m \in Match /\ u \in User
    <3>1. m \in Match
      BY DEF FInv, Pass
    <3>2. row[m] \in Clients!Row
      BY <3>1 DEF FInv, Clients!IInv, Clients!TypeOK
    <3> QED BY <3>1, <3>2 DEF Players, Clients!Row, Clients!Slot, Slot
  <2>2. CASE c \in Worker
    <3>1. held[c] = {MatchLock(n) : n \in pass[c].claim}
      BY <2>2 DEF FInv, Working
    <3> QED BY <3>1 DEF MatchLock, SeatLock
  <2>3. CASE c \in Client
    <3>1. ClientsHold[c] = held[c]
      BY <2>3, ClientHolds
    <3>2. m = tx[c].match /\ Clients!AtWork(tx[c])
      BY <2>1, <2>3, <3>1, SameLocks, Clients!OneConn, RowAssumption, MatchesAssumption
      DEF FInv, Client, Clients!Holds, Clients!AtWork
    <3> QED BY <2>3, <3>2 DEF FInv, ClaimsHold
  <2> QED BY <2>2, <2>3 DEF Client
<1> QED BY <1>1, FInvAlways, PTL
=============================================================================
