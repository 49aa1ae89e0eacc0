-------------------------- MODULE LifecycleProofs ---------------------------
(***************************************************************************)
(* Proofs about the life of a match, for any number of matches and users.  *)
(***************************************************************************)
EXTENDS Lifecycle, TLAPS

-----------------------------------------------------------------------------
(***************************************************************************)
(* A row that has a free seat has a lowest one, which is what freeSlot     *)
(* returns.                                                                *)
(***************************************************************************)
LEMMA FreeSlotIsFree ==
  ASSUME NEW r \in Row, ~Full(r)
  PROVE  /\ FreeSlot(r) \in Slot
         /\ r.seat[FreeSlot(r)] = Null
<1>1. \E s \in Slot : r.seat[s] = Null
  BY DEF Full
<1>2. \E s \in Slot : r.seat[s] = Null /\ \A t \in Slot : r.seat[t] = Null => s <= t
  <2>1. CASE r.seat[1] = Null
    BY <2>1 DEF Slot
  <2>2. CASE r.seat[1] # Null
    BY <1>1, <2>2 DEF Slot
  <2> QED BY <2>1, <2>2
<1> QED BY <1>2 DEF FreeSlot

\* The row CreateLobby inserts is a row.
LEMMA NewLobbyIsRow ==
  ASSUME NEW u \in User, NEW k \in Code, NEW c \in Challenge
  PROVE  NewLobby(u, k, c) \in Row
<1>1. NoRow \in Row
  BY DEF NoRow, Row, State
<1>2. [s \in Slot |-> IF s = 1 THEN u ELSE Null] \in [Slot -> User \cup {Null}]
  OBVIOUS
<1>3. "lobby" \in State
  BY DEF State
<1> QED BY <1>1, <1>2, <1>3 DEF NewLobby, Row

\* Moving a match leaves a row.
LEMMA MovedIsRow ==
  ASSUME NEW r \in Row, NEW s \in State, NEW t \in Nat
  PROVE  /\ [r EXCEPT !.state = s] \in Row
         /\ [r EXCEPT !.state = s, !.ended = t] \in Row
BY DEF Row

\* Setting a player's flag leaves a row.
LEMMA MarkedIsRow ==
  ASSUME NEW r \in Row, NEW u \in User, NEW s \in State
  PROVE  /\ [r EXCEPT !.ready = @ \cup {u}] \in Row
         /\ [r EXCEPT !.submitted = @ \cup {u}, !.state = s] \in Row
<1>1. r.ready \cup {u} \in SUBSET User /\ r.submitted \cup {u} \in SUBSET User
  BY DEF Row
<1> QED BY <1>1 DEF Row

\* The row a start leaves is a row: its deadline is a time.
LEMMA StartedIsRow ==
  ASSUME NEW r \in Row, r.challenge \in Stocked, NEW u \in User, NEW t \in Nat
  PROVE  Started(r, u, t) \in Row
<1>1. t + Duration[r.challenge] \in Nat
  BY RowAssumption
<1>2. r.ready \cup {u} \in SUBSET User
  BY DEF Row
<1>3. "active" \in State
  BY DEF State
<1> QED BY <1>1, <1>2, <1>3 DEF Started, Row

(***************************************************************************)
(* Type correctness: whatever the requests, every row stays a row and the  *)
(* clock a time.                                                           *)
(***************************************************************************)
THEOREM TypeCorrect == Spec => []TypeOK
<1>1. Init => TypeOK
  BY DEF Init, TypeOK, NoRow, Row, State
<1>2. TypeOK /\ [Next]_vars => TypeOK'
  <2> SUFFICES ASSUME TypeOK, [Next]_vars
               PROVE  TypeOK'
    OBVIOUS
  <2> USE DEF TypeOK
  <2>1. ASSUME NEW u \in User, NEW m \in Match, NEW k \in Code, NEW c \in Challenge,
               CreateLobby(u, m, k, c)
        PROVE  TypeOK'
    BY <2>1, NewLobbyIsRow DEF CreateLobby
  <2>2. ASSUME NEW u \in User, NEW m \in Match, JoinLobby(u, m)
        PROVE  TypeOK'
    <3>1. FreeSlot(row[m]) \in Slot
      BY <2>2, FreeSlotIsFree DEF JoinLobby
    <3> QED BY <2>2, <3>1, SMTT(20) DEF JoinLobby, Row
  <2>3. ASSUME NEW u \in User, NEW m \in Match, CancelLobby(u, m)
        PROVE  TypeOK'
    <3>1. PICK t \in 0..now : row' = [row EXCEPT ![m].state = "abandoned", ![m].ended = t]
      BY <2>3 DEF CancelLobby
    <3>2. t \in Nat
      BY <3>1
    <3>3. [row[m] EXCEPT !.state = "abandoned", !.ended = t] \in Row
      BY <3>2, MovedIsRow DEF State
    <3> QED BY <2>3, <3>1, <3>3 DEF CancelLobby
  <2>4. ASSUME NEW u \in User, NEW m \in Match, Ready(u, m)
        PROVE  TypeOK'
    BY <2>4, MarkedIsRow DEF Ready, State
  <2>5. ASSUME NEW u \in User, NEW m \in Match, Start(u, m)
        PROVE  TypeOK'
    BY <2>5, StartedIsRow DEF Start
  <2>6. ASSUME NEW u \in User, NEW m \in Match, Submit(u, m)
        PROVE  TypeOK'
    <3> DEFINE s == IF Completes(row[m].submitted, u, row[m]) THEN "judging" ELSE row[m].state
    <3>1. s \in State
      BY DEF State, Row
    <3>2. [row[m] EXCEPT !.submitted = @ \cup {u}, !.state = s] \in Row
      BY <3>1, MarkedIsRow
    <3> QED BY <2>6, <3>2 DEF Submit
  <2>7. ASSUME NEW S \in SUBSET Match, Expire(S)
        PROVE  TypeOK'
    <3>1. \A m \in Match : [row[m] EXCEPT !.state = "judging"] \in Row
      BY MovedIsRow DEF State
    <3> QED BY <2>7, <3>1 DEF Expire
  <2>8. CASE Tick
    BY <2>8 DEF Tick
  <2>9. CASE UNCHANGED vars
    BY <2>9 DEF vars
  <2> QED
    BY <2>1, <2>2, <2>3, <2>4, <2>5, <2>6, <2>7, <2>8, <2>9 DEF Next, PlayerStep
<1> QED BY <1>1, <1>2, PTL DEF Spec

-----------------------------------------------------------------------------
\* User u sits in match m, which has not finished.
Holds(u, m) == row[m].state \in Unfinished /\ Has(row[m], u)

(***************************************************************************)
(* What one step can add: a player enters a match only when in no other,   *)
(* and then only that match changes.                                       *)
(***************************************************************************)
LEMMA OnlyTheFreeEnter ==
  ASSUME TypeOK, [Next]_vars,
         NEW u \in User, NEW m \in Match, Holds(u, m)', ~Holds(u, m)
  PROVE  /\ ~InUnfinished(u)
         /\ \A n \in Match \ {m} : row'[n] = row[n]
<1> USE DEF TypeOK, Holds, Has
<1>1. ASSUME NEW v \in User, NEW n \in Match, NEW k \in Code, NEW c \in Challenge,
             CreateLobby(v, n, k, c)
      PROVE  /\ ~InUnfinished(u)
             /\ \A l \in Match \ {m} : row'[l] = row[l]
  <2>1. \A s \in Slot : NewLobby(v, k, c).seat[s] = u => u = v
    BY RowAssumption DEF NewLobby, NoRow
  <2> QED BY <1>1, <2>1 DEF CreateLobby
<1>2. ASSUME NEW v \in User, NEW n \in Match, JoinLobby(v, n)
      PROVE  /\ ~InUnfinished(u)
             /\ \A l \in Match \ {m} : row'[l] = row[l]
  <2>1. FreeSlot(row[n]) \in Slot
    BY <1>2, FreeSlotIsFree DEF JoinLobby
  <2>2. /\ row'[n].state = row[n].state
        /\ \A s \in Slot : row'[n].seat[s] = row[n].seat[s] \/ row'[n].seat[s] = v
    BY <1>2, <2>1 DEF JoinLobby, Row
  <2> QED BY <1>2, <2>2 DEF JoinLobby
<1>3. ASSUME NEW v \in User, NEW n \in Match, CancelLobby(v, n)
      PROVE  FALSE
  BY <1>3 DEF CancelLobby, Unfinished, Row
<1>4. ASSUME NEW v \in User, NEW n \in Match, Ready(v, n)
      PROVE  FALSE
  BY <1>4 DEF Ready, Row
<1>5. ASSUME NEW v \in User, NEW n \in Match, Start(v, n)
      PROVE  FALSE
  BY <1>5 DEF Start, Started, MayReady, Unfinished, Row
<1>6. ASSUME NEW v \in User, NEW n \in Match, Submit(v, n)
      PROVE  FALSE
  BY <1>6 DEF Submit, Unfinished, Row
<1>7. ASSUME NEW S \in SUBSET Match, Expire(S)
      PROVE  FALSE
  BY <1>7 DEF Expire, Due, Unfinished, Row
<1>8. ASSUME Tick \/ UNCHANGED vars
      PROVE  FALSE
  BY <1>8 DEF Tick, vars
<1> QED
  BY <1>1, <1>2, <1>3, <1>4, <1>5, <1>6, <1>7, <1>8 DEF Next, PlayerStep

(***************************************************************************)
(* No player is ever in two unfinished matches.  The property is inductive *)
(* given the types: a player in two had to enter one while in the other.   *)
(***************************************************************************)
THEOREM AtMostOneUnfinished == Spec => []OneUnfinished
<1>1. Init => OneUnfinished
  BY DEF Init, OneUnfinished, NoRow, Unfinished
<1>2. TypeOK /\ OneUnfinished /\ [Next]_vars => OneUnfinished'
  <2> SUFFICES ASSUME TypeOK, OneUnfinished, [Next]_vars,
                      NEW m \in Match, NEW n \in Match, NEW u \in User,
                      Holds(u, m)', Holds(u, n)', m # n
               PROVE  FALSE
    BY DEF OneUnfinished, Holds
  <2>1. ~Holds(u, m) \/ ~Holds(u, n)
    BY DEF OneUnfinished, Holds
  <2>2. ASSUME NEW k \in Match, NEW l \in Match, k # l,
               ~Holds(u, k), Holds(u, k)', Holds(u, l)'
        PROVE  FALSE
    <3>1. ~InUnfinished(u) /\ row'[l] = row[l]
      BY <2>2, OnlyTheFreeEnter
    <3> QED BY <2>2, <3>1 DEF InUnfinished, Holds
  <2> QED BY <2>1, <2>2
<1> QED BY <1>1, <1>2, TypeCorrect, PTL DEF Spec

(***************************************************************************)
(* A code names at most one lobby.                                         *)
(***************************************************************************)
LEMMA OnlyFreeCodesOpen ==
  ASSUME TypeOK, [Next]_vars, NEW m \in Match, row'[m].state = "lobby"
  PROVE  \/ row[m].state = "lobby" /\ row'[m].code = row[m].code
         \/ /\ ~CodeOpen(row'[m].code)
            /\ \A n \in Match \ {m} : row'[n] = row[n]
<1> USE DEF TypeOK
<1> DEFINE Goal == \/ row[m].state = "lobby" /\ row'[m].code = row[m].code
                   \/ /\ ~CodeOpen(row'[m].code)
                      /\ \A n \in Match \ {m} : row'[n] = row[n]
<1>1. ASSUME NEW v \in User, NEW n \in Match, NEW k \in Code, NEW c \in Challenge,
             CreateLobby(v, n, k, c)
      PROVE  Goal
  <2>1. NewLobby(v, k, c).code = k
    BY DEF NewLobby, NoRow
  <2> QED BY <1>1, <2>1 DEF CreateLobby
<1>2. ASSUME NEW v \in User, NEW n \in Match, JoinLobby(v, n)
      PROVE  Goal
  <2>1. FreeSlot(row[n]) \in Slot
    BY <1>2, FreeSlotIsFree DEF JoinLobby
  <2> QED BY <1>2, <2>1 DEF JoinLobby, Row
<1>3. ASSUME NEW v \in User, NEW n \in Match, CancelLobby(v, n)
      PROVE  Goal
  BY <1>3 DEF CancelLobby, Row
<1>4. ASSUME NEW v \in User, NEW n \in Match, Ready(v, n)
      PROVE  Goal
  BY <1>4 DEF Ready, Row
<1>5. ASSUME NEW v \in User, NEW n \in Match, Start(v, n)
      PROVE  Goal
  BY <1>5 DEF Start, Started, Row
<1>6. ASSUME NEW v \in User, NEW n \in Match, Submit(v, n)
      PROVE  Goal
  BY <1>6 DEF Submit, Row
<1>7. ASSUME NEW S \in SUBSET Match, Expire(S)
      PROVE  Goal
  BY <1>7 DEF Expire, Row
<1>8. ASSUME Tick \/ UNCHANGED vars
      PROVE  Goal
  BY <1>8 DEF Tick, vars
<1> QED
  BY <1>1, <1>2, <1>3, <1>4, <1>5, <1>6, <1>7, <1>8 DEF Next, PlayerStep

(***************************************************************************)
(* A join code identifies at most one open lobby.                          *)
(***************************************************************************)
THEOREM OpenCodesUnique == Spec => []CodeNamesOneLobby
<1>1. Init => CodeNamesOneLobby
  BY DEF Init, CodeNamesOneLobby, NoRow
<1>2. TypeOK /\ CodeNamesOneLobby /\ [Next]_vars => CodeNamesOneLobby'
  <2> SUFFICES ASSUME TypeOK, CodeNamesOneLobby, [Next]_vars,
                      NEW m \in Match, NEW n \in Match, m # n,
                      row'[m].state = "lobby", row'[n].state = "lobby",
                      row'[m].code = row'[n].code
               PROVE  FALSE
    BY DEF CodeNamesOneLobby
  <2> QED
    BY OnlyFreeCodesOpen DEF CodeNamesOneLobby, CodeOpen
<1> QED BY <1>1, <1>2, TypeCorrect, PTL DEF Spec

-----------------------------------------------------------------------------
(***************************************************************************)
(* What is asked of each row by itself: the four invariants LobbyWaits,    *)
(* NoLostTransition, PlayedByTwo and JudgedForAReason need one another, so *)
(* they are proved together, one row at a time.                            *)
(***************************************************************************)
Waits(r) ==
  /\ r.seat[1] # Null
  /\ r.seat[1] # r.seat[2]
  /\ r.ready \subseteq Players(r)
  /\ r.submitted = {}
  /\ r.started = Null
  /\ ~(Full(r) /\ Players(r) \subseteq r.ready)

Played(r, t) ==
  /\ Full(r)
  /\ r.seat[1] # r.seat[2]
  /\ r.ready = Players(r)
  /\ r.submitted \subseteq Players(r)
  /\ r.challenge \in Stocked
  /\ r.started \in 0..t
  /\ r.deadline = r.started + Duration[r.challenge]

Judged(r, t) ==
  \/ Players(r) \subseteq r.submitted
  \/ r.started + Duration[r.challenge] <= t

Sound(r, t) ==
  /\ r.state = "lobby" => Waits(r)
  /\ r.state \in {"active", "judging"} => Played(r, t)
  /\ r.state = "active" => ~(Players(r) \subseteq r.submitted)
  /\ r.state = "judging" => Judged(r, t)

AllSound == \A m \in Match : Sound(row[m], now)

\* The invariant says of all rows what the four properties say.
LEMMA AllSoundIsTheFour == AllSound => EveryMatchInOrder
BY DEF EveryMatchInOrder, AllSound, Sound, Waits, Played, Judged,
       LobbyWaits, NoLostTransition, PlayedByTwo, JudgedForAReason

\* The two seats are all there is.
LEMMA PlayersAreTheSeats ==
  ASSUME NEW r \in Row
  PROVE  /\ Players(r) = {r.seat[1], r.seat[2]} \ {Null}
         /\ Full(r) <=> r.seat[1] # Null /\ r.seat[2] # Null
         /\ \A u : Has(r, u) <=> r.seat[1] = u \/ r.seat[2] = u
<1>1. \A s : s \in Slot <=> s = 1 \/ s = 2
  BY DEF Slot
<1> QED BY <1>1 DEF Players, Full, Has

\* Time passing does not hurt.
LEMMA SoundLater ==
  ASSUME NEW r \in Row, NEW s \in Nat, NEW t \in Nat, s <= t, Sound(r, s)
  PROVE  Sound(r, t)
<1>1. r.state \in {"active", "judging"} => Played(r, t)
  BY DEF Sound, Played
<1>2. r.state = "judging" => Judged(r, t)
  <2>1. ASSUME r.state = "judging"
        PROVE  r.started + Duration[r.challenge] \in Nat
    BY <2>1, RowAssumption DEF Sound, Played
  <2> QED BY <2>1 DEF Sound, Judged
<1> QED BY <1>1, <1>2 DEF Sound

\* A new lobby waits for its guest.
LEMMA NewLobbySound ==
  ASSUME NEW u \in User, NEW k \in Code, NEW c \in Challenge, NEW t \in Nat
  PROVE  Sound(NewLobby(u, k, c), t)
<1> DEFINE r == NewLobby(u, k, c)
<1>1. /\ r.state = "lobby" /\ r.ready = {} /\ r.submitted = {} /\ r.started = Null
      /\ r.seat = [s \in Slot |-> IF s = 1 THEN u ELSE Null]
  BY DEF NewLobby, NoRow
<1>2. r.seat[1] = u /\ r.seat[2] = Null
  BY <1>1 DEF Slot
<1>3. u # Null
  BY RowAssumption
<1>4. ~Full(r)
  BY <1>2, NewLobbyIsRow, PlayersAreTheSeats
<1> QED BY <1>1, <1>2, <1>3, <1>4 DEF Sound, Waits

\* The guest takes the second seat, and has not readied yet.
LEMMA JoinSound ==
  ASSUME NEW r \in Row, NEW u \in User, NEW t \in Nat,
         Sound(r, t), r.state = "lobby", ~Full(r), ~Has(r, u)
  PROVE  Sound([r EXCEPT !.seat[FreeSlot(r)] = u], t)
<1> DEFINE q == [r EXCEPT !.seat[FreeSlot(r)] = u]
<1>1. FreeSlot(r) = 2
  BY FreeSlotIsFree DEF Sound, Waits, Slot
<1>2. /\ q.state = "lobby" /\ q.ready = r.ready /\ q.submitted = r.submitted
      /\ q.started = r.started
      /\ q.seat[1] = r.seat[1] /\ q.seat[2] = u
      /\ q \in Row
  BY <1>1 DEF Row, Slot
<1>3. u # Null /\ r.seat[1] # Null /\ r.seat[1] # u
  BY RowAssumption, PlayersAreTheSeats DEF Sound, Waits
<1>4. r.ready \subseteq {r.seat[1]}
  BY <1>1, FreeSlotIsFree, PlayersAreTheSeats DEF Sound, Waits
<1>5. Players(q) = {r.seat[1], u}
  BY <1>2, <1>3, PlayersAreTheSeats, ZenonT(40)
<1>6. u \notin q.ready
  BY <1>2, <1>3, <1>4
<1> QED BY <1>2, <1>3, <1>4, <1>5, <1>6 DEF Sound, Waits

\* One of two players gets ready.
LEMMA ReadySound ==
  ASSUME NEW r \in Row, NEW u \in User, NEW t \in Nat,
         Sound(r, t), r.state = "lobby", Has(r, u), ~Completes(r.ready, u, r)
  PROVE  Sound([r EXCEPT !.ready = @ \cup {u}], t)
<1> DEFINE q == [r EXCEPT !.ready = @ \cup {u}]
<1>1. /\ q.state = "lobby" /\ q.ready = r.ready \cup {u} /\ q.submitted = r.submitted
      /\ q.started = r.started /\ q.seat = r.seat
  BY DEF Row
<1>2. Players(q) = Players(r)
  BY <1>1 DEF Players
<1>3. u \in Players(r)
  BY RowAssumption, PlayersAreTheSeats
<1> QED BY <1>1, <1>2, <1>3 DEF Sound, Waits, Completes

\* The second player gets ready.
LEMMA StartSound ==
  ASSUME NEW r \in Row, NEW u \in User, NEW t \in Nat, NEW s \in 0..t,
         Sound(r, t), r.state = "lobby", Full(r), Has(r, u),
         Completes(r.ready, u, r), r.challenge \in Stocked
  PROVE  Sound(Started(r, u, s), t)
<1> DEFINE q == Started(r, u, s)
<1>1. /\ q.state = "active" /\ q.ready = r.ready \cup {u} /\ q.submitted = r.submitted
      /\ q.seat = r.seat /\ q.challenge = r.challenge
      /\ q.started = s /\ q.deadline = s + Duration[r.challenge]
  BY DEF Row, Started
<1>2. Players(q) = Players(r) /\ Full(q)
  BY <1>1 DEF Players, Full
<1>3. u \in Players(r)
  BY RowAssumption, PlayersAreTheSeats
<1>4. Waits(r)
  BY DEF Sound
<1>5. Played(q, t)
  BY <1>1, <1>2, <1>3, <1>4 DEF Waits, Played, Completes
<1>6. ~(Players(q) \subseteq q.submitted)
  BY <1>1, <1>2, <1>3, <1>4 DEF Waits
<1> QED BY <1>1, <1>5, <1>6 DEF Sound

\* A player submits, and with the last one the match goes to judging.
LEMMA SubmitSound ==
  ASSUME NEW r \in Row, NEW u \in User, NEW t \in Nat,
         Sound(r, t), r.state = "active", Has(r, u)
  PROVE  Sound([r EXCEPT !.submitted = @ \cup {u},
                         !.state = IF Completes(r.submitted, u, r) THEN "judging" ELSE @], t)
<1> DEFINE q == [r EXCEPT !.submitted = @ \cup {u},
                          !.state = IF Completes(r.submitted, u, r) THEN "judging" ELSE @]
<1>1. /\ q.state = IF Completes(r.submitted, u, r) THEN "judging" ELSE "active"
      /\ q.submitted = r.submitted \cup {u} /\ q.ready = r.ready
      /\ q.seat = r.seat /\ q.challenge = r.challenge
      /\ q.started = r.started /\ q.deadline = r.deadline
  BY DEF Row
<1>2. Players(q) = Players(r) /\ (Full(q) <=> Full(r))
  BY <1>1 DEF Players, Full
<1>3. u \in Players(r)
  BY RowAssumption, PlayersAreTheSeats
<1>4. Played(q, t)
  BY <1>1, <1>2, <1>3 DEF Sound, Played
<1>5. Completes(r.submitted, u, r) <=> Players(q) \subseteq q.submitted
  BY <1>1, <1>2 DEF Completes
<1>6. CASE Completes(r.submitted, u, r)
  BY <1>1, <1>4, <1>5, <1>6 DEF Sound, Judged
<1>7. CASE ~Completes(r.submitted, u, r)
  BY <1>1, <1>4, <1>5, <1>7 DEF Sound
<1> QED BY <1>6, <1>7

\* The deadline has passed.
LEMMA ExpireSound ==
  ASSUME NEW r \in Row, NEW t \in Nat, Sound(r, t), r.state = "active", r.deadline <= t
  PROVE  Sound([r EXCEPT !.state = "judging"], t)
<1> DEFINE q == [r EXCEPT !.state = "judging"]
<1>1. /\ q.state = "judging" /\ q.submitted = r.submitted /\ q.ready = r.ready
      /\ q.seat = r.seat /\ q.challenge = r.challenge
      /\ q.started = r.started /\ q.deadline = r.deadline
  BY DEF Row
<1>2. Players(q) = Players(r) /\ (Full(q) <=> Full(r))
  BY <1>1 DEF Players, Full
<1>3. Played(q, t) /\ Judged(q, t)
  BY <1>1, <1>2 DEF Sound, Played, Judged
<1> QED BY <1>1, <1>3 DEF Sound

\* The inductive invariant: every row is sound, at every time.
LEMMA AllSoundAlways == Spec => []AllSound
<1>1. Init => AllSound
  <2>1. NoRow.state = "none"
    BY DEF NoRow
  <2> QED BY <2>1 DEF Init, AllSound, Sound
<1>2. TypeOK /\ AllSound /\ [Next]_vars => AllSound'
  <2> SUFFICES ASSUME TypeOK, AllSound, [Next]_vars
               PROVE  AllSound'
    OBVIOUS
  <2> USE DEF TypeOK, AllSound
  <2>1. ASSUME NEW u \in User, NEW m \in Match, NEW k \in Code, NEW c \in Challenge,
               CreateLobby(u, m, k, c)
        PROVE  AllSound'
    BY <2>1, NewLobbySound DEF CreateLobby
  <2>2. ASSUME NEW u \in User, NEW m \in Match, JoinLobby(u, m)
        PROVE  AllSound'
    <3>1. ~Has(row[m], u)
      BY <2>2 DEF JoinLobby, InUnfinished, Unfinished
    <3> QED BY <2>2, <3>1, JoinSound DEF JoinLobby
  <2>3. ASSUME NEW u \in User, NEW m \in Match, CancelLobby(u, m)
        PROVE  AllSound'
    <3>1. row'[m].state = "abandoned" /\ now' = now
          /\ \A n \in Match \ {m} : row'[n] = row[n]
      BY <2>3 DEF CancelLobby, Row
    <3> QED BY <3>1 DEF Sound
  <2>4. ASSUME NEW u \in User, NEW m \in Match, Ready(u, m)
        PROVE  AllSound'
    BY <2>4, ReadySound DEF Ready, MayReady
  <2>5. ASSUME NEW u \in User, NEW m \in Match, Start(u, m)
        PROVE  AllSound'
    BY <2>5, StartSound DEF Start, MayReady
  <2>6. ASSUME NEW u \in User, NEW m \in Match, Submit(u, m)
        PROVE  AllSound'
    BY <2>6, SubmitSound DEF Submit
  <2>7. ASSUME NEW S \in SUBSET Match, Expire(S)
        PROVE  AllSound'
    BY <2>7, ExpireSound DEF Expire, Due
  <2>8. CASE Tick
    <3>1. now \in Nat /\ now' \in Nat /\ now <= now' /\ row' = row
      BY <2>8 DEF Tick
    <3> QED BY <3>1, SoundLater
  <2>9. CASE UNCHANGED vars
    BY <2>9 DEF vars
  <2> QED
    BY <2>1, <2>2, <2>3, <2>4, <2>5, <2>6, <2>7, <2>8, <2>9 DEF Next, PlayerStep
<1> QED BY <1>1, <1>2, TypeCorrect, PTL DEF Spec

(***************************************************************************)
(* Every reachable match is sound: lobbies wait with their host and        *)
(* nothing played, no earned transition is lost, a played match has two    *)
(* ready players and one clock, and judging has its reason.                *)
(***************************************************************************)
THEOREM EveryMatchSound == Spec => []EveryMatchInOrder
BY AllSoundAlways, AllSoundIsTheFour, PTL

(***************************************************************************)
(* A match only moves forward.                                             *)
(***************************************************************************)
THEOREM OnlyForward == Spec => Forward
<1> DEFINE Moves == \A m \in Match : ForwardStep(m)
<1>1. TypeOK /\ AllSound /\ [Next]_vars => [Moves]_vars
  <2> SUFFICES ASSUME TypeOK, AllSound, Next
               PROVE  Moves
    OBVIOUS
  <2> USE DEF TypeOK, ForwardStep, Later
  <2>1. ASSUME NEW u \in User, NEW m \in Match, NEW k \in Code, NEW c \in Challenge,
               CreateLobby(u, m, k, c)
        PROVE  Moves
    <3>1. /\ row[m].state = "none" /\ row[m].ready = {} /\ row[m].submitted = {}
          /\ row[m].started = Null /\ \A s \in Slot : row[m].seat[s] = Null
          /\ NewLobby(u, k, c).state = "lobby"
      BY <2>1 DEF CreateLobby, NoRow, NewLobby
    <3> QED BY <2>1, <3>1 DEF CreateLobby, Row, State
  <2>2. ASSUME NEW u \in User, NEW m \in Match, JoinLobby(u, m)
        PROVE  Moves
    <3>1. FreeSlot(row[m]) \in Slot /\ row[m].seat[FreeSlot(row[m])] = Null
      BY <2>2, FreeSlotIsFree DEF JoinLobby
    <3> QED BY <2>2, <3>1 DEF JoinLobby, Row, State
  <2>3. ASSUME NEW u \in User, NEW m \in Match, CancelLobby(u, m)
        PROVE  Moves
    BY <2>3 DEF CancelLobby, Row, State
  <2>4. ASSUME NEW u \in User, NEW m \in Match, Ready(u, m)
        PROVE  Moves
    BY <2>4 DEF Ready, MayReady, Row, State
  <2>5. ASSUME NEW u \in User, NEW m \in Match, Start(u, m)
        PROVE  Moves
    <3>1. row[m].state = "lobby" /\ row[m].started = Null
      BY <2>5 DEF Start, MayReady, AllSound, Sound, Waits
    <3> QED BY <2>5, <3>1 DEF Start, Started, Row, State
  <2>6. ASSUME NEW u \in User, NEW m \in Match, Submit(u, m)
        PROVE  Moves
    BY <2>6 DEF Submit, Row, State
  <2>7. ASSUME NEW S \in SUBSET Match, Expire(S)
        PROVE  Moves
    BY <2>7 DEF Expire, Due, Row, State
  <2>8. CASE Tick
    BY <2>8 DEF Tick, Row, State
  <2> QED
    BY <2>1, <2>2, <2>3, <2>4, <2>5, <2>6, <2>7, <2>8 DEF Next, PlayerStep
<1> QED BY <1>1, AllSoundAlways, TypeCorrect, PTL DEF Spec, Forward
=============================================================================
