----------------------------- MODULE Lifecycle -----------------------------
(***************************************************************************)
(* What the store promises about the life of a match, with every operation *)
(* of internal/store taking effect at one instant: the moment its          *)
(* transaction commits.  Matches.tla is the same life with the statements, *)
(* row locks and unique indexes spelled out, and implements this module.   *)
(*                                                                         *)
(* A match is one row of `matches` together with its `match_players`       *)
(* rows.  A lobby is opened by its host, filled by a guest, started when   *)
(* both have said they are ready, and handed to judging when both have     *)
(* submitted or the deadline has passed.  Nothing in the repository moves  *)
(* a match out of judging, so there is no such action.                     *)
(***************************************************************************)
EXTENDS MatchRow

VARIABLES
  row,  \* the committed match rows
  now   \* the database's clock

vars == <<row, now>>

\* Mutant: the index covers matches under way only.
InActive(u) == \E m \in Match : row[m].state \in {"active", "judging"} /\ Has(row[m], u)

InUnfinished(u) == \E m \in Match : row[m].state \in Unfinished /\ Has(row[m], u)
\* Mutant: the index on codes covers the wrong state.
CodeActive(k) == \E m \in Match : row[m].state = "active" /\ row[m].code = k

CodeOpen(k) == \E m \in Match : row[m].state = "lobby" /\ row[m].code = k
Due(m) == row[m].state = "active" /\ row[m].deadline <= now

Init ==
  /\ row = [m \in Match |-> NoRow]
  /\ now = 0

(***************************************************************************)
(* A host opens a lobby under a code that names no other open lobby.       *)
(***************************************************************************)
CreateLobby(u, m, k, c) ==
  /\ row[m] = NoRow
  /\ ~CodeOpen(k)
  /\ ~InUnfinished(u)
  /\ row' = [row EXCEPT ![m] = NewLobby(u, k, c)]
  /\ UNCHANGED now

JoinLobby(u, m) ==
  /\ row[m].state = "lobby"
  /\ ~Full(row[m])
  /\ ~InUnfinished(u)
  /\ row' = [row EXCEPT ![m].seat[FreeSlot(row[m])] = u]
  /\ UNCHANGED now

\* Mutant: the state is not one the column may have.
CancelToUnknown(u, m) ==
  /\ row[m].state = "lobby"
  /\ Has(row[m], u)
  /\ row' = [row EXCEPT ![m].state = "cancelled", ![m].ended = now]
  /\ UNCHANGED now

\* Mutant: the update does not say "and state = 'lobby'".
CancelAny(u, m) ==
  /\ Has(row[m], u)
  /\ row' = [row EXCEPT ![m].state = "abandoned", ![m].ended = now]
  /\ UNCHANGED now

(***************************************************************************)
(* Either player may abandon a lobby.  Timestamps are the database's       *)
(* now(), the start of the writer's transaction, hence some time not later *)
(* than the commit.                                                        *)
(***************************************************************************)
CancelLobby(u, m) ==
  /\ row[m].state = "lobby"
  /\ Has(row[m], u)
  /\ \E t \in 0..now :
       row' = [row EXCEPT ![m].state = "abandoned", ![m].ended = t]
  /\ UNCHANGED now

MayReady(u, m) == row[m].state = "lobby" /\ Full(row[m]) /\ Has(row[m], u)

Ready(u, m) ==
  /\ MayReady(u, m)
  /\ ~Completes(row[m].ready, u, row[m])
  /\ row' = [row EXCEPT ![m].ready = @ \cup {u}]
  /\ UNCHANGED now

(***************************************************************************)
(* The second player to get ready starts the clock.  A challenge with no   *)
(* starting files refuses the start, and the refusal takes the readiness   *)
(* back with it.                                                           *)
(***************************************************************************)
Start(u, m) ==
  /\ MayReady(u, m)
  /\ Completes(row[m].ready, u, row[m])
  /\ row[m].challenge \in Stocked
  /\ \E t \in 0..now : row' = [row EXCEPT ![m] = Started(row[m], u, t)]
  /\ UNCHANGED now

\* Mutant: the count is taken before the player's own submission.
SubmitUncounted(u, m) ==
  /\ row[m].state = "active"
  /\ Has(row[m], u)
  /\ row' = [row EXCEPT
       ![m].submitted = @ \cup {u},
       ![m].state = IF Players(row[m]) \subseteq row[m].submitted THEN "judging" ELSE @]
  /\ UNCHANGED now

(***************************************************************************)
(* A submission, and with the last one the move to judging.  The deadline  *)
(* is not consulted: the match is open until something closes it.          *)
(***************************************************************************)
Submit(u, m) ==
  /\ row[m].state = "active"
  /\ Has(row[m], u)
  /\ row' = [row EXCEPT
       ![m].submitted = @ \cup {u},
       ![m].state = IF Completes(row[m].submitted, u, row[m]) THEN "judging" ELSE @]
  /\ UNCHANGED now

\* Expiry moves any number of due matches at once.
Expire(S) ==
  /\ \A m \in S : Due(m)
  /\ row' = [m \in Match |-> IF m \in S THEN [row[m] EXCEPT !.state = "judging"]
                                        ELSE row[m]]
  /\ UNCHANGED now

Tick ==
  /\ now < Horizon
  /\ now' = now + 1
  /\ UNCHANGED row

PlayerStep(u, m) ==
  \/ \E k \in Code, c \in Challenge : CreateLobby(u, m, k, c)
  \/ JoinLobby(u, m)
  \/ CancelLobby(u, m)
  \/ Ready(u, m)
  \/ Start(u, m)
  \/ Submit(u, m)

Next ==
  \/ \E u \in User, m \in Match : PlayerStep(u, m)
  \/ \E S \in SUBSET Match : Expire(S)
  \/ Tick

Spec == Init /\ [][Next]_vars
-----------------------------------------------------------------------------
TypeOK ==
  /\ row \in [Match -> Row]
  /\ now \in Nat

(***************************************************************************)
(* No player is ever in two matches that have not finished: creating and   *)
(* joining race with each other and with cancellation, and at most one may *)
(* win (migrations/0003_lobby_membership.sql, match_players_one_unfinished).*)
(***************************************************************************)
OneUnfinished ==
  \A m, n \in Match, u \in User :
    /\ row[m].state \in Unfinished /\ Has(row[m], u)
    /\ row[n].state \in Unfinished /\ Has(row[n], u)
    => m = n

(***************************************************************************)
(* A join code identifies at most one lobby that can still be joined, even *)
(* though codes are recycled as soon as a match leaves the lobby.          *)
(***************************************************************************)
CodeNamesOneLobby ==
  \A m, n \in Match :
    row[m].state = "lobby" /\ row[n].state = "lobby" /\ row[m].code = row[n].code
    => m = n

(***************************************************************************)
(* Nobody is waiting for a transition that has already been earned: a      *)
(* lobby in which both players are ready has started, and an active match  *)
(* in which both have submitted has moved to judging.                      *)
(***************************************************************************)
NoLostTransition ==
  \A m \in Match :
    /\ row[m].state = "lobby" => ~(Full(row[m]) /\ Players(row[m]) \subseteq row[m].ready)
    /\ row[m].state = "active" => ~(Players(row[m]) \subseteq row[m].submitted)

(***************************************************************************)
(* A match is judged only for a reason: both players submitted, or the     *)
(* deadline, which is the start plus the challenge's own duration, passed. *)
(***************************************************************************)
JudgedForAReason ==
  \A m \in Match :
    row[m].state = "judging" =>
      \/ Players(row[m]) \subseteq row[m].submitted
      \/ row[m].started + Duration[row[m].challenge] <= now

(***************************************************************************)
(* A match that is played has two different players, both of whom said     *)
(* they were ready, a challenge that could seed their workspaces, and one  *)
(* clock that was read once.                                               *)
(***************************************************************************)
PlayedByTwo ==
  \A m \in Match :
    row[m].state \in {"active", "judging"} =>
      /\ Full(row[m])
      /\ row[m].seat[1] # row[m].seat[2]
      /\ row[m].ready = Players(row[m])
      /\ row[m].submitted \subseteq Players(row[m])
      /\ row[m].challenge \in Stocked
      /\ row[m].started \in 0..now
      /\ row[m].deadline = row[m].started + Duration[row[m].challenge]

(***************************************************************************)
(* A lobby has its host, seats nobody twice, counts only seated players as *)
(* ready, and has neither a submission nor a clock.                        *)
(***************************************************************************)
LobbyWaits ==
  \A m \in Match :
    row[m].state = "lobby" =>
      /\ row[m].seat[1] # Null
      /\ row[m].seat[1] # row[m].seat[2]
      /\ row[m].ready \subseteq Players(row[m])
      /\ row[m].submitted = {}
      /\ row[m].started = Null

(***************************************************************************)
(* Every match is in order for the state it is in.                         *)
(***************************************************************************)
EveryMatchInOrder == LobbyWaits /\ PlayedByTwo /\ NoLostTransition /\ JudgedForAReason

\* The states a match in a given state may still move to, itself included.
Later(s) ==
  CASE s = "none"    -> {"none", "lobby"}
    [] s = "lobby"   -> {"lobby", "active", "abandoned"}
    [] s = "active"  -> {"active", "judging"}
    [] OTHER         -> {s}

(***************************************************************************)
(* Every step of every request moves a match forward or leaves it: seats   *)
(* are never given up or re-dealt, submissions are never withdrawn, and    *)
(* once the clock is set neither it nor the challenge changes.             *)
(***************************************************************************)
ForwardStep(m) ==
  /\ row'[m].state \in Later(row[m].state)
  /\ \A s \in Slot : row[m].seat[s] # Null => row'[m].seat[s] = row[m].seat[s]
  /\ row[m].submitted \subseteq row'[m].submitted
  /\ row[m].ready \subseteq row'[m].ready
  /\ row[m].started # Null =>
       /\ row'[m].started = row[m].started
       /\ row'[m].deadline = row[m].deadline
       /\ row'[m].challenge = row[m].challenge

Forward == [][\A m \in Match : ForwardStep(m)]_vars
=============================================================================
