----------------------------- MODULE MatchRow ------------------------------
(***************************************************************************)
(* One row of `matches` with its two rows of `match_players`: the type,    *)
(* the states, and the pure readings and updates of it that every module   *)
(* about matches shares (internal/store/lobbies.go, matches.go).           *)
(***************************************************************************)
EXTENDS Integers

CONSTANTS
  Match,      \* identifiers of match rows
  User,       \* registered users
  Code,       \* join codes
  Challenge,  \* challenge versions in the catalog
  Stocked,    \* the versions whose starting files were registered
  Duration,   \* challenge version -> length of its match
  Horizon,    \* bound on the clock, so that TLC's instances are finite
  Null        \* SQL NULL

ASSUME RowAssumption ==
  /\ Stocked \subseteq Challenge
  /\ Duration \in [Challenge -> Nat \ {0}]
  /\ Horizon \in Nat
  /\ Null \notin User \cup Code \cup Challenge \cup Int

Slot == 1..2
State == {"none", "lobby", "active", "judging", "abandoned"}
Unfinished == {"lobby", "active", "judging"}

Row == [state     : State,
        code      : Code \cup {Null},
        challenge : Challenge \cup {Null},
        seat      : [Slot -> User \cup {Null}],
        ready     : SUBSET User,
        submitted : SUBSET User,
        started   : Nat \cup {Null},
        deadline  : Nat \cup {Null},
        ended     : Nat \cup {Null}]

\* A row that was never inserted.
NoRow == [state |-> "none", code |-> Null, challenge |-> Null,
          seat |-> [s \in Slot |-> Null], ready |-> {}, submitted |-> {},
          started |-> Null, deadline |-> Null, ended |-> Null]

NewLobby(u, k, c) ==
  [NoRow EXCEPT !.state = "lobby", !.code = k, !.challenge = c,
                !.seat = [s \in Slot |-> IF s = 1 THEN u ELSE Null]]

Players(r) == {r.seat[s] : s \in Slot} \ {Null}
Has(r, u) == \E s \in Slot : r.seat[s] = u
Full(r) == \A s \in Slot : r.seat[s] # Null
FreeSlot(r) == CHOOSE s \in Slot : /\ r.seat[s] = Null
                                   /\ \A t \in Slot : r.seat[t] = Null => s <= t

\* The row as a start at time t leaves it, u being the last to get ready.
Started(r, u, t) ==
  [r EXCEPT !.ready = @ \cup {u}, !.state = "active", !.started = t,
            !.deadline = t + Duration[r.challenge]]

(***************************************************************************)
(* What ready_at and submitted_at guard: setting u's flag completes the    *)
(* set when no seated player is left out of it.                            *)
(***************************************************************************)
Completes(set, u, r) == Players(r) \subseteq set \cup {u}
=============================================================================
