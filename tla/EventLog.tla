------------------------------ MODULE EventLog ------------------------------
(***************************************************************************)
(* The event log of each match (internal/store/events.go): writers that    *)
(* take their sequence numbers from matches.event_seq under the lock of    *)
(* the match row, and readers that resume after the last number they saw.  *)
(*                                                                         *)
(* AppendEvent manages its own transaction, or becomes a savepoint of the  *)
(* caller's when it is one step of a larger operation, so a transaction    *)
(* here appends any number of events before it commits, and an append that *)
(* fails half way undoes only itself.                                      *)
(***************************************************************************)
EXTENDS Integers

CONSTANTS
  Match,      \* matches with a log
  Writer,     \* connections that append
  Reader,     \* clients that follow a log
  Kind,       \* what an event says
  MaxEvents,  \* bound on the length of a log
  Null        \* no match

ASSUME EventLogAssumption == MaxEvents \in Nat /\ Null \notin Match

VARIABLES
  event_seq,  \* match -> the committed allocator
  log,        \* match -> the committed rows of match_events
  work,       \* what each writer's transaction is doing
  feed        \* what each reader has been given

vars == <<event_seq, log, work, feed>>

Seq1 == Nat \ {0}
Event == [seq : Seq1, kind : Kind]

Work == [at : {"idle", "begun", "open", "allocated"}, match : Match \cup {Null},
         top : Nat, rows : SUBSET Event]
Feed == [match : Match \cup {Null}, last : Nat, rows : SUBSET Event]

NoWork == [at |-> "idle", match |-> Null, top |-> 0, rows |-> {}]
NoFeed == [match |-> Null, last |-> 0, rows |-> {}]

Init ==
  /\ event_seq = [m \in Match |-> 0]
  /\ log = [m \in Match |-> {}]
  /\ work = [w \in Writer |-> NoWork]
  /\ feed = [r \in Reader |-> NoFeed]

-----------------------------------------------------------------------------
\* The match row is held from the first allocation to the end.
Holds(w, m) == work[w].match = m /\ work[w].at \in {"open", "allocated"}

Begin(w, m) ==
  /\ work[w] = NoWork
  /\ work' = [work EXCEPT ![w] = [NoWork EXCEPT !.at = "begun", !.match = m]]
  /\ UNCHANGED <<event_seq, log, feed>>

\* Mutant: the number is read before it is incremented.
AllocateOld(w) == LET m == work[w].match IN
  /\ work[w].at = "begun"
  /\ \A v \in Writer \ {w} : ~Holds(v, m)
  /\ work' = [work EXCEPT ![w].at = "allocated", ![w].top = event_seq[m]]
  /\ UNCHANGED <<event_seq, log, feed>>

\* Mutant: the number is max(seq) + 1 of the committed log, under no lock.
AllocateUnlocked(w) == LET m == work[w].match IN
  /\ \/ /\ work[w].at = "begun"
        /\ event_seq[m] < MaxEvents
        /\ work' = [work EXCEPT ![w].at = "allocated", ![w].top = event_seq[m] + 1]
     \/ /\ work[w].at = "open"
        /\ work[w].top < MaxEvents
        /\ work' = [work EXCEPT ![w].at = "allocated", ![w].top = @ + 1]
  /\ UNCHANGED <<event_seq, log, feed>>

(***************************************************************************)
(* update matches set event_seq = event_seq + 1 ... returning event_seq:   *)
(* the first waits for the row and reads what was committed by then, a     *)
(* further one in the same transaction counts on from its own.             *)
(***************************************************************************)
Allocate(w) == LET m == work[w].match IN
  /\ \/ /\ work[w].at = "begun"
        /\ \A v \in Writer \ {w} : ~Holds(v, m)
        /\ event_seq[m] < MaxEvents
        /\ work' = [work EXCEPT ![w].at = "allocated", ![w].top = event_seq[m] + 1]
     \/ /\ work[w].at = "open"
        /\ work[w].top < MaxEvents
        /\ work' = [work EXCEPT ![w].at = "allocated", ![w].top = @ + 1]
  /\ UNCHANGED <<event_seq, log, feed>>

Insert(w, k) ==
  /\ work[w].at = "allocated"
  /\ work' = [work EXCEPT ![w].at = "open",
                          ![w].rows = @ \cup {[seq |-> work[w].top, kind |-> k]}]
  /\ UNCHANGED <<event_seq, log, feed>>

(***************************************************************************)
(* The insert fails and its savepoint takes the number back, and with the  *)
(* first number the lock that came with it.                                *)
(***************************************************************************)
Undo(w) ==
  /\ work[w].at = "allocated"
  /\ work' = IF work[w].rows = {}
                THEN [work EXCEPT ![w].at = "begun", ![w].top = 0]
                ELSE [work EXCEPT ![w].at = "open", ![w].top = @ - 1]
  /\ UNCHANGED <<event_seq, log, feed>>

Commit(w) == LET m == work[w].match IN
  /\ work[w].at = "open"
  /\ event_seq' = [event_seq EXCEPT ![m] = work[w].top]
  /\ log' = [log EXCEPT ![m] = @ \cup work[w].rows]
  /\ work' = [work EXCEPT ![w] = NoWork]
  /\ UNCHANGED feed

\* The whole transaction is rolled back, wherever it is.
Abort(w) ==
  /\ work[w] # NoWork
  /\ work' = [work EXCEPT ![w] = NoWork]
  /\ UNCHANGED <<event_seq, log, feed>>

-----------------------------------------------------------------------------
\* A client starts to follow a match, having seen nothing.
Follow(r, m) ==
  /\ feed[r].match # m
  /\ feed' = [feed EXCEPT ![r] = [NoFeed EXCEPT !.match = m]]
  /\ UNCHANGED <<event_seq, log, work>>

After(m, n) == {e \in log[m] : e.seq > n}

(***************************************************************************)
(* EventsAfter, and a client that resumes from the last event it was given *)
(***************************************************************************)
Resume(r) == LET new == After(feed[r].match, feed[r].last) IN
  /\ feed[r].match # Null
  /\ \E e \in new :
       /\ \A d \in new : d.seq <= e.seq
       /\ feed' = [feed EXCEPT ![r].last = e.seq, ![r].rows = @ \cup new]
  /\ UNCHANGED <<event_seq, log, work>>

Next ==
  \/ \E w \in Writer :
       \/ \E m \in Match : Begin(w, m)
       \/ Allocate(w)
       \/ \E k \in Kind : Insert(w, k)
       \/ Undo(w)
       \/ Commit(w)
       \/ Abort(w)
  \/ \E r \in Reader : (\E m \in Match : Follow(r, m)) \/ Resume(r)

Spec == Init /\ [][Next]_vars
-----------------------------------------------------------------------------
TypeOK ==
  /\ event_seq \in [Match -> Nat]
  /\ log \in [Match -> SUBSET Event]
  /\ work \in [Writer -> Work]
  /\ feed \in [Reader -> Feed]
  /\ \A w \in Writer :
       /\ work[w].at # "idle" => work[w].match \in Match
       /\ work[w].at = "allocated" => work[w].top > 0

(***************************************************************************)
(* The committed log holds exactly one event for each number from 1 to the *)
(* allocator: no number is given twice, and none is lost to a rollback.    *)
(***************************************************************************)
Gapless ==
  \A m \in Match :
    /\ {e.seq : e \in log[m]} = 1..event_seq[m]
    /\ \A d, e \in log[m] : d.seq = e.seq => d = e

(***************************************************************************)
(* A client that resumes after the last number it saw has missed nothing:  *)
(* it holds every event up to that number, and no event that commits later *)
(* can slip in behind it.                                                  *)
(***************************************************************************)
NothingMissed ==
  \A r \in Reader :
    feed[r].match # Null =>
      feed[r].rows = {e \in log[feed[r].match] : e.seq <= feed[r].last}
=============================================================================
