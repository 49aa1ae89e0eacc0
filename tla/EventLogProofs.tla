--------------------------- MODULE EventLogProofs ---------------------------
(***************************************************************************)
(* Proofs about the event log, for any number of matches, writers, readers *)
(* and events: type correctness, that the log has neither gaps nor         *)
(* duplicates, and that a reader who resumes misses nothing.               *)
(***************************************************************************)
EXTENDS EventLog, TLAPS

-----------------------------------------------------------------------------
\* The record of a writer's transaction, put together from its fields.
Doing(a, m, n, R) == [at |-> a, match |-> m, top |-> n, rows |-> R]

\* Fields of the right types make a well-typed transaction.
LEMMA DoingTyped ==
  ASSUME NEW a \in {"idle", "begun", "open", "allocated"}, NEW m \in Match \cup {Null},
         NEW n \in Nat, NEW R \in SUBSET Event
  PROVE  Doing(a, m, n, R) \in Work
BY DEF Work, Doing

\* A transaction is made of its fields, and they have their types.
LEMMA DoingFields ==
  ASSUME NEW t \in Work
  PROVE  /\ t = Doing(t.at, t.match, t.top, t.rows)
         /\ t.at \in {"idle", "begun", "open", "allocated"}
         /\ t.match \in Match \cup {Null}
         /\ t.top \in Nat
         /\ t.rows \in SUBSET Event
BY DEF Work, Doing

\* Begin opens a transaction with nothing in it.
LEMMA BeginMakes ==
  ASSUME TypeOK, NEW w \in Writer, NEW m \in Match, Begin(w, m)
  PROVE  work' = [work EXCEPT ![w] = Doing("begun", m, 0, {})]
<1> DEFINE t == [NoWork EXCEPT !.at = "begun", !.match = m]
<1>1. t \in Work /\ t.at = "begun" /\ t.match = m /\ t.top = 0 /\ t.rows = {}
  BY DEF NoWork, Work
<1>2. work' = [work EXCEPT ![w] = t]
  BY DEF Begin
<1> HIDE DEF t
<1> QED BY <1>1, <1>2, DoingFields

\* Allocate gives it the number after the committed or its own last one.
LEMMA AllocateMakes ==
  ASSUME TypeOK, NEW w \in Writer, Allocate(w)
  PROVE  /\ work[w].match \in Match
         /\ work[w].at \in {"begun", "open"}
         /\ LET m == work[w].match
                n == IF work[w].at = "begun" THEN event_seq[m] + 1 ELSE work[w].top + 1
            IN  work' = [work EXCEPT ![w] = Doing("allocated", m, n, work[w].rows)]
<1>1. work[w] \in Work /\ work \in [Writer -> Work]
  BY DEF TypeOK
<1>2. work[w].match \in Match
  BY DEF Allocate, TypeOK
<1>3. CASE work[w].at = "begun"
  BY <1>1, <1>2, <1>3 DEF Allocate, Doing, Work
<1>4. CASE work[w].at = "open"
  BY <1>1, <1>2, <1>4 DEF Allocate, Doing, Work
<1> QED BY <1>3, <1>4 DEF Allocate

\* Insert adds the event under the number just allocated.
LEMMA InsertMakes ==
  ASSUME TypeOK, NEW w \in Writer, NEW k \in Kind, Insert(w, k)
  PROVE  work' = [work EXCEPT ![w] =
           Doing("open", work[w].match, work[w].top,
                 work[w].rows \cup {[seq |-> work[w].top, kind |-> k]})]
<1> DEFINE R == work[w].rows \cup {[seq |-> work[w].top, kind |-> k]}
           t == [work[w] EXCEPT !.at = "open", !.rows = R]
<1>1. work[w] \in Work /\ work \in [Writer -> Work] /\ work[w].top > 0
  BY DEF TypeOK, Insert
<1>2. work' = [work EXCEPT ![w] = t]
  BY <1>1 DEF Insert
<1>3. [seq |-> work[w].top, kind |-> k] \in Event
  BY <1>1 DEF Event, Seq1, Work
<1>4. R \in SUBSET Event
  BY <1>1, <1>3 DEF Work
<1> HIDE DEF R
<1>5. /\ t \in Work /\ t.at = "open" /\ t.match = work[w].match
      /\ t.top = work[w].top /\ t.rows = R
  BY <1>1, <1>4 DEF Work
<1> HIDE DEF t
<1>6. work' = [work EXCEPT ![w] = Doing("open", work[w].match, work[w].top, R)]
  BY <1>2, <1>5, DoingFields
<1> QED BY <1>6 DEF R

\* Undo takes the number back, and the lock with the first.
LEMMA UndoMakes ==
  ASSUME TypeOK, NEW w \in Writer, Undo(w)
  PROVE  work' = [work EXCEPT ![w] =
           IF work[w].rows = {} THEN Doing("begun", work[w].match, 0, {})
           ELSE Doing("open", work[w].match, work[w].top - 1, work[w].rows)]
<1>1. work[w] \in Work /\ work \in [Writer -> Work]
  BY DEF TypeOK
<1> DEFINE b == [work[w] EXCEPT !.at = "begun", !.top = 0]
           o == [work[w] EXCEPT !.at = "open", !.top = work[w].top - 1]
<1>2. work[w].top - 1 \in Nat
  BY DEF Undo, TypeOK, Work
<1>3. b \in Work /\ b.at = "begun" /\ b.match = work[w].match /\ b.top = 0 /\ b.rows = work[w].rows
  BY <1>1 DEF Work
<1>4. /\ o \in Work /\ o.at = "open" /\ o.match = work[w].match
      /\ o.top = work[w].top - 1 /\ o.rows = work[w].rows
  BY <1>1, <1>2 DEF Work
<1>5. work' = IF work[w].rows = {} THEN [work EXCEPT ![w] = b] ELSE [work EXCEPT ![w] = o]
  BY <1>1 DEF Undo, Work
<1> HIDE DEF b, o
<1>6. /\ b = Doing("begun", work[w].match, 0, work[w].rows)
      /\ o = Doing("open", work[w].match, work[w].top - 1, work[w].rows)
  BY <1>3, <1>4, DoingFields
<1> QED BY <1>5, <1>6

-----------------------------------------------------------------------------
\* A step that only gives one writer a well-typed transaction is well typed.
LEMMA OneWriterTyped ==
  ASSUME TypeOK, NEW w \in Writer, NEW t,
         work' = [work EXCEPT ![w] = t],
         t \in Work,
         t.at # "idle" => t.match \in Match,
         t.at = "allocated" => t.top > 0,
         UNCHANGED <<event_seq, log, feed>>
  PROVE  TypeOK'
BY DEF TypeOK

\* Every step keeps the types.
LEMMA TypeStep == TypeOK /\ [Next]_vars => TypeOK'
<1> SUFFICES ASSUME TypeOK, [Next]_vars
             PROVE  TypeOK'
  OBVIOUS
<1>0. /\ event_seq \in [Match -> Nat] /\ log \in [Match -> SUBSET Event]
      /\ work \in [Writer -> Work] /\ feed \in [Reader -> Feed]
      /\ \A w \in Writer : /\ work[w].at # "idle" => work[w].match \in Match
                           /\ work[w].at = "allocated" => work[w].top > 0
  BY DEF TypeOK
<1>i. NoWork \in Work /\ NoWork.at = "idle"
  BY DEF NoWork, Work
<1>1. ASSUME NEW w \in Writer, NEW m \in Match, Begin(w, m)
      PROVE  TypeOK'
  <2>1. Doing("begun", m, 0, {}) \in Work
    BY DoingTyped
  <2>2. Doing("begun", m, 0, {}).match \in Match /\ Doing("begun", m, 0, {}).at = "begun"
    BY DEF Doing
  <2>3. UNCHANGED <<event_seq, log, feed>>
    BY <1>1 DEF Begin
  <2> QED BY <1>1, <2>1, <2>2, <2>3, BeginMakes, OneWriterTyped
<1>2. ASSUME NEW w \in Writer, Allocate(w)
      PROVE  TypeOK'
  <2> DEFINE m == work[w].match
             n == IF work[w].at = "begun" THEN event_seq[m] + 1 ELSE work[w].top + 1
             t == Doing("allocated", m, n, work[w].rows)
  <2>1. m \in Match /\ work' = [work EXCEPT ![w] = t]
    BY <1>2, AllocateMakes
  <2>2. work[w].top \in Nat /\ work[w].rows \in SUBSET Event
    BY <1>0, DoingFields
  <2>3. n \in Nat /\ n > 0
    BY <1>0, <2>1, <2>2
  <2>4. t \in Work
    BY <2>1, <2>2, <2>3, DoingTyped
  <2>5. t.match = m /\ t.top = n
    BY DEF Doing
  <2>6. UNCHANGED <<event_seq, log, feed>>
    BY <1>2 DEF Allocate
  <2> HIDE DEF t
  <2> QED BY <2>1, <2>3, <2>4, <2>5, <2>6, OneWriterTyped
<1>3. ASSUME NEW w \in Writer, NEW k \in Kind, Insert(w, k)
      PROVE  TypeOK'
  <2> DEFINE R == work[w].rows \cup {[seq |-> work[w].top, kind |-> k]}
             t == Doing("open", work[w].match, work[w].top, R)
  <2>1. work[w].match \in Match /\ work[w].top > 0
    BY <1>0, <1>3 DEF Insert
  <2>2. work[w].top \in Nat /\ work[w].rows \in SUBSET Event
    BY <1>0, DoingFields
  <2>3. [seq |-> work[w].top, kind |-> k] \in Event
    BY <2>1, <2>2 DEF Event, Seq1
  <2>4. R \in SUBSET Event
    BY <2>2, <2>3
  <2>5. t \in Work
    BY <2>1, <2>2, <2>4, DoingTyped
  <2>6. t.match = work[w].match /\ t.at = "open"
    BY DEF Doing
  <2>7. work' = [work EXCEPT ![w] = t] /\ UNCHANGED <<event_seq, log, feed>>
    BY <1>3, InsertMakes DEF Insert
  <2> HIDE DEF t
  <2> QED BY <2>1, <2>5, <2>6, <2>7, OneWriterTyped
<1>4. ASSUME NEW w \in Writer, Undo(w)
      PROVE  TypeOK'
  <2> DEFINE t == IF work[w].rows = {} THEN Doing("begun", work[w].match, 0, {})
                  ELSE Doing("open", work[w].match, work[w].top - 1, work[w].rows)
  <2>1. work[w].match \in Match /\ work[w].top > 0
    BY <1>0, <1>4 DEF Undo
  <2>2. work[w].top - 1 \in Nat /\ work[w].rows \in SUBSET Event
    BY <1>0, <2>1, DoingFields
  <2>3. t \in Work
    BY <2>1, <2>2, DoingTyped
  <2>4. t.match = work[w].match /\ t.at \in {"begun", "open"}
    BY DEF Doing
  <2>5. work' = [work EXCEPT ![w] = t] /\ UNCHANGED <<event_seq, log, feed>>
    BY <1>4, UndoMakes DEF Undo
  <2> HIDE DEF t
  <2> QED BY <2>1, <2>3, <2>4, <2>5, OneWriterTyped
<1>5. ASSUME NEW w \in Writer, Commit(w)
      PROVE  TypeOK'
  <2>1. work[w].match \in Match /\ work[w].top \in Nat /\ work[w].rows \in SUBSET Event
    BY <1>0, <1>5, DoingFields DEF Commit
  <2> QED BY <1>0, <1>i, <1>5, <2>1 DEF Commit, TypeOK
<1>6. ASSUME NEW w \in Writer, Abort(w)
      PROVE  TypeOK'
  BY <1>i, <1>6, OneWriterTyped DEF Abort
<1>7. ASSUME NEW r \in Reader, NEW m \in Match, Follow(r, m)
      PROVE  TypeOK'
  <2>1. [NoFeed EXCEPT !.match = m] \in Feed
    BY DEF NoFeed, Feed
  <2> QED BY <1>0, <1>7, <2>1 DEF Follow, TypeOK
<1>8. ASSUME NEW r \in Reader, Resume(r)
      PROVE  TypeOK'
  <2> DEFINE new == After(feed[r].match, feed[r].last)
  <2>1. PICK e \in new : feed' = [feed EXCEPT ![r].last = e.seq, ![r].rows = @ \cup new]
    BY <1>8 DEF Resume
  <2>2. feed[r] \in Feed /\ feed[r].match \in Match
    BY <1>0, <1>8 DEF Resume, Feed
  <2>3. new \in SUBSET Event
    BY <1>0, <2>2 DEF After
  <2>4. e.seq \in Nat
    BY <2>3 DEF Event, Seq1
  <2>5. feed[r].rows \cup new \in SUBSET Event
    BY <2>2, <2>3 DEF Feed
  <2> HIDE DEF new
  <2>6. feed' \in [Reader -> Feed]
    BY <1>0, <2>1, <2>2, <2>4, <2>5 DEF Feed
  <2> QED BY <1>0, <1>8, <2>6 DEF Resume, TypeOK
<1>9. CASE UNCHANGED vars
  BY <1>9 DEF vars, TypeOK
<1> QED
  BY <1>1, <1>2, <1>3, <1>4, <1>5, <1>6, <1>7, <1>8, <1>9 DEF Next

\* Allocators, logs, transactions and feeds always have their types.
THEOREM EventLogTyped == Spec => []TypeOK
<1>1. Init => TypeOK
  BY DEF Init, TypeOK, NoWork, NoFeed, Work, Feed
<1> QED BY <1>1, TypeStep, PTL DEF Spec

-----------------------------------------------------------------------------
(***************************************************************************)
(* The inductive invariant.  A transaction that has allocated holds the    *)
(* match row alone, its rows are exactly the numbers between the committed *)
(* allocator and its own last one, and no reader is ahead of the allocator.*)
(***************************************************************************)
Covers(R, lo, hi) ==
  /\ \A e \in R : lo < e.seq /\ e.seq <= hi
  /\ \A i \in Nat : lo < i /\ i <= hi => \E e \in R : e.seq = i
  /\ \A d, e \in R : d.seq = e.seq => d = e

OneHolder == \A m \in Match, v, w \in Writer : Holds(v, m) /\ Holds(w, m) => v = w

Complete(t) ==
  /\ t.at = "begun" => t.rows = {}
  /\ t.at = "open" => event_seq[t.match] <= t.top /\ Covers(t.rows, event_seq[t.match], t.top)
  /\ t.at = "allocated" =>
       event_seq[t.match] < t.top /\ Covers(t.rows, event_seq[t.match], t.top - 1)

AllComplete == \A w \in Writer : Complete(work[w])
LogCovered == \A m \in Match : Covers(log[m], 0, event_seq[m])
NoneAhead == \A r \in Reader : feed[r].match # Null => feed[r].last <= event_seq[feed[r].match]

LogInv == TypeOK /\ OneHolder /\ AllComplete /\ LogCovered /\ NoneAhead /\ NothingMissed

\* Consecutive runs of events join into one.
LEMMA CoversJoin ==
  ASSUME NEW R \in SUBSET Event, NEW S \in SUBSET Event,
         NEW lo \in Nat, NEW mid \in Nat, NEW hi \in Nat, lo <= mid, mid <= hi,
         Covers(R, lo, mid), Covers(S, mid, hi)
  PROVE  Covers(R \cup S, lo, hi)
<1>1. \A e \in Event : e.seq \in Nat
  BY DEF Event, Seq1
<1>2. \A e \in R \cup S : lo < e.seq /\ e.seq <= hi
  BY <1>1 DEF Covers
<1>3. \A i \in Nat : lo < i /\ i <= hi => \E e \in R \cup S : e.seq = i
  BY DEF Covers
<1>4. ASSUME NEW d \in R \cup S, NEW e \in R \cup S, d.seq = e.seq
      PROVE  d = e
  BY <1>1, <1>4 DEF Covers
<1> QED BY <1>2, <1>3, <1>4 DEF Covers

\* An event is a run of one.
LEMMA CoversOne ==
  ASSUME NEW n \in Nat, n > 0, NEW k
  PROVE  Covers({[seq |-> n, kind |-> k]}, n - 1, n)
BY DEF Covers

\* No event at all is an empty run.
LEMMA CoversNone ==
  ASSUME NEW n \in Nat
  PROVE  Covers({}, n, n)
BY DEF Covers

(***************************************************************************)
(* A step of one writer's transaction that commits nothing keeps the       *)
(* invariant, if it keeps that transaction complete and takes no row that  *)
(* another holds.                                                          *)
(***************************************************************************)
LEMMA OneWriterKeeps ==
  ASSUME LogInv, TypeOK', NEW w \in Writer, NEW t, t \in Work,
         work' = [work EXCEPT ![w] = t], Complete(t),
         t.at \in {"open", "allocated"} =>
           \A v \in Writer \ {w} : ~Holds(v, t.match),
         UNCHANGED <<event_seq, log, feed>>
  PROVE  LogInv'
<1>1. work \in [Writer -> Work]
  BY DEF LogInv, TypeOK
<1>2. \A v \in Writer : work'[v] = IF v = w THEN t ELSE work[v]
  BY <1>1
<1>3. OneHolder'
  BY <1>2 DEF LogInv, OneHolder, Holds
<1>4. AllComplete'
  BY <1>2 DEF LogInv, AllComplete, Complete
<1>5. LogCovered' /\ NoneAhead' /\ NothingMissed'
  BY DEF LogInv, LogCovered, NoneAhead, NothingMissed
<1> QED BY <1>3, <1>4, <1>5 DEF LogInv

\* One step per action: nothing disturbs the invariant.
LEMMA LogStep == LogInv /\ [Next]_vars => LogInv'
<1> SUFFICES ASSUME LogInv, [Next]_vars
             PROVE  LogInv'
  OBVIOUS
<1>t. TypeOK /\ TypeOK'
  BY TypeStep DEF LogInv
<1>0. /\ event_seq \in [Match -> Nat] /\ log \in [Match -> SUBSET Event]
      /\ work \in [Writer -> Work] /\ feed \in [Reader -> Feed]
      /\ \A w \in Writer : /\ work[w].at # "idle" => work[w].match \in Match
                           /\ work[w].at = "allocated" => work[w].top > 0
  BY <1>t DEF TypeOK
<1>s. \A e \in Event : e.seq \in Nat
  BY DEF Event, Seq1
<1>f. ASSUME NEW a \in {"idle", "begun", "open", "allocated"}, NEW m \in Match,
             NEW n, NEW R
      PROVE  /\ Doing(a, m, n, R).at = a /\ Doing(a, m, n, R).match = m
             /\ Doing(a, m, n, R).top = n /\ Doing(a, m, n, R).rows = R
  BY DEF Doing
<1>1. ASSUME NEW w \in Writer, NEW m \in Match, Begin(w, m)
      PROVE  LogInv'
  <2> DEFINE t == Doing("begun", m, 0, {})
  <2>1. t \in Work
    BY DoingTyped
  <2>2. t.at = "begun" /\ t.rows = {}
    BY <1>f
  <2>3. work' = [work EXCEPT ![w] = t] /\ UNCHANGED <<event_seq, log, feed>>
    BY <1>1, <1>t, BeginMakes DEF Begin
  <2> HIDE DEF t
  <2> QED BY <1>t, <2>1, <2>2, <2>3, OneWriterKeeps DEF Complete
<1>2. ASSUME NEW w \in Writer, Allocate(w)
      PROVE  LogInv'
  <2> DEFINE m == work[w].match
             n == IF work[w].at = "begun" THEN event_seq[m] + 1 ELSE work[w].top + 1
             t == Doing("allocated", m, n, work[w].rows)
  <2>1. m \in Match /\ work[w].at \in {"begun", "open"} /\ work' = [work EXCEPT ![w] = t]
    BY <1>2, <1>t, AllocateMakes
  <2>2. work[w].top \in Nat /\ work[w].rows \in SUBSET Event /\ event_seq[m] \in Nat
    BY <1>0, <2>1, DoingFields
  <2>3. n \in Nat
    BY <2>1, <2>2
  <2>4. t \in Work
    BY <2>1, <2>2, <2>3, DoingTyped
  <2>5. t.at = "allocated" /\ t.match = m /\ t.top = n /\ t.rows = work[w].rows
    BY <2>1, <1>f
  <2>6. event_seq[m] < n /\ Covers(work[w].rows, event_seq[m], n - 1)
    <3>1. CASE work[w].at = "begun"
      <4>1. work[w].rows = {} /\ n = event_seq[m] + 1
        BY <3>1 DEF LogInv, AllComplete, Complete
      <4>2. Covers({}, event_seq[m], event_seq[m]) /\ n - 1 = event_seq[m]
        BY <2>2, <4>1, CoversNone
      <4> QED BY <2>2, <4>1, <4>2
    <3>2. CASE work[w].at = "open"
      <4>1. n = work[w].top + 1 /\ event_seq[m] <= work[w].top
            /\ Covers(work[w].rows, event_seq[m], work[w].top)
        BY <3>2 DEF LogInv, AllComplete, Complete
      <4>2. n - 1 = work[w].top
        BY <2>2, <4>1
      <4> QED BY <2>2, <4>1, <4>2
    <3> QED BY <2>1, <3>1, <3>2
  <2>7. \A v \in Writer \ {w} : ~Holds(v, m)
    <3>1. CASE work[w].at = "begun"
      BY <1>2, <3>1 DEF Allocate
    <3>2. CASE work[w].at = "open"
      BY <2>1, <3>2 DEF LogInv, OneHolder, Holds
    <3> QED BY <2>1, <3>1, <3>2
  <2>8. UNCHANGED <<event_seq, log, feed>>
    BY <1>2 DEF Allocate
  <2> HIDE DEF t, n, m
  <2>9. Complete(t)
    BY <2>5, <2>6 DEF Complete
  <2> QED BY <1>t, <2>1, <2>4, <2>5, <2>7, <2>8, <2>9, OneWriterKeeps
<1>3. ASSUME NEW w \in Writer, NEW k \in Kind, Insert(w, k)
      PROVE  LogInv'
  <2> DEFINE m == work[w].match
             n == work[w].top
             e == [seq |-> n, kind |-> k]
             t == Doing("open", m, n, work[w].rows \cup {e})
  <2>1. /\ m \in Match /\ n \in Nat /\ n > 0 /\ work[w].rows \in SUBSET Event
        /\ event_seq[m] \in Nat /\ work[w].at = "allocated"
    BY <1>0, <1>3, DoingFields DEF Insert
  <2>2. e \in Event
    BY <2>1 DEF Event, Seq1
  <2>3. Covers({e}, n - 1, n)
    BY <2>1, CoversOne
  <2>4. event_seq[m] < n /\ Covers(work[w].rows, event_seq[m], n - 1)
    BY <2>1 DEF LogInv, AllComplete, Complete
  <2>5. work' = [work EXCEPT ![w] = t] /\ UNCHANGED <<event_seq, log, feed>>
    BY <1>3, <1>t, InsertMakes DEF Insert
  <2>6. \A v \in Writer \ {w} : ~Holds(v, m)
    BY <2>1 DEF LogInv, OneHolder, Holds
  <2> HIDE DEF m, n, e
  <2>7. {e} \in SUBSET Event /\ n - 1 \in Nat /\ event_seq[m] <= n - 1 /\ n - 1 <= n
    BY <2>1, <2>2, <2>4
  <2>8. Covers(work[w].rows \cup {e}, event_seq[m], n)
    BY <2>1, <2>3, <2>4, <2>7, CoversJoin
  <2>9. t \in Work
    BY <2>1, <2>7, DoingTyped
  <2>10. t.at = "open" /\ t.match = m /\ t.top = n /\ t.rows = work[w].rows \cup {e}
    BY <2>1, <1>f
  <2> HIDE DEF t
  <2>11. Complete(t)
    BY <2>1, <2>4, <2>8, <2>10 DEF Complete
  <2> QED BY <1>t, <2>5, <2>6, <2>9, <2>10, <2>11, OneWriterKeeps
<1>4. ASSUME NEW w \in Writer, Undo(w)
      PROVE  LogInv'
  <2> DEFINE m == work[w].match
             n == work[w].top
  <2>1. /\ m \in Match /\ n \in Nat /\ n > 0 /\ work[w].rows \in SUBSET Event
        /\ event_seq[m] \in Nat /\ work[w].at = "allocated"
    BY <1>0, <1>4, DoingFields DEF Undo
  <2>2. event_seq[m] < n /\ Covers(work[w].rows, event_seq[m], n - 1)
    BY <2>1 DEF LogInv, AllComplete, Complete
  <2>3. \A v \in Writer \ {w} : ~Holds(v, m)
    BY <2>1 DEF LogInv, OneHolder, Holds
  <2>4. UNCHANGED <<event_seq, log, feed>>
    BY <1>4 DEF Undo
  <2>5. CASE work[w].rows = {}
    <3> DEFINE t == Doing("begun", m, 0, {})
    <3>1. work' = [work EXCEPT ![w] = t]
      BY <1>4, <1>t, <2>5, UndoMakes
    <3>2. t \in Work
      BY <2>1, DoingTyped
    <3>3. t.at = "begun" /\ t.rows = {}
      BY <2>1, <1>f
    <3> HIDE DEF t
    <3> QED BY <1>t, <2>4, <3>1, <3>2, <3>3, OneWriterKeeps DEF Complete
  <2>6. CASE work[w].rows # {}
    <3> DEFINE t == Doing("open", m, n - 1, work[w].rows)
    <3>1. work' = [work EXCEPT ![w] = t]
      BY <1>4, <1>t, <2>6, UndoMakes
    <3>2. t \in Work /\ n - 1 \in Nat
      BY <2>1, DoingTyped
    <3>3. t.at = "open" /\ t.match = m /\ t.top = n - 1 /\ t.rows = work[w].rows
      BY <2>1, <1>f
    <3> HIDE DEF t, m, n
    <3>4. Complete(t)
      BY <2>1, <2>2, <3>3 DEF Complete
    <3> QED BY <1>t, <2>3, <2>4, <3>1, <3>2, <3>3, <3>4, OneWriterKeeps
  <2> QED BY <2>5, <2>6
<1>5. ASSUME NEW w \in Writer, Commit(w)
      PROVE  LogInv'
  <2> DEFINE m == work[w].match
             n == work[w].top
             R == work[w].rows
  <2>1. /\ m \in Match /\ n \in Nat /\ R \in SUBSET Event /\ event_seq[m] \in Nat
        /\ log[m] \in SUBSET Event /\ work[w].at = "open"
    BY <1>0, <1>5, DoingFields DEF Commit
  <2>2. event_seq[m] <= n /\ Covers(R, event_seq[m], n)
    BY <2>1 DEF LogInv, AllComplete, Complete
  <2>3. Covers(log[m] \cup R, 0, n)
    BY <2>1, <2>2, CoversJoin DEF LogInv, LogCovered
  <2>4. /\ event_seq' = [event_seq EXCEPT ![m] = n]
        /\ log' = [log EXCEPT ![m] = log[m] \cup R]
        /\ work' = [work EXCEPT ![w] = NoWork]
        /\ feed' = feed
    BY <1>5 DEF Commit
  <2>5. \A v \in Writer \ {w} : ~Holds(v, m)
    BY <2>1 DEF LogInv, OneHolder, Holds
  <2> HIDE DEF m, n, R
  <2>6. OneHolder'
    BY <1>0, <2>4 DEF LogInv, OneHolder, Holds, NoWork
  <2>7. AllComplete'
    <3> SUFFICES ASSUME NEW v \in Writer
                 PROVE  Complete(work[v])'
      BY DEF AllComplete
    <3>1. CASE v = w
      BY <1>0, <2>4, <3>1 DEF Complete, NoWork
    <3>2. CASE v # w
      <4>1. work'[v] = work[v] /\ Complete(work[v])
        BY <1>0, <2>4, <3>2 DEF LogInv, AllComplete
      <4>2. work[v].at \in {"open", "allocated"} => event_seq'[work[v].match] = event_seq[work[v].match]
        BY <1>0, <2>4, <2>5, <3>2 DEF Holds
      <4> QED BY <4>1, <4>2 DEF Complete
    <3> QED BY <3>1, <3>2
  <2>8. LogCovered'
    BY <1>0, <2>3, <2>4 DEF LogInv, LogCovered
  <2>9. NoneAhead'
    <3> SUFFICES ASSUME NEW r \in Reader, feed[r].match # Null
                 PROVE  feed[r].last <= event_seq'[feed[r].match]
      BY <2>4 DEF NoneAhead
    <3>1. feed[r].match \in Match /\ feed[r].last \in Nat
      BY <1>0 DEF Feed
    <3>2. feed[r].last <= event_seq[feed[r].match]
      BY DEF LogInv, NoneAhead
    <3> QED BY <1>0, <2>1, <2>2, <2>4, <3>1, <3>2
  <2>10. NothingMissed'
    <3> SUFFICES ASSUME NEW r \in Reader, feed[r].match # Null
                 PROVE  feed[r].rows = {e \in log'[feed[r].match] : e.seq <= feed[r].last}
      BY <2>4 DEF NothingMissed
    <3>1. feed[r].match \in Match /\ feed[r].last \in Nat
      BY <1>0 DEF Feed
    <3>2. /\ feed[r].last <= event_seq[feed[r].match]
          /\ feed[r].rows = {e \in log[feed[r].match] : e.seq <= feed[r].last}
      BY DEF LogInv, NoneAhead, NothingMissed
    <3>3. CASE feed[r].match = m
      <4>1. \A e \in R : ~(e.seq <= feed[r].last)
        BY <1>s, <2>1, <2>2, <3>1, <3>2, <3>3 DEF Covers
      <4> QED BY <1>0, <2>1, <2>4, <3>2, <3>3, <4>1
    <3>4. CASE feed[r].match # m
      BY <1>0, <2>4, <3>1, <3>2, <3>4
    <3> QED BY <3>3, <3>4
  <2> QED BY <1>t, <2>6, <2>7, <2>8, <2>9, <2>10 DEF LogInv
<1>6. ASSUME NEW w \in Writer, Abort(w)
      PROVE  LogInv'
  <2>1. NoWork \in Work /\ NoWork.at = "idle"
    BY DEF NoWork, Work
  <2> QED BY <1>6, <1>t, <2>1, OneWriterKeeps DEF Abort, Complete
<1>7. ASSUME NEW r \in Reader, NEW m \in Match, Follow(r, m)
      PROVE  LogInv'
  <2>1. /\ feed' = [feed EXCEPT ![r] = [NoFeed EXCEPT !.match = m]]
        /\ event_seq' = event_seq /\ log' = log /\ work' = work
    BY <1>7 DEF Follow
  <2>2. /\ [NoFeed EXCEPT !.match = m].match = m
        /\ [NoFeed EXCEPT !.match = m].last = 0
        /\ [NoFeed EXCEPT !.match = m].rows = {}
    BY DEF NoFeed
  <2>3. OneHolder' /\ AllComplete' /\ LogCovered'
    BY <2>1 DEF LogInv, OneHolder, Holds, AllComplete, Complete, LogCovered
  <2>4. NoneAhead'
    BY <1>0, <2>1, <2>2 DEF LogInv, NoneAhead
  <2>5. \A e \in log[m] : ~(e.seq <= 0)
    BY <1>0, <1>s DEF LogInv, LogCovered, Covers
  <2>6. NothingMissed'
    BY <1>0, <2>1, <2>2, <2>5 DEF LogInv, NothingMissed
  <2> QED BY <1>t, <2>3, <2>4, <2>6 DEF LogInv
<1>8. ASSUME NEW r \in Reader, Resume(r)
      PROVE  LogInv'
  <2> DEFINE m == feed[r].match
             new == After(m, feed[r].last)
  <2>1. PICK e \in new :
          /\ \A d \in new : d.seq <= e.seq
          /\ feed' = [feed EXCEPT ![r].last = e.seq, ![r].rows = @ \cup new]
    BY <1>8 DEF Resume
  <2>2. event_seq' = event_seq /\ log' = log /\ work' = work
    BY <1>8 DEF Resume
  <2>3. m \in Match /\ m # Null /\ feed[r].last \in Nat /\ feed[r] \in Feed
    BY <1>0, <1>8 DEF Resume, Feed
  <2>4. e \in log[m] /\ e.seq \in Nat /\ feed[r].last < e.seq /\ e.seq <= event_seq[m]
    BY <1>0, <1>s, <2>1, <2>3 DEF After, LogInv, LogCovered, Covers
  <2>5. /\ \A q \in Reader \ {r} : feed'[q] = feed[q]
        /\ feed'[r].match = m /\ feed'[r].last = e.seq
        /\ feed'[r].rows = feed[r].rows \cup new
    BY <1>0, <2>1, <2>3 DEF Feed
  <2>6. OneHolder' /\ AllComplete' /\ LogCovered'
    BY <2>2 DEF LogInv, OneHolder, Holds, AllComplete, Complete, LogCovered
  <2>7. NoneAhead'
    BY <2>2, <2>4, <2>5 DEF LogInv, NoneAhead
  <2>8. feed[r].rows = {d \in log[m] : d.seq <= feed[r].last}
    BY <2>3 DEF LogInv, NothingMissed
  <2>9. feed[r].rows \cup new = {d \in log[m] : d.seq <= e.seq}
    <3>1. \A d \in log[m] : d.seq \in Nat
      BY <1>0, <1>s, <2>3
    <3> QED BY <2>1, <2>3, <2>4, <2>8, <3>1 DEF After
  <2>10. NothingMissed'
    BY <2>2, <2>5, <2>9 DEF LogInv, NothingMissed
  <2> QED BY <1>t, <2>6, <2>7, <2>10 DEF LogInv
<1>9. CASE UNCHANGED vars
  <2>1. event_seq' = event_seq /\ log' = log /\ work' = work /\ feed' = feed
    BY <1>9 DEF vars
  <2> QED BY <1>t, <2>1 DEF LogInv, OneHolder, Holds, AllComplete, Complete, LogCovered,
                         NoneAhead, NothingMissed
<1> QED
  BY <1>1, <1>2, <1>3, <1>4, <1>5, <1>6, <1>7, <1>8, <1>9 DEF Next

\* The log is empty and its allocator at zero to begin with.
LEMMA LogInit == Init => LogInv
<1> SUFFICES ASSUME Init
             PROVE  LogInv
  OBVIOUS
<1>1. TypeOK
  BY DEF Init, TypeOK, NoWork, NoFeed, Work, Feed
<1>2. \A m \in Match : Covers({}, 0, 0)
  BY CoversNone
<1>3. OneHolder /\ AllComplete /\ NoneAhead
  BY DEF Init, OneHolder, Holds, AllComplete, Complete, NoneAhead, NoWork, NoFeed
<1>4. LogCovered /\ NothingMissed
  BY <1>2 DEF Init, LogCovered, NothingMissed, NoFeed
<1> QED BY <1>1, <1>3, <1>4 DEF LogInv

(***************************************************************************)
(* The committed log of every match holds exactly one event for each       *)
(* number up to the allocator (events.go, AppendEvent).                    *)
(***************************************************************************)
THEOREM LogIsGapless == Spec => []Gapless
<1>1. LogInv => Gapless
  <2> SUFFICES ASSUME LogInv, NEW m \in Match
               PROVE  /\ {e.seq : e \in log[m]} = 1..event_seq[m]
                      /\ \A d, e \in log[m] : d.seq = e.seq => d = e
    BY DEF Gapless
  <2>1. Covers(log[m], 0, event_seq[m]) /\ event_seq[m] \in Nat /\ log[m] \in SUBSET Event
    BY DEF LogInv, LogCovered, TypeOK
  <2>2. \A e \in log[m] : e.seq \in Nat
    BY <2>1 DEF Event, Seq1
  <2> QED BY <2>1, <2>2 DEF Covers
<1> QED BY <1>1, LogInit, LogStep, PTL DEF Spec

(***************************************************************************)
(* A reader who resumes after the last number it was given holds every     *)
(* event up to that number (events.go, EventsAfter).                       *)
(***************************************************************************)
THEOREM ReadersMissNothing == Spec => []NothingMissed
<1>1. LogInv => NothingMissed
  BY DEF LogInv
<1> QED BY <1>1, LogInit, LogStep, PTL DEF Spec
=============================================================================
