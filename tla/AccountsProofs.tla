--------------------------- MODULE AccountsProofs ---------------------------
(***************************************************************************)
(* Proofs about accounts and sessions, for any number of tabs, browsers,   *)
(* forms and capitalisations: that accounts and ratings stay whole, and    *)
(* that nobody is let in but by a session that is theirs and not over.     *)
(***************************************************************************)
EXTENDS Accounts, FiniteSetTheorems, TLAPS

-----------------------------------------------------------------------------
(***************************************************************************)
(* The inductive invariant.                                                *)
(***************************************************************************)
Account == [id : Nat, email : Emails, username : Usernames,
            hash : [of : Typed, cheap : BOOLEAN], chose : Typed]

\* The rows of users and ratings.
Whole ==
  /\ IsFiniteSet(users) /\ users \subseteq Account
  /\ \A u \in users : u.id \in 1..Cardinality(users) /\ u.hash.of = u.chose
  /\ \A u, v \in users : u.id = v.id \/ Collides(u, v) => u = v
  /\ ratings = {u.id : u \in users}

\* An account that is opened by a password.
Opened(rows, id, password) == \E u \in rows : u.id = id /\ u.chose = password

Session == [user : Nat, start : Int, expires : Int, typed : Typed]

(***************************************************************************)
(* A session belongs to who typed the password, lasts a lifetime from its  *)
(* start but for the skew, and is gone once its logout was answered; no    *)
(* token is handed out twice.                                              *)
(***************************************************************************)
Kept(k) == sessions[k] # Null =>
  /\ k <= minted /\ k \notin ended
  /\ sessions[k] \in Session
  /\ Opened(users, sessions[k].user, sessions[k].typed)
  /\ \E skew \in Skew : sessions[k].expires = sessions[k].start + skew + Lifetime

Issued == {k \in Token : k <= minted}

Sessions ==
  /\ minted \in 0..MaxTokens /\ now \in 0..MaxTime /\ faults \in 0..MaxFaults
  /\ sessions = [k \in Token |-> sessions[k]]
  /\ \A k \in Token : Kept(k)
  /\ cookie \in [Browser -> Issued \cup {Null}]
  /\ ended \subseteq Issued

\* Everything a form can be: one that was typed, or a password alone.
FormOrPart == Forms \cup {[NoForm EXCEPT !.password = p] : p \in Typed \cup {Null}}

Step == {"idle", "register", "insert user", "insert rating", "commit user",
         "rehash", "open", "authenticate", "handle", "logout"}

Answer == {"invalid", "taken", "created", "no match", "in", "error", "no session",
           "served", "out"}

Request == [at : Step, form : FormOrPart, user : Nat \cup {Null},
            token : Nat \cup {Null}, answer : Answer \cup {Null}]

Checked(form) == form \in Forms /\ form.email \in Emails /\ form.username \in Usernames
Inserted(q) == q.at \in {"insert rating", "commit user"}
Minter(q) == q.at \in {"rehash", "open"}

\* What a request has found out on its way, of the accounts there are and the
\* tokens that were made.
Sound(q, rows, made) ==
  /\ q \in Request
  /\ q.at = "register" => q.form \in Forms
  /\ q.at = "insert user" \/ Inserted(q) => Checked(q.form)
  /\ Inserted(q) => \A u \in rows : ~Collides(u, q.form)
  /\ Minter(q) => q.form.password \in Typed /\ Opened(rows, q.user, q.form.password)
  /\ q.at \in {"authenticate", "handle", "logout"} => q.token \in Token /\ q.token <= made
  /\ q.answer = "created" =>
       \E u \in rows : u.email = q.form.email /\ u.username = q.form.username
  /\ q.answer = "taken" => \E u \in rows : Collides(u, q.form)

Requests ==
  /\ tab \in [Tab -> Request]
  /\ \A t \in Tab : Sound(tab[t], users, minted)
  /\ \A t, u \in Tab : t # u /\ Inserted(tab[t]) /\ Inserted(tab[u]) =>
                         ~Collides(tab[t].form, tab[u].form)

\* Every login under way has a token left to mint.
Minting == {t \in Tab : Minter(tab[t])}
Room == minted + Cardinality(Minting) <= MaxTokens

IInv == Whole /\ Sessions /\ Requests /\ Room

-----------------------------------------------------------------------------
(***************************************************************************)
(* Requests, one at a time.  Accounts stay, with all that identifies them, *)
(* so what a request found out of them stays true.                         *)
(***************************************************************************)
Later(rows, then) == \A u \in rows : \E v \in then :
  v.id = u.id /\ v.email = u.email /\ v.username = u.username /\ v.chose = u.chose

LEMMA Counters ==
  ASSUME IInv
  PROVE  /\ minted \in Nat /\ minted <= minted /\ MaxTokens \in Nat
         /\ now \in 0..MaxTime /\ faults \in 0..MaxFaults
BY AccountsAssumption DEF IInv, Sessions

LEMMA OpenedStays ==
  ASSUME NEW rows, NEW then, Later(rows, then), NEW id, NEW password,
         Opened(rows, id, password)
  PROVE  Opened(then, id, password)
BY DEF Later, Opened

LEMMA SoundStays ==
  ASSUME NEW rows, NEW then, Later(rows, then), NEW made \in Nat, NEW more \in Nat,
         made <= more, NEW q, Sound(q, rows, made),
         Inserted(q) => \A u \in then : ~Collides(u, q.form)
  PROVE  Sound(q, then, more)
<1>1. Minter(q) => Opened(then, q.user, q.form.password)
  BY OpenedStays DEF Sound
<1>2. q.answer = "created" =>
        \E u \in then : u.email = q.form.email /\ u.username = q.form.username
  <2> SUFFICES ASSUME q.answer = "created"
               PROVE  \E u \in then : u.email = q.form.email /\ u.username = q.form.username
    OBVIOUS
  <2>1. PICK u \in rows : u.email = q.form.email /\ u.username = q.form.username
    BY DEF Sound
  <2> QED BY <2>1 DEF Later
<1>3. q.answer = "taken" => \E u \in then : Collides(u, q.form)
  <2> SUFFICES ASSUME q.answer = "taken"
               PROVE  \E u \in then : Collides(u, q.form)
    OBVIOUS
  <2>1. PICK u \in rows : Collides(u, q.form)
    BY DEF Sound
  <2>2. PICK v \in then : v.email = u.email /\ v.username = u.username
    BY DEF Later
  <2>3. Collides(v, q.form)
    BY <2>1, <2>2 DEF Collides
  <2> QED BY <2>3
<1>4. q.token \in Token /\ q.token <= made => q.token <= more
  BY AccountsAssumption DEF Token
<1> QED BY <1>1, <1>2, <1>3, <1>4 DEF Sound

LEMMA OneRequestMoves ==
  ASSUME Requests, NEW t \in Tab, NEW q, tab' = [tab EXCEPT ![t] = q],
         minted \in Nat, minted' \in Nat, minted <= minted',
         Later(users, users'), Sound(q, users', minted'),
         \A u \in Tab \ {t} : Inserted(tab[u]) =>
           /\ \A v \in users' : ~Collides(v, tab[u].form)
           /\ Inserted(q) => ~Collides(tab[u].form, q.form)
  PROVE  Requests'
<1>1. tab' \in [Tab -> Request] /\ tab'[t] = q
  BY DEF Requests, Sound
<1>2. \A u \in Tab \ {t} : tab'[u] = tab[u]
  BY DEF Requests
<1>3. \A u \in Tab : Sound(tab'[u], users', minted')
  BY <1>1, <1>2, SoundStays DEF Requests
<1>4. \A x, y : Collides(x, y) <=> Collides(y, x)
  BY DEF Collides, Same
<1>5. \A u, v \in Tab : u # v /\ Inserted(tab'[u]) /\ Inserted(tab'[v]) =>
                          ~Collides(tab'[u].form, tab'[v].form)
  BY <1>1, <1>2, <1>4 DEF Requests
<1> QED BY <1>1, <1>3, <1>5 DEF Requests

LEMMA MintingCounts ==
  /\ IsFiniteSet(Tab)
  /\ \A S \in SUBSET Tab : IsFiniteSet(S) /\ Cardinality(S) \in Nat
<1>1. IsFiniteSet(Tab)
  BY AccountsAssumption
<1>2. \A S \in SUBSET Tab : IsFiniteSet(S)
  BY <1>1, FS_Subset
<1> QED BY <1>1, <1>2, FS_CardinalityType

LEMMA RoomStays ==
  ASSUME Requests, Room, minted \in Nat, MaxTokens \in Nat,
         NEW t \in Tab, NEW q, tab' = [tab EXCEPT ![t] = q],
         \/ minted' = minted /\ (Minter(q) => Minter(tab[t]) \/ TokensLeft)
         \/ minted' = minted + 1 /\ Minter(tab[t]) /\ ~Minter(q)
  PROVE  Room'
<1> DEFINE M == Minting
           N == {u \in Tab : Minter(tab'[u])}
<1>1. M \in SUBSET Tab /\ N \in SUBSET Tab /\ N = Minting'
  BY DEF Minting
<1>2. IsFiniteSet(M) /\ Cardinality(M) \in Nat /\ IsFiniteSet(N) /\ Cardinality(N) \in Nat
  BY <1>1, MintingCounts
<1>3. tab'[t] = q /\ \A u \in Tab \ {t} : tab'[u] = tab[u]
  BY DEF Requests
<1>4. CASE minted' = minted /\ (Minter(q) => Minter(tab[t]))
  <2>1. N \in SUBSET M
    BY <1>3, <1>4 DEF Minting
  <2>2. Cardinality(N) <= Cardinality(M)
    <3> HIDE DEF M, N
    <3> QED BY <1>2, <2>1, FS_Subset
  <2>3. minted + Cardinality(M) <= MaxTokens
    BY DEF Room
  <2> HIDE DEF M, N
  <2>4. minted + Cardinality(N) <= MaxTokens
    BY <1>2, <2>2, <2>3
  <2> QED BY <1>1, <1>4, <2>4 DEF Room
<1>5. CASE minted' = minted /\ TokensLeft
  <2>1. N \in SUBSET (M \cup {t})
    BY <1>3 DEF Minting
  <2>2. IsFiniteSet(M \cup {t}) /\ Cardinality(M \cup {t}) <= Cardinality(M) + 1
    <3>1. CASE t \in M
      <4>1. M \cup {t} = M
        BY <3>1
      <4> HIDE DEF M
      <4> QED BY <1>2, <4>1
    <3>2. CASE t \notin M
      <4> HIDE DEF M
      <4>1. /\ IsFiniteSet(M \cup {t})
            /\ Cardinality(M \cup {t}) = Cardinality(M) + 1
        BY <1>2, <3>2, FS_AddElement
      <4> QED BY <1>2, <4>1
    <3> QED BY <3>1, <3>2
  <2>3. Cardinality(N) <= Cardinality(M \cup {t}) /\ Cardinality(M \cup {t}) \in Nat
    <3> HIDE DEF M, N
    <3> QED BY <2>1, <2>2, FS_Subset, FS_CardinalityType
  <2>4. minted + Cardinality(M) < MaxTokens
    BY <1>5 DEF TokensLeft, Minting, Minter
  <2> HIDE DEF M, N
  <2>5. minted + Cardinality(N) <= MaxTokens
    BY <1>2, <2>2, <2>3, <2>4
  <2> QED BY <1>1, <1>5, <2>5 DEF Room
<1>6. CASE minted' = minted + 1 /\ Minter(tab[t]) /\ ~Minter(q)
  <2>1. N = M \ {t} /\ t \in M
    BY <1>3, <1>6 DEF Minting
  <2>2. Cardinality(N) = Cardinality(M) - 1
    <3> HIDE DEF M, N
    <3> QED BY <1>2, <2>1, FS_RemoveElement
  <2>3. minted + Cardinality(M) <= MaxTokens
    BY DEF Room
  <2> HIDE DEF M, N
  <2>4. minted + 1 + Cardinality(N) <= MaxTokens
    BY <1>2, <2>2, <2>3
  <2> QED BY <1>1, <1>6, <2>4 DEF Room
<1> QED BY <1>4, <1>5, <1>6

-----------------------------------------------------------------------------
(***************************************************************************)
(* Sessions.                                                               *)
(***************************************************************************)
LEMMA SessionsStay ==
  ASSUME Sessions, UNCHANGED <<sessions, minted, cookie, ended>>, Later(users, users'),
         now' \in 0..MaxTime, faults' \in 0..MaxFaults
  PROVE  Sessions'
<1>1. \A k \in Token : Kept(k)'
  BY OpenedStays DEF Sessions, Kept
<1>2. Issued' = Issued
  BY DEF Issued
<1> QED BY <1>1, <1>2 DEF Sessions

\* A session opens under a token that is new.
LEMMA SessionOpens ==
  ASSUME Sessions, NEW t \in Tab, NEW skew \in Skew, Opens(t, skew), UNCHANGED <<users, now, ended>>,
         faults' \in 0..MaxFaults, minted < MaxTokens,
         tab[t].form.password \in Typed, tab[t].user \in Nat,
         Opened(users, tab[t].user, tab[t].form.password),
         UNCHANGED cookie \/ cookie' = [cookie EXCEPT ![BrowserOf[t]] = minted']
  PROVE  Sessions' /\ minted' = minted + 1
<1>1. minted \in Nat /\ minted' = minted + 1 /\ minted' \in Token /\ MaxTokens \in Nat
  BY AccountsAssumption DEF Sessions, Opens, Token
<1>2. Issued \subseteq Issued' /\ minted' \in Issued'
  BY <1>1 DEF Issued, Token
<1>3. cookie' \in [Browser -> Issued' \cup {Null}]
  BY <1>1, <1>2 DEF Sessions, Browser
<1>4. PICK s : s = [user |-> tab[t].user, start |-> now,
                    expires |-> now + skew + Lifetime, typed |-> tab[t].form.password]
  OBVIOUS
<1>5. now \in Int /\ skew \in Int /\ Lifetime \in Int
  BY AccountsAssumption DEF Sessions
<1>6. /\ s \in Session /\ s.expires = s.start + skew + Lifetime
      /\ Opened(users, s.user, s.typed)
  BY <1>4, <1>5 DEF Session
<1>7. /\ sessions' = [k \in Token |-> sessions'[k]]
      /\ \A k \in Token : \/ sessions'[k] = sessions[k]
                          \/ k = minted' /\ sessions'[k] = s
  <2>1. sessions' = sessions \/ sessions' = [sessions EXCEPT ![minted'] = s]
    BY <1>4 DEF Opens
  <2> QED BY <2>1, <1>1 DEF Sessions
<1>8. minted' \notin ended
  BY <1>1 DEF Sessions, Issued
<1>9. \A k \in Token : Kept(k)'
  <2> SUFFICES ASSUME NEW k \in Token, sessions'[k] # Null
               PROVE  /\ k <= minted' /\ k \notin ended
                      /\ sessions'[k] \in Session
                      /\ Opened(users, sessions'[k].user, sessions'[k].typed)
                      /\ \E x \in Skew : sessions'[k].expires = sessions'[k].start + x + Lifetime
    BY DEF Kept
  <2>1. CASE sessions'[k] = sessions[k]
    <3>1. k \in Nat
      BY DEF Token
    <3> QED BY <1>1, <2>1, <3>1 DEF Sessions, Kept
  <2>2. CASE k = minted' /\ sessions'[k] = s
    BY <1>1, <1>6, <1>8, <2>2
  <2> QED BY <1>7, <2>1, <2>2
<1>10. ended \subseteq Issued'
  BY <1>2 DEF Sessions
<1> QED BY <1>1, <1>3, <1>7, <1>9, <1>10 DEF Sessions, Token

LEMMA SessionEnds ==
  ASSUME Sessions, NEW t \in Tab, NEW k \in Issued, UNCHANGED <<users, minted, now>>,
         faults' \in 0..MaxFaults, sessions' = [sessions EXCEPT ![k] = Null],
         \/ UNCHANGED <<cookie, ended>>
         \/ cookie' = [cookie EXCEPT ![BrowserOf[t]] = Null] /\ ended' = ended \cup {k}
  PROVE  Sessions'
<1>1. Issued' = Issued /\ k \in Token
  BY DEF Issued
<1>2. cookie' \in [Browser -> Issued \cup {Null}] /\ ended' \subseteq Issued
  BY DEF Sessions, Browser
<1>3. /\ sessions' = [j \in Token |-> sessions'[j]]
      /\ \A j \in Token : sessions'[j] = IF j = k THEN Null ELSE sessions[j]
  BY <1>1 DEF Sessions
<1>4. \A j \in Token : j # k /\ j \notin ended => j \notin ended'
  OBVIOUS
<1>5. \A j \in Token : Kept(j)'
  BY <1>3, <1>4 DEF Sessions, Kept
<1> QED BY <1>1, <1>2, <1>3, <1>5 DEF Sessions

-----------------------------------------------------------------------------
(***************************************************************************)
(* Accounts.                                                               *)
(***************************************************************************)
LEMMA SameAccountsStay == UNCHANGED users => Later(users, users')
BY DEF Later

\* Another account, under a number and a name that are new.
LEMMA UserLandsWhole ==
  ASSUME Whole, NEW form, Checked(form), \A u \in users : ~Collides(u, form),
         users' = users \cup {NewUser(form)}, ratings' = ratings \cup {NewUser(form).id}
  PROVE  /\ Whole' /\ Later(users, users')
         /\ \A v \in users' : v \in users \/ (v.email = form.email /\ v.username = form.username)
         /\ \E v \in users' : v.email = form.email /\ v.username = form.username
<1>1. PICK n : n = NewUser(form)
  OBVIOUS
<1>2. Cardinality(users) \in Nat /\ IsFiniteSet(users)
  BY FS_CardinalityType DEF Whole
<1>3. form.password \in Typed
  BY DEF Checked, Typed
<1>4. /\ n \in Account /\ n.id = Cardinality(users) + 1 /\ n.hash.of = n.chose
      /\ n.email = form.email /\ n.username = form.username
  BY <1>1, <1>2, <1>3 DEF NewUser, Account, Checked
<1>5. n \notin users /\ users' = users \cup {n} /\ ratings' = ratings \cup {n.id}
  BY <1>1, <1>2, <1>4 DEF Whole
<1>6. IsFiniteSet(users') /\ Cardinality(users') = Cardinality(users) + 1
  BY <1>2, <1>5, FS_AddElement
<1>7. \A u \in users : u.id \in 1..Cardinality(users) /\ u.id # n.id /\ u.hash.of = u.chose
  BY <1>2, <1>4 DEF Whole
<1>8. \A u \in users' : u.id \in 1..Cardinality(users') /\ u.hash.of = u.chose
  BY <1>2, <1>4, <1>5, <1>6, <1>7
<1>9. \A u \in users : ~Collides(u, n) /\ ~Collides(n, u)
  BY <1>4 DEF Collides, Same
<1>10. \A u, v \in users' : u.id = v.id \/ Collides(u, v) => u = v
  BY <1>5, <1>7, <1>9 DEF Whole
<1>11. ratings' = {u.id : u \in users'}
  BY <1>5 DEF Whole
<1>12. users' \subseteq Account
  BY <1>4, <1>5 DEF Whole
<1>13. Later(users, users')
  BY <1>5 DEF Later
<1>14. Whole'
  BY <1>6, <1>8, <1>10, <1>11, <1>12 DEF Whole
<1>15. n \in users' /\ \A v \in users' : v \in users \/ v = n
  BY <1>5
<1>16. n.email = form.email /\ n.username = form.username
  BY <1>4
<1> QED BY <1>13, <1>14, <1>15, <1>16

(***************************************************************************)
(* A new hash of the password that opens the account: the row is replaced, *)
(* and all that identifies it is kept.                                     *)
(***************************************************************************)
LEMMA RehashWhole ==
  ASSUME Whole, NEW id, NEW password \in Typed, Opened(users, id, password),
         users' = {IF u.id = id THEN [u EXCEPT !.hash = [of |-> password, cheap |-> FALSE]]
                                ELSE u : u \in users},
         UNCHANGED ratings
  PROVE  /\ Whole' /\ Later(users, users')
         /\ \A v \in users' : \E u \in users : v.email = u.email /\ v.username = u.username
<1> DEFINE New(u) == IF u.id = id THEN [u EXCEPT !.hash = [of |-> password, cheap |-> FALSE]]
                                  ELSE u
           f == [u \in users |-> New(u)]
<1>1. users \subseteq Account
  BY DEF Whole
<1>2. ASSUME NEW u \in users
      PROVE  /\ New(u) \in Account /\ New(u).id = u.id /\ New(u).email = u.email
             /\ New(u).username = u.username /\ New(u).chose = u.chose
             /\ New(u).hash.of = New(u).chose
  <2>1. u \in Account /\ u.hash.of = u.chose
    BY DEF Whole
  <2>2. CASE u.id = id
    <3>1. u.chose = password
      BY <2>2 DEF Opened, Whole
    <3>2. PICK v : v = [u EXCEPT !.hash = [of |-> password, cheap |-> FALSE]]
      OBVIOUS
    <3>3. /\ v \in Account /\ v.id = u.id /\ v.email = u.email /\ v.username = u.username
          /\ v.chose = u.chose /\ v.hash.of = password
      BY <2>1, <3>2 DEF Account
    <3>4. New(u) = v
      BY <2>2, <3>2
    <3> HIDE DEF New
    <3> QED BY <3>1, <3>3, <3>4
  <2>3. CASE u.id # id
    BY <2>1, <2>3
  <2> QED BY <2>2, <2>3
<1>3. users' = {New(u) : u \in users}
  OBVIOUS
<1> HIDE DEF New
<1>4. f \in Surjection(users, users')
  BY <1>3 DEF Surjection
<1>5. f \in Injection(users, users')
  <2>1. f \in [users -> users']
    BY <1>3
  <2>2. \A u, v \in users : f[u] = f[v] => u = v
    BY <1>2 DEF Whole
  <2> HIDE DEF f
  <2> QED BY <2>1, <2>2 DEF Injection, IsInjective
<1>6. IsFiniteSet(users') /\ Cardinality(users') = Cardinality(users)
  <2> HIDE DEF f
  <2> QED BY <1>4, <1>5, FS_Surjection DEF Whole
<1>7. \A v \in users' : \E u \in users :
        /\ v \in Account /\ v = New(u) /\ v.id = u.id /\ v.email = u.email
        /\ v.username = u.username /\ v.hash.of = v.chose
  BY <1>2, <1>3
<1>8. \A u, v \in users' : u.id = v.id \/ Collides(u, v) => u = v
  BY <1>7 DEF Whole, Collides, Same
<1>9. ratings' = {u.id : u \in users'}
  <2>1. \A r : r \in ratings <=> \E u \in users : r = u.id
    BY DEF Whole
  <2>2. \A r : r \in ratings' <=> \E u \in users' : r = u.id
    BY <1>2, <1>3, <2>1
  <2> QED BY <2>2
<1>10. Later(users, users')
  BY <1>2, <1>3 DEF Later
<1> QED BY <1>6, <1>7, <1>8, <1>9, <1>10 DEF Whole

-----------------------------------------------------------------------------
(***************************************************************************)
(* The steps.                                                              *)
(***************************************************************************)

\* An answer that says nothing of what was typed.
LEMMA PlainAnswer ==
  ASSUME NEW answer \in Answer \ {"created", "taken"}, NEW q,
         q = [NoRequest EXCEPT !.answer = answer]
  PROVE  /\ q.at = "idle" /\ ~Inserted(q) /\ ~Minter(q)
         /\ \A rows, made : Sound(q, rows, made)
<1>1. NoForm \in FormOrPart
  <2>1. NoForm = [NoForm EXCEPT !.password = Null]
    BY DEF NoForm
  <2> QED BY <2>1 DEF FormOrPart
<1>2. q.at = "idle" /\ q.answer = answer /\ q \in Request
  BY <1>1 DEF NoRequest, Request, Step
<1> QED BY <1>2 DEF Inserted, Minter, Sound

\* A step that changes nothing but what one request is doing.
LEMMA RequestKeeps ==
  ASSUME IInv, NEW t \in Tab, NEW q, tab' = [tab EXCEPT ![t] = q],
         UNCHANGED <<users, ratings, sessions, minted, now, cookie, ended>>,
         faults' \in 0..MaxFaults, Sound(q, users, minted),
         Inserted(q) => \A u \in Tab \ {t} : Inserted(tab[u]) => ~Collides(tab[u].form, q.form),
         Minter(q) => Minter(tab[t]) \/ TokensLeft
  PROVE  IInv'
<1>1. minted \in Nat /\ MaxTokens \in Nat /\ now' \in 0..MaxTime
  BY AccountsAssumption DEF IInv, Sessions
<1>2. Later(users, users')
  BY SameAccountsStay
<1>3. Whole'
  BY DEF IInv, Whole
<1>4. Sessions'
  BY <1>1, <1>2, SessionsStay DEF IInv
<1>5. Requests'
  <2>1. \A u \in Tab : Inserted(tab[u]) => \A v \in users' : ~Collides(v, tab[u].form)
    BY DEF IInv, Requests, Sound
  <2>2. Requests /\ minted' \in Nat /\ minted <= minted' /\ Sound(q, users', minted')
    BY <1>1 DEF IInv
  <2>3. \A u \in Tab \ {t} : Inserted(tab[u]) =>
          /\ \A v \in users' : ~Collides(v, tab[u].form)
          /\ Inserted(q) => ~Collides(tab[u].form, q.form)
    BY <2>1
  <2> QED BY <1>1, <1>2, <2>2, <2>3, OneRequestMoves
<1>6. Room'
  BY <1>1, RoomStays DEF IInv
<1> QED BY <1>3, <1>4, <1>5, <1>6 DEF IInv

LEMMA AskRegisterKeeps ==
  ASSUME IInv, NEW t \in Tab, NEW form \in Forms, AskRegister(t, form)
  PROVE  IInv'
<1>1. PICK q : q = [NoRequest EXCEPT !.at = "register", !.form = form]
  OBVIOUS
<1>2. q \in Request /\ q.at = "register" /\ q.form = form /\ q.answer = Null
  BY <1>1 DEF NoRequest, Request, FormOrPart, Step
<1>3. Sound(q, users, minted) /\ ~Inserted(q) /\ ~Minter(q)
  BY <1>2, AccountsAssumption DEF Sound, Inserted, Minter
<1>4. /\ tab' = [tab EXCEPT ![t] = q] /\ faults' \in 0..MaxFaults
      /\ UNCHANGED <<users, ratings, sessions, minted, now, cookie, ended>>
  BY <1>1 DEF AskRegister, IInv, Sessions
<1> QED BY <1>3, <1>4, RequestKeeps

\* An answer that leaves everything else alone.
LEMMA AnswerKeeps ==
  ASSUME IInv, NEW t \in Tab, NEW answer \in Answer \ {"created", "taken"},
         Answers(t, answer), faults' \in 0..MaxFaults,
         UNCHANGED <<users, ratings, sessions, minted, now, cookie, ended>>
  PROVE  IInv'
<1>1. PICK q : q = [NoRequest EXCEPT !.answer = answer]
  OBVIOUS
<1>2. Sound(q, users, minted) /\ ~Inserted(q) /\ ~Minter(q)
  BY <1>1, PlainAnswer
<1>3. tab' = [tab EXCEPT ![t] = q]
  BY <1>1 DEF Answers
<1> QED BY <1>2, <1>3, RequestKeeps

LEMMA RegisterKeeps ==
  ASSUME IInv, NEW t \in Tab, Register(t)
  PROVE  IInv'
<1>1. /\ UNCHANGED <<users, ratings, sessions, minted, now, cookie, ended>>
      /\ faults' \in 0..MaxFaults
  BY DEF Register, IInv, Sessions
<1>2. CASE Answers(t, "invalid")
  BY <1>1, <1>2, AnswerKeeps DEF Answer
<1>3. CASE ~Answers(t, "invalid")
  <2>1. PICK q : q = [tab[t] EXCEPT !.at = "insert user"]
    OBVIOUS
  <2>2. /\ q \in Request /\ q.at = "insert user" /\ q.form = tab[t].form
        /\ q.answer = tab[t].answer
    BY <2>1 DEF IInv, Requests, Request, Step
  <2>3. tab' = [tab EXCEPT ![t] = q] /\ Checked(tab[t].form)
    BY <1>3, <2>1 DEF Register, Goes, Checked, IInv, Requests, Sound
  <2>4. Sound(tab[t], users, minted)
    BY DEF IInv, Requests
  <2>5. Sound(q, users, minted) /\ ~Inserted(q) /\ ~Minter(q)
    BY <2>2, <2>3, <2>4 DEF Sound, Inserted, Minter
  <2> QED BY <1>1, <2>3, <2>5, RequestKeeps
<1> QED BY <1>2, <1>3

LEMMA InsertUserKeeps ==
  ASSUME IInv, NEW t \in Tab, InsertUser(t)
  PROVE  IInv'
<1> DEFINE form == tab[t].form
<1>1. /\ UNCHANGED <<users, ratings, sessions, minted, now, cookie, ended>>
      /\ faults' \in 0..MaxFaults
  BY DEF InsertUser, IInv, Sessions
<1>2. tab[t] \in Request /\ tab[t].at = "insert user" /\ Sound(tab[t], users, minted)
  BY DEF InsertUser, IInv, Requests
<1>3. CASE \E u \in users : Collides(u, form)
  <2>1. PICK q : q = [NoRequest EXCEPT !.answer = "taken", !.form = form]
    OBVIOUS
  <2>2. /\ q \in Request /\ q.at = "idle" /\ q.form = form /\ q.answer = "taken"
    BY <1>2, <2>1 DEF NoRequest, Request, Step, Answer
  <2>3. Sound(q, users, minted) /\ ~Inserted(q) /\ ~Minter(q)
    BY <1>3, <2>2 DEF Sound, Inserted, Minter
  <2>4. tab' = [tab EXCEPT ![t] = q]
    BY <1>3, <2>1 DEF InsertUser, Says
  <2> QED BY <1>1, <2>3, <2>4, RequestKeeps
<1>4. CASE ~\E u \in users : Collides(u, form)
  <2>1. PICK q : q = [tab[t] EXCEPT !.at = "insert rating"]
    OBVIOUS
  <2>2. /\ q \in Request /\ q.at = "insert rating" /\ q.form = form
        /\ q.answer = tab[t].answer
    BY <1>2, <2>1 DEF Request, Step
  <2>3. tab' = [tab EXCEPT ![t] = q]
    BY <1>4, <2>1 DEF InsertUser, Goes
  <2>4. Sound(q, users, minted) /\ ~Minter(q)
    BY <1>2, <1>4, <2>2 DEF Sound, Inserted, Minter
  <2>5. \A u \in Tab \ {t} : Inserted(tab[u]) => ~Collides(tab[u].form, q.form)
    BY <2>2 DEF InsertUser, Holds, Inserted
  <2> QED BY <1>1, <2>3, <2>4, <2>5, RequestKeeps
<1> QED BY <1>3, <1>4

LEMMA InsertRatingKeeps ==
  ASSUME IInv, NEW t \in Tab, InsertRating(t)
  PROVE  IInv'
<1>1. /\ UNCHANGED <<users, ratings, sessions, minted, now, cookie, ended>>
      /\ faults' \in 0..MaxFaults
  BY DEF InsertRating, IInv, Sessions
<1>2. tab[t] \in Request /\ tab[t].at = "insert rating" /\ Sound(tab[t], users, minted)
  BY DEF InsertRating, IInv, Requests
<1>3. PICK q : q = [tab[t] EXCEPT !.at = "commit user"]
  OBVIOUS
<1>4. /\ q \in Request /\ q.at = "commit user" /\ q.form = tab[t].form
      /\ q.answer = tab[t].answer
  BY <1>2, <1>3 DEF Request, Step
<1>5. tab' = [tab EXCEPT ![t] = q]
  BY <1>3 DEF InsertRating, Goes
<1>6. Sound(q, users, minted) /\ ~Minter(q)
  BY <1>2, <1>4 DEF Sound, Inserted, Minter
<1>7. \A u \in Tab \ {t} : Inserted(tab[u]) => ~Collides(tab[u].form, q.form)
  BY <1>2, <1>4 DEF IInv, Requests, Inserted
<1> QED BY <1>1, <1>5, <1>6, <1>7, RequestKeeps

(***************************************************************************)
(* The commit that makes an account, whether or not its answer arrives.    *)
(* Whoever else has inserted holds keys that do not collide with it.       *)
(***************************************************************************)
LEMMA UserLandsKeeps ==
  ASSUME IInv, NEW t \in Tab, NEW q, tab' = [tab EXCEPT ![t] = q],
         tab[t].at = "commit user", UserLands(t), q \in Request, q.at = "idle",
         q.answer \in Answer \ {"taken"}, q.answer = "created" => q.form = tab[t].form,
         UNCHANGED <<sessions, minted, now, cookie, ended>>, faults' \in 0..MaxFaults
  PROVE  IInv'
<1> DEFINE form == tab[t].form
<1>0. minted' = minted /\ now' = now
  OBVIOUS
<1>1. minted \in Nat /\ MaxTokens \in Nat /\ now' \in 0..MaxTime
  BY <1>0, Counters
<1>2. Sound(tab[t], users, minted) /\ Inserted(tab[t])
  BY DEF IInv, Requests, Inserted
<1>3. Checked(form) /\ \A u \in users : ~Collides(u, form)
  BY <1>2 DEF Sound
<1>4. users' = users \cup {NewUser(form)} /\ ratings' = ratings \cup {NewUser(form).id}
  BY DEF UserLands
<1> HIDE DEF form
<1>5. /\ Whole' /\ Later(users, users')
      /\ \A v \in users' : v \in users \/ (v.email = form.email /\ v.username = form.username)
      /\ \E v \in users' : v.email = form.email /\ v.username = form.username
  BY <1>3, <1>4, UserLandsWhole DEF IInv
<1>6. Sessions'
  BY <1>1, <1>5, SessionsStay DEF IInv
<1>7. ~Inserted(q) /\ ~Minter(q)
  BY DEF Inserted, Minter
<1>8. Sound(q, users', minted')
  BY <1>5, <1>7 DEF Sound, form
<1>9. \A u \in Tab \ {t} : Inserted(tab[u]) => \A v \in users' : ~Collides(v, tab[u].form)
  <2> SUFFICES ASSUME NEW u \in Tab \ {t}, Inserted(tab[u]), NEW v \in users'
               PROVE  ~Collides(v, tab[u].form)
    OBVIOUS
  <2>1. CASE v \in users
    BY <2>1 DEF IInv, Requests, Sound
  <2>2. CASE v.email = form.email /\ v.username = form.username
    <3>1. ~Collides(form, tab[u].form)
      BY <1>2 DEF IInv, Requests, form
    <3> QED BY <2>2, <3>1 DEF Collides
  <2> QED BY <1>5, <2>1, <2>2
<1>10. Requests'
  <2>1. Requests /\ minted' \in Nat /\ minted <= minted'
    BY <1>0, Counters DEF IInv
  <2> QED BY <1>1, <1>5, <1>7, <1>8, <1>9, <2>1, OneRequestMoves
<1>11. Room'
  BY <1>1, <1>7, RoomStays DEF IInv
<1> QED BY <1>5, <1>6, <1>10, <1>11 DEF IInv

LEMMA CommitUserKeeps ==
  ASSUME IInv, NEW t \in Tab, CommitUser(t)
  PROVE  IInv'
<1>1. PICK q : q = [NoRequest EXCEPT !.answer = "created", !.form = tab[t].form]
  OBVIOUS
<1>2. tab[t] \in Request
  BY DEF IInv, Requests
<1>3. /\ q \in Request /\ q.at = "idle" /\ q.answer = "created" /\ q.form = tab[t].form
  BY <1>1, <1>2 DEF NoRequest, Request, Step, Answer
<1>4. /\ tab' = [tab EXCEPT ![t] = q] /\ tab[t].at = "commit user" /\ UserLands(t)
      /\ UNCHANGED <<sessions, minted, now, cookie, ended>> /\ faults' \in 0..MaxFaults
  BY <1>1 DEF CommitUser, Says, IInv, Sessions
<1> QED BY <1>3, <1>4, UserLandsKeeps DEF Answer

LEMMA LoginKeeps ==
  ASSUME IInv, NEW t \in Tab, NEW email \in Emails, NEW password \in Typed,
         Login(t, email, password)
  PROVE  IInv'
<1> DEFINE found == {u \in users : Same(u.email, email) /\ u.hash.of = password}
<1>1. /\ UNCHANGED <<users, ratings, sessions, minted, now, cookie, ended>>
      /\ faults' \in 0..MaxFaults /\ TokensLeft
  BY DEF Login, IInv, Sessions
<1>2. \A p \in Typed \cup {Null} : [NoForm EXCEPT !.password = p] \in FormOrPart
  BY DEF FormOrPart
<1>3. CASE found = {}
  <2>1. PICK form : form = [NoForm EXCEPT !.password = Null]
    OBVIOUS
  <2>2. PICK q : q = [NoRequest EXCEPT !.form = form, !.at = "idle", !.user = Null,
                                       !.answer = "no match"]
    OBVIOUS
  <2>3. form \in FormOrPart
    BY <1>2, <2>1
  <2>4. q \in Request /\ q.at = "idle" /\ q.answer = "no match"
    BY <2>2, <2>3 DEF NoRequest, Request, Step, Answer
  <2>5. tab' = [tab EXCEPT ![t] = q]
    BY <1>3, <2>1, <2>2 DEF Login
  <2>6. Sound(q, users, minted) /\ ~Inserted(q) /\ ~Minter(q)
    BY <2>4 DEF Sound, Inserted, Minter
  <2> QED BY <1>1, <2>5, <2>6, RequestKeeps
<1>4. CASE found # {}
  <2>1. PICK v : v = CHOOSE u \in found : TRUE
    OBVIOUS
  <2>2. v \in users /\ v.hash.of = password
    BY <1>4, <2>1
  <2>3. v.id \in Nat /\ v.chose = password
    BY <2>2 DEF IInv, Whole
  <2>4. PICK form : form = [NoForm EXCEPT !.password = password]
    OBVIOUS
  <2>5. form \in FormOrPart /\ form.password = password
    BY <1>2, <2>4 DEF NoForm
  <2>6. PICK step \in {"rehash", "open"} :
          step = IF \E u \in found : u.hash.cheap THEN "rehash" ELSE "open"
    OBVIOUS
  <2>7. PICK q : q = [NoRequest EXCEPT !.form = form, !.at = step, !.user = v.id,
                                       !.answer = Null]
    OBVIOUS
  <2>8. /\ q \in Request /\ q.at = step /\ q.form = form /\ q.user = v.id
        /\ q.answer = Null
    BY <2>3, <2>5, <2>7 DEF NoRequest, Request, Step
  <2>9. tab' = [tab EXCEPT ![t] = q]
    BY <1>4, <2>1, <2>4, <2>6, <2>7 DEF Login
  <2>10. Opened(users, q.user, q.form.password)
    BY <2>2, <2>3, <2>5, <2>8 DEF Opened
  <2>11. Sound(q, users, minted) /\ ~Inserted(q)
    BY <2>5, <2>8, <2>10, AccountsAssumption DEF Sound, Inserted
  <2> QED BY <1>1, <2>9, <2>11, RequestKeeps
<1> QED BY <1>3, <1>4

(***************************************************************************)
(* A hash is renewed while other requests are under way with the account.  *)
(***************************************************************************)
LEMMA rehashKeeps ==
  ASSUME IInv, NEW t \in Tab, rehash(t)
  PROVE  IInv'
<1>1. /\ tab[t] \in Request /\ tab[t].at = "rehash" /\ Sound(tab[t], users, minted)
      /\ UNCHANGED <<ratings, sessions, minted, now, cookie, ended>>
      /\ minted' = minted /\ now' = now
  BY DEF rehash, IInv, Requests
<1>2. PICK q : q = [tab[t] EXCEPT !.at = "open"]
  OBVIOUS
<1>3. /\ q \in Request /\ q.at = "open" /\ q.form = tab[t].form /\ q.user = tab[t].user
      /\ q.answer = tab[t].answer /\ tab' = [tab EXCEPT ![t] = q]
  BY <1>1, <1>2 DEF Request, Step, rehash, Goes
<1>4. ~Inserted(q) /\ Minter(tab[t])
  BY <1>1, <1>3 DEF Inserted, Minter
<1>5. faults' \in 0..MaxFaults
  BY AccountsAssumption DEF rehash, IInv, Sessions
<1>6. Sound(q, users, minted)
  BY <1>1, <1>3, <1>4 DEF Sound, Minter
<1>7. CASE UNCHANGED users
  BY <1>1, <1>3, <1>4, <1>5, <1>6, <1>7, RequestKeeps
<1>8. CASE ~UNCHANGED users
  <2>1. PICK id, password : id = tab[t].user /\ password = tab[t].form.password
    OBVIOUS
  <2>2. password \in Typed /\ Opened(users, id, password)
    BY <1>1, <2>1 DEF Sound, Minter
  <2>3. users' = {IF u.id = id THEN [u EXCEPT !.hash = [of |-> password, cheap |-> FALSE]]
                               ELSE u : u \in users}
    BY <1>8, <2>1 DEF rehash
  <2>4. /\ Whole' /\ Later(users, users')
        /\ \A v \in users' : \E u \in users : v.email = u.email /\ v.username = u.username
    BY <1>1, <2>2, <2>3, RehashWhole DEF IInv
  <2>5. Sessions'
    BY <1>1, <1>5, <2>4, Counters, SessionsStay DEF IInv
  <2>6. \A u \in Tab : Inserted(tab[u]) => \A v \in users' : ~Collides(v, tab[u].form)
    <3>1. \A u \in Tab : Inserted(tab[u]) => \A v \in users : ~Collides(v, tab[u].form)
      BY DEF IInv, Requests, Sound
    <3> QED BY <2>4, <3>1 DEF Collides
  <2>7. Sound(q, users', minted')
    BY <1>1, <1>4, <1>6, <2>4, Counters, SoundStays
  <2>8. Requests'
    <3>1. Requests /\ minted' \in Nat /\ minted <= minted'
      BY <1>1, Counters DEF IInv
    <3> QED BY <1>3, <1>4, <2>4, <2>6, <2>7, <3>1, Counters, OneRequestMoves
  <2>9. Room'
    BY <1>1, <1>3, <1>4, Counters, RoomStays DEF IInv
  <2> QED BY <2>4, <2>5, <2>8, <2>9 DEF IInv
<1> QED BY <1>7, <1>8

(***************************************************************************)
(* A session opens, whether or not its answer arrives.                     *)
(***************************************************************************)
LEMMA OpensKeeps ==
  ASSUME IInv, NEW t \in Tab, NEW skew \in Skew, tab[t].at = "open", Opens(t, skew),
         NEW answer \in Answer \ {"created", "taken"}, Answers(t, answer),
         UNCHANGED <<users, ratings, now, ended>>, faults' \in 0..MaxFaults,
         UNCHANGED cookie \/ cookie' = [cookie EXCEPT ![BrowserOf[t]] = minted']
  PROVE  IInv'
<1>1. Sound(tab[t], users, minted) /\ tab[t] \in Request /\ Minter(tab[t])
  BY DEF IInv, Requests, Minter
<1>2. /\ tab[t].form.password \in Typed
      /\ Opened(users, tab[t].user, tab[t].form.password)
  BY <1>1 DEF Sound
<1>3. tab[t].user \in Nat
  <2>1. \A u \in users : u.id \in Nat
    BY DEF IInv, Whole, Account
  <2> QED BY <1>2, <2>1 DEF Opened
<1>4. minted < MaxTokens
  <2>1. Minting \in SUBSET Tab /\ t \in Minting
    BY <1>1 DEF Minting
  <2>2. IsFiniteSet(Minting) /\ Cardinality(Minting) \in Nat
    BY <2>1, MintingCounts
  <2>3. Cardinality(Minting) # 0
    BY <2>1, <2>2, FS_EmptySet
  <2> QED BY <2>2, <2>3, Counters DEF IInv, Room
<1>5. Sessions' /\ minted' = minted + 1
  BY <1>2, <1>3, <1>4, SessionOpens DEF IInv
<1>6. PICK q : q = [NoRequest EXCEPT !.answer = answer]
  OBVIOUS
<1>7. tab' = [tab EXCEPT ![t] = q] /\ ~Inserted(q) /\ ~Minter(q)
  BY <1>6, PlainAnswer DEF Answers
<1>8. Sound(q, users', minted')
  BY <1>6, PlainAnswer
<1>9. Requests'
  <2>1. \A u \in Tab : Inserted(tab[u]) => \A v \in users' : ~Collides(v, tab[u].form)
    BY DEF IInv, Requests, Sound
  <2>2. minted \in Nat /\ minted' \in Nat /\ minted <= minted'
    BY <1>5, Counters
  <2>3. Later(users, users') /\ Requests
    BY SameAccountsStay DEF IInv
  <2> QED BY <1>7, <1>8, <2>1, <2>2, <2>3, OneRequestMoves
<1>10. Room'
  BY <1>1, <1>5, <1>7, Counters, RoomStays DEF IInv
<1>11. Whole'
  BY DEF IInv, Whole
<1> QED BY <1>5, <1>9, <1>10, <1>11 DEF IInv

LEMMA OpenSessionKeeps ==
  ASSUME IInv, NEW t \in Tab, NEW skew \in Skew, OpenSession(t, skew)
  PROVE  IInv'
<1>1. /\ tab[t].at = "open" /\ Opens(t, skew) /\ faults' \in 0..MaxFaults
      /\ UNCHANGED <<users, ratings, now, ended>>
  BY DEF OpenSession, IInv, Sessions
<1>2. CASE Answers(t, "in") /\ cookie' = [cookie EXCEPT ![BrowserOf[t]] = minted']
  BY <1>1, <1>2, OpensKeeps DEF Answer
<1>3. CASE Answers(t, "error") /\ UNCHANGED cookie
  BY <1>1, <1>3, OpensKeeps DEF Answer
<1> QED BY <1>2, <1>3 DEF OpenSession

LEMMA AskKeeps ==
  ASSUME IInv, NEW t \in Tab, NEW step \in {"authenticate", "logout"}, Ask(t, step)
  PROVE  IInv'
<1>1. /\ UNCHANGED <<users, ratings, sessions, minted, now, cookie, ended>>
      /\ faults' \in 0..MaxFaults
  BY DEF Ask, IInv, Sessions
<1>2. PICK k : k = cookie[BrowserOf[t]]
  OBVIOUS
<1>3. k = Null \/ (k \in Token /\ k <= minted)
  BY <1>2 DEF IInv, Sessions, Browser, Issued
<1>4. PICK at, answer : /\ at = IF k # Null THEN step ELSE "idle"
                        /\ answer = IF k # Null THEN Null ELSE "no session"
  OBVIOUS
<1>5. PICK q : q = [NoRequest EXCEPT !.at = at, !.answer = answer, !.token = k]
  OBVIOUS
<1>6. tab' = [tab EXCEPT ![t] = q]
  BY <1>2, <1>4, <1>5 DEF Ask
<1>7. NoForm \in FormOrPart
  <2>1. NoForm = [NoForm EXCEPT !.password = Null]
    BY DEF NoForm
  <2> QED BY <2>1 DEF FormOrPart
<1>8. /\ q \in Request /\ q.at = at /\ q.answer = answer /\ q.token = k
  <2>1. at \in Step /\ answer \in Answer \cup {Null} /\ k \in Nat \cup {Null}
    <3>1. at \in Step /\ answer \in Answer \cup {Null}
      BY <1>4 DEF Step, Answer
    <3>2. Token \subseteq Nat
      BY AccountsAssumption DEF Token
    <3> QED BY <1>3, <3>1, <3>2
  <2> HIDE DEF NoForm
  <2>2. NoRequest \in Request
    BY <1>7 DEF NoRequest, Request, Step
  <2> QED BY <1>5, <2>1, <2>2 DEF Request
<1>9. Sound(q, users, minted) /\ ~Inserted(q) /\ ~Minter(q)
  BY <1>3, <1>4, <1>8, AccountsAssumption DEF Sound, Inserted, Minter
<1> QED BY <1>1, <1>6, <1>9, RequestKeeps

LEMMA AuthenticateKeeps ==
  ASSUME IInv, NEW t \in Tab, Authenticate(t)
  PROVE  IInv'
<1>1. /\ UNCHANGED <<users, ratings, sessions, minted, now, cookie, ended>>
      /\ faults' \in 0..MaxFaults
  BY DEF Authenticate, IInv, Sessions
<1>2. CASE ~Live(tab[t].token)
  <2>1. Answers(t, "no session")
    BY <1>2 DEF Authenticate
  <2> QED BY <1>1, <2>1, AnswerKeeps DEF Answer
<1>3. CASE Live(tab[t].token)
  <2>1. /\ tab[t] \in Request /\ tab[t].at = "authenticate" /\ Sound(tab[t], users, minted)
    BY DEF Authenticate, IInv, Requests
  <2>2. PICK user : user = sessions[tab[t].token].user
    OBVIOUS
  <2>3. user \in Nat
    BY <1>3, <2>1, <2>2 DEF IInv, Sessions, Kept, Session, Live, Sound
  <2>4. PICK q : q = [tab[t] EXCEPT !.at = "handle", !.user = user]
    OBVIOUS
  <2>5. /\ q \in Request /\ q.at = "handle" /\ q.token = tab[t].token
        /\ q.form = tab[t].form /\ q.answer = tab[t].answer
    BY <2>1, <2>3, <2>4 DEF Request, Step
  <2>6. tab' = [tab EXCEPT ![t] = q]
    BY <1>3, <2>2, <2>4 DEF Authenticate
  <2>7. Sound(q, users, minted) /\ ~Inserted(q) /\ ~Minter(q)
    BY <2>1, <2>5 DEF Sound, Inserted, Minter
  <2> QED BY <1>1, <2>6, <2>7, RequestKeeps
<1> QED BY <1>2, <1>3

LEMMA HandleKeeps ==
  ASSUME IInv, NEW t \in Tab, Handle(t)
  PROVE  IInv'
<1>1. /\ UNCHANGED <<users, ratings, sessions, minted, now, cookie, ended>>
      /\ faults' \in 0..MaxFaults /\ Answers(t, "served")
  BY DEF Handle, IInv, Sessions
<1> QED BY <1>1, AnswerKeeps DEF Answer

\* A session ends, whether or not the answer arrives.
LEMMA EndsKeeps ==
  ASSUME IInv, NEW t \in Tab, tab[t].at = "logout",
         sessions' = [sessions EXCEPT ![tab[t].token] = Null],
         NEW answer \in Answer \ {"created", "taken"}, Answers(t, answer),
         UNCHANGED <<users, ratings, minted, now>>, faults' \in 0..MaxFaults,
         \/ UNCHANGED <<cookie, ended>>
         \/ cookie' = [cookie EXCEPT ![BrowserOf[t]] = Null] /\ ended' = ended \cup {tab[t].token}
  PROVE  IInv'
<1>1. tab[t].token \in Issued
  BY DEF IInv, Requests, Sound, Issued
<1>2. Sessions'
  BY <1>1, SessionEnds DEF IInv
<1>3. PICK q : q = [NoRequest EXCEPT !.answer = answer]
  OBVIOUS
<1>4. tab' = [tab EXCEPT ![t] = q] /\ ~Inserted(q) /\ ~Minter(q)
  BY <1>3, PlainAnswer DEF Answers
<1>5. Sound(q, users', minted')
  BY <1>3, PlainAnswer
<1>6. Requests'
  <2>1. \A u \in Tab : Inserted(tab[u]) => \A v \in users' : ~Collides(v, tab[u].form)
    BY DEF IInv, Requests, Sound
  <2>2. minted \in Nat /\ minted' \in Nat /\ minted <= minted'
    BY Counters
  <2>3. Later(users, users') /\ Requests
    BY SameAccountsStay DEF IInv
  <2> QED BY <1>4, <1>5, <2>1, <2>2, <2>3, OneRequestMoves
<1>7. Room'
  BY <1>4, Counters, RoomStays DEF IInv
<1>8. Whole'
  BY DEF IInv, Whole
<1> QED BY <1>2, <1>6, <1>7, <1>8 DEF IInv

LEMMA LogoutKeeps ==
  ASSUME IInv, NEW t \in Tab, Logout(t)
  PROVE  IInv'
<1>1. /\ tab[t].at = "logout" /\ sessions' = [sessions EXCEPT ![tab[t].token] = Null]
      /\ Answers(t, "out") /\ UNCHANGED <<users, ratings, minted, now>>
      /\ cookie' = [cookie EXCEPT ![BrowserOf[t]] = Null]
      /\ ended' = ended \cup {tab[t].token}
      /\ faults' \in 0..MaxFaults
  BY DEF Logout, IInv, Sessions
<1> QED BY <1>1, EndsKeeps DEF Answer

(***************************************************************************)
(* A call that fails leaves what one that works leaves, or nothing.        *)
(***************************************************************************)
LEMMA FailsKeeps ==
  ASSUME IInv, NEW t \in Tab, Fails(t)
  PROVE  IInv'
<1>1. Answers(t, "error") /\ "error" \in Answer \ {"created", "taken"}
  BY DEF Fails, Answer
<1>2. faults' \in 0..MaxFaults /\ UNCHANGED <<now, cookie, ended>>
  <2>1. faults < MaxFaults /\ faults' = faults + 1 /\ UNCHANGED <<now, cookie, ended>>
    BY DEF Fails
  <2>2. faults \in Nat /\ MaxFaults \in Nat
    BY Counters, AccountsAssumption
  <2> QED BY <2>1, <2>2
<1>3. CASE UNCHANGED <<users, ratings, sessions, minted>>
  BY <1>1, <1>2, <1>3, AnswerKeeps
<1>4. CASE tab[t].at = "commit user" /\ UserLands(t) /\ UNCHANGED <<sessions, minted>>
  <2>1. PICK q : q = [NoRequest EXCEPT !.answer = "error"]
    OBVIOUS
  <2>2. tab' = [tab EXCEPT ![t] = q] /\ q.at = "idle" /\ q \in Request
    BY <1>1, <2>1, PlainAnswer DEF Answers, Sound
  <2>3. q.answer = "error"
    BY <2>1 DEF NoRequest
  <2> QED BY <1>2, <1>4, <2>2, <2>3, UserLandsKeeps DEF Answer
<1>5. CASE /\ tab[t].at = "open"
           /\ \E skew \in Skew : Opens(t, skew)
           /\ UNCHANGED <<users, ratings>>
  BY <1>1, <1>2, <1>5, OpensKeeps
<1>6. CASE /\ tab[t].at = "logout"
           /\ sessions' = [sessions EXCEPT ![tab[t].token] = Null]
           /\ UNCHANGED <<users, ratings, minted>>
  BY <1>1, <1>2, <1>6, EndsKeeps
<1> QED BY <1>3, <1>4, <1>5, <1>6 DEF Fails

LEMMA TickKeeps ==
  ASSUME IInv, Tick
  PROVE  IInv'
<1>1. now' \in 0..MaxTime /\ faults' \in 0..MaxFaults
  BY Counters, AccountsAssumption DEF Tick
<1>2. UNCHANGED <<users, ratings, sessions, minted, cookie, tab, ended>>
  BY DEF Tick
<1>3. Sessions'
  BY <1>1, <1>2, SameAccountsStay, SessionsStay DEF IInv
<1>4. Whole' /\ Requests' /\ Room'
  BY <1>2 DEF IInv, Whole, Requests, Room, Minting
<1> QED BY <1>3, <1>4 DEF IInv

-----------------------------------------------------------------------------
LEMMA InitInv == Init => IInv
<1> SUFFICES ASSUME Init
             PROVE  IInv
  OBVIOUS
<1>1. /\ sessions = [k \in Token |-> Null] /\ minted = 0 /\ now = 0 /\ ended = {}
      /\ faults = 0 /\ cookie = [b \in Browser |-> Null] /\ tab = [t \in Tab |-> NoRequest]
      /\ ratings = {u.id : u \in users}
  BY DEF Init
<1>2. Whole
  <2>1. CASE users = {}
    <3>1. IsFiniteSet(users)
      BY <2>1, FS_EmptySet
    <3> QED BY <1>1, <2>1, <3>1 DEF Whole
  <2>2. CASE users # {}
    <3>1. PICK f \in Forms : /\ f.email \in Emails /\ f.username \in Usernames
                             /\ users = {[id |-> 1, email |-> f.email, username |-> f.username,
                                  hash |-> [of |-> f.password, cheap |-> TRUE],
                                  chose |-> f.password]}
      BY <2>2 DEF Init
    <3>2. PICK a : a = [id |-> 1, email |-> f.email, username |-> f.username,
                        hash |-> [of |-> f.password, cheap |-> TRUE], chose |-> f.password]
      OBVIOUS
    <3>3. f.password \in Typed
      BY DEF Typed
    <3>4. a \in Account /\ a.id = 1 /\ a.hash.of = a.chose
      BY <3>1, <3>2, <3>3 DEF Account
    <3>5. users = {a}
      BY <3>1, <3>2
    <3>6. IsFiniteSet({a}) /\ Cardinality({a}) = 1
      BY FS_Singleton
    <3> QED BY <1>1, <3>4, <3>5, <3>6 DEF Whole
  <2> QED BY <2>1, <2>2
<1>3. Sessions
  <2>1. \A k \in Token : sessions[k] = Null
    BY <1>1
  <2> QED BY <1>1, <2>1, AccountsAssumption DEF Sessions, Kept
<1>4. Requests
  <2>1. NoForm \in FormOrPart
    <3>1. NoForm = [NoForm EXCEPT !.password = Null]
      BY DEF NoForm
    <3> QED BY <3>1 DEF FormOrPart
  <2> HIDE DEF NoForm
  <2>2. NoRequest \in Request /\ NoRequest.at = "idle" /\ NoRequest.answer = Null
    BY <2>1 DEF NoRequest, Request, Step
  <2> HIDE DEF NoRequest
  <2>3. Sound(NoRequest, users, minted) /\ ~Inserted(NoRequest)
    BY <2>2, AccountsAssumption DEF Sound, Inserted, Minter
  <2> QED BY <1>1, <2>2, <2>3 DEF Requests
<1>5. Room
  <2>1. Minting = {}
    BY <1>1 DEF Minting, Minter, NoRequest
  <2>2. Cardinality(Minting) = 0
    BY <2>1, FS_EmptySet
  <2> QED BY <1>1, <2>2, AccountsAssumption DEF Room
<1> QED BY <1>2, <1>3, <1>4, <1>5 DEF IInv

LEMMA NextInv == IInv /\ [Next]_vars => IInv'
<1> SUFFICES ASSUME IInv, [Next]_vars
             PROVE  IInv'
  OBVIOUS
<1>1. ASSUME NEW t \in Tab, NEW form \in Forms, AskRegister(t, form)
      PROVE  IInv'
  BY <1>1, AskRegisterKeeps
<1>2. ASSUME NEW t \in Tab,
             Register(t) \/ InsertUser(t) \/ InsertRating(t) \/ CommitUser(t) \/ rehash(t)
      PROVE  IInv'
  BY <1>2, RegisterKeeps, InsertUserKeeps, InsertRatingKeeps, CommitUserKeeps, rehashKeeps
<1>3. ASSUME NEW t \in Tab, NEW email \in Emails, NEW password \in Typed,
             Login(t, email, password)
      PROVE  IInv'
  BY <1>3, LoginKeeps
<1>4. ASSUME NEW t \in Tab, NEW skew \in Skew, OpenSession(t, skew)
      PROVE  IInv'
  BY <1>4, OpenSessionKeeps
<1>5. ASSUME NEW t \in Tab, Ask(t, "authenticate") \/ Ask(t, "logout")
      PROVE  IInv'
  BY <1>5, AskKeeps
<1>6. ASSUME NEW t \in Tab, Authenticate(t) \/ Handle(t) \/ Logout(t) \/ Fails(t)
      PROVE  IInv'
  BY <1>6, AuthenticateKeeps, HandleKeeps, LogoutKeeps, FailsKeeps
<1>7. CASE Tick
  BY <1>7, TickKeeps
<1>8. CASE UNCHANGED vars
  <2>1. UNCHANGED <<users, ratings, sessions, minted, now, cookie, tab, ended, faults>>
    BY <1>8 DEF vars
  <2>2. Sessions'
    BY <2>1, Counters, SameAccountsStay, SessionsStay DEF IInv
  <2>3. Whole' /\ Requests' /\ Room'
    BY <2>1 DEF IInv, Whole, Requests, Room, Minting
  <2> QED BY <2>2, <2>3 DEF IInv
<1> QED BY <1>1, <1>2, <1>3, <1>4, <1>5, <1>6, <1>7, <1>8 DEF Next

LEMMA InvAlways == Spec => []IInv
BY InitInv, NextInv, PTL DEF Spec

-----------------------------------------------------------------------------
(***************************************************************************)
(* Every table, cookie and request has the shape the handlers rely on, and *)
(* requests that look a session up carry a token.                          *)
(***************************************************************************)
THEOREM TypeCorrect == Spec => []TypeOK
<1>1. IInv => TypeOK
  <2> SUFFICES ASSUME IInv
               PROVE  TypeOK
    OBVIOUS
  <2>1. \A u \in users : u.id \in 1..Cardinality(users) /\ u.hash.of \in Typed /\ u.id \in Nat
    BY DEF IInv, Whole, Account
  <2>2. ratings \subseteq Nat
    BY <2>1 DEF IInv, Whole
  <2>3. /\ minted \in 0..MaxTokens /\ now \in 0..MaxTime /\ faults \in 0..MaxFaults
        /\ \A k \in Token : sessions[k] # Null => k <= minted
    BY DEF IInv, Sessions, Kept
  <2>4. cookie \in [Browser -> Token \cup {Null}] /\ ended \subseteq Token
    BY DEF IInv, Sessions, Issued
  <2>5. \A t \in Tab :
          /\ tab[t].at \in Step
          /\ tab[t].at \in {"authenticate", "handle", "logout"} => tab[t].token \in Token
    BY DEF IInv, Requests, Sound, Request
  <2> QED BY <2>1, <2>2, <2>3, <2>4, <2>5 DEF TypeOK, Step
<1> QED BY <1>1, InvAlways, PTL

(***************************************************************************)
(* Accounts stay whole whoever registers at the same moment, whichever     *)
(* answers are lost and whenever a hash is renewed: the insert that waits  *)
(* for a colliding one keeps uncommitted accounts apart from each other    *)
(* and from those that are committed, and a renewal keeps all that         *)
(* identifies the row it replaces.                                         *)
(***************************************************************************)
THEOREM AccountsStayWhole == Spec => []AccountsAreWhole
<1>1. IInv => AccountsAreWhole
  <2> SUFFICES ASSUME IInv
               PROVE  AccountsAreWhole
    OBVIOUS
  <2>1. /\ \A u, v \in users : Same(u.email, v.email) \/ Same(u.username, v.username) => u = v
        /\ ratings = {u.id : u \in users}
        /\ \A u \in users : u.hash.of = u.chose
    BY DEF IInv, Whole, Collides
  <2>2. ASSUME NEW t \in Tab
        PROVE  /\ tab[t].answer = "created" =>
                    \E u \in users : u.email = tab[t].form.email
                                     /\ u.username = tab[t].form.username
               /\ tab[t].answer = "taken" => \E u \in users : Collides(u, tab[t].form)
    BY DEF IInv, Requests, Sound
  <2> QED BY <2>1, <2>2 DEF AccountsAreWhole, Collides
<1> QED BY <1>1, InvAlways, PTL

(***************************************************************************)
(* Nobody is let in but as the account whose password opened the session,  *)
(* and never with a token whose logout was answered, however requests of   *)
(* one browser cross, or with a session older than a lifetime.             *)
(***************************************************************************)
THEOREM AlwaysLetInRightly == Spec => LetInRightly
<1> DEFINE A == \A t \in Tab : tab[t].at = "authenticate" /\ tab'[t].at = "handle" =>
                  LET s == sessions[tab[t].token] IN
                  /\ \E u \in users : u.id = tab'[t].user /\ u.chose = s.typed
                  /\ tab[t].token \notin ended
                  /\ \E skew \in Skew : now - s.start < Lifetime + skew
<1>1. IInv /\ [Next]_vars => [A]_vars
  <2> SUFFICES ASSUME IInv, Next, NEW t \in Tab, tab[t].at = "authenticate",
                      tab'[t].at = "handle", NEW s, s = sessions[tab[t].token]
               PROVE  /\ \E u \in users : u.id = tab'[t].user /\ u.chose = s.typed
                      /\ tab[t].token \notin ended
                      /\ \E skew \in Skew : now - s.start < Lifetime + skew
    OBVIOUS
  <2>1. tab \in [Tab -> Request] /\ tab[t] \in Request
    BY DEF IInv, Requests
  <2>2. ASSUME NEW u \in Tab, NEW q, tab' = [tab EXCEPT ![u] = q]
        PROVE  u = t /\ q.at = "handle"
    BY <2>1, <2>2
  <2>3. ASSUME NEW u \in Tab, NEW answer, Answers(u, answer)
        PROVE  FALSE
    <3>1. PICK q : q = [NoRequest EXCEPT !.answer = answer]
      OBVIOUS
    <3>2. q.at = "idle" /\ tab' = [tab EXCEPT ![u] = q]
      BY <2>3, <3>1 DEF NoRequest, Answers
    <3> QED BY <2>2, <3>2
  <2>4. ASSUME NEW u \in Tab, NEW answer, Says(u, answer)
        PROVE  FALSE
    <3>1. PICK q : q = [NoRequest EXCEPT !.answer = answer, !.form = tab[u].form]
      OBVIOUS
    <3>2. q.at = "idle" /\ tab' = [tab EXCEPT ![u] = q]
      BY <2>4, <3>1 DEF NoRequest, Says
    <3> QED BY <2>2, <3>2
  <2>5. ASSUME NEW u \in Tab, NEW step \in Step \ {"handle"}, Goes(u, step)
        PROVE  FALSE
    <3>1. PICK q : q = [tab[u] EXCEPT !.at = step]
      OBVIOUS
    <3>2. q.at = step /\ tab' = [tab EXCEPT ![u] = q]
      BY <2>1, <2>5, <3>1 DEF Goes, Request
    <3> QED BY <2>2, <3>2
  <2>6. ASSUME NEW u \in Tab, tab[u].at # "authenticate", NEW q, tab' = [tab EXCEPT ![u] = q]
        PROVE  FALSE
    BY <2>2, <2>6
  <2>7. ASSUME NEW u \in Tab,
               \/ \E form \in Forms : AskRegister(u, form)
               \/ \E email \in Emails, password \in Typed : Login(u, email, password)
               \/ Ask(u, "authenticate") \/ Ask(u, "logout")
        PROVE  FALSE
    <3>1. tab[u].at = "idle" /\ \E q : tab' = [tab EXCEPT ![u] = q]
      BY <2>7 DEF AskRegister, Login, Ask
    <3> QED BY <2>6, <3>1
  <2>8. ASSUME NEW u \in Tab,
               Register(u) \/ InsertUser(u) \/ InsertRating(u) \/ CommitUser(u) \/ rehash(u)
        PROVE  FALSE
    BY <2>3, <2>4, <2>5, <2>8
       DEF Register, InsertUser, InsertRating, CommitUser, rehash, Step
  <2>9. ASSUME NEW u \in Tab,
               (\E skew \in Skew : OpenSession(u, skew)) \/ Handle(u) \/ Logout(u) \/ Fails(u)
        PROVE  FALSE
    BY <2>3, <2>9 DEF OpenSession, Handle, Logout, Fails
  <2>10. ~Tick
    BY DEF Tick
  <2>11. PICK u \in Tab : Authenticate(u)
    BY <2>7, <2>8, <2>9, <2>10 DEF Next
  <2>12. u = t /\ Live(tab[t].token) /\ tab'[t].user = s.user
    <3>1. Live(tab[u].token) /\ tab' = [tab EXCEPT ![u].at = "handle",
                                           ![u].user = sessions[tab[u].token].user]
      BY <2>3, <2>11 DEF Authenticate
    <3>2. PICK q : q = [tab[u] EXCEPT !.at = "handle", !.user = sessions[tab[u].token].user]
      OBVIOUS
    <3>3. q.user = sessions[tab[u].token].user /\ tab' = [tab EXCEPT ![u] = q]
      BY <2>1, <3>1, <3>2 DEF Request
    <3> QED BY <2>1, <2>2, <3>1, <3>3
  <2>13. /\ tab[t].token \in Token /\ s # Null /\ s.expires > now
    BY <2>12 DEF Live, IInv, Requests, Sound
  <2>14. /\ tab[t].token \notin ended /\ s \in Session
         /\ Opened(users, s.user, s.typed)
         /\ \E skew \in Skew : s.expires = s.start + skew + Lifetime
    BY <2>13 DEF IInv, Sessions, Kept
  <2>15. \E skew \in Skew : now - s.start < Lifetime + skew
    <3>1. PICK skew \in Skew : s.expires = s.start + skew + Lifetime
      BY <2>14
    <3>2. skew \in Int /\ Lifetime \in Int /\ now \in Int /\ s.start \in Int
      BY <2>14, Counters, AccountsAssumption DEF Session
    <3>3. now - s.start < Lifetime + skew
      BY <2>13, <3>1, <3>2
    <3> QED BY <3>3
  <2> QED BY <2>12, <2>14, <2>15 DEF Opened
<1>2. Spec => [][A]_vars
  BY <1>1, InvAlways, PTL DEF Spec
<1> QED BY <1>2 DEF LetInRightly
=============================================================================
