------------------------------ MODULE Accounts ------------------------------
(***************************************************************************)
(* Accounts and sessions: the handlers of internal/api/auth.go and         *)
(* session.go, the service of internal/auth, and the statements of         *)
(* internal/store/users.go and sessions.go.  Tabs send requests, tabs of   *)
(* one browser share its cookie, and every request may run between the     *)
(* statements of every other.                                              *)
(*                                                                         *)
(* A text is itself after trimming, and Lower is what the unique indexes   *)
(* compare.  A hash is the password it was made from, and its cost.        *)
(***************************************************************************)
EXTENDS Integers, FiniteSets

CONSTANTS
  Tab, BrowserOf,        \* tabs, and the browser each is open in
  Forms,                 \* what is typed to register: [email, username, password]
  Lower,                 \* text -> text in lower case
  Emails, Usernames,     \* texts that are accepted as one
  Passwords,             \* passwords of an accepted length
  Skew,                  \* how far the clock of an API process may be ahead
  Lifetime,              \* of a session
  MaxTime, MaxTokens, MaxFaults,   \* bounds
  Null

ASSUME AccountsAssumption ==
  /\ IsFiniteSet(Tab) /\ Null \notin {"created", "taken"}
  /\ \A f \in Forms : f.email \in DOMAIN Lower /\ f.username \in DOMAIN Lower
  /\ Skew \subseteq Int /\ Lifetime \in Nat
  /\ MaxTime \in Nat /\ MaxTokens \in Nat /\ MaxFaults \in Nat

Token == 1..MaxTokens
Browser == {BrowserOf[t] : t \in Tab}
Typed == {f.password : f \in Forms}

VARIABLES
  users,     \* committed rows of users
  ratings,   \* users that have a row in ratings
  sessions,  \* token -> its row, or Null; rows stand for the digest
  minted,    \* tokens that were made
  now,       \* the database's clock
  cookie,    \* browser -> the token it keeps, or Null
  tab,       \* what the request of each tab is doing
  ended,     \* tokens whose logout was answered
  faults     \* store calls that failed

vars == <<users, ratings, sessions, minted, now, cookie, tab, ended, faults>>

NoForm == [email |-> Null, username |-> Null, password |-> Null]
NoRequest == [at |-> "idle", form |-> NoForm, user |-> Null, token |-> Null, answer |-> Null]

Same(a, b) == Lower[a] = Lower[b]

\* An account from before the cost of a hash was raised, or none.
Init ==
  /\ users \in {{}} \cup {{[id |-> 1, email |-> f.email, username |-> f.username,
                            hash |-> [of |-> f.password, cheap |-> TRUE], chose |-> f.password]} :
                 f \in {g \in Forms : g.email \in Emails /\ g.username \in Usernames
                                                         /\ g.password \in Passwords}}
  /\ ratings = {u.id : u \in users}
  /\ sessions = [k \in Token |-> Null]
  /\ minted = 0 /\ now = 0 /\ ended = {} /\ faults = 0
  /\ cookie = [b \in Browser |-> Null]
  /\ tab = [t \in Tab |-> NoRequest]
-----------------------------------------------------------------------------
Goes(t, step) == tab' = [tab EXCEPT ![t].at = step]

Answers(t, answer) == tab' = [tab EXCEPT ![t] = [NoRequest EXCEPT !.answer = answer]]

\* An answer that says something of what was typed.
Says(t, answer) ==
  tab' = [tab EXCEPT ![t] = [NoRequest EXCEPT !.answer = answer, !.form = tab[t].form]]

AskRegister(t, form) ==
  /\ tab[t].at = "idle"
  /\ tab' = [tab EXCEPT ![t] = [NoRequest EXCEPT !.at = "register", !.form = form]]
  /\ UNCHANGED <<users, ratings, sessions, minted, now, cookie, ended, faults>>

\* What was typed is checked before the database hears of it.
Register(t) == LET form == tab[t].form IN
  /\ tab[t].at = "register"
  /\ IF form.email \in Emails /\ form.username \in Usernames /\ form.password \in Passwords
       THEN Goes(t, "insert user") ELSE Answers(t, "invalid")
  /\ UNCHANGED <<users, ratings, sessions, minted, now, cookie, ended, faults>>

\* Mutant: addresses and names are compared as they were typed.
CollidesAsTyped(a, b) == a.email = b.email \/ a.username = b.username

Collides(a, b) == Same(a.email, b.email) \/ Same(a.username, b.username)

Holds(t) == tab[t].at \in {"insert rating", "commit user"}

(***************************************************************************)
(* CreateUser: an insert waits for an uncommitted one that it collides     *)
(* with, and fails if one is committed.  The rating is inserted in the     *)
(* same transaction.                                                       *)
(***************************************************************************)
InsertUser(t) == LET form == tab[t].form IN
  /\ tab[t].at = "insert user"
  /\ \A u \in Tab \ {t} : Holds(u) => ~Collides(tab[u].form, form)
  /\ IF \E u \in users : Collides(u, form) THEN Says(t, "taken") ELSE Goes(t, "insert rating")
  /\ UNCHANGED <<users, ratings, sessions, minted, now, cookie, ended, faults>>

NewUser(form) == [id |-> Cardinality(users) + 1, email |-> form.email, username |-> form.username,
                  hash |-> [of |-> form.password, cheap |-> FALSE], chose |-> form.password]

InsertRating(t) ==
  /\ tab[t].at = "insert rating"
  /\ Goes(t, "commit user")
  /\ UNCHANGED <<users, ratings, sessions, minted, now, cookie, ended, faults>>

UserLands(t) ==
  /\ users' = users \cup {NewUser(tab[t].form)}
  /\ ratings' = ratings \cup {NewUser(tab[t].form).id}

CommitUser(t) ==
  /\ tab[t].at = "commit user"
  /\ UserLands(t)
  /\ Says(t, "created")
  /\ UNCHANGED <<sessions, minted, now, cookie, ended, faults>>

\* The bound MaxTokens: logins under way will each mint one.
TokensLeft == minted + Cardinality({u \in Tab : tab[u].at \in {"rehash", "open"}}) < MaxTokens

(***************************************************************************)
(* Login: the credentials are read by the address, without regard to case, *)
(* and no account and a wrong password are one answer.                     *)
(***************************************************************************)
Login(t, email, password) ==
  /\ tab[t].at = "idle"
  /\ TokensLeft
  /\ LET found == {u \in users : Same(u.email, email) /\ u.hash.of = password} IN
     tab' = [tab EXCEPT ![t] = [NoRequest EXCEPT
       !.form = [NoForm EXCEPT !.password = IF found = {} THEN Null ELSE password],
       !.at = IF found = {} THEN "idle"
              ELSE IF \E u \in found : u.hash.cheap THEN "rehash" ELSE "open",
       !.user = IF found = {} THEN Null ELSE (CHOOSE u \in found : TRUE).id,
       !.answer = IF found = {} THEN "no match" ELSE Null]]
  /\ UNCHANGED <<users, ratings, sessions, minted, now, cookie, ended, faults>>

\* A hash that was cheap to make is replaced, if that works.
rehash(t) ==
  /\ tab[t].at = "rehash"
  /\ \/ /\ users' = {IF u.id = tab[t].user
                       THEN [u EXCEPT !.hash = [of |-> tab[t].form.password, cheap |-> FALSE]]
                       ELSE u : u \in users}
        /\ UNCHANGED faults
     \/ /\ faults < MaxFaults /\ faults' = faults + 1
        /\ UNCHANGED users
  /\ Goes(t, "open")
  /\ UNCHANGED <<ratings, sessions, minted, now, cookie, ended>>

\* The row: when it ends is by the process's clock, and has to be after it starts.
Opens(t, skew) ==
  /\ minted' = minted + 1
  /\ sessions' = IF now + skew + Lifetime > now
       THEN [sessions EXCEPT ![minted'] = [user |-> tab[t].user, start |-> now,
               expires |-> now + skew + Lifetime, typed |-> tab[t].form.password]]
       ELSE sessions

OpenSession(t, skew) ==
  /\ tab[t].at = "open"
  /\ Opens(t, skew)
  /\ IF sessions' # sessions
       THEN Answers(t, "in") /\ cookie' = [cookie EXCEPT ![BrowserOf[t]] = minted']
       ELSE Answers(t, "error") /\ UNCHANGED cookie
  /\ UNCHANGED <<users, ratings, now, ended, faults>>

\* Mutant: no cookie is no reason to stop.
AskAnyway(t, step) ==
  /\ tab[t].at = "idle"
  /\ tab' = [tab EXCEPT ![t] = [NoRequest EXCEPT !.at = step, !.token = cookie[BrowserOf[t]]]]
  /\ UNCHANGED <<users, ratings, sessions, minted, now, cookie, ended, faults>>

\* A request carries the cookie that its browser has when it is sent.
Ask(t, step) ==
  /\ tab[t].at = "idle"
  /\ tab' = [tab EXCEPT ![t] = [NoRequest EXCEPT
       !.at = IF cookie[BrowserOf[t]] # Null THEN step ELSE "idle",
       !.answer = IF cookie[BrowserOf[t]] # Null THEN Null ELSE "no session",
       !.token = cookie[BrowserOf[t]]]]
  /\ UNCHANGED <<users, ratings, sessions, minted, now, cookie, ended, faults>>

\* Mutant: a row is a session until it is deleted.
LiveForever(token) == sessions[token] # Null

\* SessionUser finds a row that has not expired by the database's clock.
Live(token) == sessions[token] # Null /\ sessions[token].expires > now

\* requireUser: the session is looked up once, before the handler runs.
Authenticate(t) ==
  /\ tab[t].at = "authenticate"
  /\ IF Live(tab[t].token)
       THEN tab' = [tab EXCEPT ![t].at = "handle", ![t].user = sessions[tab[t].token].user]
       ELSE Answers(t, "no session")
  /\ UNCHANGED <<users, ratings, sessions, minted, now, cookie, ended, faults>>

Handle(t) ==
  /\ tab[t].at = "handle"
  /\ Answers(t, "served")
  /\ UNCHANGED <<users, ratings, sessions, minted, now, cookie, ended, faults>>

\* Deleting a session that is not there is no failure.
Logout(t) == LET k == tab[t].token IN
  /\ tab[t].at = "logout"
  /\ sessions' = [sessions EXCEPT ![k] = Null]
  /\ cookie' = [cookie EXCEPT ![BrowserOf[t]] = Null]
  /\ ended' = ended \cup {k}
  /\ Answers(t, "out")
  /\ UNCHANGED <<users, ratings, minted, now, faults>>

(***************************************************************************)
(* A store call fails: what it should have done is undone, or is done and  *)
(* only its answer is lost.  Either way the request fails.                 *)
(***************************************************************************)
Fails(t) ==
  /\ tab[t].at \notin {"idle", "handle", "rehash", "register"}
  /\ faults < MaxFaults /\ faults' = faults + 1
  /\ \/ UNCHANGED <<users, ratings, sessions, minted>>
     \/ tab[t].at = "commit user" /\ UserLands(t) /\ UNCHANGED <<sessions, minted>>
     \/ /\ tab[t].at = "open"
        /\ \E skew \in Skew : Opens(t, skew)
        /\ UNCHANGED <<users, ratings>>
     \/ /\ tab[t].at = "logout"
        /\ sessions' = [sessions EXCEPT ![tab[t].token] = Null]
        /\ UNCHANGED <<users, ratings, minted>>
  /\ Answers(t, "error")
  /\ UNCHANGED <<now, cookie, ended>>

Tick ==
  /\ now < MaxTime
  /\ now' = now + 1
  /\ UNCHANGED <<users, ratings, sessions, minted, cookie, tab, ended, faults>>

Next ==
  \/ \E t \in Tab :
       \/ \E form \in Forms : AskRegister(t, form)
       \/ Register(t) \/ InsertUser(t) \/ InsertRating(t) \/ CommitUser(t)
       \/ \E email \in Emails, password \in Typed : Login(t, email, password)
       \/ rehash(t)
       \/ \E skew \in Skew : OpenSession(t, skew)
       \/ Ask(t, "authenticate") \/ Authenticate(t) \/ Handle(t)
       \/ Ask(t, "logout") \/ Logout(t)
       \/ Fails(t)
  \/ Tick

Spec == Init /\ [][Next]_vars
-----------------------------------------------------------------------------
TypeOK ==
  /\ \A u \in users : u.id \in 1..Cardinality(users) /\ u.hash.of \in Typed
  /\ ratings \subseteq Nat
  /\ minted \in 0..MaxTokens /\ now \in 0..MaxTime /\ faults \in 0..MaxFaults
  /\ \A k \in Token : sessions[k] # Null => k <= minted
  /\ cookie \in [Browser -> Token \cup {Null}] /\ ended \subseteq Token
  /\ \A t \in Tab : /\ tab[t].at \in {"idle", "register", "insert user", "insert rating",
                         "commit user", "rehash", "open", "authenticate", "handle", "logout"}
                    /\ tab[t].at \in {"authenticate", "handle", "logout"} => tab[t].token \in Token

(***************************************************************************)
(* Whoever registers at the same moment, and whichever answers are lost,   *)
(* no two accounts have one address or one name in any capitalisation,     *)
(* every account has its rating and no rating is without an account, and   *)
(* "created" and "taken" are true when they are said.  Renewing hashes in  *)
(* the middle of logins never changes which password opens an account.     *)
(***************************************************************************)
AccountsAreWhole ==
  /\ \A u, v \in users : Same(u.email, v.email) \/ Same(u.username, v.username) => u = v
  /\ ratings = {u.id : u \in users}
  /\ \A u \in users : u.hash.of = u.chose
  /\ \A t \in Tab : LET form == tab[t].form IN
       /\ tab[t].answer = "created" =>
            \E u \in users : u.email = form.email /\ u.username = form.username
       /\ tab[t].answer = "taken" =>
            \E u \in users : Same(u.email, form.email) \/ Same(u.username, form.username)

(***************************************************************************)
(* A request is only let in as somebody whose password was typed to open   *)
(* its session, and while that session is not over: its logout was not     *)
(* answered before, whatever was in flight then, and it is not older than  *)
(* a lifetime by the database's clock, give or take how far the clock was  *)
(* off of the process that opened it.                                      *)
(***************************************************************************)
LetInRightly == [][
  \A t \in Tab : tab[t].at = "authenticate" /\ tab'[t].at = "handle" =>
    LET s == sessions[tab[t].token] IN
    /\ \E u \in users : u.id = tab'[t].user /\ u.chose = s.typed
    /\ tab[t].token \notin ended
    /\ \E skew \in Skew : now - s.start < Lifetime + skew]_vars
=============================================================================
