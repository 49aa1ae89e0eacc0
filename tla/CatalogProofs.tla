---------------------------- MODULE CatalogProofs ----------------------------
(***************************************************************************)
(* Proofs about migrating and about registering challenges, for any        *)
(* processes, binaries, migrations, instances, checkouts and failures: the *)
(* schema follows one lineage and nobody fails because another was faster; *)
(* an instance serves what it carries, what is registered stays as it is,  *)
(* and instances do not get in one another's way.                          *)
(***************************************************************************)
EXTENDS Catalog, FiniteSetTheorems, SequenceTheorems, WellFoundedInduction, NaturalsInduction, TLAPS

(***************************************************************************)
(* The inductive invariant.  The schema is the beginning of some binary's  *)
(* migrations and the table agrees with it; whoever is past the lock holds *)
(* it; and what a process has left to apply is what its binary carries     *)
(* beyond a schema that its binary's migrations begin with.                *)
(***************************************************************************)
BeginsALineage ==
  /\ \E l \in Lineages : History!Prefix(schema, l)
  /\ recorded = Applied(schema)

LockIsHeld ==
  \A p \in Migrator : call[p].at \in {"read", "apply", "commit"} => lock = p

BinaryIsSound ==
  \A p \in Migrator : call[p].at \in {"lock", "read", "apply", "commit"} =>
    call[p].binary \in Binary /\ WellFormed(call[p].binary)

LeftIsMissing ==
  \A p \in Migrator : call[p].at \in {"apply", "commit"} =>
    /\ History!Prefix(schema, Lineage(call[p].binary))
    /\ call[p].left = {v \in Carried(call[p].binary) : v > Len(schema)}
    /\ call[p].at = "commit" => call[p].left # {}

NobodyCollided == \A p \in Migrator : ~call[p].collided

MigrateInv ==
  /\ MigrateTypeOK
  /\ BeginsALineage
  /\ LockIsHeld
  /\ BinaryIsSound
  /\ LeftIsMissing
  /\ NobodyCollided

-----------------------------------------------------------------------------
\* A well-formed binary carries one text for each version from 1 to some number.
LEMMA LineageShape ==
  ASSUME NEW b \in Binary, WellFormed(b)
  PROVE  /\ Cardinality(Files[b]) \in Nat
         /\ Carried(b) \subseteq Version
         /\ \A v \in Carried(b) : TextOf(b, v) \in Text
         /\ Lineage(b) \in Seq(Text)
         /\ Len(Lineage(b)) = Cardinality(Files[b])
         /\ \A v \in Carried(b) : Lineage(b)[v] = TextOf(b, v)
<1> DEFINE n == Cardinality(Files[b])
<1>1. n \in Nat
  BY FS_CardinalityType, MigrateAssumption
<1>2. Files[b] \subseteq [version : Version, text : Text]
  BY MigrateAssumption
<1>3. {f.version : f \in Files[b]} = 1..n
  BY DEF WellFormed
<1>4. ASSUME NEW v \in 1..n
      PROVE  v \in Version /\ TextOf(b, v) \in Text
  <2>1. PICK f \in Files[b] : f.version = v
    BY <1>3
  <2>2. TextOf(b, v) \in {g.text : g \in Files[b]}
    BY <2>1 DEF TextOf
  <2> QED BY <1>2, <2>1, <2>2
<1>5. Lineage(b) = [v \in 1..n |-> TextOf(b, v)]
  BY DEF Lineage, Carried
<1>6. Lineage(b) \in [1..n -> Text]
  BY <1>4, <1>5
<1>7. Lineage(b) \in Seq(Text)
  BY <1>1, <1>6, SeqDef
<1>8. Len(Lineage(b)) = n
  <2>1. DOMAIN Lineage(b) = 1..n
    BY <1>6
  <2> QED BY <1>1, <1>7, <2>1, LenProperties
<1> QED BY <1>1, <1>4, <1>5, <1>7, <1>8 DEF Carried

\* The schema of a database that begins a lineage only has versions of the table.
LEMMA SchemaInVersions ==
  ASSUME MigrateTypeOK, BeginsALineage
  PROVE  1..Len(schema) \subseteq Version
<1>1. PICK b \in Binary : WellFormed(b) /\ History!Prefix(schema, Lineage(b))
  BY DEF BeginsALineage, Lineages
<1>2. Len(schema) \in Nat
  BY LenProperties DEF MigrateTypeOK
<1> QED BY <1>1, <1>2, LineageShape DEF History!Prefix, Carried

(***************************************************************************)
(* checkAgainstFiles is right: a binary that agrees with the table is one  *)
(* whose migrations the schema begins, and what is not recorded is what    *)
(* lies beyond.                                                            *)
(***************************************************************************)
LEMMA AgreeingBinaryExtends ==
  ASSUME MigrateTypeOK, BeginsALineage, NEW b \in Binary, WellFormed(b), Agrees(b)
  PROVE  /\ History!Prefix(schema, Lineage(b))
         /\ {v \in Carried(b) : recorded[v] = Null} = {v \in Carried(b) : v > Len(schema)}
<1> DEFINE k == Len(schema)
           n == Cardinality(Files[b])
<1>1. k \in Nat /\ \A v \in 1..k : schema[v] \in Text
  BY LenProperties, ElementOfSeq DEF MigrateTypeOK
<1>2. n \in Nat /\ Carried(b) = 1..n /\ Carried(b) \subseteq Version
  BY LineageShape DEF Carried
<1>3. \A v \in Version : recorded[v] = IF v \in 1..k THEN schema[v] ELSE Null
  BY DEF BeginsALineage, Applied
<1>4. Null \notin Text
  BY MigrateAssumption
<1>5. \A v \in 1..k : v \in 1..n /\ schema[v] = Lineage(b)[v]
  <2> SUFFICES ASSUME NEW v \in 1..k PROVE v \in 1..n /\ schema[v] = Lineage(b)[v]
    OBVIOUS
  <2>1. v \in Version /\ recorded[v] = schema[v] /\ recorded[v] # Null
    BY <1>1, <1>3, <1>4, SchemaInVersions
  <2>2. v \in Carried(b) /\ recorded[v] = TextOf(b, v)
    BY <2>1 DEF Agrees
  <2> QED BY <1>2, <2>1, <2>2, LineageShape
<1>6. k <= n
  BY <1>1, <1>2, <1>5
<1>7. History!Prefix(schema, Lineage(b))
  BY <1>5, <1>6, LineageShape DEF History!Prefix
<1>8. \A v \in 1..n : recorded[v] = Null <=> v > k
  BY <1>1, <1>2, <1>3, <1>4
<1> QED BY <1>2, <1>7, <1>8

\* The next migration of a process that has something left is the one after the schema.
LEMMA MissingIsNext ==
  ASSUME MigrateInv, NEW p \in Migrator, call[p].at \in {"apply", "commit"},
         call[p].left # {}
  PROVE  /\ Len(schema) \in Nat
         /\ Missing(p) = Len(schema) + 1
         /\ Missing(p) \in Carried(call[p].binary)
<1> DEFINE k == Len(schema)
           b == call[p].binary
           n == Cardinality(Files[b])
<1>1. k \in Nat
  BY LenProperties DEF MigrateInv, MigrateTypeOK
<1>2. b \in Binary /\ WellFormed(b)
  BY DEF MigrateInv, BinaryIsSound
<1>3. n \in Nat /\ Carried(b) = 1..n
  BY <1>2, LineageShape DEF Carried
<1>4. call[p].left = {v \in 1..n : v > k}
  BY <1>3 DEF MigrateInv, LeftIsMissing
<1>5. k + 1 \in call[p].left /\ \A w \in call[p].left : k + 1 <= w
  BY <1>1, <1>3, <1>4
<1>6. ASSUME NEW v \in call[p].left, \A w \in call[p].left : v <= w
      PROVE  v = k + 1
  <2>1. v \in Nat /\ v <= k + 1 /\ k + 1 <= v
    BY <1>4, <1>5, <1>6
  <2> QED BY <1>1, <2>1
<1>7. Missing(p) = k + 1
  <2>1. \E v \in call[p].left : \A w \in call[p].left : v <= w
    BY <1>5
  <2>2. /\ Missing(p) \in call[p].left
        /\ \A w \in call[p].left : Missing(p) <= w
    BY <2>1 DEF Missing
  <2> QED BY <1>6, <2>2
<1> QED BY <1>1, <1>3, <1>4, <1>5, <1>7

(***************************************************************************)
(* What a commit does, whether its answer arrives or not: it adds the next *)
(* migration of the binary, and records it.                                *)
(***************************************************************************)
LEMMA LandingExtends ==
  ASSUME MigrateInv, NEW p \in Migrator, call[p].at = "commit", Lands(p)
  PROVE  /\ schema' \in Seq(Text)
         /\ recorded' \in [Version -> Text \cup {Null}]
         /\ Len(schema') = Len(schema) + 1
         /\ History!Prefix(schema, schema')
         /\ History!Prefix(schema', Lineage(call[p].binary))
         /\ Lineage(call[p].binary) \in Lineages
         /\ recorded' = Applied(schema')
<1> DEFINE k == Len(schema)
           b == call[p].binary
           t == TextOf(b, k + 1)
<1>1. b \in Binary /\ WellFormed(b)
  BY DEF MigrateInv, BinaryIsSound
<1>2. k \in Nat /\ Missing(p) = k + 1 /\ k + 1 \in Carried(b)
  <2>1. call[p].left # {}
    BY DEF MigrateInv, LeftIsMissing
  <2> QED BY <2>1, MissingIsNext
<1>3. t \in Text /\ k + 1 \in Version /\ Lineage(b)[k + 1] = t
  BY <1>1, <1>2, LineageShape
<1>4. schema \in Seq(Text) /\ schema' = Append(schema, t)
  BY <1>2 DEF MigrateInv, MigrateTypeOK, Lands
<1>5. /\ schema' \in Seq(Text)
      /\ Len(schema') = k + 1
      /\ \A i \in 1..k : schema'[i] = schema[i]
      /\ schema'[k + 1] = t
  BY <1>3, <1>4, AppendProperties
<1>6. recorded' = [recorded EXCEPT ![k + 1] = t]
  BY <1>2 DEF Lands
<1>7. recorded = Applied(schema) /\ recorded \in [Version -> Text \cup {Null}]
  BY DEF MigrateInv, BeginsALineage, MigrateTypeOK
<1>8. Applied(schema') = [v \in Version |-> IF v \in 1..(k + 1) THEN schema'[v] ELSE Null]
  BY <1>5 DEF Applied
<1>9. \A v \in Version : recorded'[v] = Applied(schema')[v]
  <2> SUFFICES ASSUME NEW v \in Version PROVE recorded'[v] = Applied(schema')[v]
    OBVIOUS
  <2>1. CASE v = k + 1
    BY <1>2, <1>5, <1>6, <1>7, <1>8, <2>1
  <2>2. CASE v # k + 1
    <3>1. v \in 1..k <=> v \in 1..(k + 1)
      BY <1>2, <2>2, MigrateAssumption
    <3>2. recorded'[v] = IF v \in 1..k THEN schema[v] ELSE Null
      BY <1>6, <1>7, <2>2 DEF Applied
    <3>3. Applied(schema')[v] = IF v \in 1..(k + 1) THEN schema'[v] ELSE Null
      BY <1>8
    <3> QED BY <1>5, <3>1, <3>2, <3>3
  <2> QED BY <2>1, <2>2
<1>10. recorded' = Applied(schema') /\ recorded' \in [Version -> Text \cup {Null}]
  BY <1>3, <1>6, <1>7, <1>8, <1>9
<1>11. History!Prefix(schema, Lineage(b)) /\ Len(Lineage(b)) = Cardinality(Files[b])
  BY <1>1, LineageShape DEF MigrateInv, LeftIsMissing
<1>12. History!Prefix(schema', Lineage(b))
  <2>1. k + 1 <= Len(Lineage(b))
    BY <1>1, <1>2, <1>11, LineageShape DEF Carried
  <2>2. \A i \in 1..(k + 1) : schema'[i] = Lineage(b)[i]
    BY <1>2, <1>3, <1>5, <1>11 DEF History!Prefix
  <2> QED BY <1>5, <2>1, <2>2 DEF History!Prefix
<1>13. History!Prefix(schema, schema')
  BY <1>2, <1>5 DEF History!Prefix
<1> QED BY <1>1, <1>5, <1>10, <1>12, <1>13 DEF Lineages

-----------------------------------------------------------------------------
\* The record of a call, put together from its fields.
Calling(a, b, L, c) == [at |-> a, binary |-> b, left |-> L, collided |-> c]

Call == [at : {"idle", "lock", "read", "apply", "commit", "unlock"},
         binary : Binary \cup {Null}, left : SUBSET Version, collided : BOOLEAN]

\* What the invariant asks of the call of p, given the schema and who holds the lock.
CallSound(t, p, ran, holder) ==
  /\ t \in Call
  /\ ~t.collided
  /\ t.at \in {"read", "apply", "commit"} => holder = p
  /\ t.at \in {"lock", "read", "apply", "commit"} =>
       t.binary \in Binary /\ WellFormed(t.binary)
  /\ t.at \in {"apply", "commit"} =>
       /\ History!Prefix(ran, Lineage(t.binary))
       /\ t.left = {v \in Carried(t.binary) : v > Len(ran)}
  /\ t.at = "commit" => t.left # {}

\* The invariant is about the schema, the lock, and each call by itself.
LEMMA InvByCall ==
  MigrateInv <=>
    /\ schema \in Seq(Text)
    /\ recorded \in [Version -> Text \cup {Null}]
    /\ lock \in Migrator \cup {Null}
    /\ BeginsALineage
    /\ call \in [Migrator -> Call]
    /\ \A p \in Migrator : CallSound(call[p], p, schema, lock)
BY DEF MigrateInv, MigrateTypeOK, LockIsHeld, BinaryIsSound, LeftIsMissing,
       NobodyCollided, CallSound, Call

\* A call is made of its fields, and they have their types.
LEMMA CallFields ==
  ASSUME NEW t \in Call
  PROVE  /\ t = Calling(t.at, t.binary, t.left, t.collided)
         /\ t.binary \in Binary \cup {Null}
         /\ t.left \in SUBSET Version
BY DEF Call, Calling

\* The updates of a call that the operations make.
LEMMA CallAt ==
  ASSUME NEW t \in Call, NEW a \in {"idle", "lock", "read", "apply", "commit", "unlock"}
  PROVE  [t EXCEPT !.at = a] = Calling(a, t.binary, t.left, t.collided)
<1>1. [t EXCEPT !.at = a] \in Call
  BY DEF Call
<1> QED BY <1>1, CallFields DEF Call

LEMMA CallAtLeft ==
  ASSUME NEW t \in Call, NEW L \in SUBSET Version
  PROVE  [t EXCEPT !.at = "apply", !.left = L] = Calling("apply", t.binary, L, t.collided)
<1>1. [t EXCEPT !.at = "apply", !.left = L] \in Call
  BY DEF Call
<1> QED BY <1>1, CallFields DEF Call

LEMMA CallAtBinary ==
  ASSUME NEW t \in Call, NEW b \in Binary
  PROVE  [t EXCEPT !.at = "lock", !.binary = b] = Calling("lock", b, t.left, t.collided)
<1>1. [t EXCEPT !.at = "lock", !.binary = b] \in Call
  BY DEF Call
<1> QED BY <1>1, CallFields DEF Call

LEMMA CallAtCollided ==
  ASSUME NEW t \in Call, NEW c \in BOOLEAN
  PROVE  [t EXCEPT !.at = "unlock", !.collided = c] = Calling("unlock", t.binary, t.left, c)
<1>1. [t EXCEPT !.at = "unlock", !.collided = c] \in Call
  BY DEF Call
<1> QED BY <1>1, CallFields DEF Call

LEMMA NoCallFields ==
  /\ NoCall \in Call /\ NoCall.at = "idle" /\ NoCall.binary = Null
  /\ NoCall.left = {} /\ NoCall.collided = FALSE
BY DEF NoCall, Call

(***************************************************************************)
(* A step of one call keeps the invariant, if it leaves that call sound    *)
(* and takes neither the lock nor the schema from under another.           *)
(***************************************************************************)
LEMMA OneCallMoves ==
  ASSUME MigrateInv, NEW p \in Migrator, NEW t,
         call' = [call EXCEPT ![p] = t], CallSound(t, p, schema', lock'),
         schema' \in Seq(Text), recorded' \in [Version -> Text \cup {Null}],
         lock' \in Migrator \cup {Null}, BeginsALineage',
         schema' = schema \/ lock = p,
         lock' = lock \/ lock \in {p, Null}
  PROVE  MigrateInv'
<1>1. ASSUME NEW q \in Migrator \ {p}
      PROVE  CallSound(call[q], q, schema', lock')
  <2>1. CallSound(call[q], q, schema, lock) /\ call'[q] = call[q]
    BY InvByCall
  <2>2. CASE call[q].at \in {"read", "apply", "commit"}
    <3>1. lock = q
      BY <2>1, <2>2 DEF CallSound
    <3>2. lock' = lock /\ schema' = schema
      BY <3>1, MigrateAssumption
    <3> QED BY <2>1, <3>2 DEF CallSound
  <2>3. CASE call[q].at \notin {"read", "apply", "commit"}
    BY <2>1, <2>3 DEF CallSound
  <2> QED BY <2>2, <2>3
<1>2. call'[p] = t /\ t \in Call
  BY InvByCall DEF CallSound
<1>3. call' \in [Migrator -> Call] /\ \A q \in Migrator : CallSound(call'[q], q, schema', lock')
  BY <1>1, <1>2, InvByCall
<1> QED
  BY <1>3 DEF MigrateInv, MigrateTypeOK, LockIsHeld, BinaryIsSound, LeftIsMissing,
              NobodyCollided, CallSound, Call

\* The same for a step that leaves the schema and the table alone.
LEMMA OneCallOnlyMoves ==
  ASSUME MigrateInv, NEW p \in Migrator, NEW t,
         call' = [call EXCEPT ![p] = t], CallSound(t, p, schema', lock'),
         UNCHANGED <<schema, recorded>>,
         lock' \in Migrator \cup {Null},
         lock' = lock \/ lock \in {p, Null}
  PROVE  MigrateInv'
<1>1. BeginsALineage'
  BY InvByCall DEF BeginsALineage
<1> QED BY <1>1, OneCallMoves, InvByCall

(***************************************************************************)
(* One lemma per operation.  A call that is over, or about to give the     *)
(* lock back, asks nothing of the schema.                                  *)
(***************************************************************************)
LEMMA OverIsSound ==
  ASSUME NEW p
  PROVE  /\ CallSound(NoCall, p, schema', lock')
         /\ CallSound(Calling("unlock", Null, {}, FALSE), p, schema', lock')
BY DEF CallSound, Calling, NoCall, Call

LEMMA LeaveMakes ==
  ASSUME NEW p, NEW c \in BOOLEAN, Leave(p, c)
  PROVE  call' = [call EXCEPT ![p] = Calling("unlock", Null, {}, c)]
<1>1. [NoCall EXCEPT !.at = "unlock", !.collided = c] = Calling("unlock", Null, {}, c)
  BY NoCallFields, CallAtCollided
<1> QED BY <1>1 DEF Leave

LEMMA GotoMakes ==
  ASSUME call \in [Migrator -> Call], NEW p \in Migrator, 
         NEW a \in {"read", "commit"}, Goto(p, a)
  PROVE  call' = [call EXCEPT ![p] =
                    Calling(a, call[p].binary, call[p].left, call[p].collided)]
<1>1. call' = [call EXCEPT ![p] = [call[p] EXCEPT !.at = a]]
  BY DEF Goto
<1>2. [call[p] EXCEPT !.at = a] = Calling(a, call[p].binary, call[p].left, call[p].collided)
  BY CallAt
<1> QED BY <1>1, <1>2

LEMMA MigrateKeepsInv ==
  ASSUME MigrateInv, NEW p \in Migrator, NEW b \in Binary, Migrate(p, b)
  PROVE  MigrateInv'
<1> DEFINE t == IF WellFormed(b) THEN Calling("lock", b, {}, FALSE) ELSE NoCall
<1>1. call' = [call EXCEPT ![p] = t]
  <2>1. [NoCall EXCEPT !.at = "lock", !.binary = b] = Calling("lock", b, {}, FALSE)
    BY NoCallFields, CallAtBinary
  <2> QED BY <2>1 DEF Migrate
<1>2. CallSound(t, p, schema', lock')
  BY OverIsSound DEF CallSound, Calling, Call
<1>3. UNCHANGED <<schema, recorded, lock>>
  BY DEF Migrate
<1> HIDE DEF t
<1> QED BY <1>1, <1>2, <1>3, OneCallOnlyMoves, InvByCall

LEMMA TakeLockKeepsInv ==
  ASSUME MigrateInv, NEW p \in Migrator, TakeLock(p)
  PROVE  MigrateInv'
<1> DEFINE t == Calling("read", call[p].binary, call[p].left, call[p].collided)
<1>1. call[p] \in Call /\ CallSound(call[p], p, schema, lock)
  BY InvByCall
<1>2. call' = [call EXCEPT ![p] = t]
  BY InvByCall, GotoMakes DEF TakeLock
<1>3. UNCHANGED <<schema, recorded>> /\ lock = Null /\ lock' = p
  BY DEF TakeLock
<1>4. CallSound(t, p, schema', lock')
  BY <1>1, <1>3 DEF TakeLock, CallSound, Calling, Call
<1> HIDE DEF t
<1> QED BY <1>2, <1>3, <1>4, OneCallOnlyMoves

LEMMA ReadAppliedKeepsInv ==
  ASSUME MigrateInv, NEW p \in Migrator, ReadApplied(p)
  PROVE  MigrateInv'
<1> DEFINE b == call[p].binary
           L == {v \in Carried(b) : recorded[v] = Null}
           t == Calling("apply", b, L, call[p].collided)
<1>1. call[p] \in Call /\ CallSound(call[p], p, schema, lock) /\ call[p].at = "read"
  BY InvByCall DEF ReadApplied
<1>2. UNCHANGED <<schema, recorded, lock>>
  BY DEF ReadApplied
<1>3. CASE Agrees(b)
  <2>1. b \in Binary /\ WellFormed(b) /\ lock = p
    BY <1>1 DEF CallSound
  <2>2. /\ History!Prefix(schema, Lineage(b))
        /\ L = {v \in Carried(b) : v > Len(schema)}
    BY <1>3, <2>1, AgreeingBinaryExtends DEF MigrateInv
  <2>3. L \in SUBSET Version
    BY <2>1, LineageShape
  <2>4. call' = [call EXCEPT ![p] = t]
    <3>1. call' = [call EXCEPT ![p] = [call[p] EXCEPT !.at = "apply", !.left = L]]
      BY <1>3 DEF ReadApplied
    <3> HIDE DEF L
    <3> QED BY <1>1, <2>3, <3>1, CallAtLeft
  <2>5. CallSound(t, p, schema', lock')
    BY <1>1, <1>2, <2>1, <2>2, <2>3 DEF CallSound, Calling, Call
  <2> HIDE DEF t
  <2> QED BY <1>2, <2>4, <2>5, OneCallOnlyMoves, InvByCall
<1>4. CASE ~Agrees(b)
  <2>1. call' = [call EXCEPT ![p] = Calling("unlock", Null, {}, FALSE)]
    BY <1>4, LeaveMakes DEF ReadApplied
  <2> QED BY <1>2, <2>1, OverIsSound, OneCallOnlyMoves, InvByCall
<1> QED BY <1>3, <1>4

(***************************************************************************)
(* The next migration is never recorded yet, so the insert of its row does *)
(* not collide.                                                            *)
(***************************************************************************)
LEMMA ApplyKeepsInv ==
  ASSUME MigrateInv, NEW p \in Migrator, Apply(p)
  PROVE  MigrateInv'
<1> DEFINE t == Calling("commit", call[p].binary, call[p].left, call[p].collided)
<1>1. call[p] \in Call /\ CallSound(call[p], p, schema, lock) /\ call[p].at = "apply" /\ call[p].left # {}
  BY InvByCall DEF Apply
<1>2. UNCHANGED <<schema, recorded, lock>>
  BY DEF Apply
<1>3. recorded[Missing(p)] = Null
  <2>1. /\ Len(schema) \in Nat /\ Missing(p) = Len(schema) + 1
        /\ Missing(p) \in Carried(call[p].binary)
    BY <1>1, MissingIsNext
  <2>2. Missing(p) \in Version
    BY <1>1, <2>1, LineageShape DEF CallSound
  <2>3. recorded = Applied(schema)
    BY DEF MigrateInv, BeginsALineage
  <2> QED BY <2>1, <2>2, <2>3 DEF Applied
<1>4. call' = [call EXCEPT ![p] = t]
  BY <1>3, InvByCall, GotoMakes DEF Apply
<1>5. CallSound(t, p, schema', lock')
  BY <1>1, <1>2 DEF CallSound, Calling, Call
<1> HIDE DEF t
<1> QED BY <1>2, <1>4, <1>5, OneCallOnlyMoves, InvByCall

LEMMA FinishKeepsInv ==
  ASSUME MigrateInv, NEW p \in Migrator, Finish(p)
  PROVE  MigrateInv'
<1>1. call' = [call EXCEPT ![p] = Calling("unlock", Null, {}, FALSE)]
  BY LeaveMakes DEF Finish
<1> QED BY <1>1, OverIsSound, OneCallOnlyMoves, InvByCall DEF Finish

LEMMA UnlockKeepsInv ==
  ASSUME MigrateInv, NEW p \in Migrator, Unlock(p)
  PROVE  MigrateInv'
BY OverIsSound, OneCallOnlyMoves, InvByCall DEF Unlock

LEMMA CommitKeepsInv ==
  ASSUME MigrateInv, NEW p \in Migrator, Commit(p)
  PROVE  MigrateInv'
<1> DEFINE b == call[p].binary
           k == Len(schema)
           L == call[p].left \ {k + 1}
           t == Calling("apply", b, L, call[p].collided)
<1>1. call[p] \in Call /\ CallSound(call[p], p, schema, lock) /\ call[p].at = "commit" /\ Lands(p)
  BY InvByCall DEF Commit
<1>2. k \in Nat /\ Missing(p) = k + 1
  BY <1>1, MissingIsNext DEF CallSound
<1>3. call' = [call EXCEPT ![p] = t]
  <2>1. call' = [call EXCEPT ![p] = [call[p] EXCEPT !.at = "apply", !.left = L]]
    BY <1>2 DEF Commit
  <2>2. L \in SUBSET Version
    BY <1>1 DEF Call
  <2> HIDE DEF L
  <2> QED BY <1>1, <2>1, <2>2, CallAtLeft
<1>4. /\ schema' \in Seq(Text)
      /\ recorded' \in [Version -> Text \cup {Null}]
      /\ Len(schema') = k + 1
      /\ History!Prefix(schema', Lineage(b))
      /\ BeginsALineage'
  BY <1>1, LandingExtends DEF BeginsALineage, Lineages, Lineage, WellFormed, TextOf, Carried, Applied
<1>5. L = {v \in Carried(b) : v > k + 1} /\ L \in SUBSET Version
  <2>1. call[p].left = {v \in Carried(b) : v > k} /\ b \in Binary /\ WellFormed(b)
    BY <1>1 DEF CallSound
  <2>2. Carried(b) = 1..Cardinality(Files[b]) /\ Cardinality(Files[b]) \in Nat
    BY <2>1, LineageShape DEF Carried
  <2> QED BY <1>1, <1>2, <2>1, <2>2 DEF Call
<1>6. lock' = lock
  BY DEF Commit
<1>7. CallSound(t, p, schema', lock')
  BY <1>1, <1>4, <1>5, <1>6 DEF CallSound, Calling, Call
<1>8. lock = p
  BY <1>1 DEF CallSound
<1> HIDE DEF t
<1> QED BY <1>3, <1>4, <1>6, <1>7, <1>8, OneCallMoves, InvByCall

\* Nothing, or a commit, whether its answer arrives or not, keeps the schema sound.
LEMMA MayLandIsSound ==
  ASSUME MigrateInv, NEW p \in Migrator, MayLand(p)
  PROVE  /\ schema' \in Seq(Text)
         /\ recorded' \in [Version -> Text \cup {Null}]
         /\ BeginsALineage'
         /\ schema' = schema \/ lock = p
<1>1. CASE UNCHANGED <<schema, recorded>>
  BY <1>1, InvByCall DEF BeginsALineage
<1>2. CASE call[p].at = "commit" /\ Lands(p)
  <2>1. lock = p
    BY <1>2 DEF MigrateInv, LockIsHeld
  <2> QED BY <1>2, <2>1, LandingExtends DEF BeginsALineage
<1> QED BY <1>1, <1>2 DEF MayLand

LEMMA InterruptKeepsInv ==
  ASSUME MigrateInv, NEW p \in Migrator, Interrupt(p)
  PROVE  MigrateInv'
<1>1. call' = [call EXCEPT ![p] = Calling("unlock", Null, {}, FALSE)]
  BY LeaveMakes DEF Interrupt
<1>2. MayLand(p) /\ lock' = lock
  BY DEF Interrupt
<1> QED BY <1>1, <1>2, MayLandIsSound, OverIsSound, OneCallMoves, InvByCall

LEMMA DieKeepsInv ==
  ASSUME MigrateInv, NEW p \in Migrator, Die(p)
  PROVE  MigrateInv'
<1>1. call' = [call EXCEPT ![p] = NoCall] /\ MayLand(p)
  BY DEF Die
<1>2. lock' \in Migrator \cup {Null} /\ (lock' = lock \/ lock \in {p, Null})
  BY InvByCall DEF Die
<1> QED BY <1>1, <1>2, MayLandIsSound, OverIsSound, OneCallMoves

-----------------------------------------------------------------------------
\* The invariant holds when no call has begun.
LEMMA MigrateInvInit == MigrateInit => MigrateInv
<1> SUFFICES ASSUME MigrateInit PROVE MigrateInv
  OBVIOUS
<1>1. PICK b \in Binary :
        /\ WellFormed(b)
        /\ \E n \in 0..Len(Lineage(b)) : schema = SubSeq(Lineage(b), 1, n)
  BY DEF MigrateInit, Lineages
<1> DEFINE l == Lineage(b)
<1>2. PICK n \in 0..Len(l) : schema = SubSeq(l, 1, n)
  BY <1>1
<1>3. l \in Seq(Text) /\ Len(l) \in Nat /\ \A i \in 1..Len(l) : l[i] \in Text
  BY <1>1, LineageShape, LenProperties, ElementOfSeq
<1>4. /\ schema \in Seq(Text)
      /\ Len(schema) = n
      /\ \A i \in 1..n : schema[i] = l[i]
  <2>1. n \in Int /\ 1 \in Int /\ n <= Len(l) /\ \A i \in 1..n : l[i] \in Text
    BY <1>3
  <2> HIDE DEF l
  <2>2. /\ SubSeq(l, 1, n) \in Seq(Text)
        /\ Len(SubSeq(l, 1, n)) = IF 1 <= n THEN n - 1 + 1 ELSE 0
        /\ \A i \in 1..(n - 1 + 1) : SubSeq(l, 1, n)[i] = l[1 + i - 1]
    BY <2>1, SubSeqProperties
  <2>3. schema = SubSeq(l, 1, n) /\ n \in 0..Len(l)
    BY <1>2 DEF l
  <2> QED BY <1>3, <2>2, <2>3
<1>5. BeginsALineage
  <2>1. l \in Lineages
    BY <1>1 DEF Lineages
  <2>2. History!Prefix(schema, l)
    BY <1>3, <1>4 DEF History!Prefix
  <2> QED BY <2>1, <2>2 DEF MigrateInit, BeginsALineage
<1>6. recorded \in [Version -> Text \cup {Null}]
  BY <1>4, ElementOfSeq DEF MigrateInit, Applied
<1>7. ASSUME NEW p \in Migrator
      PROVE  CallSound(call[p], p, schema, lock) /\ call[p] \in Call
  BY NoCallFields DEF MigrateInit, CallSound
<1>8. call \in [Migrator -> Call]
  BY NoCallFields DEF MigrateInit
<1> QED BY <1>4, <1>5, <1>6, <1>7, <1>8, InvByCall DEF MigrateInit

\* Every step keeps it.
LEMMA MigrateInvStep == MigrateInv /\ [MigrateNext]_mvars => MigrateInv'
<1> SUFFICES ASSUME MigrateInv, [MigrateNext]_mvars
             PROVE  MigrateInv'
  OBVIOUS
<1>1. ASSUME NEW p \in Migrator, MigrateStep(p)
      PROVE  MigrateInv'
  BY <1>1, TakeLockKeepsInv, ReadAppliedKeepsInv, ApplyKeepsInv, FinishKeepsInv,
     CommitKeepsInv, UnlockKeepsInv DEF MigrateStep
<1>2. CASE UNCHANGED mvars
  BY <1>2 DEF mvars, MigrateInv, MigrateTypeOK, BeginsALineage, LockIsHeld, BinaryIsSound,
              LeftIsMissing, NobodyCollided
<1> QED BY <1>1, <1>2, MigrateKeepsInv, InterruptKeepsInv, DieKeepsInv DEF MigrateNext

(***************************************************************************)
(* The state of migrating is well typed, whoever migrates what.            *)
(***************************************************************************)
THEOREM MigrateTyped == MigrateSpec => []MigrateTypeOK
<1>1. MigrateInv => MigrateTypeOK
  BY DEF MigrateInv
<1> QED BY <1>1, MigrateInvInit, MigrateInvStep, PTL DEF MigrateSpec

(***************************************************************************)
(* Processes take turns (migrate.go, the advisory lock): no two are        *)
(* between the lock and the unlock, and none finds that the migration it   *)
(* was about to apply was applied by another.                              *)
(***************************************************************************)
OneAtATime ==
  /\ \A p, q \in Migrator : call[p].at \in {"read", "apply", "commit"} /\
                            call[q].at \in {"read", "apply", "commit"} => p = q
  /\ NobodyCollided

THEOREM MigratorsTakeTurns == MigrateSpec => []OneAtATime
<1>1. MigrateInv => OneAtATime
  BY DEF MigrateInv, OneAtATime, LockIsHeld
<1> QED BY <1>1, MigrateInvInit, MigrateInvStep, PTL DEF MigrateSpec

\* The first schema begins a lineage, and a step adds the next migration of one.
LEMMA MigrateStartsALineage == MigrateInit => History!Init
<1>1. \A s : Applied(s) = History!Recorded(s)
  BY DEF Applied, History!Recorded
<1> QED BY <1>1, MigrateInvInit DEF MigrateInv, BeginsALineage, History!Init

LEMMA MigrateStepsFollow ==
  MigrateInv /\ [MigrateNext]_mvars => [History!Next]_<<schema, recorded>>
<1> SUFFICES ASSUME MigrateInv, [MigrateNext]_mvars
             PROVE  [History!Next]_<<schema, recorded>>
  OBVIOUS
<1>1. ASSUME NEW p \in Migrator, call[p].at = "commit", Lands(p)
      PROVE  History!Next
  <2>1. Applied(schema') = History!Recorded(schema')
    BY DEF Applied, History!Recorded
  <2> QED BY <1>1, <2>1, LandingExtends DEF History!Next
<1>2. CASE UNCHANGED <<schema, recorded>>
  BY <1>2
<1>3. ASSUME NEW p \in Migrator, MayLand(p)
      PROVE  [History!Next]_<<schema, recorded>>
  BY <1>1, <1>3 DEF MayLand
<1>4. ASSUME NEW p \in Migrator, MigrateStep(p)
      PROVE  [History!Next]_<<schema, recorded>>
  BY <1>1, <1>4 DEF MigrateStep, TakeLock, ReadApplied, Apply, Finish, Commit, Unlock
<1>5. CASE UNCHANGED mvars
  BY <1>5 DEF mvars
<1> QED BY <1>3, <1>4, <1>5 DEF MigrateNext, Migrate, Interrupt, Die

(***************************************************************************)
(* Migrating implements the history it promises: the first migrations of   *)
(* one binary, each once and in order, and a table that says so, whatever  *)
(* binaries run and wherever they are interrupted (migrate.go, Migrate).   *)
(***************************************************************************)
THEOREM MigrateFollowsOneLineage == MigrateSpec => FollowsOneLineage
BY MigrateStartsALineage, MigrateStepsFollow, MigrateInvInit, MigrateInvStep, PTL
DEF MigrateSpec, FollowsOneLineage, History!Spec

-----------------------------------------------------------------------------

\* What the tables hold of a challenge is what an instance carries of it.
Carries(c, rows, files) ==
  /\ rows[c.key] = c.entry
  /\ Stored(c.tree) # {}
  /\ \A p \in Stored(c.tree) : files[c.key][p] = c.tree[p]

\* The columns hold what is in them, and that is something that can be loaded.
Held(k, entry) == \E c \in Challenges : c.key = k /\ c.entry = entry /\ ColumnsHold(c)

TablesSound(rows, files) ==
  /\ rows \in [Key -> Registrations \cup {Absent}]
  /\ files \in [Key -> Tree]
  /\ \A k \in Key : rows[k] = Absent => files[k] = NoFiles
  /\ \A k \in Key : rows[k] # Absent => Held(k, rows[k])
  /\ \A k \in Key, p \in Path : files[k][p] # Absent => p \notin UnwritablePath

(***************************************************************************)
(* What the invariant asks of the transaction of a boot t that registers   *)
(* the challenge c.                                                        *)
(***************************************************************************)
TxSound(t, c, rows, files) ==
  /\ LoadWorkspace(c.tree)
  /\ t.inserted => rows[c.key] = Absent
  /\ t.at \in {"count", "fill", "compare", "commit"} /\ ~t.inserted => rows[c.key] = c.entry
  /\ t.at \in {"count", "fill", "compare", "commit"} => ColumnsHold(c)
  /\ t.wrote \subseteq Stored(c.tree)
  /\ \A p \in t.wrote : files[c.key][p] = Absent /\ p \notin UnwritablePath
  /\ t.at = "fill" => /\ t.left # {} /\ t.left \subseteq Stored(c.tree)
                      /\ \A p \in t.wrote, q \in t.left : p < q
  /\ t.at = "commit" => \A p \in Stored(c.tree) : p \in t.wrote \/ files[c.key][p] = c.tree[p]

InTxAt == {"insert", "check", "count", "fill", "compare", "commit"}

BootSound(t, rows, files) ==
  /\ t \in BootType
  /\ t.at # "down" =>
       /\ t.checkout \in Sound
       /\ \A c \in Range(Loaded[t.checkout]) : c \in Range(t.todo) \/ Carries(c, rows, files)
  /\ t.at \in {"read"} \cup InTxAt => t.todo # <<>>
  /\ t.at = "serving" => t.todo = <<>>
  /\ t.at \notin {"count", "fill", "compare", "commit"} => ~t.inserted
  /\ t.at \notin {"fill", "compare", "commit"} => t.wrote = {}
  /\ t.at \in InTxAt => TxSound(t, Head(t.todo), rows, files)

\* Two transactions that register the same version have not written the same row.
Apart(t, u) ==
  (t.at \in InTxAt /\ u.at \in InTxAt /\ Head(t.todo).key = Head(u.todo).key)
    => /\ ~(t.inserted /\ u.inserted)
       /\ t.wrote \cap u.wrote = {}

BootInv ==
  /\ TablesSound(challenges, challenge_files)
  /\ boot \in [Instance -> BootType]
  /\ \A i \in Instance : BootSound(boot[i], challenges, challenge_files)
  /\ \A i, j \in Instance : i # j => Apart(boot[i], boot[j])

CatalogInv == MigrateInv /\ BootInv
-----------------------------------------------------------------------------
\* The smaller of two numbers comes first, and there is always a first.
Less == {p \in Nat \X Nat : p[1] < p[2]}

LEMMA SomeLeast ==
  ASSUME NEW T \in SUBSET Nat, T # {}
  PROVE  \E x \in T : \A y \in T : x <= y
<1>1. IsWellFoundedOn(Less, Nat)
  BY NatLessThanWellFounded DEF OpToRel, Less
<1>2. \E x \in T : \A y \in T : ~(<<y, x>> \in Less)
  BY <1>1, WFMin
<1>3. \A x \in T, y \in T : x <= y \/ y < x
  OBVIOUS
<1>4. \A x, y \in Nat : x < y => <<x, y>> \in Less
  BY DEF Less
<1> QED BY <1>2, <1>3, <1>4

-----------------------------------------------------------------------------
\* Completing a specification changes neither its identity nor what has no default.
LEMMA ResolveKeeps ==
  ASSUME NEW raw \in RawSpec
  PROVE  /\ resolve(raw).id = raw.id /\ resolve(raw).version = raw.version
         /\ resolve(raw).category = raw.category /\ resolve(raw).difficulty = raw.difficulty
         /\ resolve(raw).tag = raw.tag
         /\ resolve(raw).duration = duration(raw.duration, 0)
BY DEF resolve, RawSpec

LEMMA ResolveRequirements ==
  ASSUME NEW raw \in RawSpec
  PROVE  LET rs == resolve(raw).requirements
         IN  /\ DOMAIN rs = DOMAIN raw.requirements
             /\ \A n \in DOMAIN rs :
                  /\ raw.requirements[n] \in RawRequirement
                  /\ rs[n] = weighed(raw.requirements[n])
<1>1. resolve(raw).requirements =
        [n \in DOMAIN raw.requirements |-> weighed(raw.requirements[n])]
  BY DEF resolve, RawSpec
<1>2. raw.requirements \in Seq(RawRequirement)
  BY DEF RawSpec
<1>3. \A n \in DOMAIN raw.requirements : raw.requirements[n] \in RawRequirement
  BY <1>2
<1> QED BY <1>1, <1>3

\* Nothing is complained about only when nothing is wrong.
LEMMA NoComplaint ==
  ASSUME NEW field, NEW wrong \in BOOLEAN, Complain(field, wrong) = {}
  PROVE  ~wrong
BY DEF Complain

\* What passes the checks satisfies the constraints that the tables spell out.
LEMMA LoadedIsSound ==
  ASSUME NEW d \in Directory, Load(d)
  PROVE  /\ SpecOf(d).id \in Slug
         /\ SpecOf(d).version \in Nat /\ SpecOf(d).version >= 1
         /\ Checked(Challenge(d))
<1> DEFINE s == SpecOf(d)
           rs == s.requirements
<1>1. d.raw \in RawSpec /\ s = resolve(d.raw) /\ validate(s) = {}
  BY DEF Load, Directory, Optional, SpecOf
<1>2. /\ validateIdentity(s) = {} /\ validateImage(s) = {}
      /\ validateRequirements(s.requirements) = {}
  BY <1>1 DEF validate
<1>3. s.version \in Int /\ s.id \in Slug /\ s.version >= 1
  <2>1. s.version = d.raw.version /\ d.raw.version \in Int
    BY <1>1, ResolveKeeps DEF RawSpec
  <2> HIDE DEF s
  <2>2. s.id \in Slug /\ ~(s.version < 1)
    BY <1>2 DEF validateIdentity, Complain
  <2> QED BY <2>1, <2>2
<1>4. /\ s.category \in {"debugging", "build"}
      /\ s.difficulty \in {"easy", "medium", "hard"}
      /\ s.duration \in Minute..(6 * Hour)
      /\ s.tag \in Pinned
  <2> HIDE DEF s
  <2>1. /\ Complain("category", s.category \notin {"debugging", "build"}) = {}
        /\ Complain("difficulty", s.difficulty \notin {"easy", "medium", "hard"}) = {}
        /\ Complain("duration", s.duration \notin Minute..(6 * Hour)) = {}
        /\ Complain("image.tag", s.tag \notin Pinned) = {}
    BY <1>2 DEF validateIdentity, validateImage
  <2> QED BY <2>1, NoComplaint
<1>5. s.duration > 0 /\ s.tag # ""
  <2> HIDE DEF s
  <2>1. "" \notin Pinned
    BY FormatAssumption
  <2>2. \A n \in Minute..(6 * Hour) : n > 0
    BY DEF Minute, Hour
  <2>3. s.duration > 0
    BY <1>4, <2>2
  <2>4. s.tag # ""
    BY <1>4, <2>1
  <2> QED BY <2>3, <2>4
<1>6. challengesCheck(KeyOf(s), Registration(s))
  <2> HIDE DEF s
  <2>1. KeyOf(s).id = s.id /\ KeyOf(s).version = s.version
    BY DEF KeyOf
  <2>2. /\ Registration(s).category = s.category /\ Registration(s).difficulty = s.difficulty
        /\ Registration(s).duration = s.duration /\ Registration(s).tag = s.tag
    BY DEF Registration
  <2>3. KeyOf(s).version > 0
    BY <1>3, <2>1
  <2>4. KeyOf(s).id \in Keys
    BY <1>3, <2>1, FormatAssumption
  <2> QED BY <1>4, <1>5, <2>2, <2>3, <2>4 DEF challengesCheck
<1>7. ASSUME NEW n \in DOMAIN rs
      PROVE  rs[n].key # "" /\ rs[n].title # "" /\ rs[n].weight > 0
  <2>1. rs[n].weight \in Int
    <3>1. rs[n] = weighed(d.raw.requirements[n])
          /\ d.raw.requirements[n] \in RawRequirement
      BY <1>1, ResolveRequirements
    <3> QED BY <3>1 DEF RawRequirement, Optional, weighed, orDefault
  <2> HIDE DEF s
  <2>2. validateRequirement(rs[n]) = {}
    BY <1>2 DEF validateRequirements
  <2>3. rs[n].key \in Keys /\ rs[n].title \in Title /\ ~(rs[n].weight <= 0)
    <3>1. /\ Complain("key", rs[n].key \notin Keys) = {}
          /\ Complain("title", rs[n].title \notin Title) = {}
          /\ Complain("weight", rs[n].weight <= 0) = {}
      BY <2>2 DEF validateRequirement
    <3>2. (rs[n].weight <= 0) \in BOOLEAN
      BY <2>1
    <3> QED BY <3>1, <3>2, NoComplaint
  <2>4. "" \notin Keys \cup Title
    BY FormatAssumption
  <2>5. rs[n].weight > 0
    BY <2>1, <2>3
  <2>6. rs[n].key # "" /\ rs[n].title # ""
    BY <2>3, <2>4
  <2> QED BY <2>5, <2>6
<1>8. \A i, j \in DOMAIN rs : i # j => rs[i].key # rs[j].key
  <2> HIDE DEF s
  <2> QED BY <1>2 DEF validateRequirements, Complain
<1>9. /\ Challenge(d).key = KeyOf(s) /\ Challenge(d).entry = Registration(s)
      /\ Registration(s).requirements = rs
  BY DEF Challenge, Registration
<1> HIDE DEF s
<1>10. requirementsCheck(rs)
  BY <1>7, <1>8 DEF requirementsCheck
<1> QED BY <1>3, <1>6, <1>9, <1>10 DEF Checked, s

-----------------------------------------------------------------------------
\* The place of an identifier in byte order is a number, and one identifier's own.
LEMMA RankIsAPlace ==
  ASSUME NEW id \in Slug
  PROVE  Rank(id) \in Nat /\ Slugs[Rank(id)] = id
<1>1. \E i \in DOMAIN Slugs : Slugs[i] = id
  BY DEF Slug, Range
<1>2. Rank(id) \in DOMAIN Slugs /\ Slugs[Rank(id)] = id
  BY <1>1 DEF Rank
<1>3. DOMAIN Slugs = 1..Len(Slugs) /\ Len(Slugs) \in Nat
  BY FormatAssumption, LenProperties
<1> QED BY <1>2, <1>3

\* LoadAll's order puts the challenges of a root that loads one after another.
LEMMA KeysAreOrdered ==
  ASSUME NEW root \in SUBSET Directory, LoadAll(root)
  PROVE  /\ \A d \in root : ~KeyBefore(d, d)
         /\ \A d, e \in root : d = e \/ KeyBefore(d, e) \/ KeyBefore(e, d)
         /\ \A d, e, f \in root : KeyBefore(d, e) /\ KeyBefore(e, f) => KeyBefore(d, f)
<1> DEFINE id(d) == SpecOf(d).id
           v(d) == SpecOf(d).version
<1>1. \A d \in root : id(d) \in Slug /\ v(d) \in Nat
  BY LoadedIsSound DEF LoadAll
<1>2. \A d \in root : Rank(id(d)) \in Nat
  BY <1>1, RankIsAPlace
<1>3. \A d, e \in root : Rank(id(d)) = Rank(id(e)) => id(d) = id(e)
  BY <1>1, RankIsAPlace
<1>4. \A d, e \in root : id(d) = id(e) /\ v(d) = v(e) => d = e
  BY DEF LoadAll, KeyOf
<1>5. \A d, e \in root :
        KeyBefore(d, e) <=> IF id(d) = id(e) THEN v(d) < v(e) ELSE Rank(id(d)) < Rank(id(e))
  BY DEF KeyBefore
<1> HIDE DEF id, v
<1>6. \A d \in root : ~KeyBefore(d, d)
  BY <1>1, <1>5
<1>7. ASSUME NEW d \in root, NEW e \in root, d # e
      PROVE  KeyBefore(d, e) \/ KeyBefore(e, d)
  <2>1. CASE id(d) = id(e)
    <3>1. v(d) # v(e) /\ v(d) \in Nat /\ v(e) \in Nat
      BY <1>1, <1>4, <1>7, <2>1
    <3>2. v(d) < v(e) \/ v(e) < v(d)
      BY <3>1
    <3> QED BY <1>5, <2>1, <3>2
  <2>2. CASE id(d) # id(e)
    <3>1. Rank(id(d)) # Rank(id(e)) /\ Rank(id(d)) \in Nat /\ Rank(id(e)) \in Nat
      BY <1>2, <1>3, <2>2
    <3>2. Rank(id(d)) < Rank(id(e)) \/ Rank(id(e)) < Rank(id(d))
      BY <3>1
    <3> QED BY <1>5, <2>2, <3>2
  <2> QED BY <2>1, <2>2
<1>8. ASSUME NEW d \in root, NEW e \in root, NEW f \in root, KeyBefore(d, e), KeyBefore(e, f)
      PROVE  KeyBefore(d, f)
  <2>1. /\ Rank(id(d)) \in Nat /\ Rank(id(e)) \in Nat /\ Rank(id(f)) \in Nat
        /\ v(d) \in Nat /\ v(e) \in Nat /\ v(f) \in Nat
    BY <1>1, <1>2
  <2>2. /\ IF id(d) = id(e) THEN v(d) < v(e) ELSE Rank(id(d)) < Rank(id(e))
        /\ IF id(e) = id(f) THEN v(e) < v(f) ELSE Rank(id(e)) < Rank(id(f))
    BY <1>5, <1>8
  <2>3. CASE id(d) = id(e) /\ id(e) = id(f)
    <3>1. v(d) < v(f)
      BY <2>1, <2>2, <2>3
    <3> QED BY <1>5, <2>3, <3>1
  <2>4. CASE id(d) = id(e) /\ id(e) # id(f)
    BY <1>5, <2>2, <2>4
  <2>5. CASE id(d) # id(e) /\ id(e) = id(f)
    BY <1>5, <2>2, <2>5
  <2>6. CASE id(d) # id(e) /\ id(e) # id(f)
    <3>1. Rank(id(d)) < Rank(id(f))
      BY <2>1, <2>2, <2>6
    <3>2. Rank(id(d)) # Rank(id(f))
      BY <2>1, <3>1
    <3>3. id(d) # id(f)
      BY <3>2
    <3> QED BY <1>5, <3>1, <3>3
  <2> QED BY <2>3, <2>4, <2>5, <2>6
<1> QED BY <1>6, <1>7, <1>8

(***************************************************************************)
(* The order is complete: for each n up to the number of directories there *)
(* is one that n - 1 others come before.  How many come before is an       *)
(* injection into as many numbers as there are directories, hence onto.    *)
(***************************************************************************)
LEMMA EveryPlaceIsTaken ==
  ASSUME NEW root \in SUBSET Directory, LoadAll(root), IsFiniteSet(root),
         NEW n \in 1..Cardinality(root)
  PROVE  InKeyOrder(root)[n] \in root
<1> DEFINE N == Cardinality(root)
           Before(d) == {x \in root : KeyBefore(x, d)}
           place == [d \in root |-> Cardinality(Before(d))]
<1>1. N \in Nat
  BY FS_CardinalityType
<1>2. ASSUME NEW d \in root
      PROVE  /\ IsFiniteSet(Before(d))
             /\ Cardinality(Before(d)) \in Nat /\ Cardinality(Before(d)) \in 0..(N - 1)
  <2>1. d \notin Before(d) /\ Before(d) \in SUBSET root
    BY KeysAreOrdered
  <2> HIDE DEF Before
  <2>2. IsFiniteSet(Before(d)) /\ Cardinality(Before(d)) <= N /\ Cardinality(Before(d)) # N
    BY <2>1, FS_Subset
  <2>3. Cardinality(Before(d)) \in Nat
    BY <2>2, FS_CardinalityType
  <2> HIDE DEF N
  <2> QED BY <1>1, <2>2, <2>3
<1>3. ASSUME NEW d \in root, NEW e \in root, KeyBefore(d, e)
      PROVE  Cardinality(Before(d)) < Cardinality(Before(e))
  <2>1. ASSUME NEW c \in Before(d) PROVE c \in Before(e)
    BY <1>3, KeysAreOrdered
  <2>2. d \in Before(e)
    BY <1>3
  <2>3. d \notin Before(d)
    BY KeysAreOrdered
  <2>4. IsFiniteSet(Before(e)) /\ Cardinality(Before(e)) \in Nat /\ Cardinality(Before(d)) \in Nat
    BY <1>2
  <2> HIDE DEF Before
  <2>5. /\ Cardinality(Before(d)) <= Cardinality(Before(e))
        /\ Cardinality(Before(d)) # Cardinality(Before(e))
    BY <2>1, <2>2, <2>3, <2>4, FS_Subset
  <2> QED BY <2>4, <2>5
<1>4. place \in [root -> 0..(N - 1)]
  BY <1>2
<1>5. ASSUME NEW d \in root, NEW e \in root, d # e
      PROVE  place[d] # place[e]
  <2>1. place[d] = Cardinality(Before(d)) /\ place[e] = Cardinality(Before(e))
    OBVIOUS
  <2>2. Cardinality(Before(d)) \in Nat /\ Cardinality(Before(e)) \in Nat
    BY <1>2
  <2>3. KeyBefore(d, e) \/ KeyBefore(e, d)
    BY <1>5, KeysAreOrdered
  <2>4. Cardinality(Before(d)) < Cardinality(Before(e)) \/ Cardinality(Before(e)) < Cardinality(Before(d))
    BY <1>3, <2>3
  <2> HIDE DEF Before, place
  <2> QED BY <2>1, <2>2, <2>4
<1> HIDE DEF Before, place
<1>6. place \in Injection(root, 0..(N - 1))
  BY <1>4, <1>5 DEF Injection, IsInjective
<1>7. IsFiniteSet(0..(N - 1)) /\ Cardinality(0..(N - 1)) = N
  <2> HIDE DEF N
  <2>1. 0 \in Int /\ N - 1 \in Int /\ (IF 0 > N - 1 THEN 0 ELSE (N - 1) - 0 + 1) = N
    BY <1>1
  <2> QED BY <2>1, FS_Interval
<1>8. place \in Surjection(root, 0..(N - 1))
  BY <1>6, <1>7, FS_Injection
<1>9. \E d \in root : place[d] = n - 1
  BY <1>1, <1>8 DEF Surjection
<1>10. \E d \in root : Cardinality({e \in root : KeyBefore(e, d)}) = n - 1
  BY <1>9 DEF Before, place
<1>11. InKeyOrder(root)[n] = CHOOSE d \in root : Cardinality({e \in root : KeyBefore(e, d)}) = n - 1
  BY DEF InKeyOrder
<1> QED BY <1>10, <1>11

-----------------------------------------------------------------------------
\* What an instance registers is the challenges of its checkout, each of which loads.
LEMMA WhatIsLoaded ==
  ASSUME NEW c \in Sound
  PROVE  /\ Loaded[c] \in Seq(Challenges)
         /\ Loaded[c] # <<>>
         /\ \A e \in Range(Loaded[c]) : \E d \in Root[c] : e = Challenge(d)
<1> DEFINE N == Cardinality(Root[c])
           L == Loaded[c]
<1>1. /\ c \in Checkout /\ LoadAll(Root[c]) /\ Root[c] # {}
      /\ IsFiniteSet(Root[c]) /\ Root[c] \in SUBSET Directory
  BY CatalogAssumption DEF Sound
<1>2. N \in Nat /\ N # 0
  BY <1>1, FS_CardinalityType, FS_EmptySet
<1>3. L = [n \in 1..N |-> Challenge(InKeyOrder(Root[c])[n])]
  BY DEF Loaded, InKeyOrder
<1>4. \A n \in 1..N : InKeyOrder(Root[c])[n] \in Root[c]
  BY <1>1, EveryPlaceIsTaken
<1>5. \A e \in Range(L) : \E d \in Root[c] : e = Challenge(d)
  <2> HIDE DEF L, N
  <2> QED BY <1>3, <1>4 DEF Range
<1>6. \A n \in 1..N : L[n] \in Challenges
  <2>1. \A n \in 1..N : L[n] \in Range(L)
    <3> HIDE DEF L, N
    <3> QED BY <1>3 DEF Range
  <2> HIDE DEF N
  <2> QED BY <2>1 DEF Challenges
<1>7. DOMAIN L = 1..N
  <2> HIDE DEF L, N
  <2> QED BY <1>3
<1> HIDE DEF L, N
<1>8. L \in [1..N -> Challenges]
  BY <1>3, <1>6
<1>9. L \in Seq(Challenges)
  BY <1>2, <1>8, SeqDef
<1>10. L # <<>>
  BY <1>2, <1>7
<1> QED BY <1>5, <1>9, <1>10 DEF L

LEMMA ChallengesAreSound ==
  ASSUME NEW c \in Challenges
  PROVE  /\ c.key \in Key
         /\ c.entry \in Registrations /\ c.entry # Absent
         /\ c.tree \in [Path -> Content \cup {Absent, Link}]
         /\ Checked(c)
<1>1. PICK k \in Sound : c \in Range(Loaded[k])
  BY DEF Challenges
<1>2. PICK d \in Root[k] : c = Challenge(d)
  BY <1>1, WhatIsLoaded
<1>3. d \in Directory /\ Load(d)
  BY CatalogAssumption DEF Sound, LoadAll
<1>4. c.tree \in [Path -> Content \cup {Absent, Link}]
  BY <1>2, <1>3 DEF Challenge, Directory
<1>5. Checked(c)
  BY <1>2, <1>3, LoadedIsSound
<1>6. c.key \in Key /\ c.entry \in Registrations
  BY DEF Key, Registrations
<1> QED BY <1>4, <1>5, <1>6, CatalogAssumption

\* A tree that was read holds regular files, and at least one.
LEMMA ReadTreesAreWhole ==
  ASSUME NEW c \in Challenges, LoadWorkspace(c.tree)
  PROVE  /\ c.tree \in Tree
         /\ Stored(c.tree) # {} /\ Stored(c.tree) \subseteq Path
<1>1. c.tree \in [Path -> Content \cup {Absent, Link}] /\ Link \notin Range(c.tree)
  BY ChallengesAreSound DEF LoadWorkspace
<1>2. c.tree \in Tree
  BY <1>1 DEF Tree, Range
<1>3. Cardinality(Stored(c.tree)) # 0
  <2>1. Cardinality(Stored(c.tree)) \in 1..MaxWorkspaceFiles
    BY DEF LoadWorkspace
  <2>2. \A n \in 1..MaxWorkspaceFiles : n # 0
    OBVIOUS
  <2> QED BY <2>1, <2>2
<1>4. Stored(c.tree) # {}
  BY <1>3, FS_EmptySet
<1> QED BY <1>2, <1>4 DEF Stored

(***************************************************************************)
(* A file of a tree that was read satisfies the constraints of its table:  *)
(* no path has more characters than bytes.                                 *)
(***************************************************************************)
LEMMA ReadFilesPass ==
  ASSUME NEW c \in Challenges, LoadWorkspace(c.tree), NEW p \in Stored(c.tree)
  PROVE  filesCheck(p, c.tree[p])
<1>1. p \in Path /\ c.tree[p] \in Content
  BY ReadTreesAreWhole DEF Tree, Stored
<1>2. PathBytes[p] <= MaxPathLength /\ Size[c.tree[p]] <= MaxFileBytes
  BY DEF LoadWorkspace, validPath
<1>3. PathLength[p] \in Nat /\ PathBytes[p] \in Nat /\ PathLength[p] <= PathBytes[p]
  BY <1>1, FormatAssumption
<1>4. PathLength[p] <= MaxPathLength
  BY <1>2, <1>3 DEF MaxPathLength
<1>5. Size[c.tree[p]] \in Nat /\ MaxFileBytes \in Nat /\ MaxOctets \in Nat /\ MaxFileBytes <= MaxOctets
  BY <1>1, FormatAssumption
<1>6. Size[c.tree[p]] <= MaxOctets
  BY <1>2, <1>5
<1> QED BY <1>4, <1>6 DEF filesCheck

\* Whether the columns hold a challenge depends on what they keep of it.
LEMMA SameColumns ==
  ASSUME NEW c, NEW d, c.key = d.key, c.entry = d.entry, ColumnsHold(c)
  PROVE  ColumnsHold(d)
BY DEF ColumnsHold, Numbers, Texts

-----------------------------------------------------------------------------
\* A boot that is down is sound whatever the tables hold, and in nobody's way.
LEMMA DownIsSound ==
  ASSUME NEW rows, NEW files
  PROVE  /\ BootSound(NoBoot, rows, files)
         /\ \A t : Apart(NoBoot, t)
BY DEF BootSound, NoBoot, BootType, Apart, InTxAt

LEMMA ApartIsMutual == \A t, u : Apart(t, u) => Apart(u, t)
BY DEF Apart

(***************************************************************************)
(* A step of one boot keeps the invariant if it leaves that boot sound and *)
(* apart from the others, and the others sound.                            *)
(***************************************************************************)
LEMMA OneBootMoves ==
  ASSUME BootInv, NEW i \in Instance, NEW t, boot' = [boot EXCEPT ![i] = t],
         TablesSound(challenges', challenge_files'),
         BootSound(t, challenges', challenge_files'),
         \A j \in Instance \ {i} : Apart(t, boot[j]),
         \A j \in Instance \ {i} : BootSound(boot[j], challenges', challenge_files')
  PROVE  BootInv'
<1>1. t \in BootType /\ boot \in [Instance -> BootType]
  BY DEF BootSound, BootInv
<1>2. boot'[i] = t /\ \A j \in Instance \ {i} : boot'[j] = boot[j]
  BY <1>1
<1>3. boot' \in [Instance -> BootType]
  BY <1>1
<1>4. \A j \in Instance : BootSound(boot'[j], challenges', challenge_files')
  BY <1>2
<1>5. ASSUME NEW j \in Instance, NEW l \in Instance, j # l
      PROVE  Apart(boot'[j], boot'[l])
  <2>1. CASE j = i
    BY <1>2, <1>5, <2>1
  <2>2. CASE l = i
    BY <1>2, <1>5, <2>2, ApartIsMutual
  <2>3. CASE j # i /\ l # i
    BY <1>2, <1>5, <2>3 DEF BootInv
  <2> QED BY <2>1, <2>2, <2>3
<1> QED BY <1>3, <1>4, <1>5 DEF BootInv

\* The same for a step that writes no table.
LEMMA OneBootOnlyMoves ==
  ASSUME BootInv, NEW i \in Instance, NEW t, boot' = [boot EXCEPT ![i] = t],
         UNCHANGED <<challenges, challenge_files>>,
         BootSound(t, challenges, challenge_files),
         \A j \in Instance \ {i} : Apart(t, boot[j])
  PROVE  BootInv'
<1>1. /\ TablesSound(challenges', challenge_files')
      /\ \A j \in Instance : BootSound(boot[j], challenges', challenge_files')
  BY DEF BootInv
<1> QED BY <1>1, OneBootMoves

LEMMA FailKeeps ==
  ASSUME BootInv, NEW i \in Instance, Fails(i), UNCHANGED <<challenges, challenge_files>>
  PROVE  BootInv'
BY DownIsSound, OneBootOnlyMoves DEF Fails

\* Only the step it is at changes: the same writes are still its own.
LEMMA MovesAlone ==
  ASSUME BootInv, NEW i \in Instance, NEW t,
         boot[i].at \in InTxAt, t.inserted = boot[i].inserted, t.wrote = boot[i].wrote,
         t.todo = boot[i].todo
  PROVE  \A j \in Instance \ {i} : Apart(t, boot[j])
BY DEF BootInv, Apart

LEMMA TodoIsLoaded ==
  ASSUME BootInv, NEW i \in Instance, boot[i].todo # <<>>
  PROVE  /\ Current(i) \in Challenges
         /\ Tail(boot[i].todo) \in Seq(Challenges)
         /\ Range(boot[i].todo) = {Current(i)} \cup Range(Tail(boot[i].todo))
<1> DEFINE s == boot[i].todo
<1>1. s \in Seq(Challenges) /\ s # <<>>
  BY DEF BootInv, BootType
<1>2. Head(s) \in Challenges /\ Tail(s) \in Seq(Challenges)
  BY <1>1, HeadTailProperties
<1>3. Range(s) = {Head(s)} \cup Range(Tail(s))
  <2> HIDE DEF s
  <2>1. /\ Len(s) \in Nat /\ Len(s) # 0 /\ DOMAIN s = 1..Len(s)
        /\ Len(Tail(s)) = Len(s) - 1 /\ DOMAIN Tail(s) = 1..(Len(s) - 1)
        /\ \A n \in 1..(Len(s) - 1) : Tail(s)[n] = s[n + 1]
        /\ Head(s) = s[1]
    BY <1>1, <1>2, HeadTailProperties, LenProperties, EmptySeq
  <2>2. ASSUME NEW n \in 1..Len(s) PROVE s[n] \in {Head(s)} \cup Range(Tail(s))
    <3>1. CASE n = 1
      BY <2>1, <3>1
    <3>2. CASE n # 1
      <4>1. n - 1 \in 1..(Len(s) - 1) /\ (n - 1) + 1 = n
        BY <2>1, <3>2
      <4>2. Tail(s)[n - 1] = s[n] /\ n - 1 \in DOMAIN Tail(s)
        BY <2>1, <4>1
      <4> QED BY <4>2 DEF Range
    <3> QED BY <3>1, <3>2
  <2>3. 1 \in DOMAIN s
    BY <2>1
  <2>4. \A n \in 1..(Len(s) - 1) : n + 1 \in DOMAIN s
    BY <2>1
  <2>5. \A x \in Range(Tail(s)) : x \in Range(s)
    BY <2>1, <2>4 DEF Range
  <2>6. Head(s) \in Range(s)
    BY <2>1, <2>3 DEF Range
  <2>7. \A x \in Range(s) : x \in {Head(s)} \cup Range(Tail(s))
    BY <2>1, <2>2 DEF Range
  <2> QED BY <2>5, <2>6, <2>7
<1> QED BY <1>2, <1>3 DEF Current

-----------------------------------------------------------------------------
\* What commits only grows: no row and no file that is there is changed.
Grows(rows, files, rows2, files2) ==
  \A k \in Key : /\ rows[k] # Absent => rows2[k] = rows[k]
                 /\ \A p \in Path : files[k][p] # Absent => files2[k][p] = files[k][p]

LEMMA CarriedStaysCarried ==
  ASSUME NEW rows, NEW files, NEW rows2, NEW files2, Grows(rows, files, rows2, files2),
         NEW c \in Challenges, Carries(c, rows, files)
  PROVE  Carries(c, rows2, files2)
<1>1. c.key \in Key /\ c.entry # Absent
  BY ChallengesAreSound
<1>2. \A p \in Stored(c.tree) : p \in Path /\ c.tree[p] # Absent
  BY DEF Stored
<1> QED BY <1>1, <1>2 DEF Carries, Grows

(***************************************************************************)
(* What a commit publishes: the entry, unless it was there already, and    *)
(* the whole starting tree, joined to the files that were there, which it  *)
(* leaves as they are.                                                     *)
(***************************************************************************)
LEMMA PublishJoins ==
  ASSUME BootInv, NEW i \in Instance, boot[i].at = "commit", Publish(i)
  PROVE  LET c == Current(i)
             k == Current(i).key
         IN  /\ c \in Challenges /\ k \in Key /\ LoadWorkspace(c.tree)
             /\ boot[i].inserted => /\ challenges[k] = Absent
                                    /\ challenges' = [challenges EXCEPT ![k] = c.entry]
                                    /\ Visible(i) = c.tree
             /\ ~boot[i].inserted => challenges[k] = c.entry /\ challenges' = challenges
             /\ challenge_files' = [challenge_files EXCEPT ![k] = Visible(i)]
             /\ Visible(i) \in Tree
             /\ \A p \in Path :
                  /\ challenge_files[k][p] # Absent => Visible(i)[p] = challenge_files[k][p]
                  /\ c.tree[p] # Absent => Visible(i)[p] = c.tree[p]
                  /\ Visible(i)[p] \in {challenge_files[k][p], c.tree[p]}
                  /\ p \notin boot[i].wrote => Visible(i)[p] = challenge_files[k][p]
<1> DEFINE t == boot[i]
           c == Current(i)
           k == c.key
           V == Visible(i)
           F == challenge_files[k]
<1>1. /\ t.todo # <<>> /\ TxSound(t, c, challenges, challenge_files)
      /\ t.wrote \subseteq Path
  BY DEF BootInv, BootSound, InTxAt, Current, BootType
<1>2. c \in Challenges /\ k \in Key
  BY <1>1, TodoIsLoaded, ChallengesAreSound
<1>3. /\ LoadWorkspace(c.tree)
      /\ t.inserted => challenges[k] = Absent
      /\ ~t.inserted => challenges[k] = c.entry
      /\ t.wrote \subseteq Stored(c.tree)
      /\ \A p \in t.wrote : F[p] = Absent
      /\ \A p \in Stored(c.tree) : p \in t.wrote \/ F[p] = c.tree[p]
  BY <1>1 DEF TxSound
<1>4. c.tree \in Tree /\ F \in Tree
  BY <1>2, <1>3, ReadTreesAreWhole DEF BootInv, TablesSound
<1>5. V = [p \in Path |-> IF p \in t.wrote THEN c.tree[p] ELSE F[p]]
  BY DEF Visible
<1>6. /\ challenges' = IF t.inserted THEN [challenges EXCEPT ![k] = c.entry] ELSE challenges
      /\ challenge_files' = [challenge_files EXCEPT ![k] = V]
  BY DEF Publish
<1>7. t.inserted => F = NoFiles
  BY <1>2, <1>3 DEF BootInv, TablesSound
<1> HIDE DEF t, c, k, V, F
<1>8. V \in Tree
  BY <1>4, <1>5 DEF Tree
<1>9. ASSUME NEW p \in Path
      PROVE  /\ F[p] # Absent => V[p] = F[p]
             /\ c.tree[p] # Absent => V[p] = c.tree[p]
             /\ V[p] \in {F[p], c.tree[p]}
             /\ p \notin t.wrote => V[p] = F[p]
  BY <1>3, <1>5 DEF Stored
<1>10. ASSUME t.inserted PROVE V = c.tree
  <2>1. ASSUME NEW p \in Path PROVE V[p] = c.tree[p]
    <3>1. F[p] = Absent
      BY <1>7, <1>10 DEF NoFiles
    <3> QED BY <1>9, <3>1
  <2> QED BY <1>4, <1>8, <2>1 DEF Tree
<1> QED BY <1>2, <1>3, <1>6, <1>8, <1>9, <1>10 DEF t, c, k, V, F

\* A commit keeps the tables sound and every other transaction too.
LEMMA PublishKeeps ==
  ASSUME BootInv, NEW i \in Instance, boot[i].at = "commit", Publish(i)
  PROVE  /\ TablesSound(challenges', challenge_files')
         /\ Grows(challenges, challenge_files, challenges', challenge_files')
         /\ Carries(Current(i), challenges', challenge_files')
         /\ \A j \in Instance \ {i} : BootSound(boot[j], challenges', challenge_files')
<1> DEFINE c == Current(i)
           k == Current(i).key
           V == Visible(i)
<1>1. /\ c \in Challenges /\ k \in Key /\ LoadWorkspace(c.tree)
      /\ c.entry \in Registrations /\ c.entry # Absent
  BY PublishJoins, ChallengesAreSound
<1>2. /\ challenges \in [Key -> Registrations \cup {Absent}]
      /\ challenge_files \in [Key -> Tree]
      /\ \A l \in Key : challenges[l] = Absent => challenge_files[l] = NoFiles
      /\ \A l \in Key : challenges[l] # Absent => Held(l, challenges[l])
      /\ \A l \in Key, p \in Path : challenge_files[l][p] # Absent => p \notin UnwritablePath
  BY DEF BootInv, TablesSound
<1>3. /\ challenges[k] \in {Absent, c.entry} /\ challenges'[k] = c.entry
      /\ challenges' \in [Key -> Registrations \cup {Absent}]
      /\ \A l \in Key \ {k} : challenges'[l] = challenges[l]
      /\ challenges[k] = Absent => boot[i].inserted
  BY <1>1, <1>2, PublishJoins
<1>4. /\ challenge_files' = [challenge_files EXCEPT ![k] = V] /\ V \in Tree
      /\ \A p \in Path :
           /\ challenge_files[k][p] # Absent => V[p] = challenge_files[k][p]
           /\ c.tree[p] # Absent => V[p] = c.tree[p]
           /\ p \notin boot[i].wrote => V[p] = challenge_files[k][p]
  BY PublishJoins
<1>10. ColumnsHold(c) /\ \A p \in boot[i].wrote : p \notin UnwritablePath
  BY DEF BootInv, BootSound, InTxAt, TxSound, Current
<1>11. c.key = k
  OBVIOUS
<1> HIDE DEF c, k, V
<1>5. /\ challenge_files' \in [Key -> Tree] /\ challenge_files'[k] = V
      /\ \A l \in Key \ {k} : challenge_files'[l] = challenge_files[l]
  BY <1>1, <1>2, <1>4
<1>6. TablesSound(challenges', challenge_files')
  <2>1. Held(k, c.entry)
    BY <1>1, <1>10, <1>11 DEF Held
  <2>2. \A l \in Key : challenges'[l] # Absent => Held(l, challenges'[l])
    BY <1>2, <1>3, <2>1
  <2>3. \A p \in Path : V[p] # Absent => p \notin UnwritablePath
    BY <1>1, <1>2, <1>4, <1>10
  <2>4. \A l \in Key, p \in Path : challenge_files'[l][p] # Absent => p \notin UnwritablePath
    BY <1>2, <1>5, <2>3
  <2>5. \A l \in Key : challenges'[l] = Absent => challenge_files'[l] = NoFiles
    BY <1>1, <1>2, <1>3, <1>5
  <2> QED BY <1>3, <1>5, <2>2, <2>4, <2>5 DEF TablesSound
<1>7. Grows(challenges, challenge_files, challenges', challenge_files')
  <2> SUFFICES ASSUME NEW l \in Key
               PROVE  /\ challenges[l] # Absent => challenges'[l] = challenges[l]
                      /\ \A p \in Path : challenge_files[l][p] # Absent =>
                           challenge_files'[l][p] = challenge_files[l][p]
    BY DEF Grows
  <2>1. CASE l = k
    BY <1>3, <1>4, <1>5, <2>1
  <2>2. CASE l # k
    BY <1>3, <1>5, <2>2
  <2> QED BY <2>1, <2>2
<1>8. Carries(c, challenges', challenge_files')
  <2>1. Stored(c.tree) # {} /\ \A p \in Stored(c.tree) : p \in Path /\ c.tree[p] # Absent
    BY <1>1, ReadTreesAreWhole DEF Stored
  <2>2. c.key = k
    BY DEF c, k
  <2> QED BY <1>3, <1>4, <1>5, <2>1, <2>2 DEF Carries
<1>9. ASSUME NEW j \in Instance \ {i}
      PROVE  BootSound(boot[j], challenges', challenge_files')
  <2> DEFINE t == boot[j]
             d == Head(boot[j].todo)
  <2>1. BootSound(t, challenges, challenge_files) /\ Apart(boot[i], t)
    BY DEF BootInv
  <2>2. ASSUME t.at # "down"
        PROVE  \A e \in Range(Loaded[t.checkout]) :
                 e \in Range(t.todo) \/ Carries(e, challenges', challenge_files')
    <3>1. t.checkout \in Sound
      BY <2>1, <2>2 DEF BootSound
    <3>2. \A e \in Range(Loaded[t.checkout]) : e \in Challenges
      BY <3>1 DEF Challenges
    <3> HIDE DEF t
    <3> QED BY <1>7, <2>1, <2>2, <3>2, CarriedStaysCarried DEF BootSound
  <2>3. ASSUME t.at \in InTxAt
        PROVE  TxSound(t, d, challenges', challenge_files')
    <3>1. TxSound(t, d, challenges, challenge_files)
      BY <2>1, <2>3 DEF BootSound
    <3>2. d \in Challenges /\ d.key \in Key /\ d.entry # Absent
      <4>1. t.todo # <<>>
        BY <2>1, <2>3 DEF BootSound
      <4> QED BY <4>1, TodoIsLoaded, ChallengesAreSound DEF Current
    <3>3. d.key = k => /\ ~(boot[i].inserted /\ t.inserted)
                       /\ boot[i].wrote \cap t.wrote = {}
      BY <2>1, <2>3 DEF Apart, InTxAt, Current, k
    <3> HIDE DEF t, d
    <3>4. t.inserted => challenges'[d.key] = Absent
      <4> SUFFICES ASSUME t.inserted PROVE challenges'[d.key] = Absent
        OBVIOUS
      <4>1. challenges[d.key] = Absent
        BY <3>1 DEF TxSound
      <4>2. d.key # k
        BY <1>3, <3>3, <4>1
      <4> QED BY <1>3, <3>2, <4>1, <4>2
    <3>5. t.at \in {"count", "fill", "compare", "commit"} /\ ~t.inserted => challenges'[d.key] = d.entry
      BY <1>7, <3>1, <3>2 DEF TxSound, Grows
    <3>6. t.wrote \subseteq Stored(d.tree) /\ Stored(d.tree) \subseteq Path
      BY <3>1 DEF TxSound, Stored
    <3>9. /\ t.at \in {"count", "fill", "compare", "commit"} => ColumnsHold(d)
          /\ \A p \in t.wrote : p \notin UnwritablePath
      BY <3>1 DEF TxSound
    <3>7. \A p \in t.wrote : challenge_files'[d.key][p] = Absent
      <4> SUFFICES ASSUME NEW p \in t.wrote PROVE challenge_files'[d.key][p] = Absent
        OBVIOUS
      <4>1. challenge_files[d.key][p] = Absent
        BY <3>1 DEF TxSound
      <4>2. CASE d.key = k
        BY <1>4, <1>5, <3>3, <3>6, <4>1, <4>2
      <4>3. CASE d.key # k
        BY <1>5, <3>2, <4>1, <4>3
      <4> QED BY <4>2, <4>3
    <3>8. t.at = "commit" => \A p \in Stored(d.tree) :
                               p \in t.wrote \/ challenge_files'[d.key][p] = d.tree[p]
      <4> SUFFICES ASSUME t.at = "commit", NEW p \in Stored(d.tree), p \notin t.wrote
                   PROVE  challenge_files'[d.key][p] = d.tree[p]
        OBVIOUS
      <4>1. challenge_files[d.key][p] = d.tree[p] /\ d.tree[p] # Absent /\ p \in Path
        BY <3>1 DEF TxSound, Stored
      <4> QED BY <1>7, <3>2, <4>1 DEF Grows
    <3> QED BY <3>1, <3>4, <3>5, <3>7, <3>8, <3>9 DEF TxSound
  <2> HIDE DEF t, d
  <2>4. d = Head(t.todo)
    BY DEF t, d
  <2>5. BootSound(t, challenges', challenge_files')
    BY <2>1, <2>2, <2>3, <2>4 DEF BootSound
  <2> QED BY <2>5 DEF t
<1> QED BY <1>6, <1>7, <1>8, <1>9 DEF c

-----------------------------------------------------------------------------
\* What the invariant says of one boot.
LEMMA OneBoot ==
  ASSUME BootInv, NEW i \in Instance
  PROVE  /\ boot[i] \in BootType
         /\ BootSound(boot[i], challenges, challenge_files)
BY DEF BootInv

\* The transaction of a boot goes on with the challenge it is at.
LEMMA GoesOn ==
  ASSUME BootInv, NEW i \in Instance, boot[i].at \in {"read"} \cup InTxAt,
         NEW t \in BootType, t.at \in InTxAt,
         t.checkout = boot[i].checkout, t.todo = boot[i].todo,
         t.inserted => t.at \in {"count", "fill", "compare", "commit"},
         t.wrote # {} => t.at \in {"fill", "compare", "commit"},
         TxSound(t, Head(t.todo), challenges, challenge_files)
  PROVE  BootSound(t, challenges, challenge_files)
<1>1. /\ t.checkout \in Sound
      /\ \A c \in Range(Loaded[t.checkout]) :
           c \in Range(t.todo) \/ Carries(c, challenges, challenge_files)
      /\ t.todo # <<>>
  BY OneBoot DEF BootSound, InTxAt
<1>2. t.at # "serving" /\ t.at # "down"
  BY DEF InTxAt
<1> QED BY <1>1, <1>2 DEF BootSound

LEMMA BootKeeps ==
  ASSUME BootInv, NEW i \in Instance, NEW c \in Checkout, Boot(i, c)
  PROVE  BootInv'
<1>1. CASE c \in Sound
  <2>1. PICK t : t = [NoBoot EXCEPT !.at = "read", !.checkout = c, !.todo = Loaded[c]]
    OBVIOUS
  <2>2. /\ t.at = "read" /\ t.checkout = c /\ t.todo = Loaded[c]
        /\ t.inserted = FALSE /\ t.wrote = {} /\ t.left = {}
        /\ t = [at |-> "read", checkout |-> c, todo |-> Loaded[c],
                inserted |-> FALSE, wrote |-> {}, left |-> {}]
    BY <2>1 DEF NoBoot
  <2>3. Loaded[c] \in Seq(Challenges) /\ Loaded[c] # <<>>
    BY <1>1, WhatIsLoaded
  <2>4. t \in BootType
    BY <2>2, <2>3 DEF BootType
  <2>5. BootSound(t, challenges, challenge_files)
    BY <1>1, <2>2, <2>3, <2>4 DEF BootSound, InTxAt
  <2>6. \A u : Apart(t, u)
    BY <2>2 DEF Apart, InTxAt
  <2>7. boot' = [boot EXCEPT ![i] = t] /\ UNCHANGED <<challenges, challenge_files>>
    BY <1>1, <2>1 DEF Boot
  <2> QED BY <2>5, <2>6, <2>7, OneBootOnlyMoves
<1>2. CASE c \notin Sound
  BY <1>2, FailKeeps DEF Boot
<1> QED BY <1>1, <1>2

LEMMA ReadWorkspaceKeeps ==
  ASSUME BootInv, NEW i \in Instance, ReadWorkspace(i)
  PROVE  BootInv'
<1>1. CASE LoadWorkspace(Current(i).tree)
  <2>1. PICK t : t = [boot[i] EXCEPT !.at = "insert"]
    OBVIOUS
  <2>2. /\ boot[i].at = "read" /\ boot[i].todo # <<>> /\ ~boot[i].inserted /\ boot[i].wrote = {}
    BY OneBoot DEF ReadWorkspace, BootSound, InTxAt
  <2>3. /\ t.at = "insert" /\ t.checkout = boot[i].checkout /\ t.todo = boot[i].todo
        /\ t.inserted = boot[i].inserted /\ t.wrote = boot[i].wrote /\ t.left = boot[i].left
        /\ t \in BootType
    BY <2>1, OneBoot DEF BootType
  <2>4. TxSound(t, Head(t.todo), challenges, challenge_files)
    BY <1>1, <2>2, <2>3 DEF TxSound, Current
  <2>5. BootSound(t, challenges, challenge_files)
    BY <2>2, <2>3, <2>4, GoesOn DEF InTxAt
  <2>6. \A j \in Instance \ {i} : Apart(t, boot[j])
    BY <2>2, <2>3 DEF Apart
  <2>7. boot' = [boot EXCEPT ![i] = t] /\ UNCHANGED <<challenges, challenge_files>>
    BY <1>1, <2>1 DEF ReadWorkspace, Step
  <2> QED BY <2>5, <2>6, <2>7, OneBootOnlyMoves
<1>2. CASE ~LoadWorkspace(Current(i).tree)
  BY <1>2, FailKeeps DEF ReadWorkspace
<1> QED BY <1>1, <1>2

(***************************************************************************)
(* A version is inserted when nobody has an uncommitted insert of it, so   *)
(* of two transactions one at most has inserted it.                        *)
(***************************************************************************)
LEMMA InsertChallengeKeeps ==
  ASSUME BootInv, NEW i \in Instance, InsertChallenge(i)
  PROVE  BootInv'
<1> DEFINE fresh == challenges[Current(i).key] = Absent
           bad == Len(schema) < Versioned.challenges \/ (fresh /\ ~Storable(Current(i)))
<1>1. CASE ~bad
  <2>1. PICK t : t = [boot[i] EXCEPT !.at = IF fresh THEN "count" ELSE "check", !.inserted = fresh]
    OBVIOUS
  <2>2. /\ boot[i].at = "insert" /\ boot[i].todo # <<>> /\ boot[i].wrote = {}
        /\ TxSound(boot[i], Current(i), challenges, challenge_files)
    BY OneBoot DEF InsertChallenge, BootSound, InTxAt, Current
  <2>3. /\ t.at = IF fresh THEN "count" ELSE "check"
        /\ t.checkout = boot[i].checkout /\ t.todo = boot[i].todo
        /\ t.inserted = fresh /\ t.wrote = boot[i].wrote /\ t.left = boot[i].left
        /\ t \in BootType
    <3>1. fresh \in BOOLEAN
      OBVIOUS
    <3> HIDE DEF fresh
    <3> QED BY <2>1, <3>1, OneBoot DEF BootType
  <2>4. TxSound(t, Head(t.todo), challenges, challenge_files)
    <3>1. fresh => ColumnsHold(Current(i))
      BY <1>1 DEF Storable
    <3> QED BY <2>2, <2>3, <3>1 DEF TxSound, Current
  <2>5. BootSound(t, challenges, challenge_files)
    <3> HIDE DEF fresh
    <3> QED BY <2>2, <2>3, <2>4, GoesOn DEF InTxAt
  <2>6. ASSUME NEW j \in Instance \ {i}
        PROVE  Apart(t, boot[j])
    <3>1. ~Waits(i, j)
      BY DEF InsertChallenge
    <3> QED BY <2>2, <2>3, <3>1 DEF Apart, Waits, InTx, InTxAt, Current
  <2>7. boot' = [boot EXCEPT ![i] = t] /\ UNCHANGED <<challenges, challenge_files>>
    BY <1>1, <2>1 DEF InsertChallenge
  <2> QED BY <2>5, <2>6, <2>7, OneBootOnlyMoves
<1>2. CASE bad
  BY <1>2, FailKeeps DEF InsertChallenge
<1> QED BY <1>1, <1>2

LEMMA checkRegistrationKeeps ==
  ASSUME BootInv, NEW i \in Instance, checkRegistration(i)
  PROVE  BootInv'
<1>1. CASE challenges[Current(i).key] = Current(i).entry
  <2>1. PICK t : t = [boot[i] EXCEPT !.at = "count"]
    OBVIOUS
  <2>2. /\ boot[i].at = "check" /\ boot[i].todo # <<>> /\ boot[i].wrote = {}
        /\ ~boot[i].inserted
        /\ TxSound(boot[i], Current(i), challenges, challenge_files)
    BY OneBoot DEF checkRegistration, BootSound, InTxAt, Current
  <2>3. /\ t.at = "count" /\ t.checkout = boot[i].checkout /\ t.todo = boot[i].todo
        /\ t.inserted = boot[i].inserted /\ t.wrote = boot[i].wrote /\ t.left = boot[i].left
        /\ t \in BootType
    BY <2>1, OneBoot DEF BootType
  <2>4. TxSound(t, Head(t.todo), challenges, challenge_files)
    <3>1. Current(i) \in Challenges /\ Current(i).key \in Key /\ Current(i).entry # Absent
      BY <2>2, TodoIsLoaded, ChallengesAreSound
    <3>2. Held(Current(i).key, Current(i).entry)
      BY <1>1, <3>1 DEF BootInv, TablesSound
    <3>3. ColumnsHold(Current(i))
      BY <3>2, SameColumns DEF Held
    <3> QED BY <1>1, <2>2, <2>3, <3>3 DEF TxSound, Current
  <2>5. BootSound(t, challenges, challenge_files)
    BY <2>2, <2>3, <2>4, GoesOn DEF InTxAt
  <2>6. \A j \in Instance \ {i} : Apart(t, boot[j])
    <3>1. boot[i].at \in InTxAt
      BY <2>2, <2>3 DEF InTxAt
    <3> QED BY <2>2, <2>3, <3>1, MovesAlone
  <2>7. boot' = [boot EXCEPT ![i] = t] /\ UNCHANGED <<challenges, challenge_files>>
    BY <1>1, <2>1 DEF checkRegistration, Step
  <2> QED BY <2>5, <2>6, <2>7, OneBootOnlyMoves
<1>2. CASE challenges[Current(i).key] # Current(i).entry
  BY <1>2, FailKeeps DEF checkRegistration
<1> QED BY <1>1, <1>2

LEMMA registerFilesKeeps ==
  ASSUME BootInv, NEW i \in Instance, registerFiles(i)
  PROVE  BootInv'
<1> DEFINE S == Stored(Current(i).tree)
           none == challenge_files[Current(i).key] = NoFiles
<1>1. /\ boot[i].at = "count" /\ boot[i].todo # <<>> /\ boot[i].wrote = {}
      /\ TxSound(boot[i], Current(i), challenges, challenge_files)
  BY OneBoot DEF registerFiles, BootSound, InTxAt, Current
<1>2. S # {} /\ S \subseteq Path
  BY <1>1, TodoIsLoaded, ReadTreesAreWhole DEF TxSound
<1>3. CASE Len(schema) < Versioned.files
  BY <1>3, FailKeeps DEF registerFiles
<1>4. CASE ~(Len(schema) < Versioned.files) /\ none
  <2>1. PICK t : t = [boot[i] EXCEPT !.at = "fill", !.left = S]
    OBVIOUS
  <2>2. /\ t.at = "fill" /\ t.checkout = boot[i].checkout /\ t.todo = boot[i].todo
        /\ t.inserted = boot[i].inserted /\ t.wrote = boot[i].wrote /\ t.left = S
        /\ t \in BootType
    <3> HIDE DEF S
    <3> QED BY <1>2, <2>1, OneBoot DEF BootType
  <2>3. TxSound(t, Head(t.todo), challenges, challenge_files)
    BY <1>1, <1>2, <2>2 DEF TxSound, Current
  <2> HIDE DEF S
  <2>4. BootSound(t, challenges, challenge_files)
    BY <1>1, <2>2, <2>3, GoesOn DEF InTxAt
  <2>5. \A j \in Instance \ {i} : Apart(t, boot[j])
    <3>1. boot[i].at \in InTxAt
      BY <1>1, <2>2 DEF InTxAt
    <3> QED BY <1>1, <2>2, <3>1, MovesAlone
  <2>6. boot' = [boot EXCEPT ![i] = t] /\ UNCHANGED <<challenges, challenge_files>>
    BY <1>4, <2>1 DEF registerFiles, S
  <2> QED BY <2>4, <2>5, <2>6, OneBootOnlyMoves
<1>5. CASE ~(Len(schema) < Versioned.files) /\ ~none
  <2>1. PICK t : t = [boot[i] EXCEPT !.at = "compare"]
    OBVIOUS
  <2>2. /\ t.at = "compare" /\ t.checkout = boot[i].checkout /\ t.todo = boot[i].todo
        /\ t.inserted = boot[i].inserted /\ t.wrote = boot[i].wrote /\ t.left = boot[i].left
        /\ t \in BootType
    BY <2>1, OneBoot DEF BootType
  <2>3. TxSound(t, Head(t.todo), challenges, challenge_files)
    BY <1>1, <2>2 DEF TxSound, Current
  <2>4. BootSound(t, challenges, challenge_files)
    BY <1>1, <2>2, <2>3, GoesOn DEF InTxAt
  <2>5. \A j \in Instance \ {i} : Apart(t, boot[j])
    <3>1. boot[i].at \in InTxAt
      BY <1>1, <2>2 DEF InTxAt
    <3> QED BY <1>1, <2>2, <3>1, MovesAlone
  <2>6. boot' = [boot EXCEPT ![i] = t] /\ UNCHANGED <<challenges, challenge_files>>
    BY <1>5, <2>1 DEF registerFiles, Step
  <2> QED BY <2>4, <2>5, <2>6, OneBootOnlyMoves
<1> QED BY <1>3, <1>4, <1>5

\* The next path is the first of those that are left.
LEMMA NextPathIsLeft ==
  ASSUME NEW i \in Instance, boot[i].left # {}, boot[i].left \subseteq Path
  PROVE  /\ NextPath(i) \in boot[i].left
         /\ \A q \in boot[i].left : NextPath(i) <= q
<1>1. boot[i].left \in SUBSET Nat
  BY FormatAssumption
<1>2. \E p \in boot[i].left : \A q \in boot[i].left : p <= q
  BY <1>1, SomeLeast
<1> QED BY <1>2 DEF NextPath

(***************************************************************************)
(* A file is written only when nobody else has an uncommitted one at its   *)
(* path, and no later path is ever written before it.                      *)
(***************************************************************************)
LEMMA InsertFileKeeps ==
  ASSUME BootInv, NEW i \in Instance, InsertFile(i)
  PROVE  BootInv'
<1> DEFINE p == NextPath(i)
           c == Current(i)
           absent == challenge_files[c.key][p] = Absent
           W == IF absent THEN boot[i].wrote \cup {p} ELSE boot[i].wrote
           L == boot[i].left \ {p}
           a == IF boot[i].left = {p} THEN "compare" ELSE "fill"
<1> SUFFICES ASSUME StorableFile(p, c.tree[p]) PROVE BootInv'
  BY FailKeeps DEF InsertFile
<1>0. StorableFile(p, c.tree[p])
  OBVIOUS
<1>1. /\ boot[i].at = "fill" /\ boot[i].todo # <<>>
      /\ TxSound(boot[i], c, challenges, challenge_files)
      /\ boot[i].left \subseteq Path /\ boot[i].wrote \subseteq Path
  BY OneBoot DEF InsertFile, BootSound, InTxAt, Current, BootType
<1>2. /\ boot[i].left # {} /\ boot[i].left \subseteq Stored(c.tree)
      /\ \A w \in boot[i].wrote, q \in boot[i].left : w < q
  BY <1>1 DEF TxSound
<1>3. p \in boot[i].left /\ \A q \in boot[i].left : p <= q
  BY <1>1, <1>2, NextPathIsLeft
<1>4. \A q \in L : p < q
  <2>1. \A q \in L : q # p /\ p <= q /\ q \in Nat /\ p \in Nat
    BY <1>1, <1>3, FormatAssumption
  <2> HIDE DEF p, L
  <2> QED BY <2>1
<1>5. PICK t : t = [boot[i] EXCEPT !.left = L, !.wrote = W, !.at = a]
  OBVIOUS
<1>6. a \in {"compare", "fill"} /\ (a = "fill" => L # {}) /\ L \subseteq Path /\ W \subseteq Path
  BY <1>1, <1>3
<1>7. /\ t.at = a /\ t.checkout = boot[i].checkout /\ t.todo = boot[i].todo
      /\ t.inserted = boot[i].inserted /\ t.wrote = W /\ t.left = L
      /\ t \in BootType
  <2> HIDE DEF a, W, L
  <2> QED BY <1>5, <1>6, OneBoot DEF BootType
<1>8. boot' = [boot EXCEPT ![i] = t] /\ UNCHANGED <<challenges, challenge_files>>
  BY <1>0, <1>5 DEF InsertFile
<1>9. /\ W \subseteq boot[i].wrote \cup {p}
      /\ \A q \in W : challenge_files[c.key][q] = Absent /\ q \notin UnwritablePath
  BY <1>0, <1>1 DEF TxSound, StorableFile
<1>10. ~absent \/ p \in W
  OBVIOUS
<1> HIDE DEF p, W, L, a, absent
<1>11. W \subseteq Stored(c.tree) /\ L \subseteq Stored(c.tree)
  BY <1>1, <1>2, <1>3, <1>9 DEF TxSound, L
<1>12. \A w \in W, q \in L : w < q
  BY <1>2, <1>4, <1>9 DEF L
<1>13. TxSound(t, Head(t.todo), challenges, challenge_files)
  <2>1. Head(t.todo) = c
    BY <1>7 DEF Current
  <2> HIDE DEF c
  <2> QED BY <1>1, <1>6, <1>7, <1>9, <1>11, <1>12, <2>1 DEF TxSound
<1>14. BootSound(t, challenges, challenge_files)
  BY <1>1, <1>6, <1>7, <1>13, GoesOn DEF InTxAt
<1>15. ASSUME NEW j \in Instance \ {i}
       PROVE  Apart(t, boot[j])
  <2>1. ~Waits(i, j) /\ Apart(boot[i], boot[j])
    BY DEF InsertFile, BootInv
  <2> SUFFICES ASSUME boot[j].at \in InTxAt, Head(t.todo).key = Head(boot[j].todo).key
               PROVE  ~(t.inserted /\ boot[j].inserted) /\ t.wrote \cap boot[j].wrote = {}
    BY DEF Apart
  <2>2. /\ ~(boot[i].inserted /\ boot[j].inserted)
        /\ boot[i].wrote \cap boot[j].wrote = {}
    BY <1>1, <1>7, <2>1 DEF Apart, InTxAt
  <2>3. p \notin boot[j].wrote
    BY <1>1, <1>7, <2>1 DEF Waits, InTx, InTxAt, Current, p
  <2> QED BY <1>7, <1>9, <2>2, <2>3
<1> QED BY <1>8, <1>14, <1>15, OneBootOnlyMoves

LEMMA checkWorkspaceKeeps ==
  ASSUME BootInv, NEW i \in Instance, checkWorkspace(i)
  PROVE  BootInv'
<1>1. CASE Visible(i) = Current(i).tree
  <2>1. PICK t : t = [boot[i] EXCEPT !.at = "commit"]
    OBVIOUS
  <2>2. /\ boot[i].at = "compare" /\ boot[i].todo # <<>>
        /\ TxSound(boot[i], Current(i), challenges, challenge_files)
    BY OneBoot DEF checkWorkspace, BootSound, InTxAt, Current
  <2>3. /\ t.at = "commit" /\ t.checkout = boot[i].checkout /\ t.todo = boot[i].todo
        /\ t.inserted = boot[i].inserted /\ t.wrote = boot[i].wrote /\ t.left = boot[i].left
        /\ t \in BootType
    BY <2>1, OneBoot DEF BootType
  <2>4. \A p \in Path : IF p \in boot[i].wrote
                        THEN TRUE
                        ELSE challenge_files[Current(i).key][p] = Current(i).tree[p]
    BY <1>1 DEF Visible
  <2>5. TxSound(t, Head(t.todo), challenges, challenge_files)
    BY <2>2, <2>3, <2>4 DEF TxSound, Current, Stored
  <2>6. BootSound(t, challenges, challenge_files)
    BY <2>2, <2>3, <2>5, GoesOn DEF InTxAt
  <2>7. \A j \in Instance \ {i} : Apart(t, boot[j])
    <3>1. boot[i].at \in InTxAt
      BY <2>2, <2>3 DEF InTxAt
    <3> QED BY <2>2, <2>3, <3>1, MovesAlone
  <2>8. boot' = [boot EXCEPT ![i] = t] /\ UNCHANGED <<challenges, challenge_files>>
    BY <1>1, <2>1 DEF checkWorkspace, Step
  <2> QED BY <2>6, <2>7, <2>8, OneBootOnlyMoves
<1>2. CASE Visible(i) # Current(i).tree
  BY <1>2, FailKeeps DEF checkWorkspace
<1> QED BY <1>1, <1>2

LEMMA CommitRegistrationKeeps ==
  ASSUME BootInv, NEW i \in Instance, CommitRegistration(i)
  PROVE  BootInv'
<1> DEFINE s == boot[i].todo
           a == IF Len(s) = 1 THEN "serving" ELSE "read"
<1>1. boot[i].at = "commit" /\ Publish(i)
  BY DEF CommitRegistration
<1>2. /\ s # <<>> /\ s \in Seq(Challenges) /\ boot[i].checkout \in Sound
      /\ \A c \in Range(Loaded[boot[i].checkout]) :
           c \in Range(s) \/ Carries(c, challenges, challenge_files)
  BY <1>1, OneBoot DEF BootSound, BootType, InTxAt
<1>3. /\ Tail(s) \in Seq(Challenges)
      /\ Range(s) = {Current(i)} \cup Range(Tail(s))
      /\ Len(s) = 1 <=> Tail(s) = <<>>
  <2>1. Tail(s) \in Seq(Challenges) /\ Range(s) = {Current(i)} \cup Range(Tail(s))
    BY <1>2, TodoIsLoaded
  <2> HIDE DEF s
  <2>2. Len(Tail(s)) = Len(s) - 1 /\ Len(s) \in Nat
    BY <1>2, HeadTailProperties, LenProperties
  <2>3. Tail(s) = <<>> <=> Len(Tail(s)) = 0
    BY <2>1, EmptySeq
  <2> QED BY <2>1, <2>2, <2>3
<1>4. PICK t : t = [boot[i] EXCEPT !.todo = Tail(s), !.inserted = FALSE, !.wrote = {}, !.at = a]
  OBVIOUS
<1>5. a \in {"serving", "read"} /\ (a = "serving" <=> Tail(s) = <<>>)
  <2> HIDE DEF s
  <2> QED BY <1>3
<1>6. /\ t.at = a /\ t.checkout = boot[i].checkout /\ t.todo = Tail(s)
      /\ t.inserted = FALSE /\ t.wrote = {} /\ t.left = boot[i].left
      /\ t \in BootType
  <2> HIDE DEF a, s
  <2> QED BY <1>3, <1>4, <1>5, OneBoot DEF BootType
<1>7. boot' = [boot EXCEPT ![i] = t]
  BY <1>4 DEF CommitRegistration
<1>8. /\ TablesSound(challenges', challenge_files')
      /\ Grows(challenges, challenge_files, challenges', challenge_files')
      /\ Carries(Current(i), challenges', challenge_files')
      /\ \A j \in Instance \ {i} : BootSound(boot[j], challenges', challenge_files')
  BY <1>1, PublishKeeps
<1> HIDE DEF a, s
<1>9. \A c \in Range(Loaded[t.checkout]) :
        c \in Range(t.todo) \/ Carries(c, challenges', challenge_files')
  <2> SUFFICES ASSUME NEW c \in Range(Loaded[t.checkout]), c \notin Range(t.todo)
               PROVE  Carries(c, challenges', challenge_files')
    OBVIOUS
  <2>1. c \in Challenges
    BY <1>2, <1>6 DEF Challenges
  <2>2. c = Current(i) \/ Carries(c, challenges, challenge_files)
    BY <1>2, <1>3, <1>6
  <2> QED BY <1>8, <2>1, <2>2, CarriedStaysCarried
<1>10. BootSound(t, challenges', challenge_files')
  BY <1>2, <1>5, <1>6, <1>9 DEF BootSound, InTxAt
<1>11. \A u : Apart(t, u)
  BY <1>5, <1>6 DEF Apart, InTxAt
<1> QED BY <1>7, <1>8, <1>10, <1>11, OneBootMoves

LEMMA StopKeeps ==
  ASSUME BootInv, NEW i \in Instance, Stop(i)
  PROVE  BootInv'
<1>1. CASE UNCHANGED <<challenges, challenge_files>>
  BY <1>1, DownIsSound, OneBootOnlyMoves DEF Stop
<1>2. CASE boot[i].at = "commit" /\ Publish(i)
  BY <1>2, DownIsSound, PublishKeeps, OneBootMoves DEF Stop
<1> QED BY <1>1, <1>2 DEF Stop

LEMMA CatalogInvInit == Init => CatalogInv
<1> SUFFICES ASSUME Init PROVE BootInv
  BY MigrateInvInit DEF Init, CatalogInv
<1>1. NoFiles \in Tree
  BY DEF NoFiles, Tree
<1>2. TablesSound(challenges, challenge_files)
  <2>1. /\ challenges \in [Key -> Registrations \cup {Absent}]
        /\ challenge_files = [k \in Key |-> NoFiles]
        /\ \A k \in Key : challenges[k] # Absent =>
             \E c \in Challenges : c.key = k /\ c.entry = challenges[k] /\ Storable(c)
    BY DEF Init, CatalogInit
  <2>2. \A k \in Key, p \in Path : challenge_files[k][p] = Absent
    BY <2>1 DEF NoFiles
  <2>3. \A k \in Key : challenges[k] # Absent => Held(k, challenges[k])
    BY <2>1 DEF Held, Storable
  <2> QED BY <1>1, <2>1, <2>2, <2>3 DEF TablesSound
<1>3. \A i \in Instance : boot[i] = NoBoot
  BY DEF Init, CatalogInit
<1>4. NoBoot \in BootType
  BY DownIsSound DEF BootSound
<1>5. boot \in [Instance -> BootType]
  BY <1>4 DEF Init, CatalogInit
<1> QED BY <1>2, <1>3, <1>5, DownIsSound DEF BootInv

LEMMA CatalogInvStep == CatalogInv /\ [Next]_vars => CatalogInv'
<1> SUFFICES ASSUME CatalogInv, [Next]_vars PROVE CatalogInv'
  OBVIOUS
<1>1. ASSUME UNCHANGED cvars PROVE BootInv'
  BY <1>1 DEF CatalogInv, BootInv, cvars
<1>2. ASSUME UNCHANGED mvars PROVE MigrateInv'
  BY <1>2, MigrateInvStep DEF CatalogInv
<1>3. CASE MigrateNext /\ UNCHANGED cvars
  BY <1>1, <1>3, MigrateInvStep DEF CatalogInv
<1>4. CASE BootNext /\ UNCHANGED mvars
  <2>1. ASSUME NEW i \in Instance, Register(i) PROVE BootInv'
    BY <2>1, ReadWorkspaceKeeps, InsertChallengeKeeps, checkRegistrationKeeps,
       registerFilesKeeps, InsertFileKeeps, checkWorkspaceKeeps, CommitRegistrationKeeps
    DEF Register, CatalogInv
  <2>2. BootInv'
    BY <1>4, <2>1, BootKeeps, StopKeeps DEF BootNext, CatalogInv
  <2> QED BY <1>2, <1>4, <2>2 DEF CatalogInv
<1>5. CASE UNCHANGED vars
  BY <1>1, <1>2, <1>5 DEF vars, cvars, mvars, CatalogInv
<1> QED BY <1>3, <1>4, <1>5 DEF Next

LEMMA CatalogInvAlways == Spec => []CatalogInv
BY CatalogInvInit, CatalogInvStep, PTL DEF Spec

-----------------------------------------------------------------------------
(***************************************************************************)
(* Type correctness of instances that boot and operators that migrate.     *)
(***************************************************************************)
THEOREM TypeCorrect == Spec => []TypeOK
<1>1. CatalogInv => TypeOK
  BY DEF CatalogInv, MigrateInv, BootInv, TablesSound, TypeOK
<1> QED BY <1>1, CatalogInvAlways, PTL

\* Nothing is left to register when an instance serves.
LEMMA ServingCarries ==
  ASSUME BootInv, NEW i \in Instance, boot[i].at = "serving",
         NEW c \in Range(Loaded[boot[i].checkout])
  PROVE  Carries(c, challenges, challenge_files)
<1>1. /\ c \in Range(boot[i].todo) \/ Carries(c, challenges, challenge_files)
      /\ boot[i].todo = <<>>
  BY OneBoot DEF BootSound
<1>2. Range(<<>>) = {}
  BY DEF Range
<1> QED BY <1>1, <1>2

(***************************************************************************)
(* An instance that serves finds in the tables every challenge it carries, *)
(* with every file of its starting tree (cmd/api/main.go registers all of  *)
(* them before it listens), whatever other instances commit meanwhile.     *)
(***************************************************************************)
THEOREM ServesAllItCarries == Spec => []ServesWhatItCarries
<1>1. CatalogInv => ServesWhatItCarries
  BY ServingCarries DEF CatalogInv, ServesWhatItCarries, Carries
<1> QED BY <1>1, CatalogInvAlways, PTL

\* What an instance carries, and the tables hold, is what their columns can hold.
LEMMA CarriedIsHeld ==
  ASSUME BootInv, NEW c \in Challenges, Carries(c, challenges, challenge_files)
  PROVE  ColumnsHold(c) /\ Stored(c.tree) \cap UnwritablePath = {}
<1>1. c.key \in Key /\ c.entry # Absent
  BY ChallengesAreSound
<1>2. Held(c.key, c.entry)
  BY <1>1 DEF BootInv, TablesSound, Carries
<1>3. ColumnsHold(c)
  BY <1>2, SameColumns DEF Held
<1>4. ASSUME NEW p \in Stored(c.tree) PROVE p \notin UnwritablePath
  <2>1. p \in Path /\ challenge_files[c.key][p] # Absent
    BY DEF Carries, Stored
  <2> QED BY <1>1, <2>1 DEF BootInv, TablesSound
<1> QED BY <1>3, <1>4

(***************************************************************************)
(* What an instance is about to insert satisfies every constraint that     *)
(* migrations 0001 and 0005 spell out, because it passed validate.go and   *)
(* workspace.go; the types of the columns may still refuse it, and an      *)
(* instance that serves carries nothing that they do.                      *)
(***************************************************************************)
THEOREM OnlyTypesRefuse == Spec => []RefusedByTypeOnly
<1>1. ASSUME BootInv, NEW i \in Instance, boot[i].at = "insert"
      PROVE  /\ Checked(Current(i))
             /\ \A p \in Stored(Current(i).tree) : filesCheck(p, Current(i).tree[p])
  <2>1. boot[i].todo # <<>> /\ LoadWorkspace(Current(i).tree)
    BY <1>1, OneBoot DEF BootSound, InTxAt, TxSound, Current
  <2>2. Current(i) \in Challenges
    BY <1>1, <2>1, TodoIsLoaded
  <2> QED BY <2>1, <2>2, ChallengesAreSound, ReadFilesPass
<1>2. ASSUME BootInv, NEW i \in Instance, boot[i].at = "serving",
             NEW c \in Range(Loaded[boot[i].checkout])
      PROVE  ColumnsHold(c) /\ Stored(c.tree) \cap UnwritablePath = {}
  <2>1. Carries(c, challenges, challenge_files)
    BY <1>2, ServingCarries
  <2>2. boot[i].checkout \in Sound
    BY <1>2, OneBoot DEF BootSound
  <2>3. c \in Challenges
    BY <1>2, <2>2 DEF Challenges
  <2> QED BY <1>2, <2>1, <2>3, CarriedIsHeld
<1>3. CatalogInv => RefusedByTypeOnly
  BY <1>1, <1>2 DEF CatalogInv, RefusedByTypeOnly
<1> QED BY <1>3, CatalogInvAlways, PTL

(***************************************************************************)
(* Who waits for a file waits for one who is at a later path: the paths    *)
(* are inserted in order.  So the waits go up, and come to an end.         *)
(***************************************************************************)
LEMMA WaitsGoUp ==
  ASSUME BootInv, NEW i \in Instance, NEW j \in Instance, NEW l \in Instance,
         Waits(i, j), Waits(j, l)
  PROVE  /\ boot[j].at = "fill"
         /\ boot[i].at = "fill" => NextPath(i) < NextPath(j)
<1>1. boot[j].at \in {"insert", "fill"}
  BY DEF Waits
<1>2. \/ boot[i].at = "insert" /\ boot[j].inserted
      \/ boot[i].at = "fill" /\ NextPath(i) \in boot[j].wrote
  BY DEF Waits
<1>3. boot[j].at = "fill"
  BY <1>1, <1>2, OneBoot DEF BootSound
<1>4. ASSUME boot[i].at = "fill" PROVE NextPath(i) < NextPath(j)
  <2>1. NextPath(i) \in boot[j].wrote
    BY <1>2, <1>4
  <2>2. /\ boot[j].left # {} /\ boot[j].left \subseteq Path
        /\ \A w \in boot[j].wrote, q \in boot[j].left : w < q
    BY <1>3, OneBoot DEF BootSound, BootType, InTxAt, TxSound
  <2>3. NextPath(j) \in boot[j].left
    BY <2>2, NextPathIsLeft
  <2> QED BY <2>1, <2>2, <2>3
<1> QED BY <1>3, <1>4

LEMMA SomeoneIsFree ==
  ASSUME BootInv, NEW s \in (SUBSET Instance) \ {{}}
  PROVE  \E i \in s : \A j \in s : ~Waits(i, j)
<1> SUFFICES ASSUME \A i \in s : \E j \in s : Waits(i, j) PROVE FALSE
  OBVIOUS
<1> DEFINE F == {i \in s : boot[i].at = "fill"}
           Above(p) == {q \in Path : p <= q}
           M == {Cardinality(Above(NextPath(i))) : i \in F}
<1>1. ASSUME NEW i \in s
      PROVE  \E j \in F : boot[i].at = "fill" => NextPath(i) < NextPath(j)
  <2>1. PICK j \in s : Waits(i, j)
    OBVIOUS
  <2>2. PICK l \in s : Waits(j, l)
    OBVIOUS
  <2>3. boot[j].at = "fill" /\ (boot[i].at = "fill" => NextPath(i) < NextPath(j))
    BY <2>1, <2>2, WaitsGoUp
  <2> QED BY <2>3
<1>2. F # {}
  BY <1>1
<1>3. ASSUME NEW i \in F PROVE NextPath(i) \in Path
  <2>1. boot[i].left # {} /\ boot[i].left \subseteq Path
    BY OneBoot DEF BootSound, BootType, InTxAt, TxSound
  <2> QED BY <2>1, NextPathIsLeft
<1>4. ASSUME NEW p \in Path PROVE Above(p) \in SUBSET Path /\ p \in Above(p)
  <2>1. p \in Nat
    BY FormatAssumption
  <2>2. p <= p
    BY <2>1
  <2> QED BY <2>2
<1>5. ASSUME NEW p \in Path PROVE IsFiniteSet(Above(p)) /\ Cardinality(Above(p)) \in Nat
  <2> HIDE DEF Above
  <2> QED BY <1>4, FormatAssumption, FS_Subset, FS_CardinalityType
<1>6. ASSUME NEW p \in Path, NEW q \in Path, p < q
      PROVE  Cardinality(Above(q)) < Cardinality(Above(p))
  <2>1. p \in Nat /\ q \in Nat /\ Path \subseteq Nat
    BY FormatAssumption
  <2>2. ASSUME NEW r \in Above(q) PROVE r \in Above(p)
    <3>1. r \in Path /\ r \in Nat /\ q <= r
      BY <2>1
    <3>2. p <= r
      BY <1>6, <2>1, <3>1
    <3> QED BY <3>1, <3>2
  <2>3. p \notin Above(q)
    BY <1>6, <2>1
  <2> HIDE DEF Above
  <2>4. /\ Cardinality(Above(q)) <= Cardinality(Above(p))
        /\ Cardinality(Above(q)) # Cardinality(Above(p))
    BY <1>4, <1>5, <2>2, <2>3, FS_Subset
  <2> QED BY <1>5, <2>4
<1> HIDE DEF Above
<1>7. M \in SUBSET Nat /\ M # {}
  BY <1>2, <1>3, <1>5
<1>8. PICK n \in M : \A m \in M : n <= m
  <2> HIDE DEF M
  <2> QED BY <1>7, SomeLeast
<1>9. PICK i \in F : n = Cardinality(Above(NextPath(i)))
  OBVIOUS
<1>10. PICK j \in F : NextPath(i) < NextPath(j)
  BY <1>1
<1>11. /\ Cardinality(Above(NextPath(j))) < n /\ n \in Nat
       /\ Cardinality(Above(NextPath(j))) \in M /\ Cardinality(Above(NextPath(j))) \in Nat
  BY <1>3, <1>5, <1>6, <1>9, <1>10
<1> HIDE DEF M
<1> QED BY <1>8, <1>11

(***************************************************************************)
(* "Running it twice, or from two places at the same moment, is safe"      *)
(* (RegisterChallenge and Migrate): nobody fails because another was       *)
(* faster, and instances never wait for one another in a circle.           *)
(***************************************************************************)
THEOREM NobodyGetsInTheWay == Spec => []NobodyInTheWay
<1>1. CatalogInv => NobodyInTheWay
  BY SomeoneIsFree DEF CatalogInv, MigrateInv, NobodyCollided, NobodyInTheWay
<1> QED BY <1>1, CatalogInvAlways, PTL

-----------------------------------------------------------------------------
\* A commit is one step of the registry.
LEMMA PublishIsAStep ==
  ASSUME BootInv, NEW i \in Instance, boot[i].at = "commit", Publish(i)
  PROVE  Promise!Next
<1> DEFINE c == Current(i)
           k == Current(i).key
           V == Visible(i)
<1>1. /\ c \in Challenges /\ k \in Key /\ LoadWorkspace(c.tree)
      /\ boot[i].inserted => /\ challenges[k] = Absent
                             /\ challenges' = [challenges EXCEPT ![k] = c.entry]
                             /\ V = c.tree
      /\ ~boot[i].inserted => challenges[k] = c.entry /\ challenges' = challenges
      /\ challenge_files' = [challenge_files EXCEPT ![k] = V]
      /\ V \in Tree
      /\ \A p \in Path :
           /\ challenge_files[k][p] # Absent => V[p] = challenge_files[k][p]
           /\ c.tree[p] # Absent => V[p] = c.tree[p]
           /\ V[p] \in {challenge_files[k][p], c.tree[p]}
  BY PublishJoins
<1>2. k \in Key /\ c \in Offer[k]
  BY <1>1 DEF Offer
<1> HIDE DEF c, k, V
<1>3. CASE boot[i].inserted
  BY <1>1, <1>2, <1>3 DEF Promise!Next, Promise!Register
<1>4. CASE ~boot[i].inserted
  <2>1. Promise!Agree(challenge_files[k], c.tree)
    <3> SUFFICES ASSUME NEW p \in Path
                 PROVE  Absent \in {challenge_files[k][p], c.tree[p]} \/ challenge_files[k][p] = c.tree[p]
      BY DEF Promise!Agree
    <3> QED BY <1>1
  <2>2. V = Promise!Join(challenge_files[k], c.tree)
    <3>1. V = [p \in Path |-> V[p]]
      BY <1>1 DEF Tree
    <3>2. ASSUME NEW p \in Path
          PROVE  V[p] = IF challenge_files[k][p] # Absent THEN challenge_files[k][p] ELSE c.tree[p]
      BY <1>1
    <3> QED BY <3>1, <3>2 DEF Promise!Join
  <2> QED BY <1>1, <1>2, <1>4, <2>1, <2>2 DEF Promise!Next, Promise!Fill
<1> QED BY <1>3, <1>4

(***************************************************************************)
(* Registering implements the registry: a version, once registered, never  *)
(* changes, no file of it is ever replaced or removed, and only whole      *)
(* trees are stored, for any instances, checkouts and failures             *)
(* (RegisterChallenge, registerFiles and checkWorkspace).                  *)
(***************************************************************************)
THEOREM RegistrationsAreKept == Spec => KeepsRegistrations
<1>1. Init => Promise!Init
  BY DEF Init, CatalogInit, NoFiles, Promise!Init
<1>2. CatalogInv /\ [Next]_vars => [Promise!Next]_<<challenges, challenge_files>>
  <2> SUFFICES ASSUME BootInv, [Next]_vars
               PROVE  Promise!Next \/ UNCHANGED <<challenges, challenge_files>>
    BY DEF CatalogInv
  <2>1. ASSUME NEW i \in Instance, Register(i)
        PROVE  Promise!Next \/ UNCHANGED <<challenges, challenge_files>>
    <3>1. CASE CommitRegistration(i)
      BY <3>1, PublishIsAStep DEF CommitRegistration
    <3> QED BY <2>1, <3>1 DEF Register, ReadWorkspace, InsertChallenge, checkRegistration,
                              registerFiles, InsertFile, checkWorkspace
  <2>2. ASSUME NEW i \in Instance, Stop(i)
        PROVE  Promise!Next \/ UNCHANGED <<challenges, challenge_files>>
    BY <2>2, PublishIsAStep DEF Stop
  <2>3. CASE UNCHANGED cvars
    BY <2>3 DEF cvars
  <2>4. CASE UNCHANGED vars
    BY <2>4 DEF vars
  <2> QED BY <2>1, <2>2, <2>3, <2>4 DEF Next, BootNext, Boot
<1> QED BY <1>1, <1>2, CatalogInvAlways, PTL DEF Spec, KeepsRegistrations, Promise!Spec

(***************************************************************************)
(* While instances boot, too, the schema follows one lineage (migrate.go). *)
(***************************************************************************)
THEOREM SchemaFollowsOneLineage == Spec => FollowsOneLineage
<1>1. Init => History!Init
  BY MigrateStartsALineage DEF Init
<1>2. CatalogInv /\ [Next]_vars => [History!Next]_<<schema, recorded>>
  BY MigrateStepsFollow DEF CatalogInv, Next, vars, mvars
<1> QED BY <1>1, <1>2, CatalogInvAlways, PTL DEF Spec, FollowsOneLineage, History!Spec
=============================================================================
