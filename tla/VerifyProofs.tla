---------------------------- MODULE VerifyProofs ----------------------------
(***************************************************************************)
(* Proofs about judging and verifying, for any processes, names of runs,   *)
(* requirements, documents, outputs, limits and failures: who removes      *)
(* what, what is left behind, what the kept part of an output holds, and   *)
(* that results and reports are what the testers said.                     *)
(***************************************************************************)
EXTENDS Verify, FiniteSetTheorems, SequenceTheorems, WellFoundedInduction, NaturalsInduction, TLAPS

Stage == {"idle", "network", "runner", "start runner", "tester", "start tester",
          "wait", "logs", "teardown", "ended", "dead"}

\* What is read from outputs, and what testers say.
Readings == {<<>>, allErrors(Requirements)} \cup {Collected[out].results : out \in Outputs}
Sayings == {<<>>, NothingSaid} \cup {SaidBy[out] : out \in Outputs}

RunType ==
  [at: Stage, id: JobID \cup {Null}, alive: BOOLEAN, waitErr: BOOLEAN,
   owned: SUBSET Part, made: SUBSET Part, left: SUBSET Part, reported: SUBSET Part,
   failed: BOOLEAN, printed: Outputs \cup {Null},
   results: Readings, said: Sayings]

PhaseType == [results: Readings, said: Sayings, alive: BOOLEAN]

CheckType ==
  [at: {"idle", "build", "judge", "report", "error"}, phase: 0..3,
   runs: [Phase -> PhaseType],
   problems: SUBSET (Phase \X DOMAIN Requirements)]

\* What a run owns on its way to the tester's output.
OwnedAt(at) ==
  CASE at \in {"idle", "network", "dead"} -> {}
    [] at = "runner" -> {"network"}
    [] at \in {"start runner", "tester"} -> {"network", "runner"}
    [] at \in {"start tester", "wait", "logs"} -> Part

\* What is so of a run while nothing has failed for no reason.
Undisturbed(j) ==
  /\ j.alive => j.made \subseteq j.owned
  /\ j.reported = {}
  /\ j.made \cap j.owned # {} => "network" \in j.made

(***************************************************************************)
(* What the invariant asks of a run j when there have been n failures.     *)
(***************************************************************************)
RunSound(j, n) ==
  /\ j \in RunType
  /\ j.at \notin {"idle", "dead"} => j.id \in JobID
  /\ j.at \notin {"teardown", "ended"} =>
       /\ j.owned = OwnedAt(j.at) /\ j.made = j.owned
       /\ j.left = {} /\ j.reported = {}
  /\ j.at = "teardown" => j.left # {}
  /\ j.at = "ended" => j.left = {}
  /\ j.left \subseteq j.owned \cap j.made
  /\ j.at \in {"teardown", "ended"} => (j.made \cap j.owned) \ j.reported \subseteq j.left
  /\ \E p \in Part : j.made \ j.owned \subseteq {p}
  /\ j.made \ j.owned # {} => j.failed
  /\ n = 0 => Undisturbed(j)

\* Two runs of one name have not made the same object.
Apart(j, k) == j.id = k.id => j.made \cap k.made = {}

Present(id, part) == object[<<id, part>>] # "absent"
Runs(id, part) == object[<<id, part>>] = "running"

\* The run j owns what it has made under this name.
Holder(j, id, part) == j.id = id /\ part \in j.made \cap j.owned

RunsInv ==
  /\ job \in [Caller -> RunType]
  /\ object \in [JobID \X Part -> {"absent", "created", "running", "exited"}]
  /\ faults \in 0..MaxFaults
  /\ \A c \in Caller :
       /\ RunSound(job[c], faults)
       /\ job[c].printed # Null => job[c].printed \in Prints[c][job[c].id]
       /\ \A p \in job[c].made : Present(job[c].id, p)
  /\ \A c, d \in Caller : c # d => Apart(job[c], job[d])
  /\ faults = 0 => \A id \in JobID, p \in Part : Runs(id, p) =>
       \E c \in Caller : Holder(job[c], id, p)

ChecksInv ==
  /\ check \in [Verifier -> CheckType]
  /\ \A v \in Verifier :
       /\ check[v].at # "judge" => job[v].at = "idle"
       /\ check[v].at = "judge" => check[v].phase \in 1..3

VerifyInv == RunsInv /\ ChecksInv

\* A run's results are what its tester said.
Scored(run) ==
  /\ run.results = [i \in DOMAIN run.said |->
                     [key |-> Requirements[i].key, status |-> run.said[i]]]
  /\ run.said = <<>> \/ DOMAIN run.said = DOMAIN Requirements

ScoresInv ==
  /\ \A c \in Caller : Scored(job[c])
  /\ \A v \in Verifier :
       /\ \A p \in Phase : Scored(check[v].runs[p])
       /\ check[v].at = "report" => check[v].problems = inspect(check[v].runs)
-----------------------------------------------------------------------------
\* Who has made something has a name.
LEMMA MakersAreNamed ==
  ASSUME NEW j, NEW n, RunSound(j, n), j.made # {}
  PROVE  j.id \in JobID
<1>1. OwnedAt("idle") = {} /\ OwnedAt("dead") = {}
  BY DEF OwnedAt
<1>2. j.at \notin {"idle", "dead"}
  BY <1>1 DEF RunSound
<1> QED BY <1>2 DEF RunSound

(***************************************************************************)
(* What a step of one caller has to show: that its own run is sound, and   *)
(* how the objects follow.                                                 *)
(***************************************************************************)
LEMMA OneRunMoves ==
  ASSUME RunsInv, NEW c \in Caller, NEW t,
         job' = [job EXCEPT ![c] = t],
         faults' \in 0..MaxFaults, faults' = 0 => faults = 0,
         object' \in [JobID \X Part -> {"absent", "created", "running", "exited"}],
         RunSound(t, faults'),
         t.printed # Null => t.printed \in Prints[c][t.id],
         \A p \in t.made : Present(t.id, p)',
         \A d \in Caller \ {c} : Apart(job[d], t) /\ Apart(t, job[d]),
         \A d \in Caller \ {c} : \A p \in job[d].made : Present(job[d].id, p)',
         faults' = 0 => \A id \in JobID, p \in Part : Runs(id, p)' =>
           Holder(t, id, p) \/ \E d \in Caller \ {c} : Holder(job[d], id, p)
  PROVE  RunsInv'
<1>1. job'[c] = t /\ \A d \in Caller \ {c} : job'[d] = job[d]
  BY DEF RunsInv
<1>2. job' \in [Caller -> RunType]
  BY DEF RunsInv, RunSound
<1>3. \A d \in Caller : RunSound(job'[d], faults')
  <2>1. \A j : RunSound(j, faults) => RunSound(j, faults')
    BY DEF RunSound
  <2> QED BY <1>1, <2>1 DEF RunsInv
<1>4. \A d \in Caller : job'[d].printed # Null => job'[d].printed \in Prints[d][job'[d].id]
  BY <1>1 DEF RunsInv
<1>5. \A d \in Caller : \A p \in job'[d].made : object'[<<job'[d].id, p>>] # "absent"
  BY <1>1 DEF Present
<1>6. \A d, e \in Caller : d # e => Apart(job'[d], job'[e])
  BY <1>1 DEF RunsInv
<1>7. faults' = 0 => \A id \in JobID, p \in Part : object'[<<id, p>>] = "running" =>
        \E d \in Caller : Holder(job'[d], id, p)
  BY <1>1 DEF Runs
<1> QED BY <1>2, <1>3, <1>4, <1>5, <1>6, <1>7 DEF RunsInv, Present, Runs

\* A step that makes and removes nothing.
LEMMA NothingMade ==
  ASSUME RunsInv, NEW c \in Caller, NEW t,
         job' = [job EXCEPT ![c] = t],
         faults' \in 0..MaxFaults, faults' = 0 => faults = 0,
         object' \in [JobID \X Part -> {"absent", "created", "running", "exited"}],
         \A n \in JobID \X Part : object'[n] = "absent" <=> object[n] = "absent",
         \A id \in JobID, p \in Part : Runs(id, p)' => Runs(id, p) \/ Holder(t, id, p),
         RunSound(t, faults'),
         t.printed # Null => t.printed \in Prints[c][t.id],
         t.id = job[c].id, t.made = job[c].made, t.owned = job[c].owned
  PROVE  RunsInv'
<1>1. \A d \in Caller : job[d].made # {} => job[d].id \in JobID
  BY MakersAreNamed DEF RunsInv
<1>2. \A d \in Caller : \A p \in job[d].made : p \in Part
  BY DEF RunsInv, RunSound, RunType
<1>3. \A d \in Caller : \A p \in job[d].made : Present(job[d].id, p)'
  BY <1>1, <1>2 DEF RunsInv, Present
<1>4. \A d \in Caller \ {c} : Apart(job[d], t) /\ Apart(t, job[d])
  BY DEF RunsInv, Apart
<1>5. faults' = 0 => \A id \in JobID, p \in Part : Runs(id, p)' =>
           Holder(t, id, p) \/ \E d \in Caller \ {c} : Holder(job[d], id, p)
  <2> HAVE faults' = 0
  <2> TAKE id \in JobID, p \in Part
  <2> HAVE Runs(id, p)'
  <2>1. CASE Runs(id, p)
    <3>1. PICK d \in Caller : Holder(job[d], id, p)
      BY <2>1 DEF RunsInv
    <3> QED BY <3>1 DEF Holder
  <2> QED BY <2>1
<1>6. \A p \in t.made : Present(t.id, p)'
  BY <1>3
<1> QED BY <1>3, <1>4, <1>5, <1>6, OneRunMoves

\* A create that the engine carried out.
LEMMA OneMade ==
  ASSUME RunsInv, NEW c \in Caller, NEW t, NEW part \in Part,
         job' = [job EXCEPT ![c] = t],
         faults' \in 0..MaxFaults, faults' = 0 => faults = 0,
         job[c].id \in JobID,
         object[Name(c, part)] = "absent",
         object' = [object EXCEPT ![Name(c, part)] = "created"],
         RunSound(t, faults'),
         t.printed # Null => t.printed \in Prints[c][t.id],
         t.id = job[c].id, t.made = job[c].made \cup {part}, job[c].owned \subseteq t.owned
  PROVE  RunsInv'
<1> DEFINE n == Name(c, part)
<1>1. n \in JobID \X Part /\ n = <<job[c].id, part>>
  BY DEF Name
<1>2. /\ object' \in [JobID \X Part -> {"absent", "created", "running", "exited"}]
      /\ object'[n] = "created" /\ \A m \in JobID \X Part : m # n => object'[m] = object[m]
  BY <1>1 DEF RunsInv
<1>3. \A d \in Caller : job[d].made # {} => job[d].id \in JobID
  BY MakersAreNamed DEF RunsInv
<1>4. \A d \in Caller : \A p \in job[d].made : p \in Part
  BY DEF RunsInv, RunSound, RunType
<1>5. \A d \in Caller : \A p \in job[d].made : <<job[d].id, p>> # n
  BY <1>1 DEF RunsInv, Present
<1>6. \A d \in Caller : \A p \in job[d].made : Present(job[d].id, p)'
  BY <1>2, <1>3, <1>4, <1>5 DEF RunsInv, Present
<1>7. \A d \in Caller \ {c} : Apart(job[d], t) /\ Apart(t, job[d])
  BY <1>1, <1>5 DEF RunsInv, Apart
<1>8. \A p \in t.made : Present(t.id, p)'
  BY <1>1, <1>2, <1>6 DEF Present
<1>9. faults' = 0 => \A id \in JobID, p \in Part : Runs(id, p)' =>
           Holder(t, id, p) \/ \E d \in Caller \ {c} : Holder(job[d], id, p)
  <2> HAVE faults' = 0
  <2> TAKE id \in JobID, p \in Part
  <2> HAVE Runs(id, p)'
  <2>1. Runs(id, p)
    BY <1>2 DEF Runs
  <2>2. PICK d \in Caller : Holder(job[d], id, p)
    BY <2>1 DEF RunsInv
  <2> QED BY <2>2 DEF Holder
<1> QED BY <1>2, <1>6, <1>7, <1>8, <1>9, OneRunMoves

\* A removal that the engine carried out, of what this run made.
LEMMA OneRemoved ==
  ASSUME RunsInv, NEW c \in Caller, NEW t, NEW part \in job[c].made,
         job' = [job EXCEPT ![c] = t],
         faults' \in 0..MaxFaults, faults' = 0 => faults = 0,
         object' = [object EXCEPT ![Name(c, part)] = "absent"],
         RunSound(t, faults'),
         t.printed # Null => t.printed \in Prints[c][t.id],
         t.id = job[c].id, t.made = job[c].made \ {part}, t.owned = job[c].owned
  PROVE  RunsInv'
<1> DEFINE n == Name(c, part)
<1>1. \A d \in Caller : job[d].made # {} => job[d].id \in JobID
  BY MakersAreNamed DEF RunsInv
<1>2. \A d \in Caller : \A p \in job[d].made : p \in Part
  BY DEF RunsInv, RunSound, RunType
<1>3. n \in JobID \X Part /\ n = <<job[c].id, part>>
  BY <1>1, <1>2 DEF Name
<1>4. /\ object' \in [JobID \X Part -> {"absent", "created", "running", "exited"}]
      /\ object'[n] = "absent" /\ \A m \in JobID \X Part : m # n => object'[m] = object[m]
  BY <1>3 DEF RunsInv
<1>5. \A d \in Caller \ {c} : \A p \in job[d].made : <<job[d].id, p>> # n
  BY <1>3 DEF RunsInv, Apart
<1>6. \A d \in Caller \ {c} : \A p \in job[d].made : Present(job[d].id, p)'
  BY <1>1, <1>2, <1>4, <1>5 DEF RunsInv, Present
<1>7. \A d \in Caller \ {c} : Apart(job[d], t) /\ Apart(t, job[d])
  BY DEF RunsInv, Apart
<1>8. \A p \in t.made : Present(t.id, p)'
  BY <1>1, <1>2, <1>3, <1>4 DEF RunsInv, Present
<1>9. faults' = 0 => \A id \in JobID, p \in Part : Runs(id, p)' =>
           Holder(t, id, p) \/ \E d \in Caller \ {c} : Holder(job[d], id, p)
  <2> HAVE faults' = 0
  <2> TAKE id \in JobID, p \in Part
  <2> HAVE Runs(id, p)'
  <2>1. <<id, p>> # n /\ Runs(id, p)
    BY <1>4 DEF Runs
  <2>2. PICK d \in Caller : Holder(job[d], id, p)
    BY <2>1 DEF RunsInv
  <2> QED BY <1>3, <2>1, <2>2 DEF Holder
<1> QED BY <1>4, <1>6, <1>7, <1>8, <1>9, OneRunMoves

\* A run that has left nothing of its own, or is forgotten after a failure.
LEMMA AllForgotten ==
  ASSUME RunsInv, NEW c \in Caller, NEW t,
         job' = [job EXCEPT ![c] = t], object' = object,
         faults' \in 0..MaxFaults,
         faults' = 0 => faults = 0 /\ job[c].made \cap job[c].owned = {},
         RunSound(t, faults'),
         t.printed = Null, t.made = {}
  PROVE  RunsInv'
<1>1. \A d \in Caller \ {c} : \A p \in job[d].made : Present(job[d].id, p)'
  BY DEF RunsInv, Present
<1>2. \A d \in Caller \ {c} : Apart(job[d], t) /\ Apart(t, job[d])
  BY DEF Apart
<1>3. faults' = 0 => \A id \in JobID, p \in Part : Runs(id, p)' =>
           Holder(t, id, p) \/ \E d \in Caller \ {c} : Holder(job[d], id, p)
  <2> HAVE faults' = 0
  <2> TAKE id \in JobID, p \in Part
  <2> HAVE Runs(id, p)'
  <2>1. Runs(id, p)
    BY DEF Runs
  <2>2. PICK d \in Caller : Holder(job[d], id, p)
    BY <2>1 DEF RunsInv
  <2> QED BY <2>2 DEF Holder
<1>4. object' \in [JobID \X Part -> {"absent", "created", "running", "exited"}]
  BY DEF RunsInv
<1>5. \A p \in t.made : Present(t.id, p)'
  OBVIOUS
<1> QED BY <1>1, <1>2, <1>3, <1>4, <1>5, OneRunMoves
-----------------------------------------------------------------------------
\* What the outcome of a command tells.
LEMMA CommandTells ==
  ASSUME RunsInv, NEW c \in Caller, NEW detached \in BOOLEAN, NEW can \in BOOLEAN,
         NEW outcome \in Outcome, Command(c, detached, can, outcome)
  PROVE  /\ faults' \in 0..MaxFaults /\ (faults' = 0 => faults = 0)
         /\ outcome # "refused" => can
         /\ outcome = "lost" => faults' # 0 \/ (~detached /\ ~job[c].alive)
         /\ outcome = "done" => detached \/ job[c].alive
         /\ outcome = "refused" /\ can /\ detached => faults' # 0
<1>1. faults \in Nat /\ faults <= MaxFaults /\ MaxFaults \in Nat
  BY JudgeAssumption DEF RunsInv
<1>2. \/ UNCHANGED faults
      \/ faults < MaxFaults /\ faults' = faults + 1
  BY DEF Command
<1>3. faults' \in 0..MaxFaults /\ (faults' = 0 => faults = 0)
  BY <1>1, <1>2
<1>4. outcome # "refused" => can
  BY DEF Command
<1>5. outcome = "lost" => faults' # 0 \/ (~detached /\ ~job[c].alive)
  <2>1. outcome = "lost" => faults' = faults + 1 \/ (~detached /\ ~job[c].alive)
    BY DEF Command
  <2> QED BY <1>1, <2>1
<1>6. outcome = "refused" /\ can /\ detached => faults' # 0
  <2>1. outcome = "refused" /\ can /\ detached => faults' = faults + 1
    BY DEF Command
  <2> QED BY <1>1, <2>1
<1>7. outcome = "done" => detached \/ job[c].alive
  BY DEF Command
<1> QED BY <1>3, <1>4, <1>5, <1>6, <1>7

\* A run may be torn down wherever it has got to.
LEMMA TearDownIsSound ==
  ASSUME NEW j \in RunType, NEW n, j.id \in JobID,
         j.owned \subseteq j.made, j.reported = {},
         \E p \in Part : j.made \ j.owned \subseteq {p},
         j.made \ j.owned # {} => j.failed,
         n = 0 => Undisturbed(j)
  PROVE  /\ RunSound(TearDown(j), n)
         /\ TearDown(j).made = j.made /\ TearDown(j).id = j.id
         /\ TearDown(j).owned = j.owned /\ TearDown(j).alive = j.alive
         /\ TearDown(j).at \in {"teardown", "ended"} /\ TearDown(j).failed = j.failed
         /\ TearDown(j).printed = j.printed
         /\ TearDown(j).results = j.results /\ TearDown(j).said = j.said
<1>1. PICK t : t = [j EXCEPT !.at = TearingDown(j.owned), !.left = j.owned]
  OBVIOUS
<1>2. /\ t.at = TearingDown(j.owned) /\ t.left = j.owned
      /\ t.id = j.id /\ t.alive = j.alive /\ t.waitErr = j.waitErr
      /\ t.owned = j.owned /\ t.made = j.made /\ t.reported = j.reported
      /\ t.failed = j.failed /\ t.printed = j.printed
      /\ t.results = j.results /\ t.said = j.said
  BY <1>1 DEF RunType
<1>3. t.at \in {"teardown", "ended"} /\ (t.at = "ended" <=> t.left = {})
  BY <1>2 DEF TearingDown
<1>4. t \in RunType
  BY <1>1, <1>3 DEF RunType, Stage
<1>5. TearDown(j) = t
  BY <1>1 DEF TearDown, ToRemove
<1>6. RunSound(t, n)
  BY <1>2, <1>3, <1>4 DEF RunSound, Undisturbed
<1> QED BY <1>2, <1>3, <1>5, <1>6

LEMMA PrintsStay ==
  ASSUME NEW c, NEW j, NEW t,
         j.printed # Null => j.printed \in Prints[c][j.id],
         t.id = j.id, t.printed \in {j.printed, Null}
  PROVE  t.printed # Null => t.printed \in Prints[c][t.id]
OBVIOUS

LEMMA CreateKeeps ==
  ASSUME RunsInv, NEW c \in Caller, NEW part \in Part, NEW next \in Stage,
         Create(c, part, next),
         next \notin {"idle", "dead", "teardown", "ended"},
         OwnedAt(part) = OwnedAt(next) \ {part}, part \in OwnedAt(next), OwnedAt(next) \subseteq Part,
         "network" \in OwnedAt(next)
  PROVE  RunsInv'
<1> DEFINE j == job[c]
           can == object[Name(c, part)] = "absent"
<1>1. /\ j \in RunType /\ RunSound(j, faults) /\ j.at = part
      /\ j.printed # Null => j.printed \in Prints[c][j.id]
  BY DEF RunsInv, Create
<1>2. /\ j.id \in JobID /\ j.owned = OwnedAt(part) /\ j.made = j.owned
      /\ j.left = {} /\ j.reported = {}
  BY <1>1 DEF RunSound, Part
<1>3. PICK outcome \in Outcome :
        /\ Command(c, FALSE, can, outcome)
        /\ object' = IF outcome = "refused" THEN object
                      ELSE [object EXCEPT ![Name(c, part)] = "created"]
        /\ LET k == IF outcome = "refused" THEN j ELSE [j EXCEPT !.made = @ \cup {part}]
           IN job' = [job EXCEPT ![c] =
                IF outcome = "done" THEN [k EXCEPT !.at = next, !.owned = @ \cup {part}]
                                    ELSE TearDown([k EXCEPT !.failed = TRUE])]
  BY DEF Create
<1>4. /\ faults' \in 0..MaxFaults /\ (faults' = 0 => faults = 0)
      /\ outcome # "refused" => can
      /\ outcome = "lost" => faults' # 0 \/ ~j.alive
  BY <1>3, CommandTells
<1>5. CASE outcome = "refused"
  <2>1. PICK k : k = [j EXCEPT !.failed = TRUE]
    OBVIOUS
  <2>2. /\ k \in RunType /\ k.failed = TRUE
        /\ k.id = j.id /\ k.owned = j.owned /\ k.made = j.made /\ k.reported = j.reported
        /\ k.printed = j.printed /\ k.alive = j.alive
    BY <1>1, <2>1 DEF RunType
  <2>3. job' = [job EXCEPT ![c] = TearDown(k)] /\ object' = object
    BY <1>3, <1>5, <2>1
  <2>4. /\ k.owned \subseteq k.made /\ (\E p \in Part : k.made \ k.owned \subseteq {p})
        /\ faults' = 0 => Undisturbed(k)
    BY <1>1, <1>2, <1>4, <2>2 DEF RunSound, Undisturbed
  <2>5. /\ RunSound(TearDown(k), faults') /\ TearDown(k).made = j.made
        /\ TearDown(k).owned = j.owned
        /\ TearDown(k).id = j.id /\ TearDown(k).printed = j.printed
    BY <1>2, <2>2, <2>4, TearDownIsSound
  <2>6. /\ object' \in [JobID \X Part -> {"absent", "created", "running", "exited"}]
        /\ \A id \in JobID, p \in Part : Runs(id, p)' => Runs(id, p)
    BY <2>3 DEF RunsInv, Runs
  <2> QED BY <1>1, <1>4, <2>3, <2>5, <2>6, NothingMade
<1>6. CASE outcome = "lost"
  <2>1. PICK k : k = [[j EXCEPT !.made = @ \cup {part}] EXCEPT !.failed = TRUE]
    OBVIOUS
  <2>2. /\ k \in RunType /\ k.failed = TRUE
        /\ k.id = j.id /\ k.owned = j.owned /\ k.made = j.made \cup {part}
        /\ k.reported = j.reported /\ k.printed = j.printed /\ k.alive = j.alive
    BY <1>1, <2>1 DEF RunType
  <2>3. /\ job' = [job EXCEPT ![c] = TearDown(k)]
        /\ object' = [object EXCEPT ![Name(c, part)] = "created"]
    BY <1>3, <1>6, <2>1
  <2>4. /\ k.owned \subseteq k.made /\ (\E p \in Part : k.made \ k.owned \subseteq {p})
        /\ faults' = 0 => Undisturbed(k)
    BY <1>1, <1>2, <1>4, <1>6, <2>2 DEF RunSound, Undisturbed
  <2>5. /\ RunSound(TearDown(k), faults') /\ TearDown(k).made = j.made \cup {part}
        /\ TearDown(k).owned = j.owned
        /\ TearDown(k).id = j.id /\ TearDown(k).printed = j.printed
    BY <1>2, <2>2, <2>4, TearDownIsSound
  <2> QED BY <1>1, <1>2, <1>4, <1>6, <2>3, <2>5, OneMade
<1>7. CASE outcome = "done"
  <2>1. PICK t : t = [[j EXCEPT !.made = @ \cup {part}] EXCEPT !.at = next, !.owned = @ \cup {part}]
    OBVIOUS
  <2>2. /\ t \in RunType /\ t.at = next
        /\ t.id = j.id /\ t.owned = j.owned \cup {part} /\ t.made = j.made \cup {part}
        /\ t.left = j.left /\ t.reported = j.reported /\ t.printed = j.printed
    BY <1>1, <2>1 DEF RunType
  <2>3. /\ job' = [job EXCEPT ![c] = t]
        /\ object' = [object EXCEPT ![Name(c, part)] = "created"]
    BY <1>3, <1>7, <2>1
  <2>4. t.owned = OwnedAt(next) /\ t.made = t.owned
    BY <1>2, <2>2
  <2>5. RunSound(t, faults')
    BY <1>2, <2>2, <2>4 DEF RunSound, Undisturbed
  <2> QED BY <1>1, <1>2, <1>4, <1>7, <2>2, <2>3, <2>5, OneMade
<1> QED BY <1>5, <1>6, <1>7 DEF Outcome

LEMMA CreatesKeep ==
  ASSUME RunsInv, NEW c \in Caller, CreateNetwork(c) \/ CreateRunner(c) \/ CreateTester(c)
  PROVE  RunsInv'
<1>1. /\ OwnedAt("network") = {} /\ OwnedAt("runner") = {"network"}
      /\ OwnedAt("start runner") = {"network", "runner"} /\ OwnedAt("tester") = {"network", "runner"}
      /\ OwnedAt("start tester") = {"network", "runner", "tester"}
  BY DEF OwnedAt, Part
<1>2. CASE CreateNetwork(c)
  BY <1>1, <1>2, CreateKeeps DEF CreateNetwork, Part, Stage
<1>3. CASE CreateRunner(c)
  BY <1>1, <1>3, CreateKeeps DEF CreateRunner, Part, Stage
<1>4. CASE CreateTester(c)
  BY <1>1, <1>4, CreateKeeps DEF CreateTester, Part, Stage
<1> QED BY <1>2, <1>3, <1>4

LEMMA StartKeeps ==
  ASSUME RunsInv, NEW c \in Caller, NEW part \in Part, NEW step \in Stage, NEW next \in Stage,
         Start(c, part, step, next),
         {step, next} \cap {"idle", "dead", "teardown", "ended"} = {},
         OwnedAt(step) = OwnedAt(next), part \in OwnedAt(step)
  PROVE  RunsInv'
<1> DEFINE j == job[c]
           n == Name(c, part)
           can == object[n] = "created"
<1>1. /\ j \in RunType /\ RunSound(j, faults) /\ j.at = step
      /\ j.printed # Null => j.printed \in Prints[c][j.id]
  BY DEF RunsInv, Start
<1>2. /\ j.id \in JobID /\ j.owned = OwnedAt(step) /\ j.made = j.owned
      /\ j.left = {} /\ j.reported = {}
  BY <1>1 DEF RunSound
<1>3. PICK outcome \in Outcome :
        /\ Command(c, FALSE, can, outcome)
        /\ object' = IF outcome = "refused" THEN object ELSE [object EXCEPT ![n] = "running"]
        /\ job' = [job EXCEPT ![c] = IF outcome = "done" THEN [j EXCEPT !.at = next]
                                     ELSE TearDown([j EXCEPT !.failed = TRUE])]
  BY DEF Start
<1>4. /\ faults' \in 0..MaxFaults /\ (faults' = 0 => faults = 0)
      /\ outcome # "refused" => can
  BY <1>3, CommandTells
<1>5. n \in JobID \X Part
  BY <1>2 DEF Name
<1>6. object' \in [JobID \X Part -> {"absent", "created", "running", "exited"}]
  BY <1>3 DEF RunsInv
<1>7. \A m \in JobID \X Part : object'[m] = "absent" <=> object[m] = "absent"
  <2>1. CASE outcome = "refused"
    BY <1>3, <2>1
  <2>2. CASE outcome # "refused"
    <3>1. can /\ object' = [object EXCEPT ![n] = "running"]
      BY <1>3, <1>4, <2>2
    <3> QED BY <1>5, <3>1 DEF RunsInv
  <2> QED BY <2>1, <2>2
<1>8. \A t : t.id = j.id /\ t.made = j.made /\ t.owned = j.owned =>
        \A id \in JobID, p \in Part : Runs(id, p)' => Runs(id, p) \/ Holder(t, id, p)
  <2>1. \A m \in JobID \X Part : object'[m] = "running" => object[m] = "running" \/ m = n
    BY <1>3, <1>5 DEF RunsInv
  <2>2. n = <<j.id, part>> /\ part \in j.made \cap j.owned
    BY <1>2 DEF Name
  <2> QED BY <2>1, <2>2 DEF Runs, Holder
<1>9. CASE outcome = "done"
  <2>1. PICK t : t = [j EXCEPT !.at = next]
    OBVIOUS
  <2>2. /\ t \in RunType /\ t.at = next /\ t.failed = j.failed
        /\ t.id = j.id /\ t.owned = j.owned /\ t.made = j.made
        /\ t.left = j.left /\ t.reported = j.reported /\ t.printed = j.printed
    BY <1>1, <2>1 DEF RunType
  <2>3. job' = [job EXCEPT ![c] = t]
    BY <1>3, <1>9, <2>1
  <2>4. RunSound(t, faults')
    BY <1>1, <1>2, <1>4, <2>2 DEF RunSound, Undisturbed
  <2> QED BY <1>1, <1>4, <1>6, <1>7, <1>8, <2>2, <2>3, <2>4, NothingMade
<1>10. CASE outcome # "done"
  <2>1. PICK k : k = [j EXCEPT !.failed = TRUE]
    OBVIOUS
  <2>2. /\ k \in RunType /\ k.failed = TRUE
        /\ k.id = j.id /\ k.owned = j.owned /\ k.made = j.made /\ k.reported = j.reported
        /\ k.printed = j.printed /\ k.alive = j.alive
    BY <1>1, <2>1 DEF RunType
  <2>3. job' = [job EXCEPT ![c] = TearDown(k)]
    BY <1>3, <1>10, <2>1
  <2>4. /\ k.owned \subseteq k.made /\ (\E p \in Part : k.made \ k.owned \subseteq {p})
        /\ faults' = 0 => Undisturbed(k)
    BY <1>1, <1>2, <1>4, <2>2 DEF RunSound, Undisturbed
  <2>5. /\ RunSound(TearDown(k), faults') /\ TearDown(k).made = j.made
        /\ TearDown(k).owned = j.owned
        /\ TearDown(k).id = j.id /\ TearDown(k).printed = j.printed
    BY <1>2, <2>2, <2>4, TearDownIsSound
  <2> QED BY <1>1, <1>4, <1>6, <1>7, <1>8, <2>3, <2>5, NothingMade
<1> QED BY <1>9, <1>10

LEMMA StartsKeep ==
  ASSUME RunsInv, NEW c \in Caller, StartRunner(c) \/ StartTester(c)
  PROVE  RunsInv'
<1>1. /\ OwnedAt("start runner") = {"network", "runner"} /\ OwnedAt("tester") = {"network", "runner"}
      /\ OwnedAt("start tester") = Part /\ OwnedAt("wait") = Part
  BY DEF OwnedAt
<1>2. CASE StartRunner(c)
  BY <1>1, <1>2, StartKeeps DEF StartRunner, Part, Stage
<1>3. CASE StartTester(c)
  BY <1>1, <1>3, StartKeeps DEF StartTester, Part, Stage
<1> QED BY <1>2, <1>3

\* Steps that change nothing of what is made or owned.
LEMMA OnlyNoted ==
  ASSUME RunsInv, NEW c \in Caller, NEW t \in RunType,
         job' = [job EXCEPT ![c] = t], UNCHANGED faults,
         object' \in [JobID \X Part -> {"absent", "created", "running", "exited"}],
         \A n \in JobID \X Part : object'[n] = "absent" <=> object[n] = "absent",
         \A n \in JobID \X Part : object'[n] = "running" => object[n] = "running",
         t.printed # Null => t.printed \in Prints[c][t.id], t.alive => job[c].alive,
         t.at = job[c].at \/ (job[c].at = "wait" /\ t.at = "logs"),
         t.id = job[c].id, t.made = job[c].made, t.owned = job[c].owned,
         t.left = job[c].left, t.reported = job[c].reported, t.failed = job[c].failed
  PROVE  RunsInv'
<1>1. OwnedAt("wait") = Part /\ OwnedAt("logs") = Part
  BY DEF OwnedAt
<1>2. RunSound(job[c], faults) /\ faults' \in 0..MaxFaults
  BY DEF RunsInv
<1>3. RunSound(t, faults)
  <2>1. CASE t.at = job[c].at
    BY <1>2, <2>1 DEF RunSound, Undisturbed
  <2>2. CASE job[c].at = "wait" /\ t.at = "logs"
    BY <1>1, <1>2, <2>2 DEF RunSound, Undisturbed
  <2> QED BY <2>1, <2>2
<1>4. \A id \in JobID, p \in Part : Runs(id, p)' => Runs(id, p)
  BY DEF Runs
<1> QED BY <1>2, <1>3, <1>4, NothingMade

LEMMA WaitsKeep ==
  ASSUME RunsInv, NEW c \in Caller,
         WaitContainer(c) \/ WaitFails(c) \/ Cancel(c) \/ TesterExits(c)
  PROVE  RunsInv'
<1> DEFINE j == job[c]
<1>1. /\ j \in RunType /\ RunSound(j, faults)
      /\ j.printed # Null => j.printed \in Prints[c][j.id]
      /\ object \in [JobID \X Part -> {"absent", "created", "running", "exited"}]
  BY DEF RunsInv
<1>2. CASE WaitContainer(c)
  <2>1. PICK t : t = [j EXCEPT !.at = "logs"]
    OBVIOUS
  <2>2. /\ t \in RunType /\ t.at = "logs" /\ t.failed = j.failed
        /\ t.id = j.id /\ t.owned = j.owned /\ t.made = j.made
        /\ t.left = j.left /\ t.reported = j.reported /\ t.printed = j.printed
        /\ t.alive = j.alive
    BY <1>1, <2>1 DEF RunType, Stage
  <2>3. /\ job' = [job EXCEPT ![c] = t] /\ j.at = "wait"
        /\ UNCHANGED <<object, faults>>
    BY <1>2, <2>1 DEF WaitContainer
  <2> QED BY <1>1, <2>2, <2>3, OnlyNoted
<1>3. CASE WaitFails(c)
  <2>1. PICK t : t = [j EXCEPT !.at = "logs", !.waitErr = TRUE]
    OBVIOUS
  <2>2. /\ t \in RunType /\ t.at = "logs" /\ t.failed = j.failed
        /\ t.id = j.id /\ t.owned = j.owned /\ t.made = j.made
        /\ t.left = j.left /\ t.reported = j.reported /\ t.printed = j.printed
        /\ t.alive = j.alive
    BY <1>1, <2>1 DEF RunType, Stage
  <2>3. /\ job' = [job EXCEPT ![c] = t] /\ j.at = "wait"
        /\ UNCHANGED <<object, faults>>
    BY <1>1, <1>3, <2>1, ZenonT(40) DEF WaitFails, RunsInv
  <2> QED BY <1>1, <2>2, <2>3, OnlyNoted
<1>4. CASE Cancel(c)
  <2>1. PICK t : t = [j EXCEPT !.alive = FALSE]
    OBVIOUS
  <2>2. /\ t \in RunType /\ t.at = j.at /\ t.failed = j.failed
        /\ t.id = j.id /\ t.owned = j.owned /\ t.made = j.made
        /\ t.left = j.left /\ t.reported = j.reported /\ t.printed = j.printed
        /\ t.alive = FALSE
    BY <1>1, <2>1 DEF RunType
  <2>3. job' = [job EXCEPT ![c] = t] /\ UNCHANGED <<object, faults>>
    BY <1>4, <2>1 DEF Cancel
  <2> QED BY <1>1, <2>2, <2>3, OnlyNoted
<1>5. CASE TesterExits(c)
  <2>1. PICK out \in Prints[c][j.id] : job' = [job EXCEPT ![c].printed = out]
    BY <1>5 DEF TesterExits
  <2>2. PICK t : t = [j EXCEPT !.printed = out]
    OBVIOUS
  <2>3. j.id \in JobID
    BY <1>1, <1>5, MakersAreNamed DEF TesterExits
  <2>4. out \in Outputs
    BY <2>1, <2>3 DEF Outputs
  <2>5. /\ t \in RunType /\ t.at = j.at /\ t.failed = j.failed
        /\ t.id = j.id /\ t.owned = j.owned /\ t.made = j.made
        /\ t.left = j.left /\ t.reported = j.reported /\ t.printed = out
        /\ t.alive = j.alive
    BY <1>1, <2>2, <2>4 DEF RunType
  <2>6. job' = [job EXCEPT ![c] = t] /\ UNCHANGED faults
    BY <1>1, <1>5, <2>1, <2>2 DEF TesterExits, RunsInv
  <2>7. /\ object[Name(c, "tester")] = "running"
        /\ object' = [object EXCEPT ![Name(c, "tester")] = "exited"]
    BY <1>5 DEF TesterExits
  <2>8. Name(c, "tester") \in JobID \X Part
    BY <2>3 DEF Name, Part
  <2>9. /\ object' \in [JobID \X Part -> {"absent", "created", "running", "exited"}]
        /\ \A n \in JobID \X Part : object'[n] = "absent" <=> object[n] = "absent"
    BY <1>1, <2>7, <2>8
  <2>10. \A n \in JobID \X Part : object'[n] = "running" => object[n] = "running"
    BY <1>1, <2>7, <2>8
  <2>11. /\ t.printed \in Prints[c][t.id] /\ (t.alive => j.alive)
         /\ t.at = j.at \/ (j.at = "wait" /\ t.at = "logs")
    BY <2>1, <2>5
  <2> QED BY <2>5, <2>6, <2>9, <2>10, <2>11, OnlyNoted
<1> QED BY <1>2, <1>3, <1>4, <1>5

\* Without output there are no results but errors.
LEMMA NothingRead ==
  ASSUME NEW err \in BOOLEAN
  PROVE  Collect(Requirements, [err |-> err, stdout |-> <<>>])
           = [err |-> FALSE, results |-> allErrors(Requirements)]
<1>1. MarkerLines(<<>>) = {}
  BY DEF MarkerLines
<1>2. \A declared : parse(<<>>, declared) = "no results"
  BY <1>1 DEF parse
<1> QED BY <1>2 DEF Collect

LEMMA ReadingsAreTyped ==
  ASSUME NEW j \in RunType
  PROVE  ReadResults(j).err \in BOOLEAN /\ ReadResults(j).results \in Readings
<1>1. CASE j.waitErr \/ j.printed = Null
  <2>1. ReadResults(j) = Collect(Requirements, [err |-> j.waitErr, stdout |-> <<>>])
    BY <1>1 DEF ReadResults
  <2>2. j.waitErr \in BOOLEAN
    BY DEF RunType
  <2>3. ReadResults(j) = [err |-> FALSE, results |-> allErrors(Requirements)]
    BY <2>1, <2>2, NothingRead
  <2> QED BY <2>3 DEF Readings
<1>2. CASE ~(j.waitErr \/ j.printed = Null)
  <2>1. j.printed \in Outputs /\ ReadResults(j) = Collected[j.printed]
    BY <1>2 DEF ReadResults, RunType
  <2>2. Collected[j.printed].results \in Readings
    BY <2>1 DEF Readings
  <2>3. Collected[j.printed].err \in BOOLEAN
    BY <2>1 DEF Collected, Collect
  <2> QED BY <2>1, <2>2, <2>3
<1> QED BY <1>1, <1>2

LEMMA ReadLogsKeeps ==
  ASSUME RunsInv, NEW c \in Caller, ReadLogs(c)
  PROVE  RunsInv'
<1> DEFINE j == job[c]
           over == [j EXCEPT !.printed = Null, !.waitErr = FALSE]
           said == IF j.waitErr \/ j.printed = Null THEN NothingSaid ELSE SaidBy[j.printed]
<1>1. /\ j \in RunType /\ RunSound(j, faults) /\ j.at = "logs"
      /\ object \in [JobID \X Part -> {"absent", "created", "running", "exited"}]
  BY DEF RunsInv, ReadLogs
<1>2. /\ j.id \in JobID /\ j.made = j.owned /\ j.left = {} /\ j.reported = {}
  BY <1>1 DEF RunSound
<1>3. PICK outcome \in {"done", "refused"} :
        /\ Command(c, TRUE, TRUE, outcome)
        /\ job' = [job EXCEPT ![c] = TearDown(
             IF outcome = "done"
               THEN [over EXCEPT !.failed = ReadResults(j).err,
                                 !.results = ReadResults(j).results, !.said = said]
               ELSE [over EXCEPT !.failed = TRUE])]
  BY DEF ReadLogs
<1>4. faults' \in 0..MaxFaults /\ (faults' = 0 => faults = 0)
  BY <1>3, CommandTells DEF Outcome
<1>5. said \in Sayings
  BY <1>1 DEF Sayings, RunType
<1>6. ReadResults(j).err \in BOOLEAN /\ ReadResults(j).results \in Readings
  BY <1>1, ReadingsAreTyped
<1>7. \E k \in RunType :
        /\ job' = [job EXCEPT ![c] = TearDown(k)]
        /\ k.id = j.id /\ k.owned = j.owned /\ k.made = j.made /\ k.reported = j.reported
        /\ k.printed = Null /\ k.alive = j.alive
  <2>1. CASE outcome = "done"
    <3>1. PICK k : k = [over EXCEPT !.failed = ReadResults(j).err,
                                    !.results = ReadResults(j).results, !.said = said]
      OBVIOUS
    <3> HIDE DEF said
    <3>2. /\ k \in RunType /\ k.id = j.id /\ k.owned = j.owned /\ k.made = j.made
          /\ k.reported = j.reported /\ k.printed = Null /\ k.alive = j.alive
      BY <1>1, <1>5, <1>6, <3>1 DEF RunType
    <3> QED BY <1>3, <2>1, <3>1, <3>2
  <2>2. CASE outcome = "refused"
    <3>1. PICK k : k = [over EXCEPT !.failed = TRUE]
      OBVIOUS
    <3>2. /\ k \in RunType /\ k.id = j.id /\ k.owned = j.owned /\ k.made = j.made
          /\ k.reported = j.reported /\ k.printed = Null /\ k.alive = j.alive
      BY <1>1, <3>1 DEF RunType
    <3> QED BY <1>3, <2>2, <3>1, <3>2
  <2> QED BY <2>1, <2>2
<1>8. PICK k \in RunType :
        /\ job' = [job EXCEPT ![c] = TearDown(k)]
        /\ k.id = j.id /\ k.owned = j.owned /\ k.made = j.made /\ k.reported = j.reported
        /\ k.printed = Null /\ k.alive = j.alive
  BY <1>7
<1>9. /\ k.owned \subseteq k.made /\ k.made \ k.owned = {}
      /\ (\E p \in Part : k.made \ k.owned \subseteq {p})
      /\ faults' = 0 => Undisturbed(k)
  BY <1>1, <1>2, <1>4, <1>8 DEF RunSound, Undisturbed
<1>10. /\ RunSound(TearDown(k), faults') /\ TearDown(k).made = j.made
       /\ TearDown(k).owned = j.owned
       /\ TearDown(k).id = j.id /\ TearDown(k).printed = Null
  BY <1>2, <1>8, <1>9, TearDownIsSound
<1>11. object' = object /\ \A id \in JobID, p \in Part : Runs(id, p)' => Runs(id, p)
  BY DEF ReadLogs, Runs
<1> QED BY <1>1, <1>4, <1>8, <1>10, <1>11, NothingMade

\* The network goes when nothing else is left.
LEMMA NextIsLeft ==
  ASSUME NEW left \in SUBSET Part, left # {}
  PROVE  /\ NextToRemove(left) \in left
         /\ NextToRemove(left) = "network" => left = {"network"}
<1>1. Turn["runner"] = 1 /\ Turn["tester"] = 2 /\ Turn["network"] = 3
  BY DEF Turn
<1>2. \E p \in left : \A q \in left : Turn[p] <= Turn[q]
  <2>1. CASE "runner" \in left
    BY <1>1, <2>1 DEF Part
  <2>2. CASE "runner" \notin left /\ "tester" \in left
    BY <1>1, <2>2 DEF Part
  <2>3. CASE left = {"network"}
    BY <1>1, <2>3
  <2> QED BY <2>1, <2>2, <2>3 DEF Part
<1>3. NextToRemove(left) \in left /\ \A q \in left : Turn[NextToRemove(left)] <= Turn[q]
  BY <1>2 DEF NextToRemove
<1>4. ASSUME NextToRemove(left) = "network" PROVE left = {"network"}
  <2>1. \A q \in left : 3 <= Turn[q]
    BY <1>1, <1>3, <1>4
  <2>2. "runner" \notin left /\ "tester" \notin left
    BY <1>1, <2>1
  <2> QED BY <2>2 DEF Part
<1> QED BY <1>3, <1>4

\* A network that this run is the only one to hold can be removed.
LEMMA NoFaultNoHold ==
  ASSUME RunsInv, NEW c \in Caller, faults = 0,
         job[c].at = "teardown", NextToRemove(job[c].left) = "network"
  PROVE  Removable(job[c].id, "network")
<1> DEFINE j == job[c]
<1>1. RunSound(j, faults) /\ j \in RunType
  BY DEF RunsInv
<1>2. /\ j.left \in SUBSET Part /\ j.left # {} /\ j.left \subseteq j.made
      /\ j.reported = {} /\ j.made \cap j.owned \subseteq j.left /\ j.id \in JobID
  BY <1>1 DEF RunSound, Undisturbed, RunType
<1>3. "network" \in j.made /\ j.made \cap j.owned \subseteq {"network"}
  BY <1>2, NextIsLeft
<1>4. SUFFICES ASSUME NEW p \in {"runner", "tester"}, object[<<j.id, p>>] = "running"
               PROVE  FALSE
  BY DEF Removable
<1>5. p \in Part /\ Runs(j.id, p)
  BY <1>4 DEF Part, Runs
<1>6. PICK d \in Caller : job[d].id = j.id /\ p \in job[d].made \cap job[d].owned
  BY <1>2, <1>5 DEF RunsInv, Holder
<1>7. d # c
  BY <1>3, <1>6
<1>8. "network" \in job[d].made
  BY <1>6 DEF RunsInv, RunSound, Undisturbed
<1>9. Apart(job[c], job[d])
  BY <1>7 DEF RunsInv
<1> QED BY <1>3, <1>6, <1>8, <1>9 DEF Apart

LEMMA RemoveNextKeeps ==
  ASSUME RunsInv, NEW c \in Caller, RemoveNext(c)
  PROVE  RunsInv'
<1> DEFINE j == job[c]
           part == NextToRemove(j.left)
           rest == j.left \ {part}
<1>1. /\ j \in RunType /\ RunSound(j, faults) /\ j.at = "teardown"
      /\ j.printed # Null => j.printed \in Prints[c][j.id]
      /\ object \in [JobID \X Part -> {"absent", "created", "running", "exited"}]
  BY DEF RunsInv, RemoveNext
<1>2. /\ j.id \in JobID /\ j.left # {} /\ j.left \in SUBSET Part
      /\ j.left \subseteq j.owned \cap j.made
      /\ (j.made \cap j.owned) \ j.reported \subseteq j.left
  BY <1>1 DEF RunSound, RunType
<1>3. part \in j.left /\ part \in Part /\ part \in j.made
  BY <1>2, NextIsLeft
<1>4. PICK outcome \in Outcome :
        /\ Command(c, TRUE, Removable(j.id, part), outcome)
        /\ object' = IF outcome = "refused" THEN object
                     ELSE [object EXCEPT ![Name(c, part)] = "absent"]
        /\ job' = [job EXCEPT
             ![c].made = IF outcome = "refused" THEN @ ELSE @ \ {part},
             ![c].reported = IF outcome = "done" THEN @ ELSE @ \cup {part},
             ![c].left = @ \ {part},
             ![c].at = TearingDown(rest)]
  BY DEF RemoveNext
<1>5. Removable(j.id, part) \in BOOLEAN
  BY DEF Removable
<1>6. /\ faults' \in 0..MaxFaults /\ (faults' = 0 => faults = 0)
      /\ outcome = "lost" => faults' # 0
      /\ outcome = "refused" /\ Removable(j.id, part) => faults' # 0
  <2>1. TRUE \in BOOLEAN
    OBVIOUS
  <2> QED BY <1>4, <1>5, <2>1, CommandTells
<1>7. faults' = 0 => outcome = "done"
  <2>1. ASSUME faults' = 0 PROVE Removable(j.id, part)
    <3>1. CASE part = "network"
      BY <1>1, <1>6, <2>1, <3>1, NoFaultNoHold
    <3>2. CASE part # "network"
      BY <3>2 DEF Removable
    <3> QED BY <3>1, <3>2
  <2> QED BY <1>6, <2>1 DEF Outcome
<1> DEFINE made == IF outcome = "refused" THEN j.made ELSE j.made \ {part}
           reported == IF outcome = "done" THEN j.reported ELSE j.reported \cup {part}
<1>8. PICK t : t = [j EXCEPT !.made = made, !.reported = reported,
                            !.left = rest, !.at = TearingDown(rest)]
  OBVIOUS
<1>9. /\ made \in SUBSET Part /\ reported \in SUBSET Part /\ rest \in SUBSET Part
      /\ TearingDown(rest) \in Stage
  BY <1>1, <1>3 DEF RunType, TearingDown, Stage
<1>10. job' = [job EXCEPT ![c] = t]
  BY <1>1, <1>4, <1>8 DEF RunsInv, RunType
<1>11. made \subseteq j.made /\ rest \subseteq j.owned \cap made
       /\ (made \cap j.owned) \ reported \subseteq rest
  BY <1>2, <1>3
<1>12. faults' = 0 => /\ j.alive => made \subseteq j.owned
                      /\ reported = {}
                      /\ made \cap j.owned # {} => "network" \in made
  <2> HAVE faults' = 0
  <2>1. made = j.made \ {part} /\ reported = j.reported
    BY <1>7
  <2>2. /\ j.alive => j.made \subseteq j.owned
        /\ j.reported = {}
        /\ j.made \cap j.owned # {} => "network" \in j.made
    BY <1>1, <1>6 DEF RunSound, Undisturbed
  <2>3. part = "network" => made \cap j.owned = {}
    BY <1>2, <2>1, <2>2, NextIsLeft
  <2> QED BY <2>1, <2>2, <2>3
<1>13. TearingDown(rest) \in {"teardown", "ended"} /\ (TearingDown(rest) = "ended" <=> rest = {})
  BY DEF TearingDown
<1>14. (\E p \in Part : j.made \ j.owned \subseteq {p}) /\ (j.made \ j.owned # {} => j.failed)
  BY <1>1 DEF RunSound
<1> HIDE DEF made, reported, rest, part
<1>15. /\ t \in RunType /\ t.at = TearingDown(rest) /\ t.failed = j.failed
       /\ t.id = j.id /\ t.owned = j.owned /\ t.made = made
       /\ t.left = rest /\ t.reported = reported /\ t.printed = j.printed
       /\ t.alive = j.alive
  BY <1>1, <1>8, <1>9 DEF RunType
<1>16. RunSound(t, faults')
  BY <1>2, <1>11, <1>12, <1>13, <1>14, <1>15 DEF RunSound, Undisturbed
<1>17. CASE outcome = "refused"
  <2>1. /\ object' = object /\ made = j.made
        /\ \A id \in JobID, p \in Part : Runs(id, p)' => Runs(id, p)
    BY <1>4, <1>17 DEF made, Runs
  <2> QED BY <1>1, <1>6, <1>10, <1>15, <1>16, <2>1, NothingMade
<1>18. CASE outcome # "refused"
  <2>1. object' = [object EXCEPT ![Name(c, part)] = "absent"] /\ made = j.made \ {part}
    BY <1>4, <1>18 DEF made, part
  <2> QED BY <1>1, <1>3, <1>6, <1>10, <1>15, <1>16, <2>1, OneRemoved
<1> QED BY <1>17, <1>18

LEMMA TeardownExpiresKeeps ==
  ASSUME RunsInv, NEW c \in Caller, TeardownExpires(c)
  PROVE  RunsInv'
<1> DEFINE j == job[c]
           part == NextToRemove(j.left)
<1>1. /\ j \in RunType /\ RunSound(j, faults) /\ j.at = "teardown"
      /\ j.printed # Null => j.printed \in Prints[c][j.id]
      /\ object \in [JobID \X Part -> {"absent", "created", "running", "exited"}]
  BY DEF RunsInv, TeardownExpires
<1>2. /\ j.id \in JobID /\ j.left # {} /\ j.left \in SUBSET Part
      /\ j.left \subseteq j.owned \cap j.made
      /\ (j.made \cap j.owned) \ j.reported \subseteq j.left
      /\ (\E p \in Part : j.made \ j.owned \subseteq {p})
      /\ (j.made \ j.owned # {} => j.failed)
  BY <1>1 DEF RunSound, RunType
<1>3. part \in j.left /\ part \in Part /\ part \in j.made
  BY <1>2, NextIsLeft
<1>4. PICK outcome \in {"refused", "lost"} :
        /\ Command(c, TRUE, TRUE, outcome)
        /\ object' = IF outcome = "refused" THEN object
                     ELSE [object EXCEPT ![Name(c, part)] = "absent"]
        /\ job' = [job EXCEPT
             ![c].made = IF outcome = "refused" THEN @ ELSE @ \ {part},
             ![c].reported = @ \cup j.left,
             ![c].left = {}, ![c].at = "ended"]
  BY DEF TeardownExpires
<1>5. faults' \in 0..MaxFaults /\ faults' # 0
  BY <1>4, CommandTells DEF Outcome
<1> DEFINE made == IF outcome = "refused" THEN j.made ELSE j.made \ {part}
           reported == j.reported \cup j.left
<1>6. PICK t : t = [j EXCEPT !.made = made, !.reported = reported, !.left = {}, !.at = "ended"]
  OBVIOUS
<1>7. made \in SUBSET Part /\ reported \in SUBSET Part /\ "ended" \in Stage
  BY <1>1 DEF RunType, Stage
<1>8. job' = [job EXCEPT ![c] = t]
  BY <1>1, <1>4, <1>6 DEF RunsInv, RunType
<1>9. made \subseteq j.made /\ (made \cap j.owned) \ reported = {}
  BY <1>2
<1> HIDE DEF made, reported, part
<1>10. /\ t \in RunType /\ t.at = "ended" /\ t.failed = j.failed
       /\ t.id = j.id /\ t.owned = j.owned /\ t.made = made
       /\ t.left = {} /\ t.reported = reported /\ t.printed = j.printed
  BY <1>1, <1>6, <1>7 DEF RunType
<1>11. RunSound(t, faults')
  BY <1>2, <1>5, <1>9, <1>10 DEF RunSound
<1>12. CASE outcome = "refused"
  <2>1. /\ object' = object /\ made = j.made
        /\ \A id \in JobID, p \in Part : Runs(id, p)' => Runs(id, p)
    BY <1>4, <1>12 DEF made, Runs
  <2> QED BY <1>1, <1>5, <1>8, <1>10, <1>11, <2>1, NothingMade
<1>13. CASE outcome # "refused"
  <2>1. object' = [object EXCEPT ![Name(c, part)] = "absent"] /\ made = j.made \ {part}
    BY <1>4, <1>13 DEF made, part
  <2> QED BY <1>1, <1>3, <1>5, <1>8, <1>10, <1>11, <2>1, OneRemoved
<1> QED BY <1>12, <1>13

\* A process that dies takes along what it knew of its run.
LEMMA DieKeeps ==
  ASSUME RunsInv, NEW c \in Caller, Die(c)
  PROVE  RunsInv'
<1>1. PICK t : t = [NoJob EXCEPT !.at = "dead"]
  OBVIOUS
<1>2. /\ t.at = "dead" /\ t.id = Null /\ t.owned = {} /\ t.made = {} /\ t.left = {}
      /\ t.reported = {} /\ t.printed = Null /\ t \in RunType
  BY <1>1 DEF NoJob, RunType, Stage, Readings, Sayings
<1>3. OwnedAt("dead") = {}
  BY DEF OwnedAt
<1>4. RunSound(t, faults')
  BY <1>2, <1>3 DEF RunSound, Undisturbed, Part
<1>5. faults \in Nat /\ faults < MaxFaults /\ faults' = faults + 1 /\ MaxFaults \in Nat
  BY JudgeAssumption DEF RunsInv, Die
<1>6. faults' \in 0..MaxFaults /\ faults' # 0
  BY <1>5
<1>7. job' = [job EXCEPT ![c] = t] /\ object' = object
  BY <1>1 DEF Die
<1> QED BY <1>2, <1>4, <1>6, <1>7, AllForgotten

\* A run begins, or is put away, where the one before has left nothing or failed.
LEMMA BeginsKeep ==
  ASSUME RunsInv, NEW c \in Caller, job[c].at \in {"idle", "ended"},
         UNCHANGED <<object, faults>>,
         job' = [job EXCEPT ![c] = NoJob] \/ \E id \in JobID : Run(c, id)
  PROVE  RunsInv'
<1> DEFINE j == job[c]
<1>1. j \in RunType /\ RunSound(j, faults) /\ faults \in 0..MaxFaults
  BY DEF RunsInv
<1>2. OwnedAt("idle") = {} /\ OwnedAt("network") = {}
  BY DEF OwnedAt
<1>3. faults = 0 => j.made \cap j.owned = {}
  BY <1>1, <1>2 DEF RunSound, Undisturbed
<1>4. CASE job' = [job EXCEPT ![c] = NoJob]
  <2>1. NoJob \in RunType
    BY DEF NoJob, RunType, Stage, Readings, Sayings
  <2>2. RunSound(NoJob, faults)
    BY <1>2, <2>1 DEF RunSound, Undisturbed, NoJob, Part
  <2>3. NoJob.printed = Null /\ NoJob.made = {}
    BY DEF NoJob
  <2> QED BY <1>1, <1>3, <1>4, <2>2, <2>3, AllForgotten
<1>5. CASE \E id \in JobID : Run(c, id)
  <2>1. PICK id \in JobID :
          job' = [job EXCEPT ![c] = [NoJob EXCEPT !.at = "network", !.id = id, !.alive = j.alive]]
    BY <1>5 DEF Run
  <2>2. PICK t : t = [NoJob EXCEPT !.at = "network", !.id = id, !.alive = j.alive]
    OBVIOUS
  <2>3. j.alive \in BOOLEAN
    BY <1>1 DEF RunType
  <2>4. /\ t.at = "network" /\ t.id = id /\ t.owned = {} /\ t.made = {} /\ t.left = {}
        /\ t.reported = {} /\ t.printed = Null /\ t \in RunType
    BY <2>2, <2>3 DEF NoJob, RunType, Stage, Readings, Sayings
  <2>5. RunSound(t, faults)
    BY <1>2, <2>4 DEF RunSound, Undisturbed, Part
  <2>6. job' = [job EXCEPT ![c] = t]
    BY <2>1, <2>2
  <2> QED BY <1>1, <1>3, <2>4, <2>5, <2>6, AllForgotten
<1> QED BY <1>4, <1>5

\* What a run does by itself, and what happens to it.
Moves(c) == JudgeStep(c) \/ TesterExits(c) \/ Die(c) \/ Cancel(c)

LEMMA MovesKeep ==
  ASSUME RunsInv, NEW c \in Caller, Moves(c)
  PROVE  RunsInv'
BY CreatesKeep, StartsKeep, WaitsKeep, ReadLogsKeeps, RemoveNextKeeps, TeardownExpiresKeeps, DieKeeps
   DEF Moves, JudgeStep

\* Only a run that has begun moves, and it moves alone.
LEMMA MovesAlone ==
  ASSUME RunsInv, NEW c \in Caller, Moves(c)
  PROVE  job[c].at # "idle" /\ \A d \in Caller \ {c} : job'[d] = job[d]
<1>1. job \in [Caller -> RunType] /\ RunSound(job[c], faults) /\ OwnedAt("idle") = {}
  BY DEF RunsInv, OwnedAt
<1>2. CASE CreateNetwork(c) \/ CreateRunner(c) \/ CreateTester(c)
  BY <1>1, <1>2 DEF CreateNetwork, CreateRunner, CreateTester, Create
<1>3. CASE StartRunner(c) \/ StartTester(c)
  BY <1>1, <1>3 DEF StartRunner, StartTester, Start
<1>4. CASE WaitContainer(c) \/ WaitFails(c)
  BY <1>1, <1>4 DEF WaitContainer, WaitFails
<1>5. CASE ReadLogs(c)
  BY <1>1, <1>5 DEF ReadLogs
<1>6. CASE RemoveNext(c)
  BY <1>1, <1>6 DEF RemoveNext
<1>7. CASE TeardownExpires(c)
  BY <1>1, <1>7 DEF TeardownExpires
<1>8. CASE TesterExits(c)
  <2>1. job[c].made # {}
    BY <1>8 DEF TesterExits
  <2>2. job[c].at # "idle"
    BY <1>1, <2>1 DEF RunSound
  <2>3. \A d \in Caller \ {c} : job'[d] = job[d]
    BY <1>1, <1>8 DEF TesterExits
  <2> QED BY <2>2, <2>3
<1>9. CASE Die(c) \/ Cancel(c)
  BY <1>1, <1>9 DEF Die, Cancel
<1> QED BY <1>2, <1>3, <1>4, <1>5, <1>6, <1>7, <1>8, <1>9 DEF Moves, JudgeStep

-----------------------------------------------------------------------------
LEMMA PhasesAre ==
  /\ Len(Phases) = 3 /\ Phase = {"workspace", "solution", "repeat"}
  /\ Phases[1] = "workspace" /\ Phases[2] = "solution" /\ Phases[3] = "repeat"
  /\ \A n \in 1..3 : Phases[n] \in Phase
<1>1. /\ Len(Phases) = 3 /\ DOMAIN Phases = {1, 2, 3}
      /\ Phases[1] = "workspace" /\ Phases[2] = "solution" /\ Phases[3] = "repeat"
  BY DEF Phases
<1>2. Phase = {"workspace", "solution", "repeat"}
  BY <1>1 DEF Phase, Range
<1> QED BY <1>1, <1>2

LEMMA JobNames ==
  ASSUME NEW n \in 1..3, NEW s \in Suffix
  PROVE  <<Phases[n], s>> \in JobID
BY PhasesAre, VerifyAssumption

\* A verifier's own steps keep what is known of it.
LEMMA OneCheckMoves ==
  ASSUME ChecksInv, job \in [Caller -> RunType], NEW c \in Verifier, NEW k \in CheckType,
         check' = [check EXCEPT ![c] = k],
         k.at # "judge" => job'[c].at = "idle",
         k.at = "judge" => k.phase \in 1..3,
         \A d \in Caller \ {c} : job'[d] = job[d]
  PROVE  ChecksInv'
<1>1. check' \in [Verifier -> CheckType]
  BY DEF ChecksInv
<1>2. check'[c] = k /\ \A v \in Verifier \ {c} : check'[v] = check[v] /\ job'[v] = job[v]
  BY VerifyAssumption DEF ChecksInv
<1> QED BY <1>1, <1>2 DEF ChecksInv

LEMMA InspectIsTyped ==
  ASSUME NEW runs
  PROVE  inspect(runs) \in SUBSET (Phase \X DOMAIN Requirements)
BY PhasesAre DEF inspect, Divergences

LEMMA NoCheckIsTyped == NoCheck \in CheckType
<1>1. NoRun \in PhaseType
  BY DEF NoRun, PhaseType, Readings, Sayings
<1> QED BY <1>1 DEF NoCheck, CheckType

LEMMA ChallengeKeeps ==
  ASSUME VerifyInv, NEW c \in Verifier, Challenge(c)
  PROVE  VerifyInv'
<1>1. PICK k : k = [check[c] EXCEPT !.at = "build"]
  OBVIOUS
<1>2. check[c] \in CheckType /\ job[c].at = "idle"
  BY DEF VerifyInv, ChecksInv, Challenge
<1>3. k \in CheckType /\ k.at = "build"
  BY <1>1, <1>2 DEF CheckType
<1>4. check' = [check EXCEPT ![c] = k] /\ UNCHANGED jvars
  BY <1>1 DEF Challenge, VerifyInv, ChecksInv
<1>5. RunsInv'
  BY <1>4 DEF VerifyInv, RunsInv, Present, Apart, Runs, jvars
<1>6. job' = job /\ job \in [Caller -> RunType]
  BY <1>4 DEF jvars, VerifyInv, RunsInv
<1>7. ChecksInv'
  BY <1>2, <1>3, <1>4, <1>6, OneCheckMoves DEF VerifyInv
<1> QED BY <1>5, <1>7 DEF VerifyInv

LEMMA RunAlone ==
  ASSUME RunsInv, NEW c \in Caller,
         job' = [job EXCEPT ![c] = NoJob] \/ \E id \in JobID : Run(c, id)
  PROVE  \A d \in Caller \ {c} : job'[d] = job[d]
<1>1. job \in [Caller -> RunType]
  BY DEF RunsInv
<1>2. PICK t : job' = [job EXCEPT ![c] = t]
  BY DEF Run
<1> QED BY <1>1, <1>2

LEMMA BuildImageKeeps ==
  ASSUME VerifyInv, NEW c \in Verifier, BuildImage(c)
  PROVE  VerifyInv'
<1>1. /\ c \in Caller /\ check[c] \in CheckType /\ job[c].at = "idle"
      /\ RunsInv /\ ChecksInv /\ job \in [Caller -> RunType]
  BY VerifyAssumption DEF VerifyInv, RunsInv, ChecksInv, BuildImage
<1>2. UNCHANGED <<object, faults>>
  BY DEF BuildImage
<1>3. CASE StartPhase(c, 1)
  <2>1. PICK k : k = [check[c] EXCEPT !.at = "judge", !.phase = 1]
    OBVIOUS
  <2>2. k \in CheckType /\ k.at = "judge" /\ k.phase = 1 /\ k.phase \in 1..3
    <3>1. 1 \in 0..3 /\ 1 \in 1..3
      OBVIOUS
    <3> QED BY <1>1, <2>1, <3>1 DEF CheckType
  <2>3. check' = [check EXCEPT ![c] = k]
    BY <1>1, <1>3, <2>1 DEF StartPhase, ChecksInv
  <2>4. \E id \in JobID : Run(c, id)
    BY <1>3, JobNames DEF StartPhase
  <2>5. RunsInv'
    BY <1>1, <1>2, <2>4, BeginsKeep
  <2>6. ChecksInv'
    BY <1>1, <2>2, <2>3, <2>4, RunAlone, OneCheckMoves
  <2> QED BY <2>5, <2>6 DEF VerifyInv
<1>4. CASE check' = [check EXCEPT ![c].at = "error"] /\ UNCHANGED job
  <2>1. PICK k : k = [check[c] EXCEPT !.at = "error"]
    OBVIOUS
  <2>2. k \in CheckType /\ k.at = "error"
    BY <1>1, <2>1 DEF CheckType
  <2>3. check' = [check EXCEPT ![c] = k]
    BY <1>1, <1>4, <2>1 DEF ChecksInv
  <2>4. RunsInv'
    BY <1>1, <1>2, <1>4 DEF RunsInv, Present, Apart, Runs
  <2>5. ChecksInv'
    BY <1>1, <1>4, <2>2, <2>3, OneCheckMoves
  <2> QED BY <2>4, <2>5 DEF VerifyInv
<1> QED BY <1>3, <1>4 DEF BuildImage

LEMMA EndPhaseKeeps ==
  ASSUME VerifyInv, NEW c \in Verifier, EndPhase(c)
  PROVE  VerifyInv'
<1> DEFINE j == job[c]
           n == check[c].phase
           runs == [check[c].runs EXCEPT ![Phases[n]] = [results |-> j.results, said |-> j.said, alive |-> j.alive]]
<1>1. /\ c \in Caller /\ check[c] \in CheckType /\ j.at = "ended" /\ j \in RunType
      /\ check[c].at = "judge" /\ n \in 1..3
      /\ RunsInv /\ ChecksInv /\ job \in [Caller -> RunType]
      /\ UNCHANGED <<object, faults>>
  BY VerifyAssumption DEF VerifyInv, RunsInv, ChecksInv, EndPhase
<1>2. runs \in [Phase -> PhaseType]
  BY <1>1 DEF CheckType, PhaseType, RunType
<1>3. CASE check' = [check EXCEPT ![c] = [NoCheck EXCEPT !.at = "error"]]
             /\ job' = [job EXCEPT ![c] = NoJob]
  <2>1. PICK k : k = [NoCheck EXCEPT !.at = "error"]
    OBVIOUS
  <2>2. k \in CheckType /\ k.at = "error"
    BY <2>1, NoCheckIsTyped DEF CheckType
  <2>3. job'[c].at = "idle"
    BY <1>1, <1>3 DEF NoJob
  <2>4. RunsInv'
    BY <1>1, <1>3, BeginsKeep
  <2>5. ChecksInv'
    BY <1>1, <1>3, <2>1, <2>2, <2>3, RunAlone, OneCheckMoves
  <2> QED BY <2>4, <2>5 DEF VerifyInv
<1>4. CASE /\ check' = [check EXCEPT ![c].at = "report", ![c].runs = runs,
                                     ![c].problems = inspect(runs)]
           /\ job' = [job EXCEPT ![c] = NoJob]
  <2> HIDE DEF runs
  <2>1. PICK k : k = [check[c] EXCEPT !.at = "report", !.runs = runs, !.problems = inspect(runs)]
    OBVIOUS
  <2>2. k \in CheckType /\ k.at = "report"
    BY <1>1, <1>2, <2>1, InspectIsTyped DEF CheckType
  <2>3. check' = [check EXCEPT ![c] = k]
    BY <1>1, <1>4, <2>1 DEF ChecksInv
  <2>4. job'[c].at = "idle"
    BY <1>1, <1>4 DEF NoJob
  <2>5. RunsInv'
    BY <1>1, <1>4, BeginsKeep
  <2>6. ChecksInv'
    BY <1>1, <1>4, <2>2, <2>3, <2>4, RunAlone, OneCheckMoves
  <2> QED BY <2>5, <2>6 DEF VerifyInv
<1>5. CASE /\ n < 3
           /\ \E s \in Suffix : Run(c, <<Phases[n + 1], s>>)
           /\ check' = [check EXCEPT ![c].phase = n + 1, ![c].runs = runs]
  <2> HIDE DEF runs
  <2>1. PICK k : k = [check[c] EXCEPT !.phase = n + 1, !.runs = runs]
    OBVIOUS
  <2>2. n + 1 \in 1..3 /\ n + 1 \in 0..3
    BY <1>1, <1>5
  <2>3. k \in CheckType /\ k.at = "judge" /\ k.phase = n + 1
    BY <1>1, <1>2, <2>1, <2>2 DEF CheckType
  <2>4. check' = [check EXCEPT ![c] = k]
    BY <1>1, <1>5, <2>1 DEF ChecksInv
  <2>5. \E id \in JobID : Run(c, id)
    BY <1>5, <2>2, JobNames
  <2>6. RunsInv'
    BY <1>1, <2>5, BeginsKeep
  <2>7. ChecksInv'
    BY <1>1, <2>2, <2>3, <2>4, <2>5, RunAlone, OneCheckMoves
  <2> QED BY <2>6, <2>7 DEF VerifyInv
<1> QED BY <1>3, <1>4, <1>5, PhasesAre DEF EndPhase

LEMMA JudgeOnceKeeps ==
  ASSUME VerifyInv, NEW c \in Caller \ Verifier, JudgeOnce(c)
  PROVE  VerifyInv'
<1>1. /\ RunsInv /\ ChecksInv /\ job[c].at = "idle"
      /\ (\E id \in JobID : Run(c, id)) /\ UNCHANGED <<object, faults, check>>
  BY DEF VerifyInv, JudgeOnce
<1>2. RunsInv'
  BY <1>1, BeginsKeep
<1>3. \A v \in Verifier : job'[v] = job[v]
  BY <1>1, RunAlone, VerifyAssumption
<1>4. ChecksInv'
  BY <1>1, <1>3 DEF ChecksInv
<1> QED BY <1>2, <1>4 DEF VerifyInv

LEMMA MoveKeeps ==
  ASSUME VerifyInv, NEW c \in Caller, Moves(c), UNCHANGED check
  PROVE  VerifyInv'
<1>1. RunsInv /\ ChecksInv
  BY DEF VerifyInv
<1>2. RunsInv'
  BY <1>1, MovesKeep
<1>3. \A v \in Verifier : job[v].at = "idle" => job'[v] = job[v]
  BY <1>1, MovesAlone, VerifyAssumption
<1>4. ChecksInv'
  BY <1>1, <1>3 DEF ChecksInv
<1> QED BY <1>2, <1>4 DEF VerifyInv

\* The kinds of steps.
LEMMA NextIsOneOf ==
  ASSUME Next
  PROVE  \/ \E c \in Caller : Moves(c) /\ UNCHANGED check
         \/ \E c \in Verifier : Challenge(c) \/ BuildImage(c) \/ EndPhase(c)
         \/ \E c \in Caller \ Verifier : JudgeOnce(c)
BY VerifyAssumption DEF Next, JudgeNext, Moves, VerifyStep

LEMMA VerifyInvInit == Init => VerifyInv
<1> SUFFICES ASSUME Init PROVE VerifyInv
  OBVIOUS
<1>1. /\ object = [n \in JobID \X Part |-> "absent"]
      /\ job = [c \in Caller |-> NoJob] /\ faults = 0
      /\ check = [c \in Verifier |-> NoCheck]
  BY DEF Init, JudgeInit
<1>2. NoJob \in RunType /\ OwnedAt("idle") = {}
  BY DEF NoJob, RunType, Stage, Readings, Sayings, OwnedAt
<1>3. /\ NoJob.at = "idle" /\ NoJob.owned = {} /\ NoJob.made = {} /\ NoJob.left = {}
      /\ NoJob.reported = {} /\ NoJob.printed = Null
  BY DEF NoJob
<1>4. RunSound(NoJob, 0)
  BY <1>2, <1>3 DEF RunSound, Undisturbed, Part
<1>5. 0 \in 0..MaxFaults
  BY JudgeAssumption
<1>6. RunsInv
  BY <1>1, <1>2, <1>3, <1>4, <1>5 DEF RunsInv, Apart, Present, Runs
<1>7. NoCheck \in CheckType /\ NoCheck.at = "idle"
  BY NoCheckIsTyped DEF NoCheck
<1>8. ChecksInv
  BY <1>1, <1>3, <1>7, VerifyAssumption DEF ChecksInv
<1> QED BY <1>6, <1>8 DEF VerifyInv

LEMMA VerifyInvNext == VerifyInv /\ [Next]_vars => VerifyInv'
<1> SUFFICES ASSUME VerifyInv, [Next]_vars PROVE VerifyInv'
  OBVIOUS
<1>1. CASE Next
  BY <1>1, NextIsOneOf, MoveKeeps, ChallengeKeeps, BuildImageKeeps, EndPhaseKeeps, JudgeOnceKeeps
<1>2. CASE UNCHANGED vars
  <2>1. UNCHANGED <<object, job, faults, check>>
    BY <1>2 DEF vars
  <2> QED BY <2>1 DEF VerifyInv, RunsInv, ChecksInv, Apart, Present, Runs
<1> QED BY <1>1, <1>2

LEMMA VerifyInvAlways == Spec => []VerifyInv
BY VerifyInvInit, VerifyInvNext, PTL DEF Spec

-----------------------------------------------------------------------------
LEMMA AllErrorsAreKnown ==
  \A i \in DOMAIN allErrors(Requirements) : allErrors(Requirements)[i].status \in Status
BY DEF allErrors, Status

LEMMA CollectGivesKnown ==
  ASSUME NEW run, NEW i \in DOMAIN Collect(Requirements, run).results
  PROVE  Collect(Requirements, run).results[i].status \in Status
<1> DEFINE declared == {Requirements[k].key : k \in DOMAIN Requirements}
           outcome == IF run.err THEN "no results" ELSE parse(run.stdout, declared)
           document == Decoded(documentAfterMarker(run.stdout))
           given(key) == Reported(document.results, key)
           read == [k \in DOMAIN Requirements |->
                     LET key == Requirements[k].key IN
                     [key |-> key, status |-> IF given(key) = {} THEN "error"
                                              ELSE CHOOSE s \in given(key) : TRUE]]
<1>1. Collect(Requirements, run).results =
        CASE outcome = "no results" -> allErrors(Requirements)
          [] outcome = "unreadable" -> <<>>
          [] outcome = "read" -> read
  BY DEF Collect
<1>2. outcome \in {"no results", "unreadable", "read"}
  BY DEF parse
<1>3. CASE outcome = "no results"
  BY <1>1, <1>3, AllErrorsAreKnown
<1>4. CASE outcome = "unreadable"
  <2>1. Collect(Requirements, run).results = <<>>
    BY <1>1, <1>4
  <2> QED BY <2>1
<1>5. CASE outcome = "read"
  <2>1. WellFormed(document, declared)
    BY <1>5 DEF parse
  <2>2. \A key : given(key) \subseteq Status
    BY <2>1 DEF WellFormed, Reported
  <2>3. Collect(Requirements, run).results = read
    BY <1>1, <1>5
  <2>4. i \in DOMAIN Requirements
    BY <2>3
  <2>5. read[i].status = IF given(Requirements[i].key) = {} THEN "error"
                         ELSE CHOOSE s \in given(Requirements[i].key) : TRUE
    BY <2>4
  <2>6. read[i].status \in given(Requirements[i].key) \cup {"error"}
    <3> HIDE DEF read, given
    <3> QED BY <2>5
  <2> QED BY <2>2, <2>3, <2>6 DEF Status
<1> QED BY <1>2, <1>3, <1>4, <1>5

LEMMA ReadingsAreKnown ==
  ASSUME NEW rs \in Readings, NEW i \in DOMAIN rs
  PROVE  rs[i].status \in Status
<1>1. CASE rs = <<>>
  BY <1>1
<1>2. CASE rs = allErrors(Requirements)
  BY <1>2, AllErrorsAreKnown
<1>3. CASE \E out \in Outputs : rs = Collected[out].results
  <2>1. PICK out \in Outputs : rs = Collected[out].results
    BY <1>3
  <2>2. rs = Collect(Requirements, [err |-> FALSE, stdout |-> Kept(out)]).results
    BY <2>1 DEF Collected
  <2> QED BY <2>2, CollectGivesKnown
<1> QED BY <1>1, <1>2, <1>3 DEF Readings

(***************************************************************************)
(* The state has its type: in particular no result has a status that       *)
(* Collect does not know (internal/tester/collect.go).                     *)
(***************************************************************************)
THEOREM TypeCorrect == Spec => []TypeOK
<1>1. VerifyInv => TypeOK
  <2> SUFFICES ASSUME VerifyInv PROVE TypeOK
    OBVIOUS
  <2>1. RunsInv /\ ChecksInv
    BY DEF VerifyInv
  <2>2. ASSUME NEW c \in Caller
        PROVE  /\ job[c].at \in Stage /\ job[c].id \in JobID \cup {Null}
               /\ job[c].printed # Null => job[c].printed \in Prints[c][job[c].id]
               /\ job[c].owned \cup job[c].made \cup job[c].left \cup job[c].reported \subseteq Part
               /\ {job[c].alive, job[c].waitErr, job[c].failed} \subseteq BOOLEAN
               /\ \A i \in DOMAIN job[c].results : job[c].results[i].status \in Status
    <3>1. job[c] \in RunType /\ (job[c].printed # Null => job[c].printed \in Prints[c][job[c].id])
      BY <2>1 DEF RunsInv
    <3>2. \A i \in DOMAIN job[c].results : job[c].results[i].status \in Status
      BY <3>1, ReadingsAreKnown DEF RunType
    <3> QED BY <3>1, <3>2 DEF RunType
  <2>3. JudgeTypeOK
    BY <2>1, <2>2 DEF JudgeTypeOK, RunsInv, Stage
  <2>4. ASSUME NEW v \in Verifier
        PROVE  /\ check[v].at \in {"idle", "build", "judge", "report", "error"}
               /\ check[v].phase \in 0..Len(Phases)
               /\ check[v].problems \subseteq Phase \X DOMAIN Requirements
               /\ \A p \in Phase : check[v].runs[p].results \in Readings
    BY <2>1, PhasesAre DEF ChecksInv, CheckType, PhaseType
  <2>5. \A v \in Verifier : \A p \in Phase : \A i \in DOMAIN check[v].runs[p].results :
          check[v].runs[p].results[i].status \in Status
    BY <2>4, ReadingsAreKnown
  <2> QED BY <2>3, <2>4, <2>5 DEF TypeOK
<1> QED BY <1>1, VerifyInvAlways, PTL

(***************************************************************************)
(* What a run leaves behind it says so of, except for one thing that a     *)
(* failed or cancelled create may have made; and a run that the engine     *)
(* serves, and that nobody cancels, leaves nothing, whoever else uses its  *)
(* name (teardown, internal/judge/judge.go).                               *)
(***************************************************************************)
THEOREM NothingIsLeftUnsaid == Spec => []NothingLeftUnsaid
<1>1. VerifyInv => NothingLeftUnsaid
  <2> SUFFICES ASSUME VerifyInv, NEW c \in Caller, job[c].at = "ended"
               PROVE  LET unreported == job[c].made \ job[c].reported
                      IN  /\ unreported \cap job[c].owned = {}
                          /\ Cardinality(unreported) <= 1
                          /\ unreported # {} => job[c].failed
                          /\ faults = 0 /\ job[c].alive => job[c].made = {}
    BY DEF NothingLeftUnsaid
  <2> DEFINE j == job[c]
             unreported == j.made \ j.reported
  <2>1. RunSound(j, faults)
    BY DEF VerifyInv, RunsInv
  <2>2. /\ (j.made \cap j.owned) \ j.reported = {}
        /\ j.made \ j.owned # {} => j.failed
        /\ faults = 0 /\ j.alive => j.made \subseteq j.owned /\ j.reported = {}
    BY <2>1 DEF RunSound, Undisturbed
  <2>3. PICK p \in Part : j.made \ j.owned \subseteq {p}
    BY <2>1 DEF RunSound
  <2>4. Cardinality(unreported) <= 1
    <3>1. unreported \subseteq {p}
      BY <2>2, <2>3
    <3>2. IsFiniteSet({p}) /\ Cardinality({p}) = 1
      BY FS_Singleton
    <3> HIDE DEF unreported
    <3> QED BY <3>1, <3>2, FS_Subset
  <2> QED BY <2>2, <2>4
<1> QED BY <1>1, VerifyInvAlways, PTL

\* Only a removal makes an object vanish.
LEMMA NothingVanishes ==
  ASSUME VerifyInv, Next, \A c \in Caller : ~RemoveNext(c) /\ ~TeardownExpires(c),
         NEW n \in JobID \X Part, object[n] # "absent"
  PROVE  object'[n] # "absent"
<1>1. object \in [JobID \X Part -> {"absent", "created", "running", "exited"}]
  BY DEF VerifyInv, RunsInv
<1>2. CASE \E c \in Caller : Moves(c) /\ UNCHANGED check
  <2>1. PICK c \in Caller : Moves(c)
    BY <1>2
  <2>2. CASE CreateNetwork(c) \/ CreateRunner(c) \/ CreateTester(c)
    BY <1>1, <2>2 DEF CreateNetwork, CreateRunner, CreateTester, Create
  <2>3. CASE StartRunner(c) \/ StartTester(c)
    BY <1>1, <2>3 DEF StartRunner, StartTester, Start
  <2>4. CASE WaitContainer(c) \/ WaitFails(c) \/ ReadLogs(c) \/ Die(c) \/ Cancel(c)
    BY <2>4 DEF WaitContainer, WaitFails, ReadLogs, Die, Cancel
  <2>5. CASE TesterExits(c)
    BY <1>1, <2>5 DEF TesterExits
  <2> QED BY <2>1, <2>2, <2>3, <2>4, <2>5 DEF Moves, JudgeStep
<1>3. CASE \E c \in Verifier : Challenge(c) \/ BuildImage(c) \/ EndPhase(c)
  BY <1>3 DEF Challenge, BuildImage, EndPhase, jvars
<1>4. CASE \E c \in Caller \ Verifier : JudgeOnce(c)
  BY <1>4 DEF JudgeOnce
<1> QED BY <1>2, <1>3, <1>4, NextIsOneOf

\* A removal is of something the run made, and the run knows.
LEMMA RemovalIsOwn ==
  ASSUME RunsInv, NEW c \in Caller, RemoveNext(c) \/ TeardownExpires(c),
         NEW n \in JobID \X Part, object[n] # "absent", object'[n] = "absent"
  PROVE  job[c].id = n[1] /\ n[2] \in job[c].made /\ n[2] \notin job'[c].made
<1> DEFINE j == job[c]
           part == NextToRemove(j.left)
<1>1. /\ RunSound(j, faults) /\ j \in RunType /\ j.at = "teardown"
      /\ job \in [Caller -> RunType]
      /\ object \in [JobID \X Part -> {"absent", "created", "running", "exited"}]
  BY DEF RunsInv, RemoveNext, TeardownExpires
<1>2. j.left # {} /\ j.left \in SUBSET Part /\ j.left \subseteq j.made
  BY <1>1 DEF RunSound, RunType
<1>3. part \in j.made
  BY <1>2, NextIsLeft
<1>4. /\ object' = [object EXCEPT ![Name(c, part)] = "absent"]
      /\ job'[c].made = j.made \ {part}
  <2>1. CASE RemoveNext(c)
    <3>1. PICK outcome \in Outcome :
        /\ object' = IF outcome = "refused" THEN object
                     ELSE [object EXCEPT ![Name(c, part)] = "absent"]
        /\ job' = [job EXCEPT
             ![c].made = IF outcome = "refused" THEN @ ELSE @ \ {part},
             ![c].reported = IF outcome = "done" THEN @ ELSE @ \cup {part},
             ![c].left = @ \ {part},
             ![c].at = TearingDown(j.left \ {part})]
      BY <2>1 DEF RemoveNext
    <3>2. outcome # "refused"
      BY <3>1
    <3> HIDE DEF part
    <3> QED BY <1>1, <3>1, <3>2 DEF RunType
  <2>2. CASE TeardownExpires(c)
    <3>1. PICK outcome \in {"refused", "lost"} :
        /\ object' = IF outcome = "refused" THEN object
                     ELSE [object EXCEPT ![Name(c, part)] = "absent"]
        /\ job' = [job EXCEPT
             ![c].made = IF outcome = "refused" THEN @ ELSE @ \ {part},
             ![c].reported = @ \cup j.left,
             ![c].left = {}, ![c].at = "ended"]
      BY <2>2 DEF TeardownExpires
    <3>2. outcome # "refused"
      BY <3>1
    <3> HIDE DEF part
    <3> QED BY <1>1, <3>1, <3>2 DEF RunType
  <2> QED BY <2>1, <2>2
<1>5. n = <<j.id, part>>
  <2>1. n = Name(c, part)
    BY <1>1, <1>4
  <2> QED BY <2>1 DEF Name
<1> QED BY <1>3, <1>4, <1>5

(***************************************************************************)
(* An object goes only when the run that made it removes it, whatever runs *)
(* share its name (owned and teardown, internal/judge/judge.go).           *)
(***************************************************************************)
THEOREM OnlyItsOwnIsRemoved == Spec => RemovesOnlyItsOwn
<1> DEFINE Own == \A n \in JobID \X Part : object[n] # "absent" /\ object'[n] = "absent" =>
             \E c \in Caller : /\ job[c].id = n[1]
                               /\ n[2] \in job[c].made /\ n[2] \notin job'[c].made
<1>1. VerifyInv /\ [Next]_vars => [Own]_jvars
  <2> SUFFICES ASSUME VerifyInv, [Next]_vars PROVE [Own]_jvars
    OBVIOUS
  <2>1. CASE UNCHANGED vars
    BY <2>1 DEF vars, jvars
  <2>2. CASE Next
    <3>1. RunsInv
      BY DEF VerifyInv
    <3>2. Own
      BY <2>2, <3>1, NothingVanishes, RemovalIsOwn
    <3> QED BY <3>2
  <2> QED BY <2>1, <2>2
<1> QED BY <1>1, VerifyInvAlways, PTL DEF Spec, RemovesOnlyItsOwn

-----------------------------------------------------------------------------
\* The smaller of two numbers comes first, and there is always a first.
Less == {p \in Nat \X Nat : p[1] < p[2]}

LEMMA SomeLeast ==
  ASSUME NEW T \in SUBSET Nat, T # {}
  PROVE  \E x \in T : \A y \in T : x <= y
<1>1. IsWellFoundedOn(Less, Nat)
  BY NatLessThanWellFounded DEF OpToRel, Less
<1>2. \E x \in T : \A y \in T : ~(<<y, x>> \in Less)
  BY <1>1, WFMin
<1>3. \A x \in T, y \in T : x <= y \/ y < x
  OBVIOUS
<1>4. \A x, y \in Nat : x < y => <<x, y>> \in Less
  BY DEF Less
<1> QED BY <1>2, <1>3, <1>4

-----------------------------------------------------------------------------
(***************************************************************************)
(* The buffer after each write, and the text written by then.              *)
(***************************************************************************)
Buffered(out) == CHOOSE f : f = [n \in 0..Len(out) |->
  IF n = 0 THEN newCappedBuffer(LogLimit) ELSE Write(f[n - 1], out[n])]

Written(out) == CHOOSE f : f = [n \in 1..Len(out) |->
  IF n = 1 THEN out[n] ELSE f[n - 1] \o out[n]]

LEMMA SameBuffers == \A out : Kept(out) = String(Buffered(out)[Len(out)])
BY DEF Kept, Buffered

LEMMA SameTexts == \A out : FlattenSeq(out) = IF Len(out) = 0 THEN out ELSE Written(out)[Len(out)]
BY DEF FlattenSeq, Written

\* Both recursions have a solution: there is no least length without one.
LEMMA BuffersExist ==
  ASSUME NEW out, Len(out) \in Nat
  PROVE  Buffered(out) = [n \in 0..Len(out) |->
           IF n = 0 THEN newCappedBuffer(LogLimit) ELSE Write(Buffered(out)[n - 1], out[n])]
<1> DEFINE start == newCappedBuffer(LogLimit)
           Step(f, n) == IF n = 0 THEN start ELSE Write(f[n - 1], out[n])
           Solved(k) == \E f : f = [n \in 0..k |-> Step(f, n)]
           Stuck == {k \in Nat : ~Solved(k)}
<1>1. Stuck = {}
  <2> SUFFICES ASSUME Stuck # {} PROVE FALSE
    OBVIOUS
  <2>1. Stuck \in SUBSET Nat
    OBVIOUS
  <2> HIDE DEF Stuck
  <2>2. PICK k \in Stuck : \A y \in Stuck : k <= y
    BY <2>1, SomeLeast
  <2>3. k \in Nat /\ ~Solved(k)
    BY <2>2 DEF Stuck
  <2>4. CASE k = 0
    <3> DEFINE g == [n \in 0..0 |-> start]
    <3>1. g = [n \in 0..0 |-> Step(g, n)]
      OBVIOUS
    <3> QED BY <2>3, <2>4, <3>1
  <2>5. CASE k # 0
    <3>1. k - 1 \in Nat /\ ~(k <= k - 1)
      BY <2>3, <2>5
    <3>2. k - 1 \notin Stuck
      BY <2>2, <3>1
    <3>3. Solved(k - 1)
      BY <3>1, <3>2 DEF Stuck
    <3>4. PICK f : f = [n \in 0..(k - 1) |-> Step(f, n)]
      BY <3>3
    <3> DEFINE g == [n \in 0..k |-> IF n < k THEN f[n] ELSE Write(f[k - 1], out[k])]
    <3>5. ASSUME NEW n \in 0..k PROVE g[n] = Step(g, n)
      <4>1. CASE n = 0
        <5>1. g[0] = f[0] /\ 0 \in 0..(k - 1)
          BY <2>3, <2>5
        <5>2. f[0] = Step(f, 0)
          BY <3>4, <5>1
        <5> QED BY <4>1, <5>1, <5>2
      <4>2. CASE n # 0 /\ n < k
        <5>1. n \in 0..(k - 1) /\ n - 1 \in 0..k /\ n - 1 < k
          BY <2>3, <4>2
        <5>2. g[n] = f[n] /\ g[n - 1] = f[n - 1]
          BY <4>2, <5>1
        <5>3. f[n] = Step(f, n)
          BY <3>4, <5>1
        <5> HIDE DEF g
        <5> QED BY <5>2, <5>3
      <4>3. CASE n = k
        <5>1. g[k] = Write(f[k - 1], out[k]) /\ g[k - 1] = f[k - 1]
          BY <2>3, <2>5
        <5> HIDE DEF g
        <5> QED BY <2>5, <4>3, <5>1
      <4> QED BY <2>3, <4>1, <4>2, <4>3
    <3>6. g = [n \in 0..k |-> Step(g, n)]
      <4>1. g = [n \in 0..k |-> g[n]]
        OBVIOUS
      <4> HIDE DEF g
      <4> QED BY <3>5, <4>1
    <3> QED BY <2>3, <3>6
  <2> QED BY <2>4, <2>5
<1>2. Solved(Len(out))
  BY <1>1
<1> QED BY <1>2 DEF Buffered

LEMMA TextsExist ==
  ASSUME NEW out, Len(out) \in Nat
  PROVE  Written(out) = [n \in 1..Len(out) |->
           IF n = 1 THEN out[n] ELSE Written(out)[n - 1] \o out[n]]
<1> DEFINE Step(f, n) == IF n = 1 THEN out[n] ELSE f[n - 1] \o out[n]
           Solved(k) == \E f : f = [n \in 1..k |-> Step(f, n)]
           Stuck == {k \in Nat : ~Solved(k)}
<1>1. Stuck = {}
  <2> SUFFICES ASSUME Stuck # {} PROVE FALSE
    OBVIOUS
  <2>1. Stuck \in SUBSET Nat
    OBVIOUS
  <2> HIDE DEF Stuck
  <2>2. PICK k \in Stuck : \A y \in Stuck : k <= y
    BY <2>1, SomeLeast
  <2>3. k \in Nat /\ ~Solved(k)
    BY <2>2 DEF Stuck
  <2>4. CASE k = 0
    <3> DEFINE g == [n \in 1..0 |-> 0]
    <3>1. g = [n \in 1..0 |-> Step(g, n)]
      OBVIOUS
    <3> QED BY <2>3, <2>4, <3>1
  <2>5. CASE k # 0
    <3>1. k - 1 \in Nat /\ ~(k <= k - 1)
      BY <2>3, <2>5
    <3>2. k - 1 \notin Stuck
      BY <2>2, <3>1
    <3>3. Solved(k - 1)
      BY <3>1, <3>2 DEF Stuck
    <3>4. PICK f : f = [n \in 1..(k - 1) |-> Step(f, n)]
      BY <3>3
    <3> DEFINE last == IF k = 1 THEN out[k] ELSE f[k - 1] \o out[k]
               g == [n \in 1..k |-> IF n < k THEN f[n] ELSE last]
    <3>5. ASSUME NEW n \in 1..k PROVE g[n] = Step(g, n)
      <4>1. CASE n = 1 /\ n < k
        <5>1. g[1] = f[1] /\ 1 \in 1..(k - 1)
          BY <2>3, <4>1
        <5>2. f[1] = Step(f, 1)
          BY <3>4, <5>1
        <5> HIDE DEF g
        <5> QED BY <4>1, <5>1, <5>2
      <4>2. CASE n # 1 /\ n < k
        <5>1. n \in 1..(k - 1) /\ n - 1 \in 1..k /\ n - 1 < k
          BY <2>3, <4>2
        <5>2. g[n] = f[n] /\ g[n - 1] = f[n - 1]
          BY <4>2, <5>1
        <5>3. f[n] = Step(f, n)
          BY <3>4, <5>1
        <5> HIDE DEF g
        <5> QED BY <4>2, <5>2, <5>3
      <4>3. CASE n = k
        <5>1. g[k] = last /\ (k # 1 => g[k - 1] = f[k - 1])
          BY <2>3, <2>5
        <5> HIDE DEF g
        <5> QED BY <4>3, <5>1
      <4> QED BY <2>3, <4>1, <4>2, <4>3
    <3>6. g = [n \in 1..k |-> Step(g, n)]
      <4>1. g = [n \in 1..k |-> g[n]]
        OBVIOUS
      <4> HIDE DEF g
      <4> QED BY <3>5, <4>1
    <3> QED BY <2>3, <3>6
  <2> QED BY <2>4, <2>5
<1>2. Solved(Len(out))
  BY <1>1
<1> QED BY <1>2 DEF Written

-----------------------------------------------------------------------------
(***************************************************************************)
(* The buffer b holds the text t: both ends of it, and how much of it was  *)
(* dropped in between.                                                     *)
(***************************************************************************)
HeadLimit == newCappedBuffer(LogLimit).headLimit
TailLimit == newCappedBuffer(LogLimit).tailLimit

BufferType == [headLimit: {HeadLimit}, tailLimit: {TailLimit},
               head: Seq(Symbol), tail: Seq(Symbol), elided: Nat]

\* The buffer b has the head of the text t, its tail, and how much is between.
Holds(b, t) ==
  /\ b \in BufferType
  /\ Len(b.head) <= HeadLimit
  /\ Len(t) = Len(b.head) + b.elided + Len(b.tail)
  /\ \A i \in 1..Len(b.head) : b.head[i] = t[i]
  /\ \A i \in 1..Len(b.tail) : b.tail[i] = t[Len(b.head) + b.elided + i]
  /\ Len(b.tail) > 0 \/ b.elided > 0 => Len(b.head) = HeadLimit
  /\ b.elided > 0 => Len(b.tail) >= TailLimit

LEMMA Limits ==
  /\ HeadLimit \in Nat /\ TailLimit \in Nat /\ HeadLimit >= 1 /\ TailLimit >= 1
  /\ HeadLimit + TailLimit >= LogLimit
<1> DEFINE l == IF LogLimit < 2 THEN 2 ELSE LogLimit
<1>1. l \in Nat /\ l >= 2 /\ l >= LogLimit
  BY JudgeAssumption
<1>2. HeadLimit = l \div 2 /\ TailLimit = l - (l \div 2)
  BY DEF HeadLimit, TailLimit, newCappedBuffer
<1> HIDE DEF l
<1>3. l \div 2 \in Nat /\ l \div 2 >= 1 /\ l - (l \div 2) >= 1
  BY <1>1
<1>4. LogLimit \in Nat
  BY JudgeAssumption
<1> QED BY <1>1, <1>2, <1>3, <1>4

LEMMA EmptyHolds == Holds(newCappedBuffer(LogLimit), <<>>)
<1>1. /\ newCappedBuffer(LogLimit) =
           [headLimit |-> HeadLimit, tailLimit |-> TailLimit, head |-> <<>>, tail |-> <<>>, elided |-> 0]
  BY DEF newCappedBuffer, HeadLimit, TailLimit
<1>2. newCappedBuffer(LogLimit) \in BufferType
  BY <1>1 DEF BufferType
<1> HIDE DEF newCappedBuffer
<1> QED BY <1>1, <1>2, Limits DEF Holds

LEMMA TrimHolds ==
  ASSUME NEW b, NEW t \in Seq(Symbol), Holds(b, t)
  PROVE  /\ Holds(trim(b), t) /\ Len(trim(b).tail) <= TailLimit
         /\ trim(b).elided > 0 => Len(trim(b).tail) = TailLimit
<1>1. /\ b \in BufferType /\ b.tail \in Seq(Symbol) /\ b.head \in Seq(Symbol)
      /\ b.elided \in Nat /\ b.tailLimit = TailLimit /\ TailLimit \in Nat
      /\ Len(b.tail) \in Nat /\ Len(b.head) \in Nat /\ TailLimit >= 1
  BY Limits DEF Holds, BufferType
<1>2. CASE Len(b.tail) <= TailLimit
  <2>1. trim(b) = b
    BY <1>1, <1>2 DEF trim
  <2> QED BY <1>1, <1>2, <2>1 DEF Holds
<1>3. CASE ~(Len(b.tail) <= TailLimit)
  <2> DEFINE drop == Len(b.tail) - TailLimit
             rest == SubSeq(b.tail, drop + 1, Len(b.tail))
  <2>1. PICK c : c = [b EXCEPT !.elided = @ + drop, !.tail = rest]
    OBVIOUS
  <2>2. trim(b) = c
    BY <1>1, <1>3, <2>1 DEF trim
  <2>3. drop \in Nat /\ drop > 0 /\ drop + TailLimit = Len(b.tail)
    BY <1>1, <1>3
  <2>4. /\ rest \in Seq(Symbol) /\ Len(rest) = TailLimit
        /\ \A i \in 1..TailLimit : rest[i] = b.tail[drop + i]
    <3> HIDE DEF drop
    <3>1. drop + 1 \in 1..(Len(b.tail) + 1) /\ Len(b.tail) \in (drop + 1)..Len(b.tail)
      BY <1>1, <2>3
    <3>2. \A i \in 1..Len(b.tail) : b.tail[i] \in Symbol
      BY <1>1
    <3> QED BY <1>1, <2>3, <3>1, <3>2
  <2> HIDE DEF drop, rest
  <2>5. /\ c \in BufferType /\ c.head = b.head /\ c.elided = b.elided + drop /\ c.tail = rest
    <3> DEFINE more == b.elided + drop
    <3>1. more \in Nat
      BY <1>1, <2>3
    <3>2. c = [b EXCEPT !.elided = more, !.tail = rest]
      BY <1>1, <2>1 DEF BufferType
    <3> HIDE DEF more
    <3>3. /\ c \in BufferType /\ c.head = b.head /\ c.elided = more /\ c.tail = rest
      BY <1>1, <2>4, <3>1, <3>2 DEF BufferType
    <3> QED BY <3>3 DEF more
  <2>6. /\ Len(t) = Len(b.head) + b.elided + Len(b.tail) /\ Len(b.head) <= HeadLimit
        /\ \A i \in 1..Len(b.head) : b.head[i] = t[i]
        /\ \A i \in 1..Len(b.tail) : b.tail[i] = t[Len(b.head) + b.elided + i]
        /\ Len(b.tail) > 0 => Len(b.head) = HeadLimit
    BY DEF Holds
  <2>7. ASSUME NEW i \in 1..TailLimit
        PROVE  rest[i] = t[Len(b.head) + (b.elided + drop) + i]
    <3>1. drop + i \in 1..Len(b.tail)
      BY <1>1, <2>3
    <3>2. rest[i] = t[Len(b.head) + b.elided + (drop + i)]
      BY <2>4, <2>6, <3>1
    <3>3. Len(b.head) + b.elided + (drop + i) = Len(b.head) + (b.elided + drop) + i
      BY <1>1, <2>3
    <3> QED BY <3>2, <3>3
  <2>8. Len(t) = Len(b.head) + (b.elided + drop) + TailLimit
    BY <1>1, <2>3, <2>6
  <2>9. Len(b.head) = HeadLimit
    BY <1>1, <1>3, <2>6
  <2> QED BY <1>1, <2>2, <2>4, <2>5, <2>6, <2>7, <2>8, <2>9 DEF Holds
<1> QED BY <1>2, <1>3

LEMMA Joined ==
  ASSUME NEW S, NEW u \in Seq(S), NEW v \in Seq(S)
  PROVE  /\ u \o v \in Seq(S) /\ Len(u \o v) = Len(u) + Len(v)
         /\ \A i \in 1..Len(u) : (u \o v)[i] = u[i]
         /\ \A i \in 1..Len(v) : (u \o v)[Len(u) + i] = v[i]
<1>1. Len(u) \in Nat /\ Len(v) \in Nat /\ u \o v \in Seq(S) /\ Len(u \o v) = Len(u) + Len(v)
  OBVIOUS
<1>2. \A i \in 1..Len(u) : (u \o v)[i] = u[i]
  OBVIOUS
<1>3. ASSUME NEW i \in 1..Len(v) PROVE (u \o v)[Len(u) + i] = v[i]
  <2>1. Len(u) + i \in 1..(Len(u) + Len(v)) /\ ~(Len(u) + i <= Len(u)) /\ Len(u) + i - Len(u) = i
    BY <1>1
  <2> QED BY <2>1
<1> QED BY <1>1, <1>2, <1>3

LEMMA WriteHolds ==
  ASSUME NEW b, NEW t \in Seq(Symbol), Holds(b, t), NEW p \in Seq(Symbol)
  PROVE  Holds(Write(b, p), t \o p)
<1> DEFINE h == Len(b.head)
           l == Len(b.tail)
           m == Len(p)
           e == b.elided
           room == b.headLimit - Len(b.head)
           take == IF room < m THEN room ELSE m
           first == SubSeq(p, 1, take)
           rest == SubSeq(p, take + 1, m)
           head == b.head \o first
           tail == b.tail \o rest
           text == t \o p
<1>1. /\ b \in BufferType /\ b.tail \in Seq(Symbol) /\ b.head \in Seq(Symbol)
      /\ e \in Nat /\ b.headLimit = HeadLimit /\ b.tailLimit = TailLimit
      /\ l \in Nat /\ h \in Nat /\ m \in Nat
      /\ HeadLimit \in Nat /\ TailLimit \in Nat
  BY Limits DEF Holds, BufferType
<1>2. /\ Len(t) = h + e + l /\ h <= HeadLimit
      /\ \A i \in 1..h : b.head[i] = t[i]
      /\ \A i \in 1..l : b.tail[i] = t[h + e + i]
      /\ l > 0 \/ e > 0 => h = HeadLimit
      /\ e > 0 => l >= TailLimit
  BY DEF Holds
<1>3. room = HeadLimit - h
  BY <1>1
<1> HIDE DEF h, l, m, e
<1>4. /\ take \in Nat /\ take <= m /\ h + take <= HeadLimit
      /\ take < m => h + take = HeadLimit
      /\ take > 0 => h # HeadLimit
  <2> HIDE DEF room
  <2>1. room \in Nat /\ h + room = HeadLimit
    BY <1>1, <1>2, <1>3
  <2>2. CASE room < m
    BY <1>1, <1>2, <2>1, <2>2
  <2>3. CASE ~(room < m)
    BY <1>1, <1>2, <2>1, <2>3
  <2> QED BY <2>2, <2>3
<1> HIDE DEF take
<1>5. m = Len(p)
  BY DEF m
<1>6. first \in Seq(Symbol) /\ Len(first) = take /\ \A i \in 1..take : first[i] = p[i]
  BY <1>1, <1>4, <1>5
<1>7. /\ rest \in Seq(Symbol) /\ Len(rest) = m - take
      /\ \A i \in 1..(m - take) : rest[i] = p[take + i]
  BY <1>1, <1>4, <1>5
<1> HIDE DEF first, rest
<1>8. /\ head \in Seq(Symbol) /\ Len(head) = h + take
      /\ \A i \in 1..h : head[i] = b.head[i]
      /\ \A i \in 1..take : head[h + i] = p[i]
  <2>1. /\ head \in Seq(Symbol) /\ Len(head) = Len(b.head) + Len(first)
        /\ \A i \in 1..Len(b.head) : head[i] = b.head[i]
        /\ \A i \in 1..Len(first) : head[Len(b.head) + i] = first[i]
    <3>1. b.head \in Seq(Symbol) /\ first \in Seq(Symbol)
      BY <1>1, <1>6
    <3> QED BY <3>1, Joined
  <2>2. Len(b.head) = h
    BY DEF h
  <2> HIDE DEF head
  <2> QED BY <1>6, <2>1, <2>2
<1>9. /\ tail \in Seq(Symbol) /\ Len(tail) = l + (m - take)
      /\ \A i \in 1..l : tail[i] = b.tail[i]
      /\ \A i \in 1..(m - take) : tail[l + i] = p[take + i]
  <2>1. /\ tail \in Seq(Symbol) /\ Len(tail) = Len(b.tail) + Len(rest)
        /\ \A i \in 1..Len(b.tail) : tail[i] = b.tail[i]
        /\ \A i \in 1..Len(rest) : tail[Len(b.tail) + i] = rest[i]
    <3>1. b.tail \in Seq(Symbol) /\ rest \in Seq(Symbol)
      BY <1>1, <1>7
    <3> QED BY <3>1, Joined
  <2>2. Len(b.tail) = l
    BY DEF l
  <2> HIDE DEF tail
  <2> QED BY <1>7, <2>1, <2>2
<1>10. /\ text \in Seq(Symbol) /\ Len(text) = Len(t) + m
       /\ \A i \in 1..Len(t) : text[i] = t[i]
       /\ \A i \in 1..m : text[Len(t) + i] = p[i]
  BY <1>5, Joined
<1>11. PICK c : c = [b EXCEPT !.head = head, !.tail = tail]
  OBVIOUS
<1>12. Write(b, p) = IF Len(c.tail) > 2 * c.tailLimit THEN trim(c) ELSE c
  <2>1. c = [b EXCEPT !.head = @ \o SubSeq(p, 1, take), !.tail = @ \o SubSeq(p, take + 1, Len(p))]
    BY <1>1, <1>5, <1>11 DEF first, rest, BufferType
  <2>2. c.tailLimit = b.tailLimit
    BY <1>1, <1>11 DEF BufferType
  <2> QED BY <2>1, <2>2, <1>5 DEF Write, take
<1> HIDE DEF head, tail, text
<1>13. c \in BufferType /\ c.head = head /\ c.tail = tail /\ c.elided = e
  BY <1>1, <1>8, <1>9, <1>11 DEF BufferType, e
<1>14. take > 0 => l = 0 /\ e = 0 /\ Len(t) = h
  <2> HAVE take > 0
  <2>1. h # HeadLimit
    BY <1>4
  <2>2. ~(l > 0) /\ ~(e > 0)
    BY <1>2, <2>1
  <2> QED BY <1>1, <1>2, <2>2
<1>15. Len(t) \in Nat
  OBVIOUS
<1>16. ASSUME NEW i \in 1..Len(head) PROVE head[i] = text[i]
  <2>1. i \in Nat /\ 1 <= i /\ i <= h + take
    BY <1>1, <1>4, <1>8
  <2>2. CASE i <= h
    <3>1. i \in 1..h /\ i \in 1..Len(t)
      BY <1>1, <1>2, <1>15, <2>1, <2>2
    <3> QED BY <1>2, <1>8, <1>10, <3>1
  <2>3. CASE i > h
    <3> DEFINE k == i - h
    <3>1. k \in 1..take /\ i = h + k /\ take > 0 /\ k \in 1..m
      BY <1>1, <1>4, <2>1, <2>3
    <3> HIDE DEF k
    <3>2. head[i] = p[k]
      BY <1>8, <3>1
    <3>3. text[i] = p[k]
      BY <1>10, <1>14, <3>1
    <3> QED BY <3>2, <3>3
  <2> QED BY <1>1, <2>1, <2>2, <2>3
<1>17. ASSUME NEW i \in 1..Len(tail) PROVE tail[i] = text[Len(head) + e + i]
  <2>1. i \in Nat /\ 1 <= i /\ i <= l + (m - take)
    BY <1>1, <1>4, <1>9
  <2>2. CASE i <= l
    <3>1. take = 0
      BY <1>1, <1>4, <1>14, <2>1, <2>2
    <3>2. i \in 1..l /\ Len(head) = h
      BY <1>1, <1>8, <2>1, <2>2, <3>1
    <3>3. h + e + i \in 1..Len(t)
      BY <1>1, <1>2, <2>1, <2>2
    <3> QED BY <1>2, <1>9, <1>10, <3>2, <3>3
  <2>3. CASE i > l
    <3> DEFINE k == i - l
    <3>1. k \in 1..(m - take) /\ i = l + k /\ take + k \in 1..m /\ k \in Nat
      BY <1>1, <1>4, <2>1, <2>3
    <3> HIDE DEF k
    <3>2. tail[i] = p[take + k]
      BY <1>9, <3>1
    <3>3. Len(head) + e + i = Len(t) + (take + k)
      BY <1>1, <1>2, <1>4, <1>8, <3>1
    <3> QED BY <1>10, <3>1, <3>2, <3>3
  <2> QED BY <1>1, <2>1, <2>2, <2>3
<1>18. Len(head) <= HeadLimit
  BY <1>4, <1>8
<1>19. Len(text) = Len(head) + e + Len(tail)
  BY <1>1, <1>2, <1>4, <1>8, <1>9, <1>10
<1>20. Len(tail) > 0 \/ e > 0 => Len(head) = HeadLimit
  <2>1. CASE take < m
    BY <1>4, <1>8, <2>1
  <2>2. CASE take = m /\ take = 0
    <3>1. Len(tail) = l /\ Len(head) = h
      BY <1>1, <1>8, <1>9, <2>2
    <3> QED BY <1>2, <3>1
  <2>3. CASE take = m /\ take > 0
    <3>1. Len(tail) = 0 /\ e = 0
      BY <1>1, <1>9, <1>14, <2>3
    <3> QED BY <3>1
  <2> QED BY <1>1, <1>4, <2>1, <2>2, <2>3
<1>21. e > 0 => Len(tail) >= TailLimit
  <2> HAVE e > 0
  <2>1. l >= TailLimit /\ m - take \in Nat
    BY <1>1, <1>2, <1>4
  <2> QED BY <1>1, <1>9, <2>1
<1>22. Holds(c, text)
  BY <1>13, <1>16, <1>17, <1>18, <1>19, <1>20, <1>21 DEF Holds
<1>23. Holds(trim(c), text)
  BY <1>10, <1>22, TrimHolds
<1>24. Holds(Write(b, p), text)
  BY <1>12, <1>22, <1>23
<1> QED BY <1>24 DEF text

(***************************************************************************)
(* Writes of any length and number (Write, internal/container/capped.go):  *)
(* the buffer holds the beginning and the end of what was written and      *)
(* counts what is between, for there is no first write after which it does *)
(* not.                                                                    *)
(***************************************************************************)
THEOREM BufferHolds ==
  ASSUME NEW out \in Seq(Seq(Symbol))
  PROVE  /\ FlattenSeq(out) \in Seq(Symbol)
         /\ Holds(Buffered(out)[Len(out)], FlattenSeq(out))
<1> DEFINE b == Buffered(out)
           w == Written(out)
           text(n) == IF n = 0 THEN <<>> ELSE w[n]
           Good(n) == text(n) \in Seq(Symbol) /\ Holds(b[n], text(n))
           Bad == {n \in Nat : n <= Len(out) /\ ~Good(n)}
<1>1. Len(out) \in Nat
  OBVIOUS
<1>2. /\ b = [n \in 0..Len(out) |->
               IF n = 0 THEN newCappedBuffer(LogLimit) ELSE Write(b[n - 1], out[n])]
      /\ w = [n \in 1..Len(out) |-> IF n = 1 THEN out[n] ELSE w[n - 1] \o out[n]]
  BY <1>1, BuffersExist, TextsExist
<1> HIDE DEF b, w
<1>3. Bad = {}
  <2> SUFFICES ASSUME Bad # {} PROVE FALSE
    OBVIOUS
  <2>1. Bad \in SUBSET Nat
    OBVIOUS
  <2> HIDE DEF Bad
  <2>2. PICK n \in Bad : \A m \in Bad : n <= m
    BY <2>1, SomeLeast
  <2>3. n \in Nat /\ n <= Len(out) /\ ~Good(n)
    BY <2>2 DEF Bad
  <2>4. CASE n = 0
    <3>1. b[0] = newCappedBuffer(LogLimit)
      BY <1>1, <1>2
    <3> QED BY <2>3, <2>4, <3>1, EmptyHolds
  <2>5. CASE n # 0
    <3>1. n - 1 \in Nat /\ n - 1 <= Len(out) /\ ~(n <= n - 1) /\ n \in 1..Len(out) /\ n \in 0..Len(out)
      BY <1>1, <2>3, <2>5
    <3>2. n - 1 \notin Bad
      BY <2>2, <3>1
    <3>3. Good(n - 1)
      BY <3>1, <3>2 DEF Bad
    <3>4. b[n] = Write(b[n - 1], out[n]) /\ out[n] \in Seq(Symbol)
      <4>1. out[n] \in Seq(Symbol)
        BY <3>1
      <4>2. b[n] = IF n = 0 THEN newCappedBuffer(LogLimit) ELSE Write(b[n - 1], out[n])
        BY <1>2, <3>1
      <4> QED BY <2>5, <4>1, <4>2
    <3>5. Holds(b[n], text(n - 1) \o out[n]) /\ text(n - 1) \o out[n] \in Seq(Symbol)
      <4> HIDE DEF text
      <4> QED BY <3>3, <3>4, WriteHolds
    <3>6. text(n) = text(n - 1) \o out[n]
      <4>1. w[n] = IF n = 1 THEN out[n] ELSE w[n - 1] \o out[n]
        BY <1>2, <3>1
      <4>2. CASE n = 1
        <5>1. text(n - 1) = <<>> /\ text(n) = out[n]
          BY <2>5, <4>1, <4>2
        <5>2. <<>> \o out[n] = out[n]
          BY <3>4
        <5> HIDE DEF text
        <5> QED BY <5>1, <5>2
      <4>3. CASE n # 1
        <5>1. n - 1 # 0
          BY <2>3, <4>3
        <5>2. text(n - 1) = w[n - 1] /\ text(n) = w[n]
          BY <2>5, <5>1
        <5> HIDE DEF text
        <5> QED BY <4>1, <4>3, <5>2
      <4> QED BY <4>2, <4>3
    <3> QED BY <2>3, <3>5, <3>6
  <2> QED BY <2>4, <2>5
<1>4. Good(Len(out))
  <2> HIDE DEF Good
  <2> QED BY <1>1, <1>3
<1>5. FlattenSeq(out) = text(Len(out))
  <2>1. CASE Len(out) = 0
    <3>1. out = <<>>
      BY <2>1
    <3> QED BY <2>1, <3>1, SameTexts
  <2>2. CASE Len(out) # 0
    BY <2>2, SameTexts DEF w
  <2> QED BY <2>1, <2>2
<1> QED BY <1>4, <1>5 DEF b

-----------------------------------------------------------------------------
(***************************************************************************)
(* The last marker line, and what is after it.                             *)
(***************************************************************************)
LastMarker(s) == CHOOSE i \in MarkerLines(s) : \A j \in MarkerLines(s) : j <= i
After(s, m) == SubSeq(s, m + 2, Len(s))

LEMMA SameDocument == \A s : documentAfterMarker(s) = After(s, LastMarker(s))
BY DEF documentAfterMarker, After, LastMarker

LEMMA LastExists ==
  ASSUME NEW s \in Seq(Symbol), MarkerLines(s) # {}
  PROVE  LastMarker(s) \in MarkerLines(s) /\ \A j \in MarkerLines(s) : j <= LastMarker(s)
<1> DEFINE behind == {n \in Nat : \E i \in MarkerLines(s) : n = Len(s) - i}
<1>1. MarkerLines(s) \subseteq 1..Len(s) /\ Len(s) \in Nat
  BY DEF MarkerLines
<1>2. behind \in SUBSET Nat /\ behind # {}
  <2>1. PICK i \in MarkerLines(s) : TRUE
    OBVIOUS
  <2>2. Len(s) - i \in Nat
    BY <1>1, <2>1
  <2> QED BY <2>2
<1>3. PICK n \in behind : \A k \in behind : n <= k
  <2> HIDE DEF behind
  <2> QED BY <1>2, SomeLeast
<1>4. PICK i \in MarkerLines(s) : n = Len(s) - i
  BY <1>3
<1>5. ASSUME NEW j \in MarkerLines(s) PROVE j <= i
  <2>1. Len(s) - j \in behind
    BY <1>1
  <2>2. n <= Len(s) - j
    BY <1>3, <2>1
  <2>3. i \in Nat /\ j \in Nat
    BY <1>1
  <2> HIDE DEF behind
  <2> QED BY <1>1, <1>4, <2>2, <2>3
<1> QED BY <1>5 DEF LastMarker

LEMMA LastIs ==
  ASSUME NEW s \in Seq(Symbol), NEW m \in MarkerLines(s),
         \A j \in MarkerLines(s) : j > m => FALSE
  PROVE  LastMarker(s) = m
<1>1. MarkerLines(s) \subseteq 1..Len(s) /\ Len(s) \in Nat
  BY DEF MarkerLines
<1>2. LastMarker(s) \in MarkerLines(s) /\ m <= LastMarker(s)
  BY LastExists
<1>3. LastMarker(s) \in Nat /\ m \in Nat /\ ~(LastMarker(s) > m)
  BY <1>1, <1>2
<1> QED BY <1>2, <1>3

LEMMA AfterIs ==
  ASSUME NEW s \in Seq(Symbol), NEW m \in 1..Len(s)
  PROVE  /\ After(s, m) \in Seq(Symbol)
         /\ Len(After(s, m)) = IF m < Len(s) THEN Len(s) - m - 1 ELSE 0
         /\ \A i \in 1..(Len(s) - m - 1) : After(s, m)[i] = s[m + 1 + i]
<1> DEFINE l == Len(s)
<1>1. l \in Nat /\ m \in Nat /\ m + 2 \in Int /\ l \in Int /\ m >= 1 /\ m <= l
  OBVIOUS
<1>2. \A i \in (m + 2)..l : s[i] \in Symbol
  <2>1. \A i \in (m + 2)..l : i \in 1..Len(s)
    BY <1>1
  <2> QED BY <2>1
<1>3. l = Len(s)
  OBVIOUS
<1> HIDE DEF l
<1>4. /\ SubSeq(s, m + 2, l) \in Seq(Symbol)
      /\ Len(SubSeq(s, m + 2, l)) = IF m + 2 <= l THEN l - (m + 2) + 1 ELSE 0
      /\ \A i \in 1..(l - (m + 2) + 1) : SubSeq(s, m + 2, l)[i] = s[m + 2 + i - 1]
  BY <1>1, <1>2, SubSeqProperties
<1>5. After(s, m) = SubSeq(s, m + 2, l)
  BY <1>3 DEF After
<1>6. l - (m + 2) + 1 = l - m - 1
  BY <1>1
<1>7. Len(After(s, m)) = IF m < l THEN l - m - 1 ELSE 0
  BY <1>1, <1>4, <1>5
<1>8. ASSUME NEW i \in 1..(l - m - 1) PROVE After(s, m)[i] = s[m + 1 + i]
  <2>1. m + 2 + i - 1 = m + 1 + i
    BY <1>1
  <2> QED BY <1>4, <1>5, <1>6, <2>1
<1> QED BY <1>3, <1>4, <1>5, <1>7, <1>8

(***************************************************************************)
(* Text k ends as text a does, from place q in the one and z in the other, *)
(* which a line begins after, and the last marker line is after that.      *)
(***************************************************************************)
LEMMA SameEnding ==
  ASSUME NEW a \in Seq(Symbol), NEW k \in Seq(Symbol), NEW q \in Nat, NEW z \in Nat, NEW l \in Nat,
         Len(a) = z + l, Len(k) = q + l,
         \A i \in 1..l : k[q + i] = a[z + i],
         q >= 1, k[q] = "eol",
         MarkerLines(a) # {}, LastMarker(a) > z
  PROVE  /\ MarkerLines(k) # {}
         /\ After(k, LastMarker(k)) = After(a, LastMarker(a))
<1> DEFINE m == LastMarker(a)
           j == m - z
<1>1. m \in MarkerLines(a) /\ \A n \in MarkerLines(a) : n <= m
  BY LastExists
<1>2. m \in 1..Len(a) /\ IsMarkerLine(a, m)
  BY <1>1 DEF MarkerLines
<1> HIDE DEF m
<1>3. j \in 1..l /\ m = z + j /\ j \in Nat /\ m \in Nat
  BY <1>2 DEF m
<1> HIDE DEF j
<1>4. /\ a[m] = "mark" /\ (m > 1 => a[m - 1] = "eol")
      /\ m < Len(a) => a[m + 1] = "eol"
  BY <1>2 DEF IsMarkerLine
<1>5. q + j \in MarkerLines(k)
  <2>1. PICK n \in 1..Len(k) : n = q + j
    BY <1>3
  <2>2. k[n] = "mark"
    BY <1>3, <1>4, <2>1
  <2>3. k[n - 1] = "eol"
    <3>1. CASE j = 1
      <4>1. n - 1 = q
        BY <1>3, <2>1, <3>1
      <4> QED BY <4>1
    <3>2. CASE j # 1
      <4>1. j - 1 \in 1..l /\ n - 1 = q + (j - 1) /\ m - 1 = z + (j - 1) /\ m > 1
        BY <1>3, <2>1, <3>2
      <4> QED BY <1>4, <4>1
    <3> QED BY <3>1, <3>2
  <2>4. n < Len(k) => k[n + 1] = "eol"
    <3> HAVE n < Len(k)
    <3>1. j + 1 \in 1..l /\ n + 1 = q + (j + 1) /\ m + 1 = z + (j + 1) /\ m < Len(a)
      BY <1>3, <2>1
    <3> QED BY <1>4, <3>1
  <2>5. IsMarkerLine(k, n)
    BY <2>2, <2>3, <2>4 DEF IsMarkerLine
  <2> QED BY <2>1, <2>5 DEF MarkerLines
<1>6. ASSUME NEW n \in MarkerLines(k), n > q + j PROVE FALSE
  <2>1. n \in 1..Len(k) /\ k[n] = "mark" /\ (n > 1 => k[n - 1] = "eol")
        /\ (n < Len(k) => k[n + 1] = "eol")
    BY <1>6 DEF MarkerLines, IsMarkerLine
  <2>2. PICK i \in 1..l : n = q + i
    <3>1. n - q \in 1..l /\ n = q + (n - q)
      BY <1>3, <1>6, <2>1
    <3> QED BY <3>1
  <2>3. i > j /\ i \in Nat /\ n > 1
    BY <1>3, <1>6, <2>2
  <2>4. PICK w \in 1..Len(a) : w = z + i
    BY <2>2
  <2>5. a[w] = "mark"
    BY <2>1, <2>2, <2>4
  <2>6. i - 1 \in 1..l /\ n - 1 = q + (i - 1) /\ w - 1 = z + (i - 1)
    BY <1>3, <2>2, <2>3, <2>4
  <2>7. a[w - 1] = "eol"
    BY <2>1, <2>3, <2>6
  <2>8. w < Len(a) => a[w + 1] = "eol"
    <3> HAVE w < Len(a)
    <3>1. i + 1 \in 1..l /\ n + 1 = q + (i + 1) /\ w + 1 = z + (i + 1) /\ n < Len(k)
      BY <2>2, <2>3, <2>4
    <3> QED BY <2>1, <3>1
  <2>9. IsMarkerLine(a, w)
    BY <2>5, <2>7, <2>8 DEF IsMarkerLine
  <2>10. w \in MarkerLines(a)
    BY <2>4, <2>9 DEF MarkerLines
  <2>11. w > m
    BY <1>3, <2>2, <2>3, <2>4
  <2> QED BY <1>1, <1>3, <2>4, <2>10, <2>11
<1>7. LastMarker(k) = q + j
  BY <1>5, <1>6, LastIs
<1>8. q + j \in 1..Len(k) /\ Len(k) \in Nat
  BY <1>3
<1> DEFINE x == After(k, q + j)
           y == After(a, m)
<1>9. /\ x \in Seq(Symbol) /\ Len(x) = (IF q + j < Len(k) THEN Len(k) - (q + j) - 1 ELSE 0)
      /\ \A i \in 1..(Len(k) - (q + j) - 1) : x[i] = k[q + j + 1 + i]
  BY <1>8, AfterIs
<1>10. /\ y \in Seq(Symbol) /\ Len(y) = (IF m < Len(a) THEN Len(a) - m - 1 ELSE 0)
       /\ \A i \in 1..(Len(a) - m - 1) : y[i] = a[m + 1 + i]
  BY <1>2, AfterIs
<1> HIDE DEF x, y
<1>11. Len(k) - (q + j) - 1 = l - j - 1 /\ Len(a) - m - 1 = l - j - 1
       /\ (q + j < Len(k) <=> j < l) /\ (m < Len(a) <=> j < l)
  BY <1>3
<1>12. Len(x) = Len(y)
  BY <1>9, <1>10, <1>11
<1>13. ASSUME NEW i \in 1..Len(x) PROVE x[i] = y[i]
  <2>1. i \in 1..(l - j - 1)
    BY <1>3, <1>9, <1>11
  <2>2. j + 1 + i \in 1..l /\ q + j + 1 + i = q + (j + 1 + i) /\ m + 1 + i = z + (j + 1 + i)
    BY <1>3, <2>1
  <2> QED BY <1>9, <1>10, <1>11, <2>1, <2>2
<1>14. x = y
  BY <1>9, <1>10, <1>12, <1>13, SeqEqual
<1> QED BY <1>5, <1>7, <1>14 DEF x, y, m

(***************************************************************************)
(* What is kept of an output (Logs, internal/container/cli.go) ends in the *)
(* same document, and has a marker line only if all of it has, whenever    *)
(* the output is short or its last marker line is within the kept end:     *)
(* neither the cut nor the notice makes or hides a marker line.            *)
(***************************************************************************)
THEOREM DocumentSurvives ==
  ASSUME OutputsFit, NEW out \in Outputs
  PROVE  /\ FlattenSeq(out) \in Seq(Symbol) /\ Kept(out) \in Seq(Symbol)
         /\ MarkerLines(Kept(out)) = {} <=> MarkerLines(FlattenSeq(out)) = {}
         /\ MarkerLines(FlattenSeq(out)) # {} =>
              documentAfterMarker(Kept(out)) = documentAfterMarker(FlattenSeq(out))
<1> DEFINE a == FlattenSeq(out)
           k == Kept(out)
           b == Buffered(out)[Len(out)]
           t == trim(b)
<1>1. out \in Seq(Seq(Symbol))
  BY JudgeAssumption DEF Outputs
<1>2. a \in Seq(Symbol) /\ Holds(b, a)
  BY <1>1, BufferHolds
<1>3. k = String(b)
  BY SameBuffers
<1> HIDE DEF a, b
<1>4. /\ Holds(t, a) /\ Len(t.tail) <= TailLimit
      /\ t.elided > 0 => Len(t.tail) = TailLimit
  BY <1>2, TrimHolds
<1>5. k = IF t.elided = 0 THEN t.head \o t.tail ELSE t.head \o Notice \o t.tail
  BY <1>3 DEF String
<1> HIDE DEF k, t
<1>6. /\ t.head \in Seq(Symbol) /\ t.tail \in Seq(Symbol) /\ t.elided \in Nat
      /\ Len(t.head) \in Nat /\ Len(t.tail) \in Nat /\ Len(t.head) <= HeadLimit
      /\ Len(a) = Len(t.head) + t.elided + Len(t.tail)
      /\ \A i \in 1..Len(t.head) : t.head[i] = a[i]
      /\ \A i \in 1..Len(t.tail) : t.tail[i] = a[Len(t.head) + t.elided + i]
      /\ t.elided > 0 => Len(t.head) = HeadLimit
  <2>1. t.head \in Seq(Symbol) /\ t.tail \in Seq(Symbol) /\ t.elided \in Nat
    BY <1>4 DEF Holds, BufferType
  <2>2. Len(t.head) \in Nat /\ Len(t.tail) \in Nat
    BY <2>1
  <2> QED BY <1>4, <2>1, <2>2 DEF Holds
<1>7. CASE t.elided = 0
  <2>1. k = t.head \o t.tail
    BY <1>5, <1>7
  <2>2. /\ k \in Seq(Symbol) /\ Len(k) = Len(t.head) + Len(t.tail)
        /\ \A i \in 1..Len(t.head) : k[i] = t.head[i]
        /\ \A i \in 1..Len(t.tail) : k[Len(t.head) + i] = t.tail[i]
    <3>1. t.head \in Seq(Symbol) /\ t.tail \in Seq(Symbol)
      BY <1>6
    <3> DEFINE x == t.head
               y == t.tail
    <3>2. x \in Seq(Symbol) /\ y \in Seq(Symbol) /\ k = x \o y
      BY <2>1, <3>1
    <3> HIDE DEF x, y
    <3>3. /\ k \in Seq(Symbol) /\ Len(k) = Len(x) + Len(y)
          /\ \A i \in 1..Len(x) : k[i] = x[i]
          /\ \A i \in 1..Len(y) : k[Len(x) + i] = y[i]
      BY <3>2, Joined
    <3> QED BY <3>3 DEF x, y
  <2>3. Len(k) = Len(a)
    BY <1>6, <1>7, <2>2
  <2>4. ASSUME NEW i \in 1..Len(k) PROVE k[i] = a[i]
    <3>1. CASE i <= Len(t.head)
      <4>1. i \in 1..Len(t.head)
        BY <1>6, <3>1
      <4> QED BY <1>6, <2>2, <4>1
    <3>2. CASE i > Len(t.head)
      <4> DEFINE n == i - Len(t.head)
      <4>1. n \in 1..Len(t.tail) /\ i = Len(t.head) + n /\ Len(t.head) + t.elided + n = Len(t.head) + n
        <5> DEFINE x == Len(t.head)
                   y == Len(t.tail)
        <5>1. Len(k) = x + y /\ x \in Nat /\ y \in Nat /\ t.elided = 0 /\ i > x /\ n = i - x
          BY <1>6, <1>7, <2>2, <3>2
        <5> HIDE DEF x, y, n
        <5>2. n \in 1..y /\ i = x + n /\ x + t.elided + n = x + n
          BY <5>1
        <5> QED BY <5>2 DEF x, y
      <4> HIDE DEF n
      <4> QED BY <1>6, <2>2, <4>1
    <3> QED BY <1>6, <3>1, <3>2
  <2>5. k = a
    BY <1>2, <2>2, <2>3, <2>4, SeqEqual
  <2> QED BY <1>2, <2>2, <2>5 DEF k, a
<1>8. CASE t.elided # 0
  <2> DEFINE u == t.head \o Notice
  <2>1. k = u \o t.tail
    BY <1>5, <1>8
  <2>2. /\ Notice \in Seq(Symbol) /\ Len(Notice) \in Nat /\ Len(Notice) >= 1
        /\ Notice[Len(Notice)] = "eol"
    BY NoticeAssumption
  <2>3. /\ u \in Seq(Symbol) /\ Len(u) = Len(t.head) + Len(Notice)
        /\ \A i \in 1..Len(Notice) : u[Len(t.head) + i] = Notice[i]
    BY <1>6, <2>2, Joined
  <2> HIDE DEF u
  <2>4. /\ k \in Seq(Symbol) /\ Len(k) = Len(u) + Len(t.tail)
        /\ \A i \in 1..Len(u) : k[i] = u[i]
        /\ \A i \in 1..Len(t.tail) : k[Len(u) + i] = t.tail[i]
    <3>1. u \in Seq(Symbol) /\ t.tail \in Seq(Symbol)
      BY <1>6, <2>3
    <3> QED BY <2>1, <3>1, Joined
  <2> DEFINE q == Len(u)
             z == Len(t.head) + t.elided
             l == Len(t.tail)
  <2>5. q \in Nat /\ z \in Nat /\ l \in Nat /\ q >= 1 /\ q \in 1..Len(u)
    BY <1>6, <2>2, <2>3, SMTT(20)
  <2>6. Len(a) = z + l /\ Len(k) = q + l
    BY <1>6, <2>4
  <2>7. \A i \in 1..l : k[q + i] = a[z + i]
    BY <1>6, <2>4
  <2>8. k[q] = "eol"
    <3>1. k[q] = u[q]
      BY <2>4, <2>5
    <3>2. u[q] = Notice[Len(Notice)]
      BY <2>2, <2>3
    <3> QED BY <2>2, <3>1, <3>2
  <2>9. l = TailLimit /\ Len(t.head) = HeadLimit /\ t.elided > 0
    BY <1>4, <1>6, <1>8
  <2>10. MarkerLines(a) # {} /\ LastMarker(a) > z
    <3>1. Len(a) <= LogLimit \/ \E m \in MarkerLines(a) : m > Len(a) - TailLimit
      BY DEF OutputsFit, TailLimit, a
    <3>2. ~(Len(a) <= LogLimit)
      <4>1. HeadLimit + TailLimit >= LogLimit /\ LogLimit \in Nat
        BY Limits, JudgeAssumption
      <4> QED BY <1>6, <2>9, <4>1
    <3>3. PICK m \in MarkerLines(a) : m > Len(a) - TailLimit
      BY <3>1, <3>2
    <3>4. LastMarker(a) \in MarkerLines(a) /\ m <= LastMarker(a)
      BY <1>2, <3>3, LastExists
    <3>5. MarkerLines(a) \subseteq 1..Len(a)
      BY <1>2 DEF MarkerLines
    <3>6. LastMarker(a) \in Nat /\ m \in Nat
      BY <3>3, <3>4, <3>5
    <3>7. Len(a) - TailLimit = z
      BY <2>5, <2>6, <2>9
    <3> HIDE DEF z
    <3> QED BY <2>5, <3>3, <3>4, <3>6, <3>7
  <2> HIDE DEF q, z, l
  <2>11. MarkerLines(k) # {} /\ After(k, LastMarker(k)) = After(a, LastMarker(a))
    BY <1>2, <2>4, <2>5, <2>6, <2>7, <2>8, <2>10, SameEnding
  <2>12. documentAfterMarker(k) = documentAfterMarker(a)
    BY <2>11, SameDocument
  <2> QED BY <1>2, <2>4, <2>10, <2>11, <2>12 DEF k, a
<1> QED BY <1>7, <1>8

-----------------------------------------------------------------------------
\* Where Said finds a document after the last marker line.
Found(s) == {d \in (LastMarker(s) + 1)..(Len(s) - 1) :
               /\ \A i \in (LastMarker(s) + 1)..(d - 1) : s[i] = "eol"
               /\ s[d] \in DOMAIN Document
               /\ s[d + 1] = "end"}

Declared == {Requirements[i].key : i \in DOMAIN Requirements}

\* The document that Said finds is the one that is decoded.
LEMMA FoundIsDecoded ==
  ASSUME NEW s \in Seq(Symbol), MarkerLines(s) # {}
  PROVE  /\ Decodable(After(s, LastMarker(s))) <=> Found(s) # {}
         /\ Found(s) # {} =>
              Decoded(After(s, LastMarker(s))) = Document[s[CHOOSE d \in Found(s) : TRUE]]
<1> DEFINE m == LastMarker(s)
           doc == After(s, m)
           l == Len(s)
<1>1. m \in MarkerLines(s)
  BY LastExists
<1>2. m \in 1..l /\ l \in Nat /\ m \in Nat /\ m >= 1 /\ m <= l /\ (m < l => s[m + 1] = "eol")
  BY <1>1 DEF MarkerLines, IsMarkerLine
<1>3. "eol" \notin DOMAIN Document
  BY TesterAssumption
<1>4. /\ doc \in Seq(Symbol)
      /\ Len(doc) = IF m < Len(s) THEN Len(s) - m - 1 ELSE 0
      /\ \A i \in 1..(Len(s) - m - 1) : doc[i] = s[m + 1 + i]
  BY <1>2, AfterIs
<1>5. Found(s) = {d \in (m + 1)..(l - 1) :
               /\ \A i \in (m + 1)..(d - 1) : s[i] = "eol"
               /\ s[d] \in DOMAIN Document
               /\ s[d + 1] = "end"}
  BY DEF Found
<1>6. l = Len(s)
  OBVIOUS
<1> HIDE DEF m, doc, l
\* From the place of a document in doc to its place in s, and back.
<1>7. ASSUME NEW i \in DOMAIN doc, \A j \in 1..(i - 1) : doc[j] = "eol",
             doc[i] \in DOMAIN Document, i < Len(doc) /\ doc[i + 1] = "end"
      PROVE  m + 1 + i \in Found(s)
  <2>1. i \in Nat /\ i >= 1 /\ i < Len(doc) /\ Len(doc) \in Nat
    BY <1>4, <1>7
  <2>2. m < l /\ Len(doc) = l - m - 1
    BY <1>2, <1>4, <1>6, <2>1
  <2>3. PICK d \in (m + 1)..(l - 1) : d = m + 1 + i
    BY <1>2, <2>1, <2>2
  <2>4. i \in 1..(Len(s) - m - 1) /\ i + 1 \in 1..(Len(s) - m - 1) /\ d + 1 = m + 1 + (i + 1)
    <3>1. i \in 1..(l - m - 1) /\ i + 1 \in 1..(l - m - 1)
      BY <1>2, <2>1, <2>2
    <3>2. d + 1 = m + 1 + (i + 1)
      BY <1>2, <2>1, <2>3
    <3> QED BY <1>6, <3>1, <3>2
  <2>5. s[d] = doc[i] /\ s[d + 1] = doc[i + 1]
    BY <1>4, <2>3, <2>4
  <2>6. ASSUME NEW n \in (m + 1)..(d - 1) PROVE s[n] = "eol"
    <3>1. CASE n = m + 1
      BY <1>2, <2>2, <3>1
    <3>2. CASE n # m + 1
      <4>1. PICK j \in 1..(i - 1) : n = m + 1 + j
        <5>1. n - m - 1 \in 1..(i - 1) /\ n = m + 1 + (n - m - 1)
          BY <1>2, <2>1, <2>3, <3>2
        <5> QED BY <5>1
      <4>2. j \in 1..(Len(s) - m - 1)
        BY <1>2, <1>6, <2>1, <2>2, <4>1
      <4>3. doc[j] = "eol"
        BY <1>7, <4>1
      <4> QED BY <1>4, <4>1, <4>2, <4>3
    <3> QED BY <3>1, <3>2
  <2>7. d \in Found(s)
    BY <1>5, <1>7, <2>5, <2>6
  <2> QED BY <2>3, <2>7
<1>8. ASSUME NEW d \in Found(s)
      PROVE  \E i \in DOMAIN doc :
               /\ d = m + 1 + i /\ (\A j \in 1..(i - 1) : doc[j] = "eol")
               /\ doc[i] \in DOMAIN Document /\ i < Len(doc) /\ doc[i + 1] = "end"
               /\ doc[i] = s[d]
  <2>1. /\ d \in (m + 1)..(l - 1) /\ (\A n \in (m + 1)..(d - 1) : s[n] = "eol")
        /\ s[d] \in DOMAIN Document /\ s[d + 1] = "end"
    BY <1>5, <1>8
  <2>2. d \in Nat /\ d >= m + 1 /\ d <= l - 1 /\ m < l
    BY <1>2, <2>1
  <2>3. d # m + 1
    BY <1>2, <1>3, <2>1, <2>2
  <2>4. Len(doc) = l - m - 1 /\ Len(doc) \in Nat
    BY <1>2, <1>4, <1>6, <2>2
  <2>5. PICK i \in 1..(l - m - 2) : d = m + 1 + i
    <3>1. d - m - 1 \in 1..(l - m - 2) /\ d = m + 1 + (d - m - 1)
      BY <1>2, <2>2, <2>3
    <3> QED BY <3>1
  <2>6. /\ i \in 1..(Len(s) - m - 1) /\ i + 1 \in 1..(Len(s) - m - 1) /\ d + 1 = m + 1 + (i + 1)
        /\ i \in 1..Len(doc) /\ i < Len(doc)
    BY <1>2, <1>6, <2>4, <2>5
  <2>7. doc[i] = s[d] /\ doc[i + 1] = s[d + 1]
    BY <1>4, <2>5, <2>6
  <2>8. ASSUME NEW j \in 1..(i - 1) PROVE doc[j] = "eol"
    <3>1. m + 1 + j \in (m + 1)..(d - 1) /\ j \in 1..(Len(s) - m - 1)
      BY <1>2, <1>6, <2>5
    <3> QED BY <1>4, <2>1, <3>1
  <2>9. i \in DOMAIN doc
    BY <1>4, <2>6
  <2> QED BY <2>1, <2>5, <2>6, <2>7, <2>8, <2>9
<1>9. Decodable(doc) <=> Found(s) # {}
  <2>1. ASSUME Decodable(doc) PROVE Found(s) # {}
    <3>1. PICK i \in DOMAIN doc :
            /\ \A j \in 1..(i - 1) : doc[j] = "eol"
            /\ doc[i] \in DOMAIN Document
            /\ i < Len(doc) /\ doc[i + 1] = "end"
      BY <2>1 DEF Decodable
    <3>2. m + 1 + i \in Found(s)
      BY <1>7, <3>1
    <3> QED BY <3>2
  <2>2. ASSUME Found(s) # {} PROVE Decodable(doc)
    <3>1. PICK d \in Found(s) : TRUE
      BY <2>2
    <3> QED BY <1>8, <3>1 DEF Decodable
  <2> QED BY <2>1, <2>2
<1>10. ASSUME Found(s) # {}
       PROVE  Decoded(doc) = Document[s[CHOOSE d \in Found(s) : TRUE]]
  <2>1. PICK d \in Found(s) : d = CHOOSE e \in Found(s) : TRUE
    BY <1>10
  <2>2. PICK i \in DOMAIN doc :
               /\ (\A j \in 1..(i - 1) : doc[j] = "eol")
               /\ doc[i] \in DOMAIN Document /\ doc[i] = s[d]
    BY <1>8
  <2>3. DOMAIN doc = 1..Len(doc) /\ Len(doc) \in Nat
    BY <1>4
  <2>4. doc[i] # "eol"
    BY <1>3, <2>2
  <2>5. \A j \in 1..i : doc[j] = "eol" <=> j < i
    <3>1. \A j \in 1..i : j \in 1..(i - 1) \/ j = i
      BY <2>3
    <3>2. \A j \in 1..(i - 1) : j < i
      BY <2>3
    <3>3. ~(i < i)
      BY <2>3
    <3> QED BY <2>2, <2>4, <3>1, <3>2, <3>3
  <2>6. ASSUME NEW k \in DOMAIN doc, \A j \in 1..k : doc[j] = "eol" <=> j < k
        PROVE  k = i
    <3>1. doc[k] # "eol"
      BY <2>3, <2>6
    <3>2. ~(k < i)
      BY <2>2, <2>3, <3>1
    <3>3. ~(i < k)
      BY <2>3, <2>4, <2>6
    <3> QED BY <2>3, <3>2, <3>3
  <2>7. (CHOOSE k \in DOMAIN doc : \A j \in 1..k : doc[j] = "eol" <=> j < k) = i
    BY <2>5, <2>6
  <2>8. Decoded(doc) = Document[doc[i]]
    BY <2>7 DEF Decoded
  <2> QED BY <2>1, <2>2, <2>8
<1> QED BY <1>9, <1>10 DEF doc, m

\* One entry for each key: whichever way its status is looked up, it is that entry's.
LEMMA SameStatus ==
  ASSUME NEW document, NEW declared, WellFormed(document, declared), NEW key
  PROVE  LET given == {r \in Range(document.results) : r.key = key}
             reported == Reported(document.results, key)
         IN  /\ reported = {} <=> given = {}
             /\ reported # {} => (CHOOSE s \in reported : TRUE) = (CHOOSE r \in given : TRUE).status
<1> DEFINE rs == document.results
           given == {r \in Range(rs) : r.key = key}
           at == {i \in DOMAIN rs : rs[i].key = key}
           reported == {rs[i].status : i \in at}
<1>1. reported = Reported(rs, key)
  BY DEF Reported
<1>2. given = {rs[i] : i \in at}
  BY DEF Range
<1>3. \A i, j \in at : i = j
  BY DEF WellFormed
<1>4. reported = {} <=> given = {}
  BY <1>2
<1>5. ASSUME reported # {} PROVE (CHOOSE s \in reported : TRUE) = (CHOOSE r \in given : TRUE).status
  <2>1. PICK i \in at : TRUE
    BY <1>5
  <2> HIDE DEF at
  <2>2. at = {i}
    BY <1>3, <2>1
  <2>3. reported = {rs[i].status} /\ given = {rs[i]}
    BY <1>2, <2>2
  <2> HIDE DEF reported, given
  <2>4. (CHOOSE s \in reported : TRUE) = rs[i].status /\ (CHOOSE r \in given : TRUE) = rs[i]
    BY <2>3
  <2> QED BY <2>4
<1> QED BY <1>1, <1>4, <1>5

(***************************************************************************)
(* Results are what the tester said, for any output that fits.             *)
(***************************************************************************)
LEMMA CollectedIsSaid ==
  ASSUME OutputsFit, NEW out \in Outputs
  PROVE  Scored([results |-> Collected[out].results, said |-> SaidBy[out]])
<1> DEFINE a == FlattenSeq(out)
           k == Kept(out)
           doc == After(a, LastMarker(a))
           document == Document[a[CHOOSE d \in Found(a) : TRUE]]
           results == Collected[out].results
           said == SaidBy[out]
           given(key) == {r \in Range(document.results) : r.key = key}
           reported(key) == Reported(document.results, key)
<1>1. /\ a \in Seq(Symbol) /\ k \in Seq(Symbol)
      /\ MarkerLines(k) = {} <=> MarkerLines(a) = {}
      /\ MarkerLines(a) # {} => documentAfterMarker(k) = doc
  BY DocumentSurvives, SameDocument
<1>2. results = Collect(Requirements, [err |-> FALSE, stdout |-> k]).results
  BY DEF Collected
<1>3. said = Said(Requirements, a)
  BY DEF SaidBy
<1>4. results = CASE parse(k, Declared) = "no results" -> allErrors(Requirements)
                  [] parse(k, Declared) = "unreadable" -> <<>>
                  [] parse(k, Declared) = "read" -> [i \in DOMAIN Requirements |->
                       LET key == Requirements[i].key
                           rs == Decoded(documentAfterMarker(k)).results IN
                       [key |-> key, status |-> IF Reported(rs, key) = {} THEN "error"
                                                ELSE CHOOSE s \in Reported(rs, key) : TRUE]]
  BY <1>2 DEF Collect, Declared
<1>5. said = IF MarkerLines(a) = {} THEN [i \in DOMAIN Requirements |-> "error"]
             ELSE IF Found(a) = {} THEN <<>>
             ELSE IF ~WellFormed(document, Declared) THEN <<>>
             ELSE [i \in DOMAIN Requirements |->
                    IF given(Requirements[i].key) = {} THEN "error"
                    ELSE (CHOOSE r \in given(Requirements[i].key) : TRUE).status]
  BY <1>3 DEF Said, Found, LastMarker, Declared
<1> HIDE DEF a, k, results, said
<1>6. SUFFICES /\ results = [i \in DOMAIN said |->
                                [key |-> Requirements[i].key, status |-> said[i]]]
               /\ said = <<>> \/ DOMAIN said = DOMAIN Requirements
  BY DEF Scored, results, said
<1>7. CASE MarkerLines(a) = {}
  <2>1. said = [i \in DOMAIN Requirements |-> "error"]
    BY <1>5, <1>7
  <2>2. parse(k, Declared) = "no results"
    BY <1>1, <1>7 DEF parse
  <2>3. results = [i \in DOMAIN Requirements |-> [key |-> Requirements[i].key, status |-> "error"]]
    BY <1>4, <2>2 DEF allErrors
  <2> QED BY <2>1, <2>3
<1>8. CASE MarkerLines(a) # {} /\ (Found(a) = {} \/ ~WellFormed(document, Declared))
  <2>1. said = <<>>
    BY <1>5, <1>8
  <2>2. Decodable(doc) <=> Found(a) # {}
    BY <1>1, <1>8, FoundIsDecoded
  <2>3. Found(a) # {} => Decoded(doc) = document
    BY <1>1, <1>8, FoundIsDecoded
  <2> HIDE DEF doc, document
  <2>4. parse(k, Declared) = "unreadable"
    BY <1>1, <1>8, <2>2, <2>3 DEF parse
  <2>5. results = <<>>
    BY <1>4, <2>4
  <2> QED BY <2>1, <2>5
<1>9. CASE MarkerLines(a) # {} /\ Found(a) # {} /\ WellFormed(document, Declared)
  <2>1. Decodable(doc) /\ Decoded(doc) = document
    BY <1>1, <1>9, FoundIsDecoded
  <2>2. said = [i \in DOMAIN Requirements |->
                    IF given(Requirements[i].key) = {} THEN "error"
                    ELSE (CHOOSE r \in given(Requirements[i].key) : TRUE).status]
    BY <1>5, <1>9
  <2>3. \A key : IF reported(key) = {} THEN given(key) = {}
                 ELSE /\ given(key) # {}
                      /\ (CHOOSE s \in reported(key) : TRUE) = (CHOOSE r \in given(key) : TRUE).status
    <3> HIDE DEF document
    <3> QED BY <1>9, SameStatus
  <2> HIDE DEF doc, document
  <2>4. parse(k, Declared) = "read"
    BY <1>1, <1>9, <2>1 DEF parse
  <2>5. results = [i \in DOMAIN Requirements |->
          [key |-> Requirements[i].key,
           status |-> IF reported(Requirements[i].key) = {} THEN "error"
                      ELSE CHOOSE s \in reported(Requirements[i].key) : TRUE]]
    BY <1>1, <1>4, <1>9, <2>1, <2>4
  <2> HIDE DEF given, reported
  <2>6. \A i \in DOMAIN Requirements :
          said[i] = IF reported(Requirements[i].key) = {} THEN "error"
                    ELSE CHOOSE s \in reported(Requirements[i].key) : TRUE
    BY <2>2, <2>3
  <2>7. DOMAIN said = DOMAIN Requirements
    BY <2>2
  <2> QED BY <2>5, <2>6, <2>7
<1> QED BY <1>7, <1>8, <1>9

LEMMA ErrorsAreScored ==
  Scored([results |-> allErrors(Requirements), said |-> NothingSaid])
BY DEF Scored, allErrors, NothingSaid

LEMMA NothingIsScored ==
  Scored([results |-> <<>>, said |-> <<>>])
<1>1. <<>> = [i \in {} |-> [key |-> Requirements[i].key, status |-> <<>>[i]]] /\ DOMAIN <<>> = {}
  OBVIOUS
<1> QED BY <1>1 DEF Scored

\* What a run reads and what its tester said go together.
LEMMA ReadIsScored ==
  ASSUME OutputsFit, NEW j \in RunType,
         NEW said, said = IF j.waitErr \/ j.printed = Null THEN NothingSaid ELSE SaidBy[j.printed]
  PROVE  Scored([results |-> ReadResults(j).results, said |-> said])
<1>1. CASE j.waitErr \/ j.printed = Null
  <2>1. j.waitErr \in BOOLEAN
    BY DEF RunType
  <2>2. ReadResults(j).results = allErrors(Requirements)
    BY <1>1, <2>1, NothingRead DEF ReadResults
  <2> QED BY <1>1, <2>2, ErrorsAreScored
<1>2. CASE ~(j.waitErr \/ j.printed = Null)
  <2>1. j.printed \in Outputs /\ ReadResults(j) = Collected[j.printed]
    BY <1>2 DEF RunType, ReadResults
  <2> QED BY <1>2, <2>1, CollectedIsSaid
<1> QED BY <1>1, <1>2

LEMMA ScoredIsOfBoth ==
  ASSUME NEW x, NEW y, x.results = y.results, x.said = y.said, Scored(x)
  PROVE  Scored(y)
BY DEF Scored
-----------------------------------------------------------------------------
\* Tearing down changes neither what was read nor what was said.
LEMMA TearDownReadsNothing ==
  ASSUME NEW j \in RunType
  PROVE  TearDown(j).results = j.results /\ TearDown(j).said = j.said
<1>1. PICK t : t = [j EXCEPT !.at = TearingDown(j.owned), !.left = j.owned]
  OBVIOUS
<1>2. t.results = j.results /\ t.said = j.said
  BY <1>1 DEF RunType
<1> QED BY <1>1, <1>2 DEF TearDown, ToRemove

LEMMA CreateReadsNothing ==
  ASSUME RunsInv, NEW c \in Caller, NEW part \in Part, NEW next \in Stage, Create(c, part, next)
  PROVE  job'[c].results = job[c].results /\ job'[c].said = job[c].said
<1> DEFINE j == job[c]
<1>1. j \in RunType /\ job \in [Caller -> RunType]
  BY DEF RunsInv
<1>2. PICK outcome \in Outcome :
        LET k == IF outcome = "refused" THEN j ELSE [j EXCEPT !.made = @ \cup {part}]
        IN job' = [job EXCEPT ![c] =
             IF outcome = "done" THEN [k EXCEPT !.at = next, !.owned = @ \cup {part}]
                                 ELSE TearDown([k EXCEPT !.failed = TRUE])]
  BY DEF Create
<1>3. CASE outcome = "refused"
  <2>1. PICK k : k = [j EXCEPT !.failed = TRUE]
    OBVIOUS
  <2>2. k \in RunType /\ k.results = j.results /\ k.said = j.said
    BY <1>1, <2>1 DEF RunType
  <2>3. job'[c] = TearDown(k)
    BY <1>1, <1>2, <1>3, <2>1
  <2> QED BY <2>2, <2>3, TearDownReadsNothing
<1>4. CASE outcome = "lost"
  <2>1. PICK k : k = [[j EXCEPT !.made = @ \cup {part}] EXCEPT !.failed = TRUE]
    OBVIOUS
  <2>2. k \in RunType /\ k.results = j.results /\ k.said = j.said
    BY <1>1, <2>1 DEF RunType
  <2>3. job'[c] = TearDown(k)
    BY <1>1, <1>2, <1>4, <2>1
  <2> QED BY <2>2, <2>3, TearDownReadsNothing
<1>5. CASE outcome = "done"
  <2>1. PICK t : t = [[j EXCEPT !.made = @ \cup {part}] EXCEPT !.at = next, !.owned = @ \cup {part}]
    OBVIOUS
  <2>2. t.results = j.results /\ t.said = j.said
    BY <1>1, <2>1 DEF RunType
  <2>3. job'[c] = t
    BY <1>1, <1>2, <1>5, <2>1
  <2> QED BY <2>2, <2>3
<1> QED BY <1>3, <1>4, <1>5 DEF Outcome

LEMMA StartReadsNothing ==
  ASSUME RunsInv, NEW c \in Caller, NEW part \in Part, NEW step \in Stage, NEW next \in Stage,
         Start(c, part, step, next)
  PROVE  job'[c].results = job[c].results /\ job'[c].said = job[c].said
<1> DEFINE j == job[c]
<1>1. j \in RunType /\ job \in [Caller -> RunType]
  BY DEF RunsInv
<1>2. PICK outcome \in Outcome :
        job' = [job EXCEPT ![c] = IF outcome = "done" THEN [j EXCEPT !.at = next]
                                  ELSE TearDown([j EXCEPT !.failed = TRUE])]
  BY <1>1 DEF Start
<1>3. CASE outcome = "done"
  <2>1. PICK t : t = [j EXCEPT !.at = next]
    OBVIOUS
  <2>2. t.results = j.results /\ t.said = j.said
    BY <1>1, <2>1 DEF RunType
  <2>3. job'[c] = t
    BY <1>1, <1>2, <1>3, <2>1
  <2> QED BY <2>2, <2>3
<1>4. CASE outcome # "done"
  <2>1. PICK k : k = [j EXCEPT !.failed = TRUE]
    OBVIOUS
  <2>2. k \in RunType /\ k.results = j.results /\ k.said = j.said
    BY <1>1, <2>1 DEF RunType
  <2>3. job'[c] = TearDown(k)
    BY <1>1, <1>2, <1>4, <2>1
  <2> QED BY <2>2, <2>3, TearDownReadsNothing
<1> QED BY <1>3, <1>4

\* Only ReadLogs sets results; a process that dies forgets them.
LEMMA OnlyReadLogsReads ==
  ASSUME RunsInv, NEW c \in Caller, Moves(c), ~ReadLogs(c)
  PROVE  \/ job'[c].results = job[c].results /\ job'[c].said = job[c].said
         \/ job'[c].results = <<>> /\ job'[c].said = <<>>
<1>1. job[c] \in RunType /\ job \in [Caller -> RunType]
  BY DEF RunsInv
<1>2. CASE CreateNetwork(c) \/ CreateRunner(c) \/ CreateTester(c)
  BY <1>2, CreateReadsNothing DEF CreateNetwork, CreateRunner, CreateTester, Part, Stage
<1>3. CASE StartRunner(c) \/ StartTester(c)
  BY <1>3, StartReadsNothing DEF StartRunner, StartTester, Part, Stage
<1>4. CASE WaitContainer(c) \/ WaitFails(c) \/ Cancel(c) \/ TesterExits(c)
  BY <1>1, <1>4 DEF WaitContainer, WaitFails, Cancel, TesterExits, RunType
<1>5. CASE RemoveNext(c)
  BY <1>1, <1>5 DEF RemoveNext, RunType
<1>6. CASE TeardownExpires(c)
  BY <1>1, <1>6 DEF TeardownExpires, RunType
<1>7. CASE Die(c)
  <2>1. PICK t : t = [NoJob EXCEPT !.at = "dead"]
    OBVIOUS
  <2>2. t.results = <<>> /\ t.said = <<>>
    BY <2>1 DEF NoJob
  <2>3. job'[c] = t
    BY <1>1, <1>7, <2>1 DEF Die
  <2> QED BY <2>2, <2>3
<1> QED BY <1>2, <1>3, <1>4, <1>5, <1>6, <1>7 DEF Moves, JudgeStep

LEMMA ReadLogsScores ==
  ASSUME OutputsFit, RunsInv, NEW c \in Caller, ReadLogs(c), Scored(job[c])
  PROVE  Scored(job'[c])
<1> DEFINE j == job[c]
           over == [j EXCEPT !.printed = Null, !.waitErr = FALSE]
           said == IF j.waitErr \/ j.printed = Null THEN NothingSaid ELSE SaidBy[j.printed]
<1>1. j \in RunType /\ job \in [Caller -> RunType]
  BY DEF RunsInv
<1>2. PICK outcome \in {"done", "refused"} :
        job' = [job EXCEPT ![c] = TearDown(
             IF outcome = "done"
               THEN [over EXCEPT !.failed = ReadResults(j).err,
                                 !.results = ReadResults(j).results, !.said = said]
               ELSE [over EXCEPT !.failed = TRUE])]
  BY DEF ReadLogs
<1>3. said \in Sayings
  BY <1>1 DEF Sayings, RunType
<1>4. ReadResults(j).err \in BOOLEAN /\ ReadResults(j).results \in Readings
  BY <1>1, ReadingsAreTyped
<1>5. Scored([results |-> ReadResults(j).results, said |-> said])
  BY <1>1, ReadIsScored
<1>6. CASE outcome = "done"
  <2>1. PICK k : k = [over EXCEPT !.failed = ReadResults(j).err,
                                  !.results = ReadResults(j).results, !.said = said]
    OBVIOUS
  <2>2. job'[c] = TearDown(k)
    BY <1>1, <1>2, <1>6, <2>1
  <2> HIDE DEF said
  <2>3. k \in RunType /\ k.results = ReadResults(j).results /\ k.said = said
    BY <1>1, <1>3, <1>4, <2>1 DEF RunType
  <2>4. job'[c].results = ReadResults(j).results /\ job'[c].said = said
    BY <2>2, <2>3, TearDownReadsNothing
  <2> QED BY <1>5, <2>4, ScoredIsOfBoth
<1>7. CASE outcome = "refused"
  <2>1. PICK k : k = [over EXCEPT !.failed = TRUE]
    OBVIOUS
  <2>2. job'[c] = TearDown(k)
    BY <1>1, <1>2, <1>7, <2>1
  <2>3. k \in RunType /\ k.results = j.results /\ k.said = j.said
    BY <1>1, <2>1 DEF RunType
  <2>4. job'[c].results = j.results /\ job'[c].said = j.said
    BY <2>2, <2>3, TearDownReadsNothing
  <2> QED BY <2>4, ScoredIsOfBoth
<1> QED BY <1>6, <1>7

LEMMA MovesScore ==
  ASSUME OutputsFit, RunsInv, NEW c \in Caller, Moves(c), Scored(job[c])
  PROVE  Scored(job'[c])
<1>1. CASE ReadLogs(c)
  BY <1>1, ReadLogsScores
<1>2. CASE ~ReadLogs(c)
  <2>1. CASE job'[c].results = job[c].results /\ job'[c].said = job[c].said
    BY <2>1, ScoredIsOfBoth
  <2>2. CASE job'[c].results = <<>> /\ job'[c].said = <<>>
    <3>1. PICK y : y = [results |-> <<>>, said |-> <<>>]
      OBVIOUS
    <3>2. y.results = job'[c].results /\ y.said = job'[c].said /\ Scored(y)
      BY <2>2, <3>1, NothingIsScored
    <3> QED BY <3>2, ScoredIsOfBoth
  <2> QED BY <1>2, <2>1, <2>2, OnlyReadLogsReads
<1> QED BY <1>1, <1>2

\* A run that begins, or is forgotten, has read nothing.
LEMMA BeginsScored ==
  ASSUME RunsInv, NEW c \in Caller,
         job' = [job EXCEPT ![c] = NoJob] \/ \E id \in JobID : Run(c, id)
  PROVE  Scored(job'[c])
<1>1. job \in [Caller -> RunType]
  BY DEF RunsInv
<1>2. job'[c].results = <<>> /\ job'[c].said = <<>>
  <2>1. CASE job' = [job EXCEPT ![c] = NoJob]
    BY <1>1, <2>1 DEF NoJob
  <2>2. CASE \E id \in JobID : Run(c, id)
    <3>1. PICK id \in JobID : Run(c, id)
      BY <2>2
    <3>2. PICK t : t = [NoJob EXCEPT !.at = "network", !.id = id, !.alive = job[c].alive]
      OBVIOUS
    <3>3. t.results = <<>> /\ t.said = <<>>
      BY <3>2 DEF NoJob
    <3>4. job'[c] = t
      BY <1>1, <3>1, <3>2 DEF Run
    <3> QED BY <3>3, <3>4
  <2> QED BY <2>1, <2>2
<1>3. PICK y : y = [results |-> <<>>, said |-> <<>>]
  OBVIOUS
<1>4. y.results = job'[c].results /\ y.said = job'[c].said /\ Scored(y)
  BY <1>2, <1>3, NothingIsScored
<1> QED BY <1>4, ScoredIsOfBoth

-----------------------------------------------------------------------------
LEMMA NoRunScored == \A p \in Phase : NoCheck.runs[p] = NoRun /\ Scored(NoRun)
<1>1. PICK y : y = [results |-> <<>>, said |-> <<>>]
  OBVIOUS
<1>2. y.results = NoRun.results /\ y.said = NoRun.said /\ Scored(y)
  BY <1>1, NothingIsScored DEF NoRun
<1>3. Scored(NoRun)
  BY <1>2, ScoredIsOfBoth
<1> QED BY <1>3 DEF NoCheck

LEMMA ScoresInvInit == Init => ScoresInv
<1> SUFFICES ASSUME Init PROVE ScoresInv
  OBVIOUS
<1>1. job = [c \in Caller |-> NoJob] /\ check = [c \in Verifier |-> NoCheck]
  BY DEF Init, JudgeInit
<1>2. NoJob.results = <<>> /\ NoJob.said = <<>> /\ NoCheck.at = "idle"
  BY DEF NoJob, NoCheck
<1>3. PICK y : y = [results |-> <<>>, said |-> <<>>]
  OBVIOUS
<1>4. Scored(NoJob)
  <2>1. y.results = NoJob.results /\ y.said = NoJob.said /\ Scored(y)
    BY <1>2, <1>3, NothingIsScored
  <2> QED BY <2>1, ScoredIsOfBoth
<1> QED BY <1>1, <1>2, <1>4, NoRunScored DEF ScoresInv

LEMMA MovesKeepScores ==
  ASSUME OutputsFit, VerifyInv, ScoresInv, NEW c \in Caller, Moves(c), UNCHANGED check
  PROVE  ScoresInv'
<1>1. RunsInv
  BY DEF VerifyInv
<1>2. \A d \in Caller \ {c} : job'[d] = job[d]
  BY <1>1, MovesAlone
<1>3. Scored(job'[c])
  BY <1>1, MovesScore DEF ScoresInv
<1>4. \A d \in Caller : Scored(job'[d])
  BY <1>2, <1>3 DEF ScoresInv
<1> QED BY <1>4 DEF ScoresInv

LEMMA OneCheckScores ==
  ASSUME VerifyInv, ScoresInv, NEW c \in Verifier, NEW k,
         check' = [check EXCEPT ![c] = k],
         \A p \in Phase : Scored(k.runs[p]),
         k.at = "report" => k.problems = inspect(k.runs),
         \A d \in Caller \ {c} : job'[d] = job[d],
         Scored(job'[c])
  PROVE  ScoresInv'
<1>1. check'[c] = k /\ \A v \in Verifier \ {c} : check'[v] = check[v]
  BY DEF VerifyInv, ChecksInv
<1>2. \A d \in Caller : Scored(job'[d])
  BY DEF ScoresInv
<1> QED BY <1>1, <1>2 DEF ScoresInv

LEMMA ChallengeKeepsScores ==
  ASSUME VerifyInv, ScoresInv, NEW c \in Verifier, Challenge(c)
  PROVE  ScoresInv'
<1>1. PICK k : k = [check[c] EXCEPT !.at = "build"]
  OBVIOUS
<1>2. check[c] \in CheckType /\ c \in Caller
  BY VerifyAssumption DEF VerifyInv, ChecksInv
<1>3. k.at = "build" /\ k.runs = check[c].runs
  BY <1>1, <1>2 DEF CheckType
<1>4. check' = [check EXCEPT ![c] = k] /\ job' = job
  BY <1>1 DEF Challenge, VerifyInv, ChecksInv, jvars
<1>5. \A p \in Phase : Scored(k.runs[p])
  BY <1>3 DEF ScoresInv
<1>6. Scored(job'[c])
  BY <1>2, <1>4 DEF ScoresInv
<1> QED BY <1>3, <1>4, <1>5, <1>6, OneCheckScores

LEMMA BuildImageKeepsScores ==
  ASSUME VerifyInv, ScoresInv, NEW c \in Verifier, BuildImage(c)
  PROVE  ScoresInv'
<1>1. check[c] \in CheckType /\ c \in Caller /\ RunsInv /\ ChecksInv
  BY VerifyAssumption DEF VerifyInv, ChecksInv
<1>2. CASE StartPhase(c, 1)
  <2>1. PICK k : k = [check[c] EXCEPT !.at = "judge", !.phase = 1]
    OBVIOUS
  <2>2. k.at = "judge" /\ k.runs = check[c].runs
    BY <1>1, <2>1 DEF CheckType
  <2>3. check' = [check EXCEPT ![c] = k]
    BY <1>1, <1>2, <2>1 DEF StartPhase, ChecksInv
  <2>4. 1 \in 1..3
    OBVIOUS
  <2>5. \E id \in JobID : Run(c, id)
    BY <1>2, <2>4, JobNames DEF StartPhase
  <2>6. Scored(job'[c]) /\ \A d \in Caller \ {c} : job'[d] = job[d]
    BY <1>1, <2>5, BeginsScored, RunAlone
  <2>7. \A p \in Phase : Scored(k.runs[p])
    BY <2>2 DEF ScoresInv
  <2> QED BY <2>2, <2>3, <2>6, <2>7, OneCheckScores
<1>3. CASE check' = [check EXCEPT ![c].at = "error"] /\ UNCHANGED job
  <2>1. PICK k : k = [check[c] EXCEPT !.at = "error"]
    OBVIOUS
  <2>2. k.at = "error" /\ k.runs = check[c].runs
    BY <1>1, <2>1 DEF CheckType
  <2>3. check' = [check EXCEPT ![c] = k]
    BY <1>1, <1>3, <2>1 DEF ChecksInv
  <2>4. \A p \in Phase : Scored(k.runs[p])
    BY <2>2 DEF ScoresInv
  <2>5. Scored(job'[c])
    BY <1>1, <1>3 DEF ScoresInv
  <2> QED BY <1>3, <2>2, <2>3, <2>4, <2>5, OneCheckScores
<1> QED BY <1>2, <1>3 DEF BuildImage

LEMMA EndPhaseKeepsScores ==
  ASSUME VerifyInv, ScoresInv, NEW c \in Verifier, EndPhase(c)
  PROVE  ScoresInv'
<1> DEFINE j == job[c]
           n == check[c].phase
           runs == [check[c].runs EXCEPT ![Phases[n]] = [results |-> j.results, said |-> j.said, alive |-> j.alive]]
<1>1. /\ check[c] \in CheckType /\ c \in Caller /\ RunsInv /\ ChecksInv
      /\ check[c].at = "judge" /\ n \in 1..3
  BY VerifyAssumption DEF VerifyInv, ChecksInv, EndPhase
<1>2. \A p \in Phase : Scored(runs[p])
  <2>1. Scored(j) /\ \A p \in Phase : Scored(check[c].runs[p])
    BY <1>1 DEF ScoresInv
  <2>2. PICK y : y = [results |-> j.results, said |-> j.said, alive |-> j.alive]
    OBVIOUS
  <2>3. Scored(y)
    BY <2>1, <2>2, ScoredIsOfBoth
  <2>4. check[c].runs \in [Phase -> PhaseType]
    BY <1>1 DEF CheckType
  <2>5. \A p \in Phase : runs[p] \in {y, check[c].runs[p]}
    BY <2>2, <2>4
  <2> QED BY <2>1, <2>3, <2>5
<1> HIDE DEF runs
<1>3. CASE check' = [check EXCEPT ![c] = [NoCheck EXCEPT !.at = "error"]]
             /\ job' = [job EXCEPT ![c] = NoJob]
  <2>1. PICK k : k = [NoCheck EXCEPT !.at = "error"]
    OBVIOUS
  <2>2. k.at = "error" /\ k.runs = NoCheck.runs
    BY <2>1 DEF NoCheck
  <2>3. \A p \in Phase : Scored(k.runs[p])
    BY <2>2, NoRunScored
  <2>4. Scored(job'[c]) /\ \A d \in Caller \ {c} : job'[d] = job[d]
    BY <1>1, <1>3, BeginsScored, RunAlone
  <2> QED BY <1>3, <2>1, <2>2, <2>3, <2>4, OneCheckScores
<1>4. CASE /\ check' = [check EXCEPT ![c].at = "report", ![c].runs = runs,
                                     ![c].problems = inspect(runs)]
           /\ job' = [job EXCEPT ![c] = NoJob]
  <2>1. PICK k : k = [check[c] EXCEPT !.at = "report", !.runs = runs, !.problems = inspect(runs)]
    OBVIOUS
  <2>2. k.runs = runs /\ k.problems = inspect(runs)
    BY <1>1, <2>1 DEF CheckType
  <2>3. check' = [check EXCEPT ![c] = k]
    BY <1>1, <1>4, <2>1 DEF ChecksInv
  <2>4. Scored(job'[c]) /\ \A d \in Caller \ {c} : job'[d] = job[d]
    BY <1>1, <1>4, BeginsScored, RunAlone
  <2> QED BY <1>2, <2>2, <2>3, <2>4, OneCheckScores
<1>5. CASE /\ n < 3
           /\ \E s \in Suffix : Run(c, <<Phases[n + 1], s>>)
           /\ check' = [check EXCEPT ![c].phase = n + 1, ![c].runs = runs]
  <2>1. PICK k : k = [check[c] EXCEPT !.phase = n + 1, !.runs = runs]
    OBVIOUS
  <2>2. k.at = "judge" /\ k.runs = runs
    BY <1>1, <2>1 DEF CheckType
  <2>3. check' = [check EXCEPT ![c] = k]
    BY <1>1, <1>5, <2>1 DEF ChecksInv
  <2>4. n + 1 \in 1..3
    BY <1>1, <1>5
  <2>5. \E id \in JobID : Run(c, id)
    BY <1>5, <2>4, JobNames
  <2>6. Scored(job'[c]) /\ \A d \in Caller \ {c} : job'[d] = job[d]
    BY <1>1, <2>5, BeginsScored, RunAlone
  <2> QED BY <1>2, <2>2, <2>3, <2>6, OneCheckScores
<1> QED BY <1>3, <1>4, <1>5, PhasesAre DEF EndPhase, runs

LEMMA JudgeOnceKeepsScores ==
  ASSUME VerifyInv, ScoresInv, NEW c \in Caller \ Verifier, JudgeOnce(c)
  PROVE  ScoresInv'
<1>1. RunsInv /\ (\E id \in JobID : Run(c, id)) /\ check' = check
  BY DEF VerifyInv, JudgeOnce
<1>2. Scored(job'[c]) /\ \A d \in Caller \ {c} : job'[d] = job[d]
  BY <1>1, BeginsScored, RunAlone
<1>3. \A d \in Caller : Scored(job'[d])
  BY <1>2 DEF ScoresInv
<1> QED BY <1>1, <1>3 DEF ScoresInv

LEMMA ScoresInvNext ==
  ASSUME OutputsFit, VerifyInv, ScoresInv, [Next]_vars
  PROVE  ScoresInv'
<1>1. CASE Next
  BY <1>1, NextIsOneOf, MovesKeepScores, ChallengeKeepsScores, BuildImageKeepsScores,
     EndPhaseKeepsScores, JudgeOnceKeepsScores
<1>2. CASE UNCHANGED vars
  BY <1>2 DEF vars, ScoresInv
<1> QED BY <1>1, <1>2

LEMMA ScoresInvAlways ==
  ASSUME OutputsFit
  PROVE  Spec => []ScoresInv
<1>1. VerifyInv /\ ScoresInv /\ [Next]_vars => ScoresInv'
  BY ScoresInvNext
<1> QED BY <1>1, ScoresInvInit, VerifyInvAlways, PTL DEF Spec

(***************************************************************************)
(* Results are scored as the tester's last document says, requirement by   *)
(* requirement (Collect in internal/tester, through cappedBuffer and       *)
(* Logs), whenever the kept end of every output holds that document:       *)
(* however many runs, writes, requirements and failures there are.         *)
(***************************************************************************)
THEOREM ResultsAreAsSaid ==
  ASSUME OutputsFit
  PROVE  Spec => []ScoresWhatTheTesterSaid
<1>1. ScoresInv => ScoresWhatTheTesterSaid
  BY DEF ScoresInv, Scored, ScoresWhatTheTesterSaid
<1> QED BY <1>1, ScoresInvAlways, PTL

-----------------------------------------------------------------------------
\* The claims of a challenge tell a run without results from any other.
LEMMA WantedStatuses ==
  /\ DOMAIN AsDeclared = DOMAIN Requirements /\ DOMAIN AllPass = DOMAIN Requirements
  /\ DOMAIN Requirements # {}
  /\ \A i \in DOMAIN Requirements :
       AsDeclared[i] \in {"pass", "fail"} /\ AllPass[i] = "pass"
BY VerifyAssumption DEF AsDeclared, AllPass

\* The status that a run has for a requirement is the one that was said.
LEMMA StatusIsSaid ==
  ASSUME NEW run, Scored(run), run.said # <<>>, NEW i \in DOMAIN Requirements
  PROVE  StatusIn(run, i) = run.said[i]
<1>1. DOMAIN run.said = DOMAIN Requirements
  BY DEF Scored
<1>2. run.results = [k \in DOMAIN Requirements |->
                      [key |-> Requirements[k].key, status |-> run.said[k]]]
  BY <1>1 DEF Scored
<1>3. run.results[i].status = run.said[i]
  BY <1>2
<1>4. DOMAIN run.results # {}
  BY <1>2
<1>5. run.results # <<>>
  BY <1>4
<1> QED BY <1>3, <1>5 DEF StatusIn

LEMMA NothingSaidNoStatus ==
  ASSUME NEW run, Scored(run), run.said = <<>>, NEW i
  PROVE  StatusIn(run, i) = "none"
<1>1. run.results = [k \in DOMAIN run.said |->
                      [key |-> Requirements[k].key, status |-> run.said[k]]]
  BY DEF Scored
<1>2. DOMAIN run.results = {}
  BY <1>1
<1>3. run.results = <<>>
  BY <1>1, <1>2
<1> QED BY <1>3 DEF StatusIn

\* A run shows no divergence exactly when its tester said what was wanted.
LEMMA NoDivergence ==
  ASSUME NEW phase, NEW run, Scored(run), NEW wanted,
         wanted = [i \in DOMAIN Requirements |-> wanted[i]],
         run.said = [i \in DOMAIN run.said |-> run.said[i]],
         \A i \in DOMAIN Requirements : wanted[i] # "none"
  PROVE  Divergences(phase, run, wanted) = {} <=> run.said = wanted
<1>1. Divergences(phase, run, wanted) = {}
        <=> \A i \in DOMAIN Requirements : StatusIn(run, i) = wanted[i]
  <2>1. \A i \in DOMAIN Requirements :
          StatusIn(run, i) # wanted[i] => <<phase, i>> \in Divergences(phase, run, wanted)
    BY DEF Divergences
  <2>2. \A d \in Divergences(phase, run, wanted) :
          \E i \in DOMAIN Requirements : StatusIn(run, i) # wanted[i]
    BY DEF Divergences
  <2> QED BY <2>1, <2>2
<1>2. CASE run.said = <<>>
  <2>1. PICK i \in DOMAIN Requirements : TRUE
    BY WantedStatuses
  <2>2. StatusIn(run, i) # wanted[i]
    BY <1>2, NothingSaidNoStatus
  <2>3. DOMAIN wanted # {}
    BY <2>1
  <2>4. wanted # run.said
    BY <1>2, <2>3
  <2> QED BY <1>1, <2>2, <2>4
<1>3. CASE run.said # <<>>
  <2>1. DOMAIN run.said = DOMAIN Requirements
    BY <1>3 DEF Scored
  <2>2. \A i \in DOMAIN Requirements : StatusIn(run, i) = run.said[i]
    BY <1>3, StatusIsSaid
  <2>3. run.said = wanted <=> \A i \in DOMAIN Requirements : run.said[i] = wanted[i]
    BY <2>1
  <2> QED BY <1>1, <2>2, <2>3
<1> QED BY <1>2, <1>3

LEMMA SayingsAreFunctions ==
  ASSUME NEW said \in Sayings
  PROVE  said = [i \in DOMAIN said |-> said[i]]
<1>1. CASE said = <<>>
  BY <1>1
<1>2. CASE said = NothingSaid
  BY <1>2 DEF NothingSaid
<1>3. CASE \E out \in Outputs : said = SaidBy[out]
  <2>1. PICK out \in Outputs : said = SaidBy[out]
    BY <1>3
  <2>2. said = Said(Requirements, FlattenSeq(out))
    BY <2>1 DEF SaidBy
  <2> DEFINE a == FlattenSeq(out)
             document == Document[a[CHOOSE d \in Found(a) : TRUE]]
             given(key) == {r \in Range(document.results) : r.key = key}
  <2>3. said = IF MarkerLines(a) = {} THEN [i \in DOMAIN Requirements |-> "error"]
               ELSE IF Found(a) = {} THEN <<>>
               ELSE IF ~WellFormed(document, Declared) THEN <<>>
               ELSE [i \in DOMAIN Requirements |->
                      IF given(Requirements[i].key) = {} THEN "error"
                      ELSE (CHOOSE r \in given(Requirements[i].key) : TRUE).status]
    BY <2>2 DEF Said, Found, LastMarker, Declared
  <2> HIDE DEF a, document, given
  <2>4. CASE said = [i \in DOMAIN Requirements |-> "error"]
    BY <2>4
  <2>5. CASE said = [i \in DOMAIN Requirements |->
                      IF given(Requirements[i].key) = {} THEN "error"
                      ELSE (CHOOSE r \in given(Requirements[i].key) : TRUE).status]
    BY <2>5
  <2> QED BY <1>1, <2>3, <2>4, <2>5
<1> QED BY <1>1, <1>2, <1>3 DEF Sayings

\* What three scored runs amount to.
LEMMA NoProblemsMeansAsClaimed ==
  ASSUME NEW runs \in [Phase -> PhaseType],
         \A p \in Phase : Scored(runs[p])
  PROVE  inspect(runs) = {} <=> /\ runs["workspace"].said = AsDeclared
                                /\ runs["solution"].said = AllPass
                                /\ runs["repeat"].said = AllPass
<1> DEFINE w == runs["workspace"]
           s == runs["solution"]
           r == runs["repeat"]
<1>1. /\ Scored(w) /\ Scored(s) /\ Scored(r)
      /\ w.said \in Sayings /\ s.said \in Sayings /\ r.said \in Sayings
  BY PhasesAre DEF PhaseType
<1>2. /\ AsDeclared = [i \in DOMAIN Requirements |-> AsDeclared[i]]
      /\ AllPass = [i \in DOMAIN Requirements |-> AllPass[i]]
      /\ \A i \in DOMAIN Requirements : AsDeclared[i] # "none" /\ AllPass[i] # "none"
  BY WantedStatuses DEF AsDeclared, AllPass
<1>3. /\ w.said = [i \in DOMAIN w.said |-> w.said[i]]
      /\ s.said = [i \in DOMAIN s.said |-> s.said[i]]
      /\ r.said = [i \in DOMAIN r.said |-> r.said[i]]
  BY <1>1, SayingsAreFunctions
<1>4. inspect(runs) = {} <=> /\ Divergences("workspace", w, AsDeclared) = {}
                             /\ Divergences("solution", s, AllPass) = {}
                             /\ Divergences("repeat", r, Statuses(s)) = {}
  BY DEF inspect
<1> HIDE DEF w, s, r
<1>5. Divergences("workspace", w, AsDeclared) = {} <=> w.said = AsDeclared
  <2>1. /\ Scored(w) /\ AsDeclared = [i \in DOMAIN Requirements |-> AsDeclared[i]]
        /\ w.said = [i \in DOMAIN w.said |-> w.said[i]]
        /\ \A i \in DOMAIN Requirements : AsDeclared[i] # "none"
    BY <1>1, <1>2, <1>3
  <2> QED BY <2>1, NoDivergence
<1>6. Divergences("solution", s, AllPass) = {} <=> s.said = AllPass
  <2>1. /\ Scored(s) /\ AllPass = [i \in DOMAIN Requirements |-> AllPass[i]]
        /\ s.said = [i \in DOMAIN s.said |-> s.said[i]]
        /\ \A i \in DOMAIN Requirements : AllPass[i] # "none"
    BY <1>1, <1>2, <1>3
  <2> QED BY <2>1, NoDivergence
<1>7. Divergences("repeat", r, AllPass) = {} <=> r.said = AllPass
  <2>1. /\ Scored(r) /\ AllPass = [i \in DOMAIN Requirements |-> AllPass[i]]
        /\ r.said = [i \in DOMAIN r.said |-> r.said[i]]
        /\ \A i \in DOMAIN Requirements : AllPass[i] # "none"
    BY <1>1, <1>2, <1>3
  <2> QED BY <2>1, NoDivergence
<1>8. s.said = AllPass => Statuses(s) = AllPass
  <2>1. SUFFICES ASSUME s.said = AllPass PROVE Statuses(s) = AllPass
    OBVIOUS
  <2>2. DOMAIN s.said # {}
    BY <2>1, WantedStatuses
  <2>3. s.said # <<>>
    BY <2>2
  <2>4. \A i \in DOMAIN Requirements : StatusIn(s, i) = AllPass[i]
    BY <1>1, <2>1, <2>3, StatusIsSaid
  <2> QED BY <2>4, <1>2 DEF Statuses
<1>9. inspect(runs) = {} <=> w.said = AsDeclared /\ s.said = AllPass /\ r.said = AllPass
  BY <1>4, <1>5, <1>6, <1>7, <1>8
<1> QED BY <1>9 DEF w, s, r

(***************************************************************************)
(* A report without problems means that the testers said, in each of the   *)
(* three runs, what the challenge claims, and a report with problems that  *)
(* in some run they did not (inspect in internal/verify): for every list   *)
(* of requirements of which one is broken, and every interleaving of       *)
(* verifications, failures and cancellations.                              *)
(***************************************************************************)
THEOREM ReportsAreTrue ==
  ASSUME OutputsFit
  PROVE  Spec => []ValidMeansAsClaimed
<1>1. VerifyInv /\ ScoresInv => ValidMeansAsClaimed
  <2> SUFFICES ASSUME VerifyInv, ScoresInv, NEW c \in Verifier, check[c].at = "report"
               PROVE  check[c].problems = {} <=>
                        /\ check[c].runs["workspace"].said = AsDeclared
                        /\ check[c].runs["solution"].said = AllPass
                        /\ check[c].runs["repeat"].said = AllPass
    BY DEF ValidMeansAsClaimed
  <2>1. check[c].runs \in [Phase -> PhaseType]
    BY DEF VerifyInv, ChecksInv, CheckType
  <2>2. /\ \A p \in Phase : Scored(check[c].runs[p])
        /\ check[c].problems = inspect(check[c].runs)
    BY DEF ScoresInv
  <2> QED BY <2>1, <2>2, NoProblemsMeansAsClaimed
<1> QED BY <1>1, ScoresInvAlways, VerifyInvAlways, PTL
-----------------------------------------------------------------------------
\* A run has one result for every requirement, in the declared order.
Complete(run) ==
  /\ DOMAIN run.results = DOMAIN Requirements
  /\ \A i \in DOMAIN Requirements : run.results[i].key = Requirements[i].key

\* A run that is over is complete, or has failed.
Settled(j) == j.at \in {"teardown", "ended"} => j.failed \/ Complete(j)

\* A run that can only fail.
Doomed(j) ==
  \/ j.at = "dead"
  \/ j.at = "network" /\ ~j.alive
  \/ j.at \in {"teardown", "ended"} /\ j.failed

\* After a run that was cancelled there is at most one that fails.
CompleteInv ==
  /\ \A c \in Caller : Settled(job[c])
  /\ \A v \in Verifier :
       /\ check[v].at = "judge" => \A k \in 1..(check[v].phase - 1) :
            /\ Complete(check[v].runs[Phases[k]])
            /\ \/ check[v].runs[Phases[k]].alive
               \/ k = check[v].phase - 1 /\ Doomed(job[v])
       /\ check[v].at = "report" =>
            /\ \A p \in Phase : Complete(check[v].runs[p])
            /\ check[v].runs["workspace"].alive /\ check[v].runs["solution"].alive

LEMMA CompleteByResults ==
  ASSUME NEW x, NEW y, x.results = y.results, Complete(x)
  PROVE  Complete(y)
BY DEF Complete

LEMMA CollectIsComplete ==
  ASSUME NEW run, ~Collect(Requirements, run).err
  PROVE  Complete(Collect(Requirements, run))
<1> DEFINE declared == {Requirements[k].key : k \in DOMAIN Requirements}
           outcome == IF run.err THEN "no results" ELSE parse(run.stdout, declared)
           given(key) == Reported(Decoded(documentAfterMarker(run.stdout)).results, key)
           read == [k \in DOMAIN Requirements |->
                     LET key == Requirements[k].key IN
                     [key |-> key, status |-> IF given(key) = {} THEN "error"
                                              ELSE CHOOSE s \in given(key) : TRUE]]
           collected == Collect(Requirements, run)
<1>1. /\ collected.results = CASE outcome = "no results" -> allErrors(Requirements)
                                [] outcome = "unreadable" -> <<>>
                                [] outcome = "read" -> read
      /\ collected.err = (outcome = "unreadable")
  BY DEF Collect
<1>2. outcome \in {"no results", "unreadable", "read"}
  BY DEF parse
<1> HIDE DEF collected
<1>3. CASE outcome = "no results"
  <2>1. collected.results = allErrors(Requirements)
    BY <1>1, <1>3
  <2> QED BY <2>1 DEF Complete, allErrors, collected
<1>4. CASE outcome = "read"
  <2>1. collected.results = read
    BY <1>1, <1>4
  <2>2. DOMAIN read = DOMAIN Requirements
        /\ \A i \in DOMAIN Requirements : read[i].key = Requirements[i].key
    <3> HIDE DEF given
    <3> QED OBVIOUS
  <2> HIDE DEF read
  <2> QED BY <2>1, <2>2 DEF Complete, collected
<1> QED BY <1>1, <1>2, <1>3, <1>4 DEF collected

LEMMA ReadIsComplete ==
  ASSUME NEW j \in RunType, ~ReadResults(j).err
  PROVE  Complete(ReadResults(j))
<1>1. CASE j.waitErr \/ j.printed = Null
  BY <1>1, CollectIsComplete DEF ReadResults
<1>2. CASE ~(j.waitErr \/ j.printed = Null)
  <2>1. j.printed \in Outputs /\ ReadResults(j) = Collected[j.printed]
    BY <1>2 DEF RunType, ReadResults
  <2>2. ReadResults(j) = Collect(Requirements, [err |-> FALSE, stdout |-> Kept(j.printed)])
    BY <2>1 DEF Collected
  <2> QED BY <2>2, CollectIsComplete
<1> QED BY <1>1, <1>2

\* A run that is torn down before it is read has failed.
LEMMA TearDownFails ==
  ASSUME NEW k \in RunType, k.failed
  PROVE  TearDown(k).at \in {"teardown", "ended"} /\ TearDown(k).failed
<1>1. PICK t : t = [k EXCEPT !.at = TearingDown(k.owned), !.left = k.owned]
  OBVIOUS
<1>2. t.at = TearingDown(k.owned) /\ t.failed = k.failed
  BY <1>1 DEF RunType
<1> QED BY <1>1, <1>2 DEF TearDown, ToRemove, TearingDown

LEMMA CreateSettles ==
  ASSUME RunsInv, NEW c \in Caller, NEW part \in Part, NEW next \in Stage, Create(c, part, next)
  PROVE  \/ job[c].alive /\ job'[c].at = next
         \/ job'[c].at \in {"teardown", "ended"} /\ job'[c].failed
<1> DEFINE j == job[c]
           can == object[Name(c, part)] = "absent"
<1>1. j \in RunType /\ job \in [Caller -> RunType]
  BY DEF RunsInv
<1>2. PICK outcome \in Outcome :
        /\ Command(c, FALSE, can, outcome)
        /\ LET k == IF outcome = "refused" THEN j ELSE [j EXCEPT !.made = @ \cup {part}]
           IN job' = [job EXCEPT ![c] =
                IF outcome = "done" THEN [k EXCEPT !.at = next, !.owned = @ \cup {part}]
                                    ELSE TearDown([k EXCEPT !.failed = TRUE])]
  BY DEF Create
<1>3. CASE outcome = "refused"
  <2>1. PICK k : k = [j EXCEPT !.failed = TRUE]
    OBVIOUS
  <2>2. k \in RunType /\ k.failed
    BY <1>1, <2>1 DEF RunType
  <2>3. job'[c] = TearDown(k)
    BY <1>1, <1>2, <1>3, <2>1
  <2> QED BY <2>2, <2>3, TearDownFails
<1>4. CASE outcome = "lost"
  <2>1. PICK k : k = [[j EXCEPT !.made = @ \cup {part}] EXCEPT !.failed = TRUE]
    OBVIOUS
  <2>2. k \in RunType /\ k.failed
    BY <1>1, <2>1 DEF RunType
  <2>3. job'[c] = TearDown(k)
    BY <1>1, <1>2, <1>4, <2>1
  <2> QED BY <2>2, <2>3, TearDownFails
<1>5. CASE outcome = "done"
  <2>1. PICK t : t = [[j EXCEPT !.made = @ \cup {part}] EXCEPT !.at = next, !.owned = @ \cup {part}]
    OBVIOUS
  <2>2. t.at = next
    BY <1>1, <2>1 DEF RunType
  <2>3. job'[c] = t
    BY <1>1, <1>2, <1>5, <2>1
  <2>4. j.alive
    BY <1>2, <1>5 DEF Command
  <2> QED BY <2>2, <2>3, <2>4
<1> QED BY <1>3, <1>4, <1>5 DEF Outcome

LEMMA StartSettles ==
  ASSUME RunsInv, NEW c \in Caller, NEW part \in Part, NEW step \in Stage, NEW next \in Stage,
         Start(c, part, step, next)
  PROVE  \/ job'[c].at = next
         \/ job'[c].at \in {"teardown", "ended"} /\ job'[c].failed
<1> DEFINE j == job[c]
<1>1. j \in RunType /\ job \in [Caller -> RunType]
  BY DEF RunsInv
<1>2. PICK outcome \in Outcome :
        job' = [job EXCEPT ![c] = IF outcome = "done" THEN [j EXCEPT !.at = next]
                                  ELSE TearDown([j EXCEPT !.failed = TRUE])]
  BY <1>1 DEF Start
<1>3. CASE outcome = "done"
  <2>1. PICK t : t = [j EXCEPT !.at = next]
    OBVIOUS
  <2>2. t.at = next
    BY <1>1, <2>1 DEF RunType
  <2>3. job'[c] = t
    BY <1>1, <1>2, <1>3, <2>1
  <2> QED BY <2>2, <2>3
<1>4. CASE outcome # "done"
  <2>1. PICK k : k = [j EXCEPT !.failed = TRUE]
    OBVIOUS
  <2>2. k \in RunType /\ k.failed
    BY <1>1, <2>1 DEF RunType
  <2>3. job'[c] = TearDown(k)
    BY <1>1, <1>2, <1>4, <2>1
  <2> QED BY <2>2, <2>3, TearDownFails
<1> QED BY <1>3, <1>4

LEMMA ReadLogsSettles ==
  ASSUME RunsInv, NEW c \in Caller, ReadLogs(c)
  PROVE  Settled(job'[c])
<1> DEFINE j == job[c]
           over == [j EXCEPT !.printed = Null, !.waitErr = FALSE]
           said == IF j.waitErr \/ j.printed = Null THEN NothingSaid ELSE SaidBy[j.printed]
<1>1. j \in RunType /\ job \in [Caller -> RunType]
  BY DEF RunsInv
<1>2. PICK outcome \in {"done", "refused"} :
        job' = [job EXCEPT ![c] = TearDown(
             IF outcome = "done"
               THEN [over EXCEPT !.failed = ReadResults(j).err,
                                 !.results = ReadResults(j).results, !.said = said]
               ELSE [over EXCEPT !.failed = TRUE])]
  BY DEF ReadLogs
<1>3. said \in Sayings
  BY <1>1 DEF Sayings, RunType
<1>4. ReadResults(j).err \in BOOLEAN /\ ReadResults(j).results \in Readings
  BY <1>1, ReadingsAreTyped
<1>5. CASE outcome = "done"
  <2>1. PICK k : k = [over EXCEPT !.failed = ReadResults(j).err,
                                  !.results = ReadResults(j).results, !.said = said]
    OBVIOUS
  <2>2. job'[c] = TearDown(k)
    BY <1>1, <1>2, <1>5, <2>1
  <2> HIDE DEF said
  <2>3. /\ k \in RunType /\ k.results = ReadResults(j).results
        /\ k.failed = ReadResults(j).err
    BY <1>1, <1>3, <1>4, <2>1 DEF RunType
  <2>4. CASE ReadResults(j).err
    BY <2>2, <2>3, <2>4, TearDownFails DEF Settled
  <2>5. CASE ~ReadResults(j).err
    <3>1. Complete(ReadResults(j))
      BY <1>1, <2>5, ReadIsComplete
    <3>2. job'[c].results = ReadResults(j).results
      BY <2>2, <2>3, TearDownReadsNothing
    <3>3. Complete(job'[c])
      BY <3>1, <3>2, CompleteByResults
    <3> QED BY <3>3 DEF Settled
  <2> QED BY <2>4, <2>5
<1>6. CASE outcome = "refused"
  <2>1. PICK k : k = [over EXCEPT !.failed = TRUE]
    OBVIOUS
  <2>2. job'[c] = TearDown(k)
    BY <1>1, <1>2, <1>6, <2>1
  <2>3. k \in RunType /\ k.failed
    BY <1>1, <2>1 DEF RunType
  <2> QED BY <2>2, <2>3, TearDownFails DEF Settled
<1> QED BY <1>5, <1>6

\* Whatever a run does, it settles, and a doomed one stays so.
LEMMA MovesSettle ==
  ASSUME RunsInv, NEW c \in Caller, Moves(c), Settled(job[c])
  PROVE  Settled(job'[c]) /\ (Doomed(job[c]) => Doomed(job'[c]))
<1>1. job[c] \in RunType /\ job \in [Caller -> RunType]
  BY DEF RunsInv
<1>2. CASE CreateNetwork(c)
  <2>1. \/ job[c].alive /\ job'[c].at = "runner"
        \/ job'[c].at \in {"teardown", "ended"} /\ job'[c].failed
    BY <1>2, CreateSettles DEF CreateNetwork, Part, Stage
  <2>2. job[c].at = "network"
    BY <1>2 DEF CreateNetwork, Create
  <2> QED BY <2>1, <2>2 DEF Settled, Doomed
<1>3. CASE CreateRunner(c) \/ CreateTester(c)
  <2>1. \/ job'[c].at \in {"start runner", "start tester"}
        \/ job'[c].at \in {"teardown", "ended"} /\ job'[c].failed
    BY <1>3, CreateSettles DEF CreateRunner, CreateTester, Part, Stage
  <2>2. job[c].at \in {"runner", "tester"}
    BY <1>3 DEF CreateRunner, CreateTester, Create
  <2> QED BY <2>1, <2>2 DEF Settled, Doomed
<1>4. CASE StartRunner(c) \/ StartTester(c)
  <2>1. \/ job'[c].at \in {"tester", "wait"}
        \/ job'[c].at \in {"teardown", "ended"} /\ job'[c].failed
    BY <1>4, StartSettles DEF StartRunner, StartTester, Part, Stage
  <2>2. job[c].at \in {"start runner", "start tester"}
    BY <1>4 DEF StartRunner, StartTester, Start
  <2> QED BY <2>1, <2>2 DEF Settled, Doomed
<1>5. CASE WaitContainer(c) \/ WaitFails(c)
  <2>1. job[c].at = "wait" /\ job'[c].at = "logs"
    BY <1>1, <1>5 DEF WaitContainer, WaitFails, RunType
  <2> QED BY <2>1 DEF Settled, Doomed
<1>6. CASE Cancel(c) \/ TesterExits(c)
  <2>1. /\ job'[c].at = job[c].at /\ job'[c].failed = job[c].failed
        /\ job'[c].results = job[c].results /\ (~job[c].alive => ~job'[c].alive)
    BY <1>1, <1>6 DEF Cancel, TesterExits, RunType
  <2>2. Complete(job[c]) => Complete(job'[c])
    BY <2>1, CompleteByResults
  <2> QED BY <2>1, <2>2 DEF Settled, Doomed
<1>7. CASE ReadLogs(c)
  <2>1. job[c].at = "logs"
    BY <1>7 DEF ReadLogs
  <2> QED BY <1>7, <2>1, ReadLogsSettles DEF Doomed
<1>8. CASE RemoveNext(c) \/ TeardownExpires(c)
  <2>1. /\ job[c].at = "teardown" /\ job'[c].at \in {"teardown", "ended"}
        /\ job'[c].failed = job[c].failed /\ job'[c].results = job[c].results
    <3>1. CASE RemoveNext(c)
      BY <1>1, <3>1 DEF RemoveNext, RunType, TearingDown
    <3>2. CASE TeardownExpires(c)
      BY <1>1, <3>2 DEF TeardownExpires, RunType
    <3> QED BY <1>8, <3>1, <3>2
  <2>2. Complete(job[c]) => Complete(job'[c])
    BY <2>1, CompleteByResults
  <2> QED BY <2>1, <2>2 DEF Settled, Doomed
<1>9. CASE Die(c)
  <2>1. PICK t : t = [NoJob EXCEPT !.at = "dead"]
    OBVIOUS
  <2>2. t.at = "dead"
    BY <2>1 DEF NoJob
  <2>3. job'[c] = t
    BY <1>1, <1>9, <2>1 DEF Die
  <2> QED BY <2>2, <2>3 DEF Settled, Doomed
<1> QED BY <1>2, <1>3, <1>4, <1>5, <1>6, <1>7, <1>8, <1>9 DEF Moves, JudgeStep

\* A run that begins is not over, and one that begins after Ctrl-C is doomed.
LEMMA BeginsSettled ==
  ASSUME RunsInv, NEW c \in Caller,
         job' = [job EXCEPT ![c] = NoJob] \/ \E id \in JobID : Run(c, id)
  PROVE  /\ Settled(job'[c])
         /\ (\E id \in JobID : Run(c, id)) /\ ~job[c].alive => Doomed(job'[c])
<1>1. job \in [Caller -> RunType]
  BY DEF RunsInv
<1>2. CASE \E id \in JobID : Run(c, id)
  <2>1. PICK id \in JobID : Run(c, id)
    BY <1>2
  <2>2. PICK t : t = [NoJob EXCEPT !.at = "network", !.id = id, !.alive = job[c].alive]
    OBVIOUS
  <2>3. t.at = "network" /\ t.alive = job[c].alive
    BY <2>2 DEF NoJob
  <2>4. job'[c] = t
    BY <1>1, <2>1, <2>2 DEF Run
  <2> QED BY <2>3, <2>4 DEF Settled, Doomed
<1>3. CASE job' = [job EXCEPT ![c] = NoJob] /\ ~\E id \in JobID : Run(c, id)
  <2>1. job'[c].at = "idle"
    BY <1>1, <1>3 DEF NoJob
  <2> QED BY <1>3, <2>1 DEF Settled
<1> QED BY <1>2, <1>3

LEMMA CompleteInvInit == Init => CompleteInv
<1> SUFFICES ASSUME Init PROVE CompleteInv
  OBVIOUS
<1>1. job = [c \in Caller |-> NoJob] /\ check = [c \in Verifier |-> NoCheck]
  BY DEF Init, JudgeInit
<1>2. NoJob.at = "idle" /\ NoCheck.at = "idle"
  BY DEF NoJob, NoCheck
<1> QED BY <1>1, <1>2 DEF CompleteInv, Settled

LEMMA MovesKeepComplete ==
  ASSUME VerifyInv, CompleteInv, NEW c \in Caller, Moves(c), UNCHANGED check
  PROVE  CompleteInv'
<1>1. RunsInv
  BY DEF VerifyInv
<1>2. \A d \in Caller \ {c} : job'[d] = job[d]
  BY <1>1, MovesAlone
<1>3. Settled(job'[c]) /\ (Doomed(job[c]) => Doomed(job'[c]))
  BY <1>1, MovesSettle DEF CompleteInv
<1>4. \A d \in Caller : Settled(job'[d]) /\ (Doomed(job[d]) => Doomed(job'[d]))
  BY <1>2, <1>3 DEF CompleteInv
<1> QED BY <1>4, VerifyAssumption DEF CompleteInv

\* What a verifier's own step has to show.
LEMMA OneCheckCompletes ==
  ASSUME VerifyInv, CompleteInv, NEW c \in Verifier, NEW k,
         check' = [check EXCEPT ![c] = k],
         Settled(job'[c]),
         \A d \in Caller \ {c} : job'[d] = job[d],
         k.at = "judge" => \A i \in 1..(k.phase - 1) :
           /\ Complete(k.runs[Phases[i]])
           /\ k.runs[Phases[i]].alive \/ (i = k.phase - 1 /\ Doomed(job'[c])),
         k.at = "report" =>
           /\ \A p \in Phase : Complete(k.runs[p])
           /\ k.runs["workspace"].alive /\ k.runs["solution"].alive
  PROVE  CompleteInv'
<1>1. check'[c] = k /\ \A v \in Verifier \ {c} : check'[v] = check[v] /\ job'[v] = job[v]
  BY VerifyAssumption DEF VerifyInv, ChecksInv
<1>2. \A d \in Caller : Settled(job'[d])
  BY DEF CompleteInv
<1> QED BY <1>1, <1>2 DEF CompleteInv

LEMMA ChallengeKeepsComplete ==
  ASSUME VerifyInv, CompleteInv, NEW c \in Verifier, Challenge(c)
  PROVE  CompleteInv'
<1>1. PICK k : k = [check[c] EXCEPT !.at = "build"]
  OBVIOUS
<1>2. check[c] \in CheckType /\ c \in Caller
  BY VerifyAssumption DEF VerifyInv, ChecksInv
<1>3. k.at = "build"
  BY <1>1, <1>2 DEF CheckType
<1>4. check' = [check EXCEPT ![c] = k] /\ job' = job
  BY <1>1 DEF Challenge, VerifyInv, ChecksInv, jvars
<1>5. Settled(job'[c])
  BY <1>2, <1>4 DEF CompleteInv
<1> QED BY <1>3, <1>4, <1>5, OneCheckCompletes

LEMMA BuildImageKeepsComplete ==
  ASSUME VerifyInv, CompleteInv, NEW c \in Verifier, BuildImage(c)
  PROVE  CompleteInv'
<1>1. check[c] \in CheckType /\ c \in Caller /\ RunsInv /\ ChecksInv
  BY VerifyAssumption DEF VerifyInv, ChecksInv
<1>2. CASE StartPhase(c, 1)
  <2>1. PICK k : k = [check[c] EXCEPT !.at = "judge", !.phase = 1]
    OBVIOUS
  <2>2. k.at = "judge" /\ k.phase = 1
    BY <1>1, <2>1 DEF CheckType
  <2>3. check' = [check EXCEPT ![c] = k]
    BY <1>1, <1>2, <2>1 DEF StartPhase, ChecksInv
  <2>4. 1 \in 1..3 /\ 1..(1 - 1) = {}
    OBVIOUS
  <2>5. \E id \in JobID : Run(c, id)
    BY <1>2, <2>4, JobNames DEF StartPhase
  <2>6. Settled(job'[c]) /\ \A d \in Caller \ {c} : job'[d] = job[d]
    BY <1>1, <2>5, BeginsSettled, RunAlone
  <2> QED BY <2>2, <2>3, <2>4, <2>6, OneCheckCompletes
<1>3. CASE check' = [check EXCEPT ![c].at = "error"] /\ UNCHANGED job
  <2>1. PICK k : k = [check[c] EXCEPT !.at = "error"]
    OBVIOUS
  <2>2. k.at = "error"
    BY <1>1, <2>1 DEF CheckType
  <2>3. check' = [check EXCEPT ![c] = k]
    BY <1>1, <1>3, <2>1 DEF ChecksInv
  <2>4. Settled(job'[c])
    BY <1>1, <1>3 DEF CompleteInv
  <2> QED BY <1>3, <2>2, <2>3, <2>4, OneCheckCompletes
<1> QED BY <1>2, <1>3 DEF BuildImage

LEMMA EndPhaseKeepsComplete ==
  ASSUME VerifyInv, CompleteInv, NEW c \in Verifier, EndPhase(c)
  PROVE  CompleteInv'
<1> DEFINE j == job[c]
           n == check[c].phase
           y == [results |-> j.results, said |-> j.said, alive |-> j.alive]
           runs == [check[c].runs EXCEPT ![Phases[n]] = y]
<1>1. /\ check[c] \in CheckType /\ c \in Caller /\ RunsInv /\ ChecksInv
      /\ check[c].at = "judge" /\ n \in 1..3 /\ j.at = "ended"
  BY VerifyAssumption DEF VerifyInv, ChecksInv, EndPhase
<1>2. CASE check' = [check EXCEPT ![c] = [NoCheck EXCEPT !.at = "error"]]
             /\ job' = [job EXCEPT ![c] = NoJob]
  <2>1. PICK k : k = [NoCheck EXCEPT !.at = "error"]
    OBVIOUS
  <2>2. k.at = "error"
    BY <2>1 DEF NoCheck
  <2>3. Settled(job'[c]) /\ \A d \in Caller \ {c} : job'[d] = job[d]
    BY <1>1, <1>2, BeginsSettled, RunAlone
  <2> QED BY <1>2, <2>1, <2>2, <2>3, OneCheckCompletes
<1>3. ASSUME Counts(j)
      PROVE  /\ \A i \in 1..n : Complete(runs[Phases[i]])
             /\ \A i \in 1..(n - 1) : runs[Phases[i]].alive
             /\ runs[Phases[n]].alive = j.alive
  <2>1. ~j.failed
    BY <1>3 DEF Counts
  <2>2. Complete(j)
    BY <1>1, <2>1 DEF CompleteInv, Settled
  <2>3. \A i \in 1..(n - 1) : Complete(check[c].runs[Phases[i]]) /\ check[c].runs[Phases[i]].alive
    BY <1>1, <2>1 DEF CompleteInv, Doomed
  <2>4. y.results = j.results /\ y.alive = j.alive
    OBVIOUS
  <2> HIDE DEF y
  <2>5. Complete(y)
    BY <2>2, <2>4, CompleteByResults
  <2>6. check[c].runs \in [Phase -> PhaseType] /\ \A i \in 1..3 : Phases[i] \in Phase
    BY <1>1, PhasesAre DEF CheckType
  <2>7. runs[Phases[n]] = y
    BY <1>1, <2>6
  <2>8. \A i \in 1..(n - 1) : i \in 1..3 /\ Phases[i] # Phases[n]
    <3>1. n = 1 \/ n = 2 \/ n = 3
      BY <1>1
    <3>2. CASE n = 1
      BY <3>2
    <3>3. CASE n = 2
      BY <3>3, PhasesAre
    <3>4. CASE n = 3
      <4>1. \A i \in 1..2 : i = 1 \/ i = 2
        OBVIOUS
      <4> QED BY <3>4, <4>1, PhasesAre
    <3> QED BY <3>1, <3>2, <3>3, <3>4
  <2>9. \A i \in 1..(n - 1) : runs[Phases[i]] = check[c].runs[Phases[i]]
    BY <2>6, <2>8
  <2> HIDE DEF runs
  <2>10. \A i \in 1..n : i = n \/ i \in 1..(n - 1)
    BY <1>1
  <2> QED BY <2>3, <2>4, <2>5, <2>7, <2>9, <2>10
<1> HIDE DEF runs
<1>4. CASE /\ Counts(j) /\ n = 3
           /\ check' = [check EXCEPT ![c].at = "report", ![c].runs = runs,
                                     ![c].problems = inspect(runs)]
           /\ job' = [job EXCEPT ![c] = NoJob]
  <2>1. PICK k : k = [check[c] EXCEPT !.at = "report", !.runs = runs, !.problems = inspect(runs)]
    OBVIOUS
  <2>2. k.at = "report" /\ k.runs = runs
    BY <1>1, <2>1 DEF CheckType
  <2>3. check' = [check EXCEPT ![c] = k]
    BY <1>1, <1>4, <2>1 DEF ChecksInv
  <2>4. Settled(job'[c]) /\ \A d \in Caller \ {c} : job'[d] = job[d]
    BY <1>1, <1>4, BeginsSettled, RunAlone
  <2>5. /\ Complete(runs["workspace"]) /\ Complete(runs["solution"]) /\ Complete(runs["repeat"])
        /\ runs["workspace"].alive /\ runs["solution"].alive
    <3>1. 1 \in 1..3 /\ 2 \in 1..3 /\ 3 \in 1..3 /\ 1 \in 1..(3 - 1) /\ 2 \in 1..(3 - 1)
      OBVIOUS
    <3> QED BY <1>3, <1>4, <3>1, PhasesAre
  <2> QED BY <2>2, <2>3, <2>4, <2>5, PhasesAre, OneCheckCompletes
<1>5. CASE /\ Counts(j) /\ n < 3
           /\ \E s \in Suffix : Run(c, <<Phases[n + 1], s>>)
           /\ check' = [check EXCEPT ![c].phase = n + 1, ![c].runs = runs]
  <2>1. PICK k : k = [check[c] EXCEPT !.phase = n + 1, !.runs = runs]
    OBVIOUS
  <2>2. k.at = "judge" /\ k.runs = runs /\ k.phase = n + 1
    BY <1>1, <2>1 DEF CheckType
  <2>3. check' = [check EXCEPT ![c] = k]
    BY <1>1, <1>5, <2>1 DEF ChecksInv
  <2>4. n + 1 \in 1..3 /\ (n + 1) - 1 = n
    BY <1>1, <1>5
  <2>5. \E id \in JobID : Run(c, id)
    BY <1>5, <2>4, JobNames
  <2>6. /\ Settled(job'[c]) /\ (\A d \in Caller \ {c} : job'[d] = job[d])
        /\ ~j.alive => Doomed(job'[c])
    BY <1>1, <2>5, BeginsSettled, RunAlone
  <2>7. \A i \in 1..n : /\ Complete(runs[Phases[i]])
                        /\ runs[Phases[i]].alive \/ (i = n /\ Doomed(job'[c]))
    <3>1. \A i \in 1..n : i = n \/ i \in 1..(n - 1)
      BY <1>1
    <3> QED BY <1>3, <1>5, <2>6, <3>1
  <2>8. \A i \in 1..(k.phase - 1) :
          /\ Complete(k.runs[Phases[i]])
          /\ k.runs[Phases[i]].alive \/ (i = k.phase - 1 /\ Doomed(job'[c]))
    BY <2>2, <2>4, <2>7
  <2>9. k.at # "report"
    BY <2>2
  <2> QED BY <2>3, <2>6, <2>8, <2>9, OneCheckCompletes
<1> QED BY <1>2, <1>4, <1>5, PhasesAre DEF EndPhase, runs, y

LEMMA JudgeOnceKeepsComplete ==
  ASSUME VerifyInv, CompleteInv, NEW c \in Caller \ Verifier, JudgeOnce(c)
  PROVE  CompleteInv'
<1>1. RunsInv /\ (\E id \in JobID : Run(c, id)) /\ check' = check
  BY DEF VerifyInv, JudgeOnce
<1>2. Settled(job'[c]) /\ \A d \in Caller \ {c} : job'[d] = job[d]
  BY <1>1, BeginsSettled, RunAlone
<1>3. /\ \A d \in Caller : Settled(job'[d])
      /\ \A v \in Verifier : job'[v] = job[v]
  BY <1>2, VerifyAssumption DEF CompleteInv
<1> QED BY <1>1, <1>3 DEF CompleteInv

LEMMA CompleteInvNext ==
  ASSUME VerifyInv, CompleteInv, [Next]_vars
  PROVE  CompleteInv'
<1>1. CASE Next
  BY <1>1, NextIsOneOf, MovesKeepComplete, ChallengeKeepsComplete, BuildImageKeepsComplete,
     EndPhaseKeepsComplete, JudgeOnceKeepsComplete
<1>2. CASE UNCHANGED vars
  BY <1>2 DEF vars, CompleteInv
<1> QED BY <1>1, <1>2

(***************************************************************************)
(* A report rests on three complete runs, of which only the last can have  *)
(* been cancelled (Challenge and judge in internal/verify): for any        *)
(* testers, whatever they print and however much of it is kept, and any    *)
(* interleaving of verifications, failures and cancellations.              *)
(***************************************************************************)
THEOREM ReportsRestOnRuns == Spec => []ReportsAreComplete
<1>1. CompleteInv => ReportsAreComplete
  BY DEF CompleteInv, Complete, ReportsAreComplete
<1>2. VerifyInv /\ CompleteInv /\ [Next]_vars => CompleteInv'
  BY CompleteInvNext
<1> QED BY <1>1, <1>2, CompleteInvInit, VerifyInvAlways, PTL DEF Spec
=============================================================================
