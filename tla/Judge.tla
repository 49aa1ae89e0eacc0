------------------------------- MODULE Judge -------------------------------
(***************************************************************************)
(* Judging (internal/judge): a run makes a network and two containers      *)
(* through the docker command (internal/container/cli.go), waits for the   *)
(* tester, reads its output, and removes what it made.                     *)
(*                                                                         *)
(* A command may fail having done nothing ("refused"), or having done what *)
(* it was asked, when its answer is late or lost ("lost").                 *)
(***************************************************************************)
EXTENDS Naturals, FiniteSets, Sequences, SequencesExt, TesterResults, CappedBuffer

CONSTANTS
  Caller,        \* processes that judge, each one run at a time
  JobID,         \* names of runs
  Requirements,  \* of the challenge that is judged: Seq([key, broken])
  Prints,        \* what the testers of each run of each caller may print, as
                 \* sequences of writes
  LogLimit,      \* how much of a container's output is kept
  MaxFaults,     \* bound: commands that fail for no reason, and processes that die
  Null           \* no job, or nothing printed

Part == {"network", "runner", "tester"}

ASSUME JudgeAssumption ==
  /\ Null \notin JobID
  /\ \A c \in Caller : \A id \in JobID :
       /\ Null \notin Prints[c][id]
       /\ \A out \in Prints[c][id] : out \in Seq(Seq(Symbol))
  /\ LogLimit \in Nat /\ MaxFaults \in Nat
  /\ \A i, j \in DOMAIN Requirements : i # j => Requirements[i].key # Requirements[j].key

\* In "job", "made" and "said" are there for the properties: what the engine made
\* for the run, and what its tester said.
VARIABLES
  object,   \* the engine's objects: (job id, part) -> how far along it is
  job,      \* what each caller's run is doing
  faults    \* failures so far

jvars == <<object, job, faults>>

NoJob == [at |-> "idle", id |-> Null, alive |-> TRUE, waitErr |-> FALSE,
          owned |-> {}, made |-> {}, left |-> {}, reported |-> {},
          failed |-> FALSE, printed |-> Null,
          results |-> <<>>, said |-> <<>>]

JudgeInit ==
  /\ object = [n \in JobID \X Part |-> "absent"]
  /\ job = [c \in Caller |-> NoJob]
  /\ faults = 0
-----------------------------------------------------------------------------
(***************************************************************************)
(* One docker command.  "can" says whether the engine would do it.  The    *)
(* end of the run's own context kills the command that is under way, and   *)
(* the engine may have done it even so; nothing is at fault then.          *)
(***************************************************************************)
Command(c, detached, can, outcome) ==
  LET live == detached \/ job[c].alive IN
  \/ outcome = "done" /\ can /\ live /\ UNCHANGED faults
  \/ outcome = "refused" /\ ~(can /\ live) /\ UNCHANGED faults
  \/ outcome = "lost" /\ can /\ ~live /\ UNCHANGED faults
  \/ /\ outcome \in {"refused", "lost"} /\ can /\ live
     /\ faults < MaxFaults
     /\ faults' = faults + 1

Outcome == {"done", "refused", "lost"}

\* Mutant: everything of the run's name is removed.
ToRemoveByName(owned) == Part

\* What teardown removes: what this run brought into existence.
ToRemove(owned) == owned

\* Mutant: the network is removed before what is attached to it.
NextToRemoveNetworkFirst(left) ==
  IF "network" \in left THEN "network" ELSE CHOOSE p \in left : TRUE

\* One part after the other, the containers before the network.
Turn == [runner |-> 1, tester |-> 2, network |-> 3]
NextToRemove(left) == CHOOSE p \in left : \A q \in left : Turn[p] <= Turn[q]

\* Where a run is that still has this to remove.
TearingDown(left) == IF left = {} THEN "ended" ELSE "teardown"

\* The deferred teardown begins, however the run ended.
TearDown(j) == LET left == ToRemove(j.owned) IN
  [j EXCEPT !.at = TearingDown(left), !.left = left]

Name(c, part) == <<job[c].id, part>>

\* Run, with a job that has a valid name, a specification and a workspace.
Run(c, id) ==
  job' = [job EXCEPT ![c] = [NoJob EXCEPT !.at = "network", !.id = id, !.alive = job[c].alive]]

\* CreateNetwork and CreateContainer: the name must not be in use.
Create(c, part, next) ==
  /\ job[c].at = part
  /\ \E outcome \in Outcome :
       /\ Command(c, FALSE, object[Name(c, part)] = "absent", outcome)
       /\ object' = IF outcome = "refused" THEN object
                    ELSE [object EXCEPT ![Name(c, part)] = "created"]
       /\ LET j == IF outcome = "refused" THEN job[c]
                   ELSE [job[c] EXCEPT !.made = @ \cup {part}]
          IN job' = [job EXCEPT ![c] =
               IF outcome = "done" THEN [j EXCEPT !.at = next, !.owned = @ \cup {part}]
                                   ELSE TearDown([j EXCEPT !.failed = TRUE])]

CreateNetwork(c) == Create(c, "network", "runner")
CreateRunner(c) == Create(c, "runner", "start runner")
CreateTester(c) == Create(c, "tester", "start tester")

Start(c, part, step, next) ==
  /\ job[c].at = step
  /\ \E outcome \in Outcome :
       /\ Command(c, FALSE, object[Name(c, part)] = "created", outcome)
       /\ object' = IF outcome = "refused" THEN object
                    ELSE [object EXCEPT ![Name(c, part)] = "running"]
       /\ job' = [job EXCEPT ![c] =
            IF outcome = "done" THEN [@ EXCEPT !.at = next]
                                ELSE TearDown([@ EXCEPT !.failed = TRUE])]

StartRunner(c) == Start(c, "runner", "start runner", "tester")
StartTester(c) == Start(c, "tester", "start tester", "wait")

\* The engine's part: a tester exits, or runs on.
TesterExits(c) ==
  /\ "tester" \in job[c].made
  /\ object[Name(c, "tester")] = "running"
  /\ object' = [object EXCEPT ![Name(c, "tester")] = "exited"]
  /\ \E out \in Prints[c][job[c].id] : job' = [job EXCEPT ![c].printed = out]
  /\ UNCHANGED faults

WaitContainer(c) ==
  /\ job[c].at = "wait"
  /\ object[Name(c, "tester")] = "exited"
  /\ job[c].alive
  /\ job' = [job EXCEPT ![c].at = "logs"]
  /\ UNCHANGED <<object, faults>>

\* Mutant: only Ctrl-C ends a wait.
WaitUnbounded(c) ==
  /\ job[c].at = "wait"
  /\ ~job[c].alive
  /\ job' = [job EXCEPT ![c].at = "logs", ![c].waitErr = TRUE]
  /\ UNCHANGED <<object, faults>>

\* The tester's timeout, the end of the run's context, or a failure of docker.
WaitFails(c) ==
  /\ job[c].at = "wait"
  /\ job' = [job EXCEPT ![c].at = "logs", ![c].waitErr = TRUE]
  /\ UNCHANGED <<object, faults>>

\* Logs keeps what fits of an output, which arrives in writes.
Kept(out) ==
  LET buffer[n \in 0..Len(out)] ==
        IF n = 0 THEN newCappedBuffer(LogLimit) ELSE Write(buffer[n - 1], out[n])
  IN String(buffer[Len(out)])

Outputs == UNION {UNION {Prints[c][id] : id \in JobID} : c \in Caller}

\* What is read from each output, and, for the properties, what it said.
Collected == [out \in Outputs |->
  Collect(Requirements, [err |-> FALSE, stdout |-> Kept(out)])]
SaidBy == [out \in Outputs |-> Said(Requirements, FlattenSeq(out))]

(***************************************************************************)
(* Testers print little, or their last document at the end: what is kept   *)
(* of an output then holds that document.                                  *)
(***************************************************************************)
OutputsFit == \A out \in Outputs : LET all == FlattenSeq(out) IN
  \/ Len(all) <= LogLimit
  \/ \E m \in MarkerLines(all) : m > Len(all) - newCappedBuffer(LogLimit).tailLimit

NothingSaid == [i \in DOMAIN Requirements |-> "error"]

\* Only the output of a tester that was seen to exit is complete.
ReadResults(j) ==
  IF j.waitErr \/ j.printed = Null
    THEN Collect(Requirements, [err |-> j.waitErr, stdout |-> <<>>])
    ELSE Collected[j.printed]

(***************************************************************************)
(* The tester's output is read on a context of its own.  The runner's is   *)
(* read too, and nothing hangs on it.                                      *)
(***************************************************************************)
ReadLogs(c) == LET j == job[c]
                   over == [j EXCEPT !.printed = Null, !.waitErr = FALSE]
                   said == IF j.waitErr \/ j.printed = Null THEN NothingSaid ELSE SaidBy[j.printed] IN
  /\ j.at = "logs"
  /\ \E outcome \in {"done", "refused"} :
       /\ Command(c, TRUE, TRUE, outcome)
       /\ job' = [job EXCEPT ![c] = TearDown(
            IF outcome = "done"
              THEN [over EXCEPT !.failed = ReadResults(j).err,
                                !.results = ReadResults(j).results, !.said = said]
              ELSE [over EXCEPT !.failed = TRUE])]
  /\ UNCHANGED object

\* A network that a running container is attached to cannot be removed.
Removable(id, part) ==
  part = "network" => \A p \in {"runner", "tester"} : object[<<id, p>>] # "running"

(***************************************************************************)
(* RemoveContainer, by force, and RemoveNetwork, one at a time on a        *)
(* context of their own.  A failure is noted and the rest goes on;         *)
(* removing what is not there is success.                                  *)
(***************************************************************************)
RemoveNext(c) == LET part == NextToRemove(job[c].left) IN
  /\ job[c].at = "teardown"
  /\ \E outcome \in Outcome :
       /\ Command(c, TRUE, Removable(job[c].id, part), outcome)
       /\ object' = IF outcome = "refused" THEN object
                    ELSE [object EXCEPT ![Name(c, part)] = "absent"]
       /\ job' = [job EXCEPT
            ![c].made = IF outcome = "refused" THEN @ ELSE @ \ {part},
            ![c].reported = IF outcome = "done" THEN @ ELSE @ \cup {part},
            ![c].left = @ \ {part},
            ![c].at = TearingDown(job[c].left \ {part})]

(***************************************************************************)
(* One slow removal uses up the time of the whole teardown: the removals   *)
(* after it fail at once, and each is noted.                               *)
(***************************************************************************)
TeardownExpires(c) == LET part == NextToRemove(job[c].left) IN
  /\ job[c].at = "teardown"
  /\ \E outcome \in {"refused", "lost"} :
       /\ Command(c, TRUE, TRUE, outcome)
       /\ outcome = "lost" => Removable(job[c].id, part)
       /\ object' = IF outcome = "refused" THEN object
                    ELSE [object EXCEPT ![Name(c, part)] = "absent"]
       /\ job' = [job EXCEPT
            ![c].made = IF outcome = "refused" THEN @ ELSE @ \ {part},
            ![c].reported = @ \cup job[c].left,
            ![c].left = {}, ![c].at = "ended"]

\* Ctrl-C reaches the run through its context.
Cancel(c) ==
  /\ job[c].at \notin {"idle", "ended", "dead"}
  /\ job[c].alive
  /\ job' = [job EXCEPT ![c].alive = FALSE]
  /\ UNCHANGED <<object, faults>>

\* The process dies in the middle of a run.
Die(c) ==
  /\ job[c].at \notin {"idle", "ended", "dead"}
  /\ faults < MaxFaults
  /\ faults' = faults + 1
  /\ job' = [job EXCEPT ![c] = [NoJob EXCEPT !.at = "dead"]]
  /\ UNCHANGED object

JudgeStep(c) ==
  \/ CreateNetwork(c) \/ CreateRunner(c) \/ StartRunner(c)
  \/ CreateTester(c) \/ StartTester(c)
  \/ WaitContainer(c) \/ WaitFails(c) \/ ReadLogs(c)
  \/ RemoveNext(c) \/ TeardownExpires(c)

JudgeNext ==
  \E c \in Caller : JudgeStep(c) \/ TesterExits(c) \/ Die(c)
-----------------------------------------------------------------------------
JudgeTypeOK ==
  /\ object \in [JobID \X Part -> {"absent", "created", "running", "exited"}]
  /\ \A c \in Caller :
       /\ job[c].at \in {"idle", "network", "runner", "start runner", "tester",
                         "start tester", "wait", "logs", "teardown", "ended", "dead"}
       /\ job[c].id \in JobID \cup {Null}
       /\ job[c].printed # Null => job[c].printed \in Prints[c][job[c].id]
       /\ job[c].owned \cup job[c].made \cup job[c].left \cup job[c].reported \subseteq Part
       /\ {job[c].alive, job[c].waitErr, job[c].failed} \subseteq BOOLEAN
       /\ \A i \in DOMAIN job[c].results : job[c].results[i].status \in Status
  /\ faults \in 0..MaxFaults

(***************************************************************************)
(* "It removes only what this call actually created": whatever two runs of *)
(* one name do, and whatever runs that died left, an object only goes when *)
(* the run that made it removes it.                                        *)
(***************************************************************************)
RemovesOnlyItsOwn == [][
  \A n \in JobID \X Part : object[n] # "absent" /\ object'[n] = "absent" =>
    \E c \in Caller : /\ job[c].id = n[1]
                      /\ n[2] \in job[c].made /\ n[2] \notin job'[c].made]_jvars

(***************************************************************************)
(* "Something was left behind" is what a TeardownError says, and it says   *)
(* so of everything that the run knows it made.  One thing more may be     *)
(* left: what a create made whose command reported a failure or was killed *)
(* by Ctrl-C, and then that failure is the run's.  A run that the engine   *)
(* serves, and that nobody cancels, leaves nothing behind.                 *)
(***************************************************************************)
NothingLeftUnsaid == \A c \in Caller : job[c].at = "ended" =>
  LET unreported == job[c].made \ job[c].reported IN
  /\ unreported \cap job[c].owned = {}
  /\ Cardinality(unreported) <= 1
  /\ unreported # {} => job[c].failed
  /\ faults = 0 /\ job[c].alive => job[c].made = {}
=============================================================================
