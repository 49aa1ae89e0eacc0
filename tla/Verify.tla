------------------------------- MODULE Verify -------------------------------
(***************************************************************************)
(* Verifying a challenge (internal/verify): its image is built, and it is  *)
(* judged three times, against its workspace and twice against its         *)
(* solution.  Several processes may verify the same challenge at once.     *)
(***************************************************************************)
EXTENDS Judge

CONSTANTS
  Verifier,  \* the callers that verify; others judge once, under any name
  Suffix     \* random endings of job names, which may collide

Phases == <<"workspace", "solution", "repeat">>
Phase == Range(Phases)

ASSUME VerifyAssumption ==
  /\ Verifier \subseteq Caller
  /\ JobID = Phase \X Suffix
  /\ \E i \in DOMAIN Requirements : Requirements[i].broken

VARIABLE check   \* what each verifier has found

vars == <<object, job, faults, check>>

\* A run that is over: its results, and, for the properties, what its tester said
\* and whether nobody had cancelled it.
NoRun == [results |-> <<>>, said |-> <<>>, alive |-> TRUE]

NoCheck == [at |-> "idle", phase |-> 0, runs |-> [p \in Phase |-> NoRun],
            problems |-> {}]

Init == JudgeInit /\ check = [c \in Verifier |-> NoCheck]

\* Another use of the judge, which may have been given a name that is in use.
JudgeOnce(c) ==
  /\ job[c].at = "idle"
  /\ \E id \in JobID : Run(c, id)
  /\ UNCHANGED <<object, faults, check>>

Challenge(c) ==
  /\ check[c].at = "idle"
  /\ check' = [check EXCEPT ![c].at = "build"]
  /\ UNCHANGED jvars

StartPhase(c, n) ==
  /\ check' = [check EXCEPT ![c].at = "judge", ![c].phase = n]
  /\ \E s \in Suffix : Run(c, <<Phases[n], s>>)

BuildImage(c) ==
  /\ check[c].at = "build"
  /\ \/ StartPhase(c, 1)
     \/ /\ check' = [check EXCEPT ![c].at = "error"]
        /\ UNCHANGED job
  /\ UNCHANGED <<object, faults>>

StatusIn(run, i) == IF run.results = <<>> THEN "none" ELSE run.results[i].status

AsDeclared == [i \in DOMAIN Requirements |-> IF Requirements[i].broken THEN "fail" ELSE "pass"]
AllPass == [i \in DOMAIN Requirements |-> "pass"]
Statuses(run) == [i \in DOMAIN Requirements |-> StatusIn(run, i)]

Divergences(phase, run, wanted) ==
  {<<phase, i>> : i \in {j \in DOMAIN Requirements : StatusIn(run, j) # wanted[j]}}

\* Mutant: it is enough that the solution passed once.
inspectOnce(runs) ==
  Divergences("workspace", runs["workspace"], AsDeclared)
    \cup Divergences("solution", runs["solution"], AllPass)

(***************************************************************************)
(* The workspace fails exactly what is declared broken, the solution       *)
(* passes everything, and does so twice.                                   *)
(***************************************************************************)
inspect(runs) ==
  Divergences("workspace", runs["workspace"], AsDeclared)
    \cup Divergences("solution", runs["solution"], AllPass)
    \cup Divergences("repeat", runs["repeat"], Statuses(runs["solution"]))

\* Mutant: whatever came of a run, the next one follows.
CountsAlways(j) == TRUE

\* A run with results counts, whatever it left behind.
Counts(j) == ~j.failed /\ (j.reported = {} \/ j.results # <<>>)

(***************************************************************************)
(* The run of a phase is over: the next one starts, or the three are       *)
(* compared, or there is nothing to conclude.                              *)
(***************************************************************************)
EndPhase(c) == LET j == job[c]
                   n == check[c].phase
                   runs == [check[c].runs EXCEPT ![Phases[n]] =
                     [results |-> j.results, said |-> j.said, alive |-> j.alive]] IN
  /\ check[c].at = "judge"
  /\ j.at = "ended"
  /\ \/ /\ ~Counts(j)
        /\ check' = [check EXCEPT ![c] = [NoCheck EXCEPT !.at = "error"]]
        /\ job' = [job EXCEPT ![c] = NoJob]
     \/ /\ Counts(j) /\ n = Len(Phases)
        /\ check' = [check EXCEPT ![c].at = "report", ![c].runs = runs,
                                  ![c].problems = inspect(runs)]
        /\ job' = [job EXCEPT ![c] = NoJob]
     \/ /\ Counts(j) /\ n < Len(Phases)
        /\ \E s \in Suffix : Run(c, <<Phases[n + 1], s>>)
        /\ check' = [check EXCEPT ![c].phase = n + 1, ![c].runs = runs]
  /\ UNCHANGED <<object, faults>>

VerifyStep(c) == BuildImage(c) \/ EndPhase(c)

Next ==
  \/ JudgeNext /\ UNCHANGED check
  \/ \E c \in Verifier : Challenge(c) \/ VerifyStep(c) \/ (Cancel(c) /\ UNCHANGED check)
  \/ \E c \in Caller \ Verifier : JudgeOnce(c)

Spec == Init /\ [][Next]_vars

(***************************************************************************)
(* Every docker command answers within its timeout, a wait within the      *)
(* tester's, and a build at some time.  Testers need not exit.             *)
(***************************************************************************)
FairSpec ==
  /\ Spec
  /\ \A c \in Verifier : WF_vars(VerifyStep(c) \/ (JudgeStep(c) /\ UNCHANGED check))
-----------------------------------------------------------------------------
TypeOK ==
  /\ JudgeTypeOK
  /\ \A c \in Verifier :
       /\ check[c].at \in {"idle", "build", "judge", "report", "error"}
       /\ check[c].phase \in 0..Len(Phases)
       /\ check[c].problems \subseteq Phase \X DOMAIN Requirements
       /\ \A p \in Phase : \A i \in DOMAIN check[c].runs[p].results :
            check[c].runs[p].results[i].status \in Status
(***************************************************************************)
(* "Exactly one result per declared requirement, in the order the          *)
(* challenge declares them", and each is what the tester's last document   *)
(* says, although only both ends of its output are kept; every document    *)
(* here, with what follows it, fits into the kept end.  What a tester did  *)
(* not say, or did not live to say, is never a pass, and only an improper  *)
(* last document leaves a run without results.                             *)
(***************************************************************************)
ScoresWhatTheTesterSaid ==
  \A c \in Caller : job[c].results = [i \in DOMAIN job[c].said |->
    [key |-> Requirements[i].key, status |-> job[c].said[i]]]

(***************************************************************************)
(* A report has no problems exactly when the testers said, in each of the  *)
(* three runs, what the challenge claims.                                  *)
(***************************************************************************)
ValidMeansAsClaimed ==
  \A c \in Verifier : check[c].at = "report" => LET runs == check[c].runs IN
    check[c].problems = {} <=>
      /\ runs["workspace"].said = AsDeclared
      /\ runs["solution"].said = AllPass
      /\ runs["repeat"].said = AllPass

(***************************************************************************)
(* A run that "could not be carried out" leaves "nothing to conclude":     *)
(* what is reported rests on three runs that each have one result for      *)
(* every requirement, in the declared order, however the runs that failed  *)
(* did so.  Ctrl-C in one of the first two runs leaves no report either,   *)
(* for nothing more can be made then; in the last it may.                  *)
(***************************************************************************)
ReportsAreComplete ==
  \A c \in Verifier : check[c].at = "report" => LET runs == check[c].runs IN
    /\ \A p \in Phase : /\ DOMAIN runs[p].results = DOMAIN Requirements
                         /\ \A i \in DOMAIN Requirements :
                              runs[p].results[i].key = Requirements[i].key
    /\ runs["workspace"].alive /\ runs["solution"].alive

(***************************************************************************)
(* Every verification ends, although a tester may never exit and any       *)
(* command may fail, unless its process dies.                              *)
(***************************************************************************)
EveryVerificationEnds == \A c \in Verifier :
  check[c].at \in {"build", "judge"} ~> check[c].at \in {"report", "error"} \/ job[c].at = "dead"
=============================================================================
