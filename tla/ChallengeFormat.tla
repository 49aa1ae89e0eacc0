-------------------------- MODULE ChallengeFormat --------------------------
(***************************************************************************)
(* What a directory has to hold to be a challenge (internal/challenge):    *)
(* the written specification, the defaults it is completed with, the       *)
(* checks it has to pass, the layout around it, and the starting files.    *)
(*                                                                         *)
(* A text is a member of the set of texts that pass its check, or is not;  *)
(* a number is itself.  Problems are the names of the fields complained    *)
(* about.                                                                  *)
(***************************************************************************)
EXTENDS Integers, FiniteSets, Sequences, Functions, FiniteSetsExt

CONSTANTS
  Keys,          \* the texts slugRE accepts
  Slugs,         \* those that are short enough for an identifier, in byte order
  Pinned,        \* image references with a tag that does not float
  Contained,     \* relative paths that stay inside their directory
  Rooted,        \* texts that begin with a slash
  Title,         \* titles that are neither blank nor too long
  Float, Cores,  \* numbers of CPUs, and those that are neither <= 0 nor > 8
  Content,       \* contents of files
  Size,          \* content -> bytes; of a link, those of what it points to
  Link,          \* a directory entry that is no regular file
  Path,          \* paths of files, as numbers in byte order
  PathBytes,     \* path -> its length in bytes
  PathLength,    \* path -> its length in characters
  MaxFileBytes, MaxWorkspaceFiles, MaxWorkspaceBytes,
  MaxOctets,     \* what challenge_files_size allows a file: MaxFileBytes again
  MaxInteger,    \* the largest value of an integer column, scaled down from 2^31 - 1
  Unwritable, UnwritablePath,  \* what no text column holds: a NUL character, bytes that
                               \* are not UTF-8, a key that is too long for an index
  Malformed,     \* text that is no duration
  Absent         \* what the author left out, and a file that is not there

Slug == Range(Slugs)

ASSUME FormatAssumption ==
  /\ "" \notin Keys \cup Pinned \cup Contained \cup Rooted \cup Title
  /\ Slugs \in Seq(STRING) /\ Slug \subseteq Keys
  /\ Cores \subseteq Float /\ 1 \in Cores
  /\ Path \subseteq Nat /\ IsFiniteSet(Path)
  /\ Absent \notin Content /\ Link \notin Content
  /\ Size \in [Content \cup {Link} -> Nat]
  /\ {MaxFileBytes, MaxWorkspaceFiles, MaxWorkspaceBytes, MaxOctets, MaxInteger} \subseteq Nat
  /\ MaxFileBytes <= MaxOctets
  /\ PathBytes \in [Path -> Nat] /\ PathLength \in [Path -> Nat]
  /\ \A p \in Path : PathLength[p] <= PathBytes[p]

Minute == 60
Hour == 60 * Minute
MaxPathLength == 512

(***************************************************************************)
(* A specification as it is decoded, and a directory as it is found.       *)
(* Durations are texts, a number with a default may be left out, and a     *)
(* text that is left out is an empty one.                                  *)
(***************************************************************************)
RawDuration == Int \cup {Malformed, Absent}
Optional(S) == S \cup {Absent}

RawRequirement ==
  [key : STRING, title : STRING, description : STRING, weight : Optional(Int), broken : BOOLEAN]

RawSpec ==
  [id : STRING, version : Int, category : STRING, difficulty : STRING,
   duration : RawDuration, tag : STRING, context : STRING,
   command : Seq(STRING), workdir : STRING, port : Int, health : STRING,
   tester : Seq(STRING), timeout : RawDuration, cpus : Optional(Float),
   memory : Optional(Int), pids : Optional(Int), requirements : Seq(RawRequirement)]

Directory ==
  [name : STRING, raw : Optional(RawSpec), tree : [Path -> Content \cup {Absent, Link}],
   parts : SUBSET STRING]
-----------------------------------------------------------------------------
orDefault(v, default) == IF v = Absent THEN default ELSE v
unlessEmpty(t, default) == IF t = "" THEN default ELSE t

duration(v, default) == IF v = Malformed THEN 0 ELSE orDefault(v, default)

weighed(r) == [r EXCEPT !.weight = orDefault(@, 1)]

(***************************************************************************)
(* resolve: every default is applied here, and nowhere else.  A number     *)
(* that is written as zero is kept, to be refused.                         *)
(***************************************************************************)
resolve(raw) ==
  [raw EXCEPT
    !.duration = duration(@, 0),
    !.timeout  = duration(@, Minute),
    !.context  = unlessEmpty(@, "image"),
    !.workdir  = unlessEmpty(@, "/app"),
    !.health   = unlessEmpty(@, "/health"),
    !.cpus     = orDefault(@, 1),
    !.memory   = orDefault(@, 512),
    !.pids     = orDefault(@, 128),
    !.requirements = [i \in DOMAIN @ |-> weighed(@[i])]]

Complain(field, wrong) == IF wrong THEN {field} ELSE {}

validateIdentity(s) ==
       Complain("id", s.id \notin Slug)
  \cup Complain("version", s.version < 1)
  \cup Complain("category", s.category \notin {"debugging", "build"})
  \cup Complain("difficulty", s.difficulty \notin {"easy", "medium", "hard"})
  \cup Complain("duration", s.duration \notin Minute..(6 * Hour))

validateImage(s) ==
       Complain("image.tag", s.tag \notin Pinned)
  \cup Complain("image.context", s.context \notin Contained)

validateCommand(field, args) ==
  Complain(field, args = <<>> \/ "" \in Range(args))

validateApp(s) ==
       validateCommand("app.command", s.command)
  \cup Complain("app.workdir", s.workdir \notin Rooted)
  \cup Complain("app.port", s.port \notin 1..65535)
  \cup Complain("app.health_path", s.health \notin Rooted)

validateTester(s) ==
       validateCommand("tester.command", s.tester)
  \cup Complain("tester.timeout", s.timeout \notin 1..(10 * Minute))

validateLimits(s) ==
       Complain("limits.cpus", s.cpus \notin Cores)
  \cup Complain("limits.memory_mb", s.memory \notin 64..8192)
  \cup Complain("limits.pids", s.pids \notin 16..4096)

validateRequirement(r) ==
       Complain("key", r.key \notin Keys)
  \cup Complain("title", r.title \notin Title)
  \cup Complain("description", r.description = "")
  \cup Complain("weight", r.weight <= 0)

\* Mutant: two requirements may have one key, and none need be broken.
validateEachRequirement(rs) ==
       Complain("requirements", rs = <<>>)
  \cup UNION {validateRequirement(rs[i]) : i \in DOMAIN rs}

validateRequirements(rs) ==
       Complain("requirements", \A i \in DOMAIN rs : ~rs[i].broken)
  \cup Complain("key", \E i, j \in DOMAIN rs : i # j /\ rs[i].key = rs[j].key)
  \cup UNION {validateRequirement(rs[i]) : i \in DOMAIN rs}

validate(s) ==
       validateIdentity(s) \cup validateImage(s) \cup validateApp(s)
  \cup validateTester(s) \cup validateLimits(s) \cup validateRequirements(s.requirements)

checkLayout(dir, s) == {s.context, "workspace", "tests", "solution"} \ dir.parts
-----------------------------------------------------------------------------
KeyOf(s) == [id |-> s.id, version |-> s.version]

\* A directory without a specification that can be decoded has none.
Load(dir) ==
  /\ dir.raw # Absent
  /\ validate(resolve(dir.raw)) = {}
  /\ checkLayout(dir, resolve(dir.raw)) = {}

SpecOf(dir) == resolve(dir.raw)

\* The whole root is refused for one bad directory, or for one key twice.
LoadAll(root) ==
  /\ \A dir \in root : Load(dir)
  /\ \A d, e \in root : KeyOf(SpecOf(d)) = KeyOf(SpecOf(e)) => d = e

Rank(id) == CHOOSE i \in DOMAIN Slugs : Slugs[i] = id
KeyBefore(d, e) == LET s == SpecOf(d)
                       t == SpecOf(e)
                   IN IF s.id = t.id THEN s.version < t.version ELSE Rank(s.id) < Rank(t.id)

\* The nth is the one that has n - 1 before it.
InKeyOrder(root) ==
  [n \in 1..Cardinality(root) |->
     CHOOSE d \in root : Cardinality({e \in root : KeyBefore(e, d)}) = n - 1]
-----------------------------------------------------------------------------
Tree == [Path -> Content \cup {Absent}]
NoFiles == [p \in Path |-> Absent]
Stored(tree) == {p \in Path : tree[p] # Absent}
BytesOf(tree) == FoldSet(LAMBDA p, n : n + Size[tree[p]], 0, Stored(tree))

\* Mutant: entries are counted, whatever they are.
LoadWorkspaceEntries(tree) == Cardinality(Stored(tree)) \in 1..MaxWorkspaceFiles

\* A path that was found in a directory is relative and has no odd parts.
validPath(p) == PathBytes[p] <= MaxPathLength

(***************************************************************************)
(* LoadWorkspace: regular files only, none at too long a path, none too    *)
(* large, not too many, not too much, and not nothing.                     *)
(***************************************************************************)
LoadWorkspace(tree) ==
  /\ Link \notin Range(tree)
  /\ \A p \in Stored(tree) : validPath(p)
  /\ \A p \in Stored(tree) : Size[tree[p]] <= MaxFileBytes
  /\ BytesOf(tree) <= MaxWorkspaceBytes
  /\ Cardinality(Stored(tree)) \in 1..MaxWorkspaceFiles
-----------------------------------------------------------------------------
(***************************************************************************)
(* What the tables accept (migrations 0001 and 0005), whatever the program *)
(* checked: the constraints they spell out, and the types of their         *)
(* columns.                                                                *)
(***************************************************************************)
challengesCheck(key, entry) ==
  /\ key.id \in Keys /\ key.version > 0
  /\ entry.category \in {"debugging", "build"}
  /\ entry.difficulty \in {"easy", "medium", "hard"}
  /\ entry.duration > 0 /\ entry.tag # ""

requirementsCheck(rs) ==
  /\ \A i \in DOMAIN rs : rs[i].key # "" /\ rs[i].title # "" /\ rs[i].weight > 0
  /\ \A i, j \in DOMAIN rs : i # j => rs[i].key # rs[j].key

filesCheck(p, content) == PathLength[p] <= MaxPathLength /\ Size[content] <= MaxOctets

\* The numbers of a challenge, and its texts besides its identifier, which is short.
Numbers(c) == {c.key.version} \cup {r.weight : r \in Range(c.entry.requirements)}
Texts(c) ==
  {c.entry.tag} \cup UNION {{r.key, r.title, r.description} : r \in Range(c.entry.requirements)}

ColumnsHold(c) == (\A n \in Numbers(c) : n <= MaxInteger) /\ Texts(c) \cap Unwritable = {}

Checked(c) == challengesCheck(c.key, c.entry) /\ requirementsCheck(c.entry.requirements)
Storable(c) == Checked(c) /\ ColumnsHold(c)
StorableFile(p, content) == filesCheck(p, content) /\ p \notin UnwritablePath
=============================================================================
