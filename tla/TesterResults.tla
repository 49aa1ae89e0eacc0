--------------------------- MODULE TesterResults ---------------------------
(***************************************************************************)
(* Reading what a tester printed (internal/tester): the document after the *)
(* last line that is the marker, and one result for every requirement.     *)
(*                                                                         *)
(* Output is a sequence of symbols: "eol" ends a line, "mark" is the       *)
(* marker, a symbol in the domain of Document is all but the last          *)
(* character of that document, and "end" is the last character of any.     *)
(***************************************************************************)
EXTENDS Naturals, Sequences, SequencesExt

CONSTANT Document  \* symbol -> [schema, results: Seq([key, status, duration_ms])]

ASSUME TesterAssumption ==
  /\ {"eol", "mark", "end"} \cap DOMAIN Document = {}
  /\ \A d \in DOMAIN Document : DOMAIN Document[d].results = 1..Len(Document[d].results)

Schema == "devduel.results/1"
Status == {"pass", "fail", "error"}

IsMarkerLine(out, i) ==
  /\ out[i] = "mark"
  /\ i > 1 => out[i - 1] = "eol"
  /\ i < Len(out) => out[i + 1] = "eol"

MarkerLines(out) == {i \in DOMAIN out : IsMarkerLine(out, i)}

documentAfterMarker(out) ==
  LET last == CHOOSE i \in MarkerLines(out) : \A j \in MarkerLines(out) : j <= i
  IN SubSeq(out, last + 2, Len(out))

(***************************************************************************)
(* The decoder skips blank lines, reads one value, and stops.              *)
(***************************************************************************)
Decodable(doc) == \E i \in DOMAIN doc :
  /\ \A j \in 1..(i - 1) : doc[j] = "eol"
  /\ doc[i] \in DOMAIN Document
  /\ i < Len(doc) /\ doc[i + 1] = "end"

Decoded(doc) ==
  Document[doc[CHOOSE i \in DOMAIN doc : \A j \in 1..i : doc[j] = "eol" <=> j < i]]

\* Every entry is for a declared requirement, once, with a known status.
WellFormed(document, declared) == LET rs == document.results IN
  /\ document.schema = Schema
  /\ \A i \in DOMAIN rs : /\ rs[i].key \in declared
                          /\ rs[i].status \in Status
                          /\ rs[i].duration_ms >= 0
  /\ \A i, j \in DOMAIN rs : i # j => rs[i].key # rs[j].key

parse(out, declared) ==
  IF MarkerLines(out) = {} THEN "no results"
  ELSE IF ~Decodable(documentAfterMarker(out)) THEN "unreadable"
  ELSE IF ~WellFormed(Decoded(documentAfterMarker(out)), declared) THEN "unreadable"
  ELSE "read"

\* Mutant: a requirement that was not reported has no status.
allUnknown(requirements) ==
  [i \in DOMAIN requirements |-> [key |-> requirements[i].key, status |-> ""]]

allErrors(requirements) ==
  [i \in DOMAIN requirements |-> [key |-> requirements[i].key, status |-> "error"]]

Reported(rs, key) == {rs[i].status : i \in {j \in DOMAIN rs : rs[j].key = key}}

(***************************************************************************)
(* One result per requirement, in the order of the requirements.  A        *)
(* document that cannot be read is an error of the run; a tester that did  *)
(* not finish, or said nothing, is an error of every requirement.          *)
(***************************************************************************)
Collect(requirements, run) ==
  LET declared == {requirements[i].key : i \in DOMAIN requirements}
      outcome == IF run.err THEN "no results" ELSE parse(run.stdout, declared)
      rs == Decoded(documentAfterMarker(run.stdout)).results
  IN [err |-> outcome = "unreadable",
      results |->
        CASE outcome = "no results" -> allErrors(requirements)
          [] outcome = "unreadable" -> <<>>
          [] outcome = "read" -> [i \in DOMAIN requirements |->
               LET key == requirements[i].key IN
               [key |-> key, status |-> IF Reported(rs, key) = {} THEN "error"
                                        ELSE CHOOSE s \in Reported(rs, key) : TRUE]]]

(***************************************************************************)
(* What a tester said, stated on all that it printed: the status that the  *)
(* document after the last marker line gives each requirement, or an error *)
(* if it gives none; and nothing if no proper document follows.            *)
(***************************************************************************)
Said(requirements, out) ==
  LET marks == MarkerLines(out)
      last == CHOOSE m \in marks : \A n \in marks : n <= m
      found == {d \in (last + 1)..(Len(out) - 1) :
                  /\ \A i \in (last + 1)..(d - 1) : out[i] = "eol"
                  /\ out[d] \in DOMAIN Document
                  /\ out[d + 1] = "end"}
      document == Document[out[CHOOSE d \in found : TRUE]]
      given(key) == {r \in Range(document.results) : r.key = key}
  IN IF marks = {} THEN [i \in DOMAIN requirements |-> "error"]
     ELSE IF found = {} THEN <<>>
     ELSE IF ~WellFormed(document, {requirements[i].key : i \in DOMAIN requirements}) THEN <<>>
     ELSE [i \in DOMAIN requirements |->
            IF given(requirements[i].key) = {} THEN "error"
            ELSE (CHOOSE r \in given(requirements[i].key) : TRUE).status]
=============================================================================
