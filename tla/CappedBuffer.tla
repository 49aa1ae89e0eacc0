---------------------------- MODULE CappedBuffer ----------------------------
(***************************************************************************)
(* What is kept of a container's output (internal/container/capped.go):    *)
(* its beginning, its end, and how much was dropped in between.  Output is *)
(* a sequence of symbols that arrives in writes of any length.             *)
(***************************************************************************)
EXTENDS Naturals, Sequences

CONSTANTS
  Symbol,  \* what output consists of
  Notice   \* what is printed in place of what was dropped, on a line of its own

ASSUME NoticeAssumption ==
  Notice \in Seq(Symbol) /\ Notice # <<>> /\ Notice[Len(Notice)] = "eol"

newCappedBuffer(limit) == LET l == IF limit < 2 THEN 2 ELSE limit IN
  [headLimit |-> l \div 2, tailLimit |-> l - (l \div 2),
   head |-> <<>>, tail |-> <<>>, elided |-> 0]

\* Mutant: the newest part of the tail is dropped.
trimEnd(b) == LET drop == Len(b.tail) - b.tailLimit IN
  IF drop <= 0 THEN b
  ELSE [b EXCEPT !.elided = @ + drop, !.tail = SubSeq(@, 1, b.tailLimit)]

\* The oldest part of the tail is dropped.
trim(b) == LET drop == Len(b.tail) - b.tailLimit IN
  IF Len(b.tail) <= b.tailLimit THEN b
  ELSE [b EXCEPT !.elided = @ + drop, !.tail = SubSeq(@, drop + 1, Len(@))]

\* The head is filled first.  The tail may grow to twice what is kept of it.
Write(b, p) == LET room == b.headLimit - Len(b.head)
                   take == IF room < Len(p) THEN room ELSE Len(p)
                   filled == [b EXCEPT !.head = @ \o SubSeq(p, 1, take),
                                       !.tail = @ \o SubSeq(p, take + 1, Len(p))] IN
  IF Len(filled.tail) > 2 * b.tailLimit THEN trim(filled) ELSE filled

String(b) == LET t == trim(b) IN
  IF t.elided = 0 THEN t.head \o t.tail ELSE t.head \o Notice \o t.tail
=============================================================================
