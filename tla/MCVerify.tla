------------------------------ MODULE MCVerify ------------------------------
(* Testers that behave, that are noisy, that leave a requirement out, that *)
(* report what nobody asked for, that are cut off, and that say nothing.   *)
EXTENDS Verify

CONSTANTS c1, c2, s1, s2

MCJobID == Phase \X Suffix
MCNotice == <<"eol", "noise", "eol">>

MCRequirements == <<[key |-> "create", broken |-> TRUE], [key |-> "list", broken |-> FALSE]>>

Says(key, status) == [key |-> key, status |-> status, duration_ms |-> 0]
MCDocument ==
  [d \in {"as declared", "all pass", "half", "foreign"} |->
    [schema |-> Schema, results |->
      CASE d = "as declared" -> <<Says("list", "pass"), Says("create", "fail")>>
        [] d = "all pass"    -> <<Says("create", "pass"), Says("list", "pass")>>
        [] d = "half"        -> <<Says("list", "pass")>>
        [] d = "foreign"     -> <<Says("delete", "pass"), Says("list", "pass")>>]]

MCSymbol == {"eol", "mark", "end", "noise"} \cup DOMAIN MCDocument

\* An echo of an earlier document, noise, and the document as the last thing.
Quiet(d) == <<<<"mark", "eol", "eol", d>>, <<"end">>>>
Noisy(echo, d) == <<<<"noise", "mark", "eol">>, <<"mark", "eol", echo, "end", "eol">>,
                    <<"noise", "noise", "eol", "mark">>, <<"eol", d, "end">>>>
CutOff(d) == <<<<"mark", "eol", d>>, <<>>>>
Silent == <<<<"noise", "mark", "eol">>>>

MCPrints == [c \in Caller |-> [id \in JobID |->
  IF c \notin Verifier THEN {Silent}
  ELSE CASE id[1] = "workspace" -> {Noisy("all pass", "as declared"), Quiet("foreign")}
         [] id[1] = "solution"  -> {Noisy("as declared", "all pass")}
         [] id[1] = "repeat"    -> {Quiet("all pass"), Quiet("half"), CutOff("all pass")}]]

ASSUME MCOutputsFit == OutputsFit
=============================================================================
