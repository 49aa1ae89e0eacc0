----------------------------- MODULE MCCatalog -----------------------------
(* Binaries that agree, that are newer, that diverge and that are broken;  *)
(* checkouts that agree, that changed a challenge, that hold a broken one, *)
(* one twice, or one that a column cannot hold.                            *)
EXTENDS Catalog, TLC

CONSTANTS p1, p2, i1, i2, b1, b2, b3, b4, ddl1, ddl2, ddl3, x, y, trunk, next, other, edited, doubled, linked, copied, vast, garbled, buried

MCSymmetry == Permutations(Migrator) \cup Permutations(Instance)

File(v, t) == [version |-> v, text |-> t]
MCFiles == [b \in Binary |->
  CASE b = b1 -> {File(1, ddl1)}
    [] b = b2 -> {File(1, ddl1), File(2, ddl2)}
    [] b = b3 -> {File(1, ddl3)}
    [] b = b4 -> {File(1, ddl1), File(3, ddl3)}]

MCVersioned == [challenges |-> 1, files |-> 2]
MCSlugs == <<"alpha">>
\* The third path is longer than a path may be, the fourth is not UTF-8.
MCPathBytes == [p \in Path |-> IF p = 3 THEN 513 ELSE 5]
MCPathLength == [p \in Path |-> IF p = 3 THEN 300 ELSE 5]
MCSize == [c \in Content \cup {Link} |-> 1]

Item(key, broken) ==
  [key |-> key, title |-> "title", description |-> "text", weight |-> Absent, broken |-> broken]

Raw(version, category, requirements) ==
  [id |-> "alpha", version |-> version, category |-> category, difficulty |-> "easy",
   duration |-> 45 * Minute, tag |-> "alpha:1", context |-> "",
   command |-> <<"serve">>, workdir |-> "", port |-> 8080, health |-> "",
   tester |-> <<"test">>, timeout |-> Absent, cpus |-> Absent, memory |-> Absent,
   pids |-> Absent, requirements |-> requirements]

Plain == Raw(1, "debugging", <<Item("alpha", TRUE)>>)
DirAt(name, raw, tree) ==
  [name |-> name, raw |-> raw, tree |-> tree, parts |-> {"image", "workspace", "tests", "solution"}]
Dir(raw, tree) == DirAt("alpha", raw, tree)
Files2(f, g) == [p \in Path |-> CASE p = 1 -> f [] p = 2 -> g [] OTHER -> Absent]
Only(p) == [q \in Path |-> IF p = q THEN x ELSE Absent]

MCRoot == [c \in Checkout |->
  CASE c = trunk   -> {Dir(Plain, Files2(x, y))}
    [] c = next    -> {Dir(Plain, Files2(x, Absent)), DirAt("beta", Raw(2, "build", <<Item("alpha", TRUE)>>), Files2(y, Absent))}
    [] c = other   -> {Dir(Plain, Files2(Absent, x))}
    [] c = edited  -> {Dir(Raw(1, "build", <<Item("alpha", TRUE)>>), Files2(x, y))}
    [] c = doubled -> {Dir(Raw(1, "debugging", <<Item("alpha", TRUE), Item("alpha", TRUE)>>), Files2(x, y))}
    [] c = linked  -> {Dir(Plain, Files2(x, Link))}
    [] c = copied  -> {Dir(Plain, Files2(x, y)), DirAt("beta", Plain, Files2(x, y))}
    [] c = vast    -> {Dir(Raw(3, "debugging", <<[Item("alpha", TRUE) EXCEPT !.weight = 3, !.title = "null"]>>), Files2(x, Absent))}
    [] c = buried  -> {Dir(Plain, Only(3))}
    [] c = garbled -> {Dir(Plain, Files2(x, Absent)), DirAt("beta", Raw(2, "build", <<Item("alpha", TRUE)>>), Only(4))}]
=============================================================================
