----------------------------- MODULE MCAccounts -----------------------------
(* Two tabs of one browser, addresses that differ in case, and an address  *)
(* that is none.                                                           *)
EXTENDS Accounts, TLC

CONSTANTS t1, t2, b1

MCSymmetry == Permutations(Tab)
MCSkew == -1..1
MCBrowserOf == [t \in Tab |-> b1]
MCLower == [s \in {"ann@x", "Ann@x", "bob@x", "nowhere", "ann", "Ann", "bob"} |->
  CASE s = "Ann@x" -> "ann@x" [] s = "Ann" -> "ann" [] OTHER -> s]

Form(email, username, password) == [email |-> email, username |-> username, password |-> password]
MCForms == {Form("ann@x", "ann", "secret"), Form("Ann@x", "bob", "other"),
            Form("bob@x", "Ann", "other"), Form("nowhere", "ann", "secret")}
=============================================================================
