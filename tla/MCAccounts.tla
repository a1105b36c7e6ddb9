----------------------------- MODULE MCAccounts -----------------------------
(***************************************************************************)
(* Accounts and local logins for model checking.  The two specifications   *)
(* look at different columns of users and at different tables, and share   *)
(* no variable: one run checks them one at a time, the one that moves      *)
(* chosen at the start and named by focus.                                 *)
(***************************************************************************)
EXTENDS Accounts, LocalLogin, TLC

VARIABLE focus

vars == <<focus, accounts, login>>

Init == focus \in {"accounts", "login"} /\ AccountsInit /\ LoginInit

Next ==
  \/ focus = "accounts" /\ AccountsNext /\ UNCHANGED <<focus, login>>
  \/ focus = "login" /\ LoginNext /\ UNCHANGED <<focus, accounts>>

Spec == Init /\ [][Next]_vars

Interchangeable ==
  Permutations(Person) \cup Permutations(Provider) \cup Permutations(Request)
=============================================================================
