----------------------------- MODULE MCSessions -----------------------------
(* Constants for model checking Sessions.                                   *)
EXTENDS Sessions, TLC

Symmetry == Permutations(Browser) \cup Permutations(Request)
=============================================================================
