--------------------------- MODULE MCOutboxHistory ---------------------------
(* Constants for model checking OutboxHistory.                              *)
EXTENDS OutboxHistory

StatusOnly == {"status"}
=============================================================================
