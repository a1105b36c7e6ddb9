------------------------------ MODULE MCOutbox ------------------------------
(* Constants for model checking Outbox.                                     *)
EXTENDS OutboxPromise

StatusAndProgress == {"status", "progress"}
StatusOnly == {"status"}

-----------------------------------------------------------------------------
(* A claim of the code's own comments, which a run refutes.                 *)

\* main.py:8962 "This push just succeeded synchronously, so it's authoritative — clear
\* any outbox row left over from an earlier bulk edit ... Without this, a stale outbox
\* row could later get replayed ... and silently overwrite the status just set": a row
\* that is no longer in the outbox never overwrites a newer edit on AniList.
ClearedRowNeverOverwrites ==
  [][item # NoItem /\ remote' # remote /\ wpc = "push" /\ clock' = clock
       /\ (\A r \in outbox : ~SameRow(r, item))
       => \A f \in Field : remote'[item.anime].ver[f] >= remote[item.anime].ver[f]]_vars
=============================================================================
