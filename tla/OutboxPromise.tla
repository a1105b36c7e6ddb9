---------------------------- MODULE OutboxPromise ----------------------------
(* Outbox implements Delivery.                                              *)
EXTENDS Outbox

Updates(states) == {[anime |-> r.anime, at |-> r.at, fields |-> r.fields] :
                      r \in {s \in outbox : s.state \in states}}

\* Media ids are numbers.
ASSUME AnimeAssumption == "none" \notin Anime

Promise == INSTANCE Delivery WITH
  owed  <- Updates({"pending", "in_progress"}),
  shelf <- Updates({"failed"}),
  held  <- [a \in Anime |-> remote[a].ver],
  card  <- [e \in Editors |-> IF ui[e].pc # "idle" /\ ui[e].kind = "status"
                              THEN [anime |-> ui[e].anime] ELSE [anime |-> "none"]]

\* Every step of the outbox, its worker, the card edits, pulls and crashes is one
\* the promise allows or leaves it unchanged: no update disappears undelivered
\* except by a newer one or a card edit, and failing hides none from the user.
KeepsPromise == Promise!DSpec
=============================================================================
