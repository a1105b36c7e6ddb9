---------------------------- MODULE OutboxHistory ----------------------------
(* Outbox with two history variables, to state the order in which queued    *)
(* updates reach AniList.                                                   *)
EXTENDS Outbox

VARIABLES
  sentAt,  \* per anime: the newest queued update AniList has applied
  revived  \* <<at, anime>> of the rows "Retry failed" put back in the queue

hvars == <<vars, sentAt, revived>>

Id(r) == <<r.at, r.anime>>

HInit == Init /\ sentAt = [a \in Anime |-> 0] /\ revived = {}

Sent == wpc = "push" /\ (wpc' = "ack" \/ (attempt' > attempt /\ remote' # remote))

HNext ==
  /\ Next
  /\ sentAt' = IF Sent /\ item.at > sentAt[item.anime]
               THEN [sentAt EXCEPT ![item.anime] = item.at] ELSE sentAt
  /\ revived' = revived \cup
       {Id(r) : r \in {s \in outbox : s.state = "failed"
                         /\ \E t \in outbox' : SameRow(s, t) /\ t.state = "pending"}}

HSpec == HInit /\ [][HNext]_hvars

HFairSpec == HSpec /\ Fairness

\* Queued updates of one anime reach AniList in the order they were made, also
\* across superseding, crashes, re-drains and lost answers -- as long as the row
\* being pushed was not revived by "Retry failed".
InOrderUnlessRevived ==
  wpc = "push" /\ attempt < MaxAttempts /\ Id(item) \notin revived
    => item.at >= sentAt[item.anime]
=============================================================================
