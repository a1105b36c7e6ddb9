--------------------------- MODULE EpisodeDecision ---------------------------
(***************************************************************************)
(* process_max_aggregated_progress (scripts/anilist_sync_common.py): what  *)
(* Crunchyroll, Plex and Prime Video sync do to one list entry when w is   *)
(* the episode of the series they were handed.  Its name and comments call *)
(* w the highest episode watched; the parsers hand over the last one.      *)
(*                                                                         *)
(* An entry is [status, progress, repeat]; status "NONE" is the synthetic  *)
(* entry of a title that is about to be created.  A sync-state row is      *)
(* [known, last, rewatch]; known is FALSE when there is no row.  total is  *)
(* 0 when AniList does not know the number of episodes.                    *)
(***************************************************************************)
EXTENDS Integers

Status == {"WATCHING", "COMPLETED", "DROPPED", "PLANNING", "PAUSED", "REPEATING", "CURRENT"}

Entry == [status: Status \cup {"NONE"}, progress: Nat, repeat: Nat]
StateRow == [known: BOOLEAN, last: Nat, rewatch: BOOLEAN]

NoStateRow == [known |-> FALSE, last |-> 0, rewatch |-> FALSE]
Untracked  == [status |-> "NONE", progress |-> 0, repeat |-> 0]

\* A field update_fn was not given.
SameStatus == "SAME"
Same == -1

\* What the code hands to update_fn, and the row it hands to save_state_fn.
Out(status, progress, repeat, last, rewatch) ==
  [status |-> status, progress |-> progress, repeat |-> repeat,
   row |-> [known |-> TRUE, last |-> last, rewatch |-> rewatch]]

Outcome == [status: Status \cup {SameStatus}, progress: Nat \cup {Same}, repeat: Nat \cup {Same},
            row: StateRow]

Record(last, rewatch)      == Out(SameStatus, Same, Same, last, rewatch)
Advance(w, rewatch)        == Out(SameStatus, w, Same, w, rewatch)
Restatus(status, w, rewatch) == Out(status, w, Same, w, rewatch)

LastSeen(e, s) == IF s.known THEN s.last ELSE e.progress

\* last_ep or total or 999
Peak(e, s, total) == IF LastSeen(e, s) > 0 THEN LastSeen(e, s) ELSE IF total > 0 THEN total ELSE 999

FirstSight(e, s) == ~s.known /\ e.status = "COMPLETED"

\* Mutant of RewatchStarts: the episode last seen starts a rewatch too.
RewatchStartsAtPeak(e, s, w, total) == e.status = "COMPLETED" /\ ~s.rewatch /\ w <= Peak(e, s, total)

RewatchStarts(e, s, w, total) == e.status = "COMPLETED" /\ ~s.rewatch /\ w < Peak(e, s, total)

NewPass(e, s, w) == s.rewatch /\ w < LastSeen(e, s)

NothingNew(e, s, w) == ~s.rewatch /\ w <= LastSeen(e, s) /\ w <= e.progress

\* Mutant of RewatchEnds: one episode early.
RewatchEndsEarly(s, w, total) == s.rewatch /\ total > 0 /\ w + 1 >= total

RewatchEnds(s, w, total) == s.rewatch /\ total > 0 /\ w >= total

\* Mutant of Completion: the rewatch stays recorded as active.
CompletionKeepsFlag(e, w) == Out("COMPLETED", w, e.repeat + 1, w, TRUE)

Completion(e, w) == Out("COMPLETED", w, e.repeat + 1, w, FALSE)

\* Mutant of Ahead: compared with what the provider had shown, not with the list.
AheadOfSeen(e, s, w) == w > LastSeen(e, s)

Ahead(e, s, w) == w > e.progress

Greater(i, j) == IF i > j THEN i ELSE j

\* The branches in the order of the code.
Decide(e, s, w, total) ==
  IF e.status = "NONE" THEN Restatus("WATCHING", w, FALSE)
  ELSE IF FirstSight(e, s) THEN Record(w, FALSE)
  ELSE IF e.status = "REPEATING" /\ ~s.rewatch
       THEN IF Ahead(e, s, w) THEN Advance(w, TRUE) ELSE Record(w, TRUE)
  ELSE IF RewatchStarts(e, s, w, total) THEN Restatus("REPEATING", w, TRUE)
  ELSE IF NewPass(e, s, w) THEN Advance(w, TRUE)
  ELSE IF NothingNew(e, s, w) THEN Record(LastSeen(e, s), s.rewatch)
  ELSE IF RewatchEnds(s, w, total) THEN Completion(e, w)
  ELSE IF s.rewatch /\ Ahead(e, s, w) THEN Advance(w, TRUE)
  ELSE IF e.status = "DROPPED" /\ w > LastSeen(e, s) THEN Restatus("CURRENT", w, FALSE)
  ELSE IF Ahead(e, s, w) THEN Advance(w, FALSE)
  ELSE Record(Greater(w, LastSeen(e, s)), s.rewatch)

Silent(d) == d.status = SameStatus /\ d.progress = Same /\ d.repeat = Same

\* enqueue_outbox_update: an upsert that touches only the fields given; a row
\* that does not exist is inserted with placeholders for the others.
Upsert(e, d) ==
  LET old == IF e.status = "NONE" THEN [status |-> "PLANNING", progress |-> 0, repeat |-> 0] ELSE e
  IN IF Silent(d) THEN e
     ELSE [status   |-> IF d.status = SameStatus THEN old.status ELSE d.status,
           progress |-> IF d.progress = Same THEN old.progress ELSE d.progress,
           repeat   |-> IF d.repeat = Same THEN old.repeat ELSE d.repeat]
=============================================================================
