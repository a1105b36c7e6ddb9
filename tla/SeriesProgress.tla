--------------------------- MODULE SeriesProgress ---------------------------
(***************************************************************************)
(* One series through many runs of a provider sync that reports absolute   *)
(* episode numbers (sync_crunchyroll.py, sync_plex.py, sync_primevideo.py):*)
(* the user watches, edits the list entry and forces resyncs; each run     *)
(* takes a snapshot of the entry and the state row, decides with           *)
(* EpisodeDecision!Decide and commits in its script's order.               *)
(*                                                                         *)
(* ProviderSync follows the events of many titles through the same         *)
(* protocol; here the fetch watermark is reduced to seen, the number of    *)
(* this series' events at or before it, which other titles may move too.   *)
(***************************************************************************)
EXTENDS EpisodeDecision, Sequences, FiniteSets

CONSTANTS
  Script,     \* scripts considered, by commit order: "crunchyroll" or "plex" (also Prime Video)
  Totals,     \* episode counts considered; 0 when AniList has none
  UserStatus, \* the statuses the user sets
  MaxEpisode, \* model bound on episodes of a series without a known count
  MaxWatch,   \* model bound on watch events
  MaxEdits,   \* model bound on the user's edits
  MaxForced,  \* model bound on forced full resyncs
  MaxKills    \* model bound on killed runs

ASSUME ScriptAssumption == Script \subseteq {"crunchyroll", "plex"}
ASSUME TotalsAssumption == Totals \subseteq Nat
ASSUME UserStatusAssumption == UserStatus \subseteq Status \ {"CURRENT"}
ASSUME BoundAssumption  == {MaxEpisode, MaxWatch, MaxEdits, MaxForced, MaxKills} \subseteq Nat

VARIABLES
  script,  \* the script this is a run of
  total,   \* the series' episode count
  history, \* the episodes watched, in order
  entry,   \* the library_entries row
  row,     \* the series' *_sync_state row without its watermark
  seen,    \* events of this series covered by the fetch watermark
  marked,  \* some series has a watermark
  walk,    \* settings.<provider>_walk_complete
  run,     \* the run in progress
  applied, \* ghost: events covered by a committed decision
  strayed, \* ghost: the user changed the status during a recorded rewatch or a run
  rewalks, \* ghost: decisions on events an earlier decision had already covered
  edits, forced, kills

series == <<script, total, history, entry, row, seen, marked, walk, run, applied, strayed, rewalks,
          edits, forced, kills>>

fixed == <<script, total>>
ghosts == <<applied, strayed, rewalks>>
bounds == <<edits, forced, kills>>

Episode == IF total = 0 THEN 1..MaxEpisode ELSE 1..total

\* snap and state are what the run loaded; edited: the user touched the entry since.
NoRun == [pc |-> "idle", full |-> FALSE, from |-> 0, asOf |-> 0, snap |-> Untracked,
          state |-> NoStateRow, edited |-> FALSE, did |-> FALSE]

Run == [pc: {"idle", "first", "second", "end"}, full: BOOLEAN, from: 0..MaxWatch, asOf: 0..MaxWatch,
        snap: Entry, state: StateRow, edited: BOOLEAN, did: BOOLEAN]

ProgressTypeOK ==
  /\ script \in Script /\ total \in Totals
  /\ history \in Seq(Episode) /\ Len(history) <= MaxWatch
  /\ entry \in Entry /\ row \in StateRow /\ run \in Run
  /\ seen \in 0..MaxWatch /\ applied \in 0..MaxWatch /\ rewalks \in 0..(MaxForced + MaxKills)
  /\ {marked, walk, strayed} \subseteq BOOLEAN
  /\ edits \in 0..MaxEdits /\ forced \in 0..MaxForced /\ kills \in 0..MaxKills

\* What the user can set: AniList keeps a finished entry at its last episode.
Settable == [status: UserStatus, progress: {0} \cup Episode]
Sensible(c) == c.status = "COMPLETED" /\ total > 0 => c.progress = total

ProgressInit ==
  /\ script \in Script /\ total \in Totals
  /\ history = <<>>
  /\ \/ entry = Untracked
     \/ \E c \in Settable : Sensible(c) /\ entry = [status |-> c.status, progress |-> c.progress, repeat |-> 0]
  /\ row = NoStateRow
  /\ seen = 0 /\ marked = FALSE /\ walk = FALSE
  /\ run = NoRun
  /\ applied = 0 /\ strayed = FALSE /\ rewalks = 0
  /\ edits = 0 /\ forced = 0 /\ kills = 0

-----------------------------------------------------------------------------
(* The user.                                                               *)

Watch ==
  /\ Len(history) < MaxWatch
  /\ \E e \in Episode : history' = Append(history, e)
  /\ UNCHANGED <<fixed, entry, row, seen, marked, walk, run, ghosts, bounds>>

\* A card edit, or an edit on anilist.co brought in by the pull sync.
UserEdit ==
  /\ edits < MaxEdits
  /\ \/ entry' = Untracked
     \/ \E c \in Settable : Sensible(c) /\ entry' = [entry EXCEPT !.status = c.status, !.progress = c.progress]
  /\ entry' # entry
  /\ edits' = edits + 1
  /\ run' = [run EXCEPT !.edited = (run.pc # "idle")]
  /\ strayed' = (strayed \/ (entry'.status # "REPEATING" /\ (row.rewatch \/ run.pc # "idle")))
  /\ UNCHANGED <<fixed, history, row, seen, marked, walk, applied, rewalks, forced, kills>>

\* The pull sync reads a status back in the app's own words (STATUS_MAP).
Pull ==
  /\ entry.status = "CURRENT"
  /\ entry' = [entry EXCEPT !.status = "WATCHING"]
  /\ UNCHANGED <<fixed, history, row, seen, marked, walk, run, ghosts, bounds>>

-----------------------------------------------------------------------------
(* The script.                                                             *)

\* Load state and walk_complete, fetch down to the watermark, load the list.
Start(force) ==
  /\ run.pc = "idle"
  /\ force => forced < MaxForced
  /\ LET full == force \/ ~walk \/ ~marked
         from == IF full THEN 0 ELSE seen
         n    == Len(history)
     IN /\ run' = [NoRun EXCEPT !.pc = IF n > from THEN "first" ELSE "end", !.full = full,
                                !.from = from, !.asOf = n, !.snap = entry, !.state = row]
  /\ walk' = (walk /\ ~force)
  /\ forced' = forced + (IF force THEN 1 ELSE 0)
  /\ UNCHANGED <<fixed, history, entry, row, seen, marked, ghosts, edits, kills>>

\* parse_items: the most recently watched of the fetched episodes.
Latest == history[run.asOf]

\* Not on the list and a full walk, or an implausible match.
Skip ==
  /\ run.pc = "first" /\ run.snap.status = "NONE"
  /\ run' = [run EXCEPT !.pc = "end"]
  /\ UNCHANGED <<fixed, history, entry, row, seen, marked, walk, ghosts, bounds>>

Wanted == run.snap.status = "NONE" => ~run.full

\* process() and its commit: update_fn and save_state_fn in one transaction.
Process ==
  LET d == Decide(run.snap, run.state, Latest, total)
  IN /\ entry' = Upsert(entry, d)
     /\ row' = d.row
     /\ applied' = run.asOf
     /\ strayed' = (strayed /\ d.row.rewatch)
     /\ rewalks' = rewalks + (IF run.from < applied THEN 1 ELSE 0)

\* save_watermark and its commit; an absent row is created with the defaults of
\* the other columns, last_seen_episode 0 and rewatch_in_progress FALSE.
Mark ==
  /\ seen' = run.asOf
  /\ marked' = TRUE
  /\ row' = [row EXCEPT !.known = TRUE]

FirstCommit ==
  /\ run.pc = "first" /\ Wanted
  /\ run' = [run EXCEPT !.pc = "second", !.did = (script = "plex")]
  /\ \/ script = "crunchyroll" /\ Mark /\ UNCHANGED <<entry, ghosts>>
     \/ script = "plex" /\ Process /\ UNCHANGED <<seen, marked>>
  /\ UNCHANGED <<fixed, history, walk, bounds>>

SecondCommit ==
  /\ run.pc = "second"
  /\ run' = [run EXCEPT !.pc = "end", !.did = TRUE]
  /\ \/ script = "crunchyroll" /\ Process /\ UNCHANGED <<seen, marked>>
     \/ script = "plex" /\ Mark /\ UNCHANGED <<entry, ghosts>>
  /\ UNCHANGED <<fixed, history, walk, bounds>>

\* The watermarks of the other titles of this run, which may lie anywhere
\* between the fetched events of this series.
OthersMark == \/ UNCHANGED <<seen, marked>>
              \/ marked' = TRUE /\ seen' \in seen..run.asOf

Finish ==
  /\ run.pc = "end"
  /\ walk' = (walk \/ run.full)
  /\ OthersMark
  /\ run' = NoRun
  /\ UNCHANGED <<fixed, history, entry, row, ghosts, bounds>>

\* A timeout, a restart or a database error ends the run between two commits.
Kill ==
  /\ run.pc # "idle" /\ kills < MaxKills
  /\ kills' = kills + 1
  /\ OthersMark
  /\ run' = NoRun
  /\ UNCHANGED <<fixed, history, entry, row, walk, ghosts, edits, forced>>

ProgressNext == \/ Watch \/ UserEdit \/ Pull
                \/ \E force \in BOOLEAN : Start(force)
                \/ Skip \/ FirstCommit \/ SecondCommit \/ Finish \/ Kill

ProgressSpec == ProgressInit /\ [][ProgressNext]_series

-----------------------------------------------------------------------------
(* Properties.                                                             *)

Deciding == entry' # entry /\ run.pc \in {"first", "second"} /\ run'.did /\ ~run.did

\* "Never goes backwards on progress" (sync_crunchyroll.py): outside a rewatch, a
\* sync the user does not interfere with never lowers the progress, except that
\* resuming a dropped series resets it to the episode watched.
BackwardsOnlyOnResume ==
  [][Deciding /\ ~run.edited /\ ~row'.rewatch /\ entry.status # "DROPPED"
       => entry'.progress >= entry.progress]_series

\* While a rewatch is recorded the entry says REPEATING, unless the user took it
\* out of the rewatch himself.
FlagFollowsStatus == row.rewatch /\ ~strayed => entry.status = "REPEATING"

\* The rewatch counter counts viewings: it never exceeds how often the final
\* episode was watched, plus the runs that were handed old events again.
RepeatsEarned ==
  entry.repeat <= Cardinality({i \in 1..Len(history) : history[i] = total}) + rewalks

\* Handing the same events to the sync again, as a run killed before its
\* watermark makes happen, changes nothing, except that a rewatch first seen at
\* its final episode is completed, and that a completed entry behind its own
\* provider is advanced.
RedeliveryHarmless ==
  run.did /\ ~run.edited =>
    \/ Upsert(entry, Decide(entry, row, Latest, total)) = entry
    \/ RewatchEnds(row, Latest, total)
    \/ run.snap.status = "COMPLETED" /\ run.snap.progress < Latest
=============================================================================
