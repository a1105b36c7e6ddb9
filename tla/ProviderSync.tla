---------------------------- MODULE ProviderSync ----------------------------
(***************************************************************************)
(* One user's streaming-provider sync (scripts/sync_crunchyroll.py,        *)
(* sync_plex.py, sync_primevideo.py, sync_netflix.py): walk the provider's *)
(* newest-first watch history down to a watermark, match every title to an *)
(* AniList id, queue an update for it and remember how far the walk got.   *)
(* A Netflix user may also upload Netflix's export of the history, which   *)
(* import_netflix_csv.py puts through the same loop beside any sync that   *)
(* is running.                                                             *)
(*                                                                         *)
(* The scripts share determine_full_pull_watermark,                        *)
(* resolve_or_create_user_list_entry and mark_walk_complete_if_reached_end *)
(* and differ in when last_seen_watched_at is committed:                   *)
(*   "crunchyroll"  watermark first, then update and state;                *)
(*   "plex"         (and Prime Video) update and state, then watermark;    *)
(*   "netflix"      one commit; it also filters every series' items by the *)
(*                  series' own watermark and adds their number to the     *)
(*                  AniList progress.                                      *)
(*                                                                         *)
(* DATA.  history[i] is the title of the i-th watch event, at time 2 * i;  *)
(* an export has dates without times, and the midnight before event i is   *)
(* time 2 * i - 1.  What an update contains is left to EpisodeDecision;    *)
(* here it matters which watch events have been reflected on the list.     *)
(***************************************************************************)
EXTENDS Integers, Sequences, FiniteSets

CONSTANTS
  Title,        \* provider titles, numbered in the order sorted() gives them
  Media,        \* AniList media ids
  NoMatch,      \* find_anilist_id found nothing
  Script,       \* the provider scripts considered
  Runner,       \* concurrent executions of the script
  Importer,     \* executions of import_netflix_csv.py
  FetchCap,     \* MAX_PAGES * PAGE_SIZE
  MaxTime,      \* model bound on the number of watch events
  MaxInterrupts,\* model bound on killed runs
  MaxImports    \* model bound on imports

ASSUME TitleAssumption == Title \subseteq Nat
ASSUME MediaAssumption == NoMatch \notin Media /\ NoMatch \notin Title
ASSUME ScriptAssumption == Script \subseteq {"crunchyroll", "plex", "netflix"}
ASSUME BoundAssumption ==
  FetchCap \in Nat \ {0} /\ MaxTime \in Nat /\ MaxInterrupts \in Nat /\ MaxImports \in {0, 1}
ASSUME ImporterAssumption == Importer \cap Runner = {}

VARIABLES
  script,       \* the provider this is the sync of
  mediaOf,      \* the AniList id each title resolves to: two names or seasons of
                \* one entry may share it
  history,      \* the provider's watch history
  tracked,      \* media on the user's list (library_entries)
  lastSeen,     \* last_seen_watched_at per media
  walkComplete, \* settings.<provider>_walk_complete
  run,          \* per runner: the execution in progress
  done,         \* times whose title was processed or deliberately skipped
  applied,      \* times reflected by a queued update
  twice,        \* times whose episode was added to the progress again
  lastDay,      \* times of the last day an import saw of a series
  overlapped,   \* an import and a sync were in progress together
  clean,        \* no run that relied on a completed walk was cut short, and no import
                \* ended, since the last full walk
  dawn,         \* the times that are the first of their day, drawn when an import begins
  imports,      \* imports begun so far
  interrupts    \* runs killed so far

fixed == <<script, mediaOf>>
ghosts == <<done, applied, twice, lastDay>>
importing == <<overlapped, dawn, imports>>

vars == <<fixed, history, tracked, lastSeen, walkComplete, run, ghosts, importing, clean, interrupts>>

Time == 1..MaxTime
NoMark == 0
Mark == 0..(2 * MaxTime)
Process == Runner \cup Importer

\* A run in progress: redo says that no completed walk was on record when it
\* started; full is the script's full_pull; <<from, asOf>> delimit the fetch; an
\* export is dated by days.
NoRun == [pc |-> "idle", redo |-> FALSE, full |-> FALSE, end |-> FALSE, from |-> 0, asOf |-> 0,
          byDay |-> FALSE, marks |-> [m \in Media |-> NoMark], todo |-> {}, list |-> {}, cur |-> NoMatch]

Run == [pc: {"idle", "fetch", "loop", "half"}, redo: BOOLEAN, full: BOOLEAN, end: BOOLEAN,
        from: 0..MaxTime, asOf: 0..MaxTime, byDay: BOOLEAN, marks: [Media -> Mark], todo: SUBSET Title, list: SUBSET Media,
        cur: Title \cup {NoMatch}]

TypeOK ==
  /\ script \in Script
  /\ mediaOf \in [Title -> Media \cup {NoMatch}]
  /\ history \in Seq(Title) /\ Len(history) <= MaxTime
  /\ tracked \subseteq Media
  /\ lastSeen \in [Media -> Mark]
  /\ walkComplete \in BOOLEAN
  /\ run \in [Process -> Run]
  /\ done \subseteq Time /\ applied \subseteq Time
  /\ twice \subseteq Time /\ lastDay \subseteq Time /\ dawn \subseteq Time
  /\ {clean, overlapped} \subseteq BOOLEAN
  /\ imports \in 0..MaxImports /\ interrupts \in 0..MaxInterrupts

-----------------------------------------------------------------------------
Larger(i, j) == IF i > j THEN i ELSE j

\* compute_fetch_watermark: the newest last_seen_watched_at.
Watermark(marks) == CHOOSE w \in {NoMark} \cup {marks[m] : m \in Media} :
                      \A m \in Media : marks[m] <= w

\* The times run q fetched for title t.
Fetched(q, t) == {i \in (q.from + 1)..q.asOf : history[i] = t}

Newest(S) == CHOOSE i \in S : \A j \in S : j <= i

\* The time an export's date parses to (_parse_date), and the one a run works with.
Midnight(i) == 2 * Newest({j \in dawn \cup {1} : j <= i}) - 1
Stamp(q, i) == IF q.byDay THEN Midnight(i) ELSE 2 * i

\* Mutant of Fresh: the per-series filter of _new_episode_count is missing.
FreshUnfiltered(q, t) == Fetched(q, t)

\* What the run treats as new for the title: Netflix filters by the series' own
\* watermark as loaded at the start (_new_episode_count).
Fresh(q, t) ==
  IF script = "netflix" /\ mediaOf[t] # NoMatch
  THEN {i \in Fetched(q, t) : Stamp(q, i) > q.marks[mediaOf[t]]}
  ELSE Fetched(q, t)

\* Events of the title the run handles, or rightly takes to be older than the mark.
Reviewed(q, t) ==
  Fresh(q, t) \cup {i \in Fetched(q, t) : mediaOf[t] # NoMatch /\ 2 * i <= q.marks[mediaOf[t]]}

Init ==
  /\ script \in Script
  /\ mediaOf \in [Title -> Media \cup {NoMatch}]
  /\ history = <<>>
  /\ tracked \in SUBSET Media
  /\ lastSeen = [m \in Media |-> NoMark]
  /\ walkComplete = FALSE
  /\ run = [r \in Process |-> NoRun]
  /\ done = {} /\ applied = {} /\ twice = {} /\ lastDay = {}
  /\ clean = TRUE /\ overlapped = FALSE /\ dawn = {} /\ imports = 0
  /\ interrupts = 0

-----------------------------------------------------------------------------
(* The user.                                                               *)

Watch ==
  /\ Len(history) < MaxTime
  /\ \E t \in Title : history' = Append(history, t)
  /\ UNCHANGED <<fixed, tracked, lastSeen, walkComplete, run, ghosts, importing, clean, interrupts>>

\* The user adds a title on AniList; the pull sync that opens every pipeline
\* run brings it into library_entries.
UserAdds ==
  /\ \E m \in Media \ tracked : tracked' = tracked \cup {m}
  /\ UNCHANGED <<fixed, history, lastSeen, walkComplete, run, ghosts, importing, clean, interrupts>>

-----------------------------------------------------------------------------
(* The script.                                                             *)

Busy(P) == \E r \in P : run[r].pc # "idle"

NewRun(watermark, redo) ==
  [NoRun EXCEPT !.pc = "fetch", !.redo = redo, !.from = watermark \div 2,
                !.full = (watermark = NoMark), !.marks = lastSeen]

\* Mutant of Start: a forced walk leaves walk_complete set.
StartKeepsFlag(r, forced) ==
  /\ run[r].pc = "idle"
  /\ LET redo == forced \/ ~walkComplete
     IN run' = [run EXCEPT ![r] = NewRun(IF redo THEN NoMark ELSE Watermark(lastSeen), redo)]
  /\ overlapped' = (overlapped \/ Busy(Importer))
  /\ UNCHANGED <<fixed, history, tracked, lastSeen, walkComplete, ghosts, dawn, imports, clean, interrupts>>

\* load state, determine_full_pull_watermark: a forced resync after a completed
\* walk clears the flag before anything is fetched.
Start(r, forced) ==
  /\ run[r].pc = "idle"
  /\ LET redo == forced \/ ~walkComplete
     IN run' = [run EXCEPT ![r] = NewRun(IF redo THEN NoMark ELSE Watermark(lastSeen), redo)]
  /\ walkComplete' = (walkComplete /\ ~forced)
  /\ overlapped' = (overlapped \/ Busy(Importer))
  /\ UNCHANGED <<fixed, history, tracked, lastSeen, ghosts, dawn, imports, clean, interrupts>>

\* fetch_since, then load_user_list_from_db.  The fetch keeps the FetchCap newest
\* items; it ends at the true end of the history only on a short page, which a
\* fetch that stops at its watermark may or may not meet.
Fetch(r) ==
  /\ r \in Runner /\ run[r].pc = "fetch"
  /\ LET q    == run[r]
         n    == Len(history)
         from == Larger(q.from, n - FetchCap)
     IN /\ \E end \in IF n < FetchCap THEN (IF q.full THEN {TRUE} ELSE BOOLEAN) ELSE {FALSE} :
             run' = [run EXCEPT ![r] =
                       [q EXCEPT !.pc = "loop", !.from = from, !.asOf = n, !.end = end,
                                 !.todo = {history[i] : i \in (from + 1)..n},
                                 !.list = tracked]]
        /\ clean' = (clean /\ (q.redo \/ from = q.from))
  /\ UNCHANGED <<fixed, history, tracked, lastSeen, walkComplete, ghosts, importing, interrupts>>

\* The title whose turn it is: the loop runs over sorted(history.items()).
Next1(r, t) == /\ run[r].pc = "loop"
               /\ t \in run[r].todo
               /\ \A u \in run[r].todo : t <= u

Drop(q, t) == [q EXCEPT !.todo = @ \ {t}]

\* No AniList match, or (Netflix) nothing newer than the series' own watermark.
PassOver(r) ==
  /\ \E t \in Title :
       /\ Next1(r, t)
       /\ mediaOf[t] = NoMatch \/ Fresh(run[r], t) = {}
       /\ run' = [run EXCEPT ![r] = Drop(run[r], t)]
       /\ done' = done \cup Reviewed(run[r], t)
  /\ UNCHANGED <<fixed, history, tracked, lastSeen, walkComplete, applied, twice, lastDay, importing, clean, interrupts>>

\* resolve_or_create_user_list_entry answers "skip": not on the list, and this is
\* a full walk or the candidate fails validation.
Skip(r) ==
  /\ \E t \in Title :
       /\ Next1(r, t)
       /\ mediaOf[t] # NoMatch /\ Fresh(run[r], t) # {}
       /\ mediaOf[t] \notin run[r].list
       /\ run' = [run EXCEPT ![r] = Drop(run[r], t)]
       /\ done' = done \cup Reviewed(run[r], t)
  /\ UNCHANGED <<fixed, history, tracked, lastSeen, walkComplete, applied, twice, lastDay, importing, clean, interrupts>>

Wanted(r, t) == /\ Next1(r, t)
                /\ mediaOf[t] # NoMatch /\ Fresh(run[r], t) # {}
                /\ mediaOf[t] \in run[r].list \/ ~run[r].full

\* Mutant of Wanted: a full walk creates entries too.
WantedAlways(r, t) == /\ Next1(r, t)
                      /\ mediaOf[t] # NoMatch /\ Fresh(run[r], t) # {}

\* The newest of what is new for the title.
NewMark(q, t) == Newest({Stamp(q, i) : i \in Fresh(q, t)})

\* process(): the outbox row, the list row and the state row in one commit.
\* Crunchyroll, Plex and Prime Video send an absolute episode number; Netflix
\* adds the number of fresh episodes to the progress.
Reflect(q, t) ==
  /\ tracked' = tracked \cup {mediaOf[t]}
  /\ applied' = applied \cup Fresh(q, t)
  /\ done' = done \cup Reviewed(q, t)
  /\ lastDay' = lastDay \cup {i \in Fetched(q, t) : q.byDay /\ 2 * i > NewMark(q, t)}
  /\ twice' = IF script = "netflix" THEN twice \cup (Fresh(q, t) \cap applied) ELSE twice

\* save_provider_watermark keeps the greatest; save_nf_state stores what it gets.
SaveWatermark(q, t) ==
  lastSeen' = [lastSeen EXCEPT ![mediaOf[t]] =
                 IF script = "netflix" THEN NewMark(q, t) ELSE Larger(@, NewMark(q, t))]

\* First commit for a wanted title; user_list gains a created entry.
Half(r, t) == run' = [run EXCEPT ![r].pc = "half", ![r].cur = t,
                                 ![r].list = @ \cup {mediaOf[t]}]

Complete(r, t) == run' = [run EXCEPT ![r] = [Drop(run[r], t) EXCEPT
                            !.pc = "loop", !.cur = NoMatch, !.list = @ \cup {mediaOf[t]}]]

ProcessAtomic(r) ==
  /\ script = "netflix"
  /\ \E t \in Title : /\ Wanted(r, t)
                      /\ Reflect(run[r], t) /\ SaveWatermark(run[r], t)
                      /\ Complete(r, t)
  /\ UNCHANGED <<fixed, history, walkComplete, importing, clean, interrupts>>

\* Mutant of ProcessFirst: Plex and Prime Video save the watermark first too.
ProcessFirstMark(r) ==
  /\ script # "netflix"
  /\ \E t \in Title : /\ Wanted(r, t) /\ Half(r, t) /\ SaveWatermark(run[r], t)
  /\ UNCHANGED <<fixed, history, walkComplete, tracked, ghosts, importing, clean, interrupts>>

ProcessFirst(r) ==
  /\ script # "netflix"
  /\ \E t \in Title :
       /\ Wanted(r, t) /\ Half(r, t)
       /\ \/ script = "crunchyroll" /\ SaveWatermark(run[r], t) /\ UNCHANGED <<tracked, ghosts>>
          \/ script = "plex" /\ Reflect(run[r], t) /\ UNCHANGED lastSeen
  /\ UNCHANGED <<fixed, history, walkComplete, importing, clean, interrupts>>

ProcessSecond(r) ==
  /\ run[r].pc = "half"
  /\ LET t == run[r].cur IN
       /\ Complete(r, t)
       /\ \/ script = "crunchyroll" /\ Reflect(run[r], t) /\ UNCHANGED lastSeen
          \/ script = "plex" /\ SaveWatermark(run[r], t) /\ UNCHANGED <<tracked, ghosts>>
  /\ UNCHANGED <<fixed, history, walkComplete, importing, clean, interrupts>>

\* settings_netflix_csv_import starts the script, which loads the marks first.
StartImport(c) ==
  /\ run[c].pc = "idle" /\ script = "netflix" /\ imports < MaxImports
  /\ run' = [run EXCEPT ![c] = [NewRun(NoMark, TRUE) EXCEPT !.byDay = TRUE]]
  /\ overlapped' = (overlapped \/ Busy(Runner))
  /\ imports' = imports + 1
  /\ UNCHANGED <<fixed, history, tracked, lastSeen, walkComplete, ghosts, dawn, clean, interrupts>>

\* load_user_list_from_db, parse_csv_rows: the history as it was when the user
\* downloaded the export, by days.
ReadExport(c) ==
  /\ c \in Importer /\ run[c].pc = "fetch"
  /\ \E n \in DOMAIN history :
       /\ \E days \in SUBSET (2..n) : dawn' = days
       /\ run' = [run EXCEPT ![c] = [@ EXCEPT !.pc = "loop", !.asOf = n, !.end = TRUE, !.list = tracked,
                                              !.todo = {history[i] : i \in 1..n}]]
  /\ UNCHANGED <<fixed, history, tracked, lastSeen, walkComplete, ghosts, overlapped, imports, clean, interrupts>>

\* mark_walk_complete_if_reached_end, after the loop or when nothing was fetched.
Finish(r) ==
  /\ run[r].pc = "loop" /\ run[r].todo = {}
  /\ walkComplete' = (walkComplete \/ run[r].end)
  /\ clean' = (r \in Runner /\ (clean \/ (run[r].full /\ run[r].end /\ ~overlapped)))
  /\ run' = [run EXCEPT ![r] = NoRun]
  /\ UNCHANGED <<fixed, history, tracked, lastSeen, ghosts, importing, interrupts>>

\* The process dies: the step or pipeline timeout, a container restart, a failed
\* fetch (exit 1), or a database error: the exception aborts the transaction, so
\* nothing this connection does later is stored.
Interrupt(r) ==
  /\ run[r].pc # "idle" /\ interrupts < MaxInterrupts
  /\ interrupts' = interrupts + 1
  /\ clean' = (r \in Runner /\ clean /\ (run[r].pc = "fetch" \/ run[r].redo))
  /\ run' = [run EXCEPT ![r] = NoRun]
  /\ UNCHANGED <<fixed, history, tracked, lastSeen, walkComplete, ghosts, importing>>

\* run_import's loop, the one of the sync, and its set_walk_complete, whatever it found.
ImportStep(c) ==
  /\ run[c].pc # "idle"
  /\ ReadExport(c) \/ PassOver(c) \/ Skip(c) \/ ProcessAtomic(c) \/ Finish(c)

Step(r) == \/ Fetch(r) \/ PassOver(r) \/ Skip(r) \/ ProcessAtomic(r)
           \/ ProcessFirst(r) \/ ProcessSecond(r) \/ Finish(r)

Next == \/ Watch
        \/ UserAdds
        \/ \E r \in Runner : \/ \E forced \in BOOLEAN : Start(r, forced)
                             \/ Step(r)
                             \/ Interrupt(r)
        \/ \E c \in Importer : StartImport(c) \/ ImportStep(c) \/ Interrupt(c)

Spec == Init /\ [][Next]_vars

\* The scheduler starts an unforced sync every SYNC_INTERVAL_HOURS, and a started
\* script runs on until it ends or dies, and so does a started import.
Fairness == /\ \A r \in Runner : WF_vars(Start(r, FALSE)) /\ WF_vars(Step(r))
            /\ \A c \in Importer : WF_vars(ImportStep(c))

FairSpec == Spec /\ Fairness

-----------------------------------------------------------------------------
(* Properties.                                                             *)

Quiet == ~Busy(Process)

Behind(mark) == {i \in Time : 2 * i <= mark}

\* Everything up to the fetch watermark has been looked at: since the next
\* incremental run never reads behind the watermark, an event behind it that no
\* run handled would be lost for good (compute_fetch_watermark, issue #104).
\* Holds as long as no run that trusted walk_complete was cut short and no import
\* ended since the last completed full walk, so a Force Full Resync always repairs
\* the loss.  An import sets walk_complete although its export may be older than a
\* mark, and takes an event for an old one when the mark is of the same day.
NothingBehindWatermark ==
  /\ TypeOK
  /\ (Quiet /\ walkComplete /\ clean) => Behind(Watermark(lastSeen)) \subseteq done

\* The same without the proviso, as the comments on #104 put it: no killed run
\* leaves a fetched title behind that a later run will not look at.
NothingStranded == (Quiet /\ walkComplete) => Behind(Watermark(lastSeen)) \subseteq done

\* A watermark is never ahead of the update it stands for
\* (enqueue_outbox_update: "both happen or neither does").  Crunchyroll, which
\* commits the watermark first, keeps this only while no run is killed.
SeenIsApplied ==
  (Quiet /\ (script = "crunchyroll" => interrupts = 0)) =>
    \A m \in Media : lastSeen[m] # NoMark =>
      \E i \in applied : /\ mediaOf[history[i]] = m
                         /\ lastSeen[m] \in {2 * i} \cup {Midnight(j) : j \in {i} \cap lastDay}

\* Netflix's counting never adds one watched episode to the progress twice, not
\* even under a full re-fetch (_new_episode_count, issue #69), provided that no
\* two titles share an AniList entry and with it the entry's watermark.  After an
\* import it counts the last day of the series in the export again, since the mark
\* is that day's midnight; and an import and a sync that overlap count what both see.
CountedOnce ==
  /\ \A t, u \in Title : mediaOf[t] = mediaOf[u] /\ mediaOf[t] # NoMatch => t = u
  /\ ~overlapped
  => twice \subseteq lastDay

\* Every watch event is eventually processed or deliberately skipped, unless
\* incremental runs keep being cut short or newer events fill all pages of a fetch
\* (mark_walk_complete_if_reached_end, set_walk_complete).
EventuallyReviewed ==
  <>[]clean => \A i \in Time : [](Len(history) >= i => <>(i \in done \/ i <= Len(history) - FetchCap))
=============================================================================
