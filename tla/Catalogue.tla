------------------------------ MODULE Catalogue ------------------------------
(***************************************************************************)
(* Reference data for the whole catalogue: filler episodes                 *)
(* (scripts/sync_filler_data.py, daily) and manga and novel sources        *)
(* (scripts/sync_manga_data.py, weekly).  Both scripts walk the titles     *)
(* that are due in the order of their ids, ask remote services about each, *)
(* and commit what they found together with the time of the check, title   *)
(* by title.  The app stops a run that takes too long; what it had not     *)
(* reached stays due.                                                      *)
(*                                                                         *)
(* The two jobs share no table, so a behaviour is about one of them.  Time *)
(* is counted in runs of the job.                                          *)
(***************************************************************************)
EXTENDS Integers, FiniteSets, FiniteSetsExt

CONSTANTS
  Id,          \* ids of the catalogue's titles
  FillerAgain, FillerRetry,  \* runs until a title with, without a series is due again
  MangaAgain, MangaRetry,    \* runs until a title with, without a source is due again
  Reach,       \* titles a run gets through before its timeout can strike
  MaxVersion,  \* model bound on versions of remote data
  MaxUpdates,  \* model bound on changes at the remote services
  MaxErrors    \* model bound on failed remote calls

ASSUME CatalogueAssumption ==
  /\ Id \subseteq Nat /\ IsFiniteSet(Id)
  /\ {Reach, MaxVersion, MaxUpdates, MaxErrors} \subseteq Nat
  /\ {FillerAgain, FillerRetry, MangaAgain, MangaRetry} \subseteq Nat \ {0}

VARIABLES
  script,  \* the job
  remote,  \* what the services know of each part of a title
  stored,  \* filler_episode_cache, manga_adaptation_cache
  state,   \* filler_sync_state, manga_adaptation_sync_state
  pass,    \* the run under way
  asOf,    \* ghost: what a title's last committed check saw
  updates, errors

catalogue == <<script, remote, stored, state, pass, asOf, updates, errors>>

Absent == -1   \* no series, no source, no row
Part == IF script = "filler" THEN {"EPISODES"} ELSE {"MANGA", "NOVEL"}
AllParts == {"EPISODES", "MANGA", "NOVEL"}
Data == [Id -> [AllParts -> Absent..MaxVersion]]
Nothing == [t \in Id |-> [p \in AllParts |-> Absent]]
NoPass == [pc |-> "idle", due |-> {}, cur |-> 0, left |-> {}, dirty |-> {}, reached |-> 0]

\* RECHECK_INTERVAL_MATCHED, RECHECK_INTERVAL_NO_MATCH
Recheck(found) == IF script = "filler" THEN (IF found THEN FillerAgain ELSE FillerRetry)
                  ELSE IF found THEN MangaAgain ELSE MangaRetry

Longest == Max({FillerAgain, FillerRetry, MangaAgain, MangaRetry})

CatalogueTypeOK ==
  /\ script \in {"filler", "manga"}
  /\ remote \in Data /\ stored \in Data /\ asOf \in Data
  /\ state \in [Id -> [found: BOOLEAN, age: Absent..Longest]]
  /\ pass \in [pc: {"idle", "loop", "title"}, due: SUBSET Id, cur: Id \cup {0}, left: SUBSET AllParts,
               dirty: SUBSET (Id \X AllParts \X (0..MaxVersion)), reached: 0..Reach]

CatalogueInit ==
  /\ script \in {"filler", "manga"}
  /\ \E known \in SUBSET Id :
       remote = [t \in Id |-> [p \in AllParts |-> IF t \in known /\ p \in Part THEN 0 ELSE Absent]]
  /\ stored = Nothing /\ asOf = Nothing
  /\ state = [t \in Id |-> [found |-> FALSE, age |-> Absent]]
  /\ pass = NoPass
  /\ updates = 0 /\ errors = 0

\* A series or source appears, changes, or is withdrawn.
Publish(t, p, v) ==
  /\ updates < MaxUpdates /\ updates' = updates + 1
  /\ p \in Part /\ v # remote[t][p]
  /\ remote' = [remote EXCEPT ![t][p] = v]
  /\ UNCHANGED <<script, stored, state, pass, asOf, errors>>

\* Mutant of IsDue: a matched title is due on every run.
IsDueAlways(row) == row.age = Absent \/ row.found \/ row.age >= Recheck(row.found)

\* is_due
IsDue(row) == row.age = Absent \/ row.age >= Recheck(row.found)

\* One period after the last run: the ages grow, and the due titles are read.
Begin ==
  /\ pass.pc = "idle"
  /\ state' = [t \in Id |-> IF state[t].age \in {Absent, Longest} THEN state[t]
                            ELSE [state[t] EXCEPT !.age = @ + 1]]
  /\ pass' = [NoPass EXCEPT !.pc = "loop", !.due = {t \in Id : IsDue(state'[t])}]
  /\ UNCHANGED <<script, remote, stored, asOf, updates, errors>>

\* The next title of the loop, in the order of ids.
NextTitle ==
  /\ pass.pc = "loop" /\ pass.due # {}
  /\ pass' = [pass EXCEPT !.pc = "title", !.cur = Min(pass.due), !.due = @ \ {Min(pass.due)}, !.left = Part]
  /\ UNCHANGED <<script, remote, stored, state, asOf, updates, errors>>

\* One remote lookup and its uncommitted write: episodes are replaced, also by
\* none; a source that is not there leaves its row alone.
Lookup(p) ==
  /\ pass.pc = "title" /\ p \in pass.left
  /\ LET v == remote[pass.cur][p]
     IN pass' = [pass EXCEPT !.left = @ \ {p},
                             !.dirty = IF v = Absent THEN @ ELSE @ \cup {<<pass.cur, p, v>>}]
  /\ UNCHANGED <<script, remote, stored, state, asOf, updates, errors>>

\* Rows d put into table f.
Written(f, d) ==
  [t \in Id |-> [p \in AllParts |->
     IF \E v \in 0..MaxVersion : <<t, p, v>> \in d THEN CHOOSE v \in 0..MaxVersion : <<t, p, v>> \in d
     ELSE f[t][p]]]

\* One more title is through.
Reached == Min({Reach, pass.reached + 1})

\* The state row, and the commit: all that the connection has written.
Commit ==
  /\ pass.pc = "title" /\ pass.left = {}
  /\ LET t == pass.cur
         mine == {d \in pass.dirty : d[1] = t}
     IN /\ stored' = Written(stored, pass.dirty)
        /\ asOf' = Written(asOf, mine)
        /\ state' = [state EXCEPT ![t] = [found |-> mine # {}, age |-> 0]]
  /\ pass' = [pass EXCEPT !.pc = "loop", !.cur = 0, !.dirty = {}, !.reached = Reached]
  /\ UNCHANGED <<script, remote, updates, errors>>

\* Mutant of TitleFails: the rollback is missing.
TitleFailsUnrolled ==
  /\ pass.pc = "title" /\ errors < MaxErrors /\ errors' = errors + 1
  /\ pass' = [pass EXCEPT !.pc = "loop", !.cur = 0, !.left = {}, !.reached = Reached]
  /\ UNCHANGED <<script, remote, stored, state, asOf, updates>>

\* A remote call fails: rollback, and on to the next title.
TitleFails ==
  /\ pass.pc = "title" /\ errors < MaxErrors /\ errors' = errors + 1
  /\ pass' = [pass EXCEPT !.pc = "loop", !.cur = 0, !.left = {}, !.dirty = {}, !.reached = Reached]
  /\ UNCHANGED <<script, remote, stored, state, asOf, updates>>

RunEnds ==
  /\ pass.pc = "loop" /\ pass.due = {}
  /\ pass' = NoPass
  /\ UNCHANGED <<script, remote, stored, state, asOf, updates, errors>>

\* The outer timeout (1200 s, 5400 s) kills the script; its transaction is lost.
TimedOut ==
  /\ pass.pc # "idle" /\ pass.reached = Reach
  /\ pass' = NoPass
  /\ UNCHANGED <<script, remote, stored, state, asOf, updates, errors>>

\* sync_one_anime of the two scripts.
FillerLookup == script = "filler" /\ Lookup("EPISODES")
MangaLookup  == script = "manga" /\ (Lookup("MANGA") \/ Lookup("NOVEL"))
FillerCommit == script = "filler" /\ Commit
MangaCommit  == script = "manga" /\ Commit

CatalogueStep == Begin \/ NextTitle \/ FillerLookup \/ MangaLookup \/ FillerCommit \/ MangaCommit \/ RunEnds

CatalogueNext ==
  \/ \E t \in Id, p \in AllParts, v \in Absent..MaxVersion : Publish(t, p, v)
  \/ CatalogueStep \/ TitleFails \/ TimedOut

-----------------------------------------------------------------------------
(* Properties.                                                             *)

\* How many titles the runs of one recheck interval can reach, and whether t is
\* among them.
Capacity == IF script = "filler" THEN Reach * FillerAgain ELSE Reach * MangaAgain
Fits(t) == Cardinality({i \in Id : i <= t}) <= Capacity

\* A title's rows are what its last committed check saw: a check that failed
\* half-way leaves no row behind, not even with the commit of a later title
\* (sync_one_anime, conn.rollback()).
CheckedTogether ==
  /\ CatalogueTypeOK
  /\ stored = asOf
  /\ \A t \in Id : state[t].found => state[t].age # Absent /\ \E p \in Part : stored[t][p] # Absent

\* "any title not reached this run just stays due and gets picked up on a later"
\* run: though every run is cut short, every title that comes before the catalogue
\* outgrows what the runs of one recheck interval can reach is checked again and
\* again.  Manga titles are due on every run, so that only the first Reach titles
\* of the catalogue are sure of it.
TitlesRechecked == \A t \in Id : Fits(t) ~> state[t].age = 0
=============================================================================
