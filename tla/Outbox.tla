------------------------------- MODULE Outbox -------------------------------
(***************************************************************************)
(* Local-first delivery of list edits to AniList (app/outbox.py).          *)
(*                                                                         *)
(* Three copies of one user's list are modelled together: library_entries  *)
(* (what the app shows), status_sync_outbox (the updates still owed to     *)
(* AniList) and the remote AniList list.  They are changed by              *)
(*   - bulk status edits and provider syncs, which write locally and queue *)
(*     an outbox row (bulk_set_status, enqueue_outbox_update);             *)
(*   - the single worker thread, which pushes queued rows;                 *)
(*   - single-card edits, which push first and write locally afterwards;   *)
(*   - the AniList pull sync, which copies the remote list back;           *)
(*   - the user on anilist.co.                                             *)
(*                                                                         *)
(* DATA.  Every edit is numbered by clock, and the number stands for the   *)
(* value that edit writes: ver[f] is the number of the edit whose value    *)
(* field f holds, so "newer" can be said.  A deletion is an edit that      *)
(* writes the default value of every field.  created_at is the edit number *)
(* too, so <<at, anime>> identifies an outbox row: one edit queues at most *)
(* one row per anime.                                                      *)
(***************************************************************************)
EXTENDS Integers, FiniteSets

CONSTANTS
  Anime,        \* AniList media ids
  Editors,      \* concurrent single-card requests (browser tabs, MCP calls)
  Field,        \* the columns an outbox row can carry
  MaxAttempts,  \* outbox.MAX_ATTEMPTS
  BatchLimit,   \* the drain query's LIMIT
  MaxEdits,     \* model bound on clock
  MaxFaults     \* model bound on crashes and database errors

ASSUME FieldAssumption == /\ "status" \in Field
                          /\ Field \subseteq {"status", "progress", "repeat"}
ASSUME LimitAssumption == /\ MaxAttempts \in Nat \ {0}
                          /\ BatchLimit \in Nat \ {0}
                          /\ MaxEdits \in Nat
                          /\ MaxFaults \in Nat

VARIABLES
  clock,     \* number of edits made so far
  lib,       \* library_entries: sync_status (or "absent") and field versions
  outbox,    \* status_sync_outbox
  remote,    \* the AniList list
  wpc,       \* where the worker thread is
  batch,     \* the rows the running drain fetched and has not reached yet
  item,      \* the row (as fetched) the worker is processing
  attempt,   \* _process_item's local attempt counter
  ui,        \* per editor: the single-card request in progress
  pull,      \* the pull sync's fetched copy of the remote list
  faults     \* crashes and database errors so far

vars == <<clock, lib, outbox, remote, wpc, batch, item, attempt, ui, pull, faults>>

workerVars == <<wpc, batch, item, attempt>>

Edit     == 0..MaxEdits
Versions == [Field -> Edit]
LibRow   == [sync: {"absent", "synced", "pending"}, ver: Versions]
ListRow  == [on: BOOLEAN, ver: Versions]
Row      == [anime: Anime, at: Edit, fields: (SUBSET Field) \ {{}},
             state: {"pending", "in_progress", "failed"}, attempts: 0..MaxAttempts]

NoItem   == [state |-> "none"]

\* A single-card request is at "write" (AniList confirmed the push, library_entries
\* is not written) or "clear" (written, outbox rows not yet deleted: status edits).
EditKind == {"status", "add", "delete"} \cup (Field \cap {"progress"})
Idle     == [pc |-> "idle"]
Session  == [pc: {"write", "clear"}, kind: EditKind, anime: Anime, at: Edit] \cup {Idle}

NoPull == [fetched |-> FALSE, list |-> [a \in Anime |-> [on |-> FALSE, ver |-> [f \in Field |-> 0]]]]

-----------------------------------------------------------------------------
Write(ver, fields, n) == [f \in Field |-> IF f \in fields THEN n ELSE ver[f]]

FieldsOf(kind) == CASE kind = "progress" -> {"progress"}
                    [] kind = "delete"   -> Field
                    [] OTHER             -> {"status"}

RowsOf(a) == {r \in outbox : r.anime = a}

SameRow(r, s) == r.anime = s.anime /\ r.at = s.at

Marked(r, state, n) == [r EXCEPT !.state = state, !.attempts = n]

\* UPDATE status_sync_outbox SET state, attempts WHERE id = row's id: touches
\* nothing when the row has been deleted meanwhile.
SetRow(row, state, n) ==
  {IF SameRow(r, row) THEN Marked(r, state, n) ELSE r : r \in outbox}

Init ==
  /\ clock = 0
  /\ \E listed \in SUBSET Anime :
       /\ lib = [a \in Anime |-> [sync |-> IF a \in listed THEN "synced" ELSE "absent",
                                  ver  |-> [f \in Field |-> 0]]]
       /\ remote = [a \in Anime |-> [on |-> a \in listed, ver |-> [f \in Field |-> 0]]]
  /\ outbox = {}
  /\ wpc = "idle" /\ batch = {} /\ item = NoItem /\ attempt = 0
  /\ ui = [e \in Editors |-> Idle]
  /\ pull = NoPull
  /\ faults = 0

-----------------------------------------------------------------------------
(* Local-first writes: one transaction per call.                           *)

\* Upsert the given columns with sync_status 'pending', delete the anime's
\* undelivered rows except one being pushed, insert the new row.
Enqueue(S, fields) ==
  /\ clock < MaxEdits
  /\ clock' = clock + 1
  /\ lib' = [a \in Anime |->
               IF a \in S THEN [sync |-> "pending", ver |-> Write(lib[a].ver, fields, clock')]
                          ELSE lib[a]]
  /\ outbox' = {r \in outbox : ~(r.anime \in S /\ r.state \in {"pending", "failed"})}
               \cup {[anime |-> a, at |-> clock', fields |-> fields,
                      state |-> "pending", attempts |-> 0] : a \in S}
  /\ UNCHANGED <<remote, workerVars, ui, pull, faults>>

BulkSetStatus == \E S \in (SUBSET Anime) \ {{}} : Enqueue(S, {"status"})

ProviderUpdate == \E a \in Anime, fields \in (SUBSET Field) \ {{}} : Enqueue({a}, fields)

\* Mutants of Retry: it also takes rows being pushed; it keeps the attempt count.
RetryAnyState(a) ==
  /\ RowsOf(a) # {}
  /\ outbox' = {IF r.anime = a THEN Marked(r, "pending", 0) ELSE r : r \in outbox}
  /\ UNCHANGED <<clock, lib, remote, workerVars, ui, pull, faults>>

\* "Retry failed": every failed row of the anime becomes pending again.
Retry(a) ==
  /\ \E r \in RowsOf(a) : r.state = "failed"
  /\ outbox' = {IF r.anime = a /\ r.state = "failed"
                THEN Marked(r, "pending", 0) ELSE r : r \in outbox}
  /\ UNCHANGED <<clock, lib, remote, workerVars, ui, pull, faults>>

-----------------------------------------------------------------------------
(* The worker thread.                                                      *)

\* Mutant of Due: the drain query asks for 'pending' only.
DuePendingOnly == {r \in outbox : r.state = "pending"}

Due == {r \in outbox : r.state \in {"pending", "in_progress"}}

\* Mutant of Drain: the query has no ORDER BY.
DrainUnordered ==
  /\ wpc = "idle" /\ Due # {}
  /\ \E B \in SUBSET Due :
       /\ Cardinality(B) = IF Cardinality(Due) < BatchLimit THEN Cardinality(Due) ELSE BatchLimit
       /\ batch' = B
  /\ wpc' = "next"
  /\ UNCHANGED <<clock, lib, outbox, remote, item, attempt, ui, pull, faults>>

\* SELECT ... ORDER BY created_at LIMIT n; rows of one edit come in any order.
Drain ==
  /\ wpc = "idle" /\ Due # {}
  /\ \E B \in SUBSET Due :
       /\ Cardinality(B) = IF Cardinality(Due) < BatchLimit THEN Cardinality(Due) ELSE BatchLimit
       /\ \A r \in B, s \in Due \ B : r.at <= s.at
       /\ batch' = B
  /\ wpc' = "next"
  /\ UNCHANGED <<clock, lib, outbox, remote, item, attempt, ui, pull, faults>>

\* Start of _process_item: mark the row, continue from the fetched attempts.
Take ==
  /\ wpc = "next"
  /\ \E r \in batch :
       /\ \A s \in batch : r.at <= s.at
       /\ item' = r /\ attempt' = r.attempts
       /\ batch' = batch \ {r}
       /\ outbox' = SetRow(r, "in_progress", r.attempts)
  /\ wpc' = "push"
  /\ UNCHANGED <<clock, lib, remote, ui, pull, faults>>

\* Mutant of Deliver: the push sends the status alone.
DeliverStatusOnly == remote' = [remote EXCEPT ![item.anime] =
  [on |-> TRUE, ver |-> Write(@.ver, item.fields \cap {"status"}, item.at)]]

Deliver == remote' = [remote EXCEPT ![item.anime] =
             [on |-> TRUE, ver |-> Write(@.ver, item.fields, item.at)]]

\* AniList confirmed the push.  A 429 answer is a stuttering step: the worker
\* sleeps and tries again without counting an attempt.
PushOk ==
  /\ wpc = "push" /\ attempt < MaxAttempts
  /\ Deliver
  /\ wpc' = "ack"
  /\ UNCHANGED <<clock, lib, outbox, batch, item, attempt, ui, pull, faults>>

\* The push failed, or was applied by AniList and its answer was lost.
PushFails ==
  /\ wpc = "push" /\ attempt < MaxAttempts
  /\ Deliver \/ UNCHANGED remote
  /\ attempt' = attempt + 1
  /\ outbox' = SetRow(item, "in_progress", attempt')
  /\ UNCHANGED <<clock, lib, wpc, batch, item, ui, pull, faults>>

ItemDone == /\ wpc' = IF batch = {} THEN "idle" ELSE "next"
            /\ item' = NoItem /\ attempt' = 0

\* Mutant of Ack: the row is deleted, the dirty flag stays.
AckLeavesDirty ==
  /\ wpc = "ack"
  /\ outbox' = {r \in outbox : ~SameRow(r, item)}
  /\ ItemDone
  /\ UNCHANGED <<clock, lib, remote, batch, ui, pull, faults>>

\* Mutant of Ack: every row of the anime is deleted, newer ones too.
AckDropsNewer ==
  /\ wpc = "ack"
  /\ lib' = [lib EXCEPT ![item.anime].sync = IF @ = "absent" THEN @ ELSE "synced"]
  /\ outbox' = outbox \ RowsOf(item.anime)
  /\ ItemDone
  /\ UNCHANGED <<clock, remote, batch, ui, pull, faults>>

\* One transaction: clear the dirty flag, delete the row.
Ack ==
  /\ wpc = "ack"
  /\ lib' = [lib EXCEPT ![item.anime].sync = IF @ = "absent" THEN @ ELSE "synced"]
  /\ outbox' = {r \in outbox : ~SameRow(r, item)}
  /\ ItemDone
  /\ UNCHANGED <<clock, remote, batch, ui, pull, faults>>

GiveUp ==
  /\ wpc = "push" /\ attempt >= MaxAttempts
  /\ outbox' = SetRow(item, "failed", attempt)
  /\ ItemDone
  /\ UNCHANGED <<clock, lib, remote, batch, ui, pull, faults>>

WorkerRestarts == wpc' = "idle" /\ batch' = {} /\ item' = NoItem /\ attempt' = 0

\* A database error leaves _drain_once; _run logs it and waits for the next cycle.
DrainFails ==
  /\ wpc # "idle" /\ faults < MaxFaults
  /\ WorkerRestarts
  /\ faults' = faults + 1
  /\ UNCHANGED <<clock, lib, outbox, remote, ui, pull>>

-----------------------------------------------------------------------------
(* Single-card edits: push to AniList, then write locally.                 *)

\* The push.  On an error answer the request ends, whether or not AniList
\* applied it; a delete needs the entry to be in both lists.
UiPush(e) ==
  /\ ui[e].pc = "idle" /\ clock < MaxEdits
  /\ \E kind \in EditKind, a \in Anime, confirmed \in BOOLEAN :
       /\ kind = "delete" => lib[a].sync # "absent" /\ remote[a].on
       /\ clock' = clock + 1
       /\ remote' = [remote EXCEPT ![a] = [on  |-> kind # "delete",
                                           ver |-> Write(@.ver, FieldsOf(kind), clock')]]
       /\ ui' = IF confirmed
                THEN [ui EXCEPT ![e] = [pc |-> "write", kind |-> kind, anime |-> a, at |-> clock']]
                ELSE ui
  /\ UNCHANGED <<lib, outbox, workerVars, pull, faults>>

\* The local write that follows a confirmed push.
UiWrite(e) ==
  /\ ui[e].pc = "write"
  /\ LET s == ui[e]
         sync == lib[s.anime].sync
     IN /\ lib' = [lib EXCEPT ![s.anime] =
             IF s.kind = "progress" /\ sync = "absent" THEN @    \* UPDATE of no row
             ELSE [sync |-> CASE s.kind = "status"                   -> "synced"
                              [] s.kind = "add" /\ sync = "absent"   -> "synced"
                              [] s.kind = "delete"                   -> "absent"
                              [] OTHER                               -> sync,
                   ver  |-> Write(@.ver, FieldsOf(s.kind), s.at)]]
        /\ ui' = [ui EXCEPT ![e] = IF s.kind = "status" THEN [s EXCEPT !.pc = "clear"] ELSE Idle]
  /\ UNCHANGED <<clock, outbox, remote, workerVars, pull, faults>>

\* A status edit then deletes the anime's outbox rows, in a second transaction.
UiClear(e) ==
  /\ ui[e].pc = "clear"
  /\ outbox' = outbox \ RowsOf(ui[e].anime)
  /\ ui' = [ui EXCEPT ![e] = Idle]
  /\ UNCHANGED <<clock, lib, remote, workerVars, pull, faults>>

-----------------------------------------------------------------------------
(* The AniList pull sync and the user on anilist.co.                       *)

PullFetch ==
  /\ ~pull.fetched
  /\ pull' = [fetched |-> TRUE, list |-> remote]
  /\ UNCHANGED <<clock, lib, outbox, remote, workerVars, ui, faults>>

\* Mutant of PullApply: ON CONFLICT DO NOTHING.
PullInsertsOnly ==
  /\ pull.fetched
  /\ lib' = [a \in Anime |->
               IF pull.list[a].on /\ lib[a].sync = "absent"
               THEN [sync |-> "synced", ver |-> pull.list[a].ver] ELSE lib[a]]
  /\ pull' = NoPull
  /\ UNCHANGED <<clock, outbox, remote, workerVars, ui, faults>>

\* One transaction: entries of the fetched list are inserted, or overwrite a
\* row whose sync_status is 'synced'; entries missing from it are left alone.
PullApply ==
  /\ pull.fetched
  /\ lib' = [a \in Anime |->
               IF pull.list[a].on /\ lib[a].sync # "pending"
               THEN [sync |-> "synced", ver |-> pull.list[a].ver] ELSE lib[a]]
  /\ pull' = NoPull
  /\ UNCHANGED <<clock, outbox, remote, workerVars, ui, faults>>

RemoteEdit ==
  /\ clock < MaxEdits
  /\ clock' = clock + 1
  /\ \E a \in Anime, f \in Field :
       remote' = [remote EXCEPT ![a] = [on |-> TRUE, ver |-> Write(@.ver, {f}, clock')]]
  /\ UNCHANGED <<lib, outbox, workerVars, ui, pull, faults>>

\* The container stops (or is killed) and starts again: the worker thread, the
\* requests in progress and the sync subprocess are gone, the tables remain.
Crash ==
  /\ faults < MaxFaults
  /\ faults' = faults + 1
  /\ WorkerRestarts
  /\ ui' = [e \in Editors |-> Idle]
  /\ pull' = NoPull
  /\ UNCHANGED <<clock, lib, outbox, remote>>

-----------------------------------------------------------------------------
Worker == Drain \/ Take \/ PushOk \/ PushFails \/ Ack \/ GiveUp

Next ==
  \/ BulkSetStatus \/ ProviderUpdate \/ \E a \in Anime : Retry(a)
  \/ Worker \/ DrainFails
  \/ \E e \in Editors : UiPush(e) \/ UiWrite(e) \/ UiClear(e)
  \/ PullFetch \/ PullApply \/ RemoteEdit
  \/ Crash

Spec == Init /\ [][Next]_vars

\* The thread loops with a fallback sweep, requests run to completion unless the
\* process dies, and the pull sync is a periodic job.  WF_vars(Worker) also says
\* that AniList does not answer 429 for ever.
Fairness == /\ WF_vars(Worker)
            /\ \A e \in Editors : WF_vars(UiWrite(e)) /\ WF_vars(UiClear(e))
            /\ WF_vars(PullFetch) /\ WF_vars(PullApply)

FairSpec == Spec /\ Fairness

-----------------------------------------------------------------------------
(* What the outbox guarantees.                                             *)

\* Every variable holds a value of its type.
TypeOK ==
  /\ clock \in Edit
  /\ lib \in [Anime -> LibRow]
  /\ outbox \subseteq Row
  /\ remote \in [Anime -> ListRow]
  /\ wpc \in {"idle", "next", "push", "ack"}
  /\ batch \subseteq Row
  /\ item \in Row \cup {NoItem}
  /\ attempt \in 0..MaxAttempts
  /\ ui \in [Editors -> Session]
  /\ pull \in [fetched: BOOLEAN, list: [Anime -> ListRow]]
  /\ faults \in 0..MaxFaults

Stranded(a) == lib[a].sync = "pending" /\ RowsOf(a) = {}

\* While the worker processes a row, that row is either gone or still marked
\* in_progress with the worker's own attempt count: superseding writes, "Retry
\* failed" and a restart never hand it to anyone else or reset its count.
WorkerOwnsItem ==
  item # NoItem =>
    \A r \in outbox : SameRow(r, item) => r.state = "in_progress" /\ r.attempts = attempt

\* When the worker is about to delete a row and mark the entry synced, AniList
\* holds that row's value, or a newer one, in every field the row carries,
\* whatever cards, pulls, crashes and anilist.co did since the push.
AckMeansDelivered ==
  wpc = "ack" => \A f \in item.fields : remote[item.anime].ver[f] >= item.at

\* A row shown as failed used up all its attempts, and a row waiting to be
\* pushed has all of them left, also after crashes and retries.
AttemptsMatchState ==
  \A r \in outbox : /\ r.state = "failed"  => r.attempts = MaxAttempts
                    /\ r.state = "pending" => r.attempts = 0

\* An entry loses the last outbox row that would clear its dirty flag only in
\* one way: a single-card status edit deletes a row that was queued between
\* that edit's local write and its delete statement.
OnlyClearStrands ==
  [][\A a \in Anime : Stranded(a)' /\ ~Stranded(a) =>
       \E e \in Editors : /\ ui[e].pc = "clear" /\ ui[e].anime = a
                          /\ ui'[e] = Idle /\ RowsOf(a) # {}]_vars

\* The user stops pressing "Retry failed" (endless retries of old rows could keep
\* newer ones out of a full drain batch).
RetriesStop == <>[][\A a \in Anime : ~Retry(a)]_vars

Unsettled(a, n) == \E r \in outbox : r.anime = a /\ r.at = n /\ r.state # "failed"

\* Every queued update is eventually delivered, superseded, cleared or failed:
\* no row waits for ever behind others, and none is left in_progress by a crash.
QueuedUpdatesSettle ==
  RetriesStop =>
    \A a \in Anime, n \in 1..MaxEdits : Unsettled(a, n) ~> ~Unsettled(a, n)

\* When edits stop, the app and AniList end up showing the same entry, for every
\* anime AniList lists that has no row left to show as failed or being retried
\* (and was not stranded, see OnlyClearStrands).
EventuallyConsistent ==
  <>[](\A a \in Anime : \/ ~remote[a].on \/ RowsOf(a) # {} \/ Stranded(a)
                        \/ lib[a].sync = "synced" /\ lib[a].ver = remote[a].ver)
=============================================================================
