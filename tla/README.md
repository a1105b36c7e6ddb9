# AniDex in TLA+

AniDex keeps a user's anime list in Postgres, mirrors it with AniList, feeds it
from streaming providers' watch histories and serves it from one FastAPI
process. What can go wrong in it is mostly a matter of order: four copies of the
same fact (provider history, local list, outbox row, AniList entry) are moved by
a worker thread, request handlers, a scheduler and subprocesses, each of which may
be killed between two commits. This directory models those parts, checks them
with TLC, and proves part of it with TLAPS.

All paths below are relative to the repository.

## The system

| Component | State it keeps | Operations | Talks to |
|---|---|---|---|
| Outbox worker (`app/outbox.py`) | `status_sync_outbox`, `library_entries.sync_status` | drain, push with attempts, acknowledge, give up, restart reset | AniList; woken by handlers and a sweep |
| List edits (`app/main.py`) | `library_entries` | bulk status (queued), single-card status/progress/add/delete (pushed first), Retry failed | outbox, AniList |
| AniList pull (`scripts/sync_anilist.py`) | `library_entries`, `anime` | fetch the list, guarded upsert | first step of every pipeline |
| Provider syncs (`scripts/sync_{crunchyroll,plex,primevideo,netflix}.py`, `anilist_sync_common.py`, `import_netflix_csv.py`) | `*_sync_state`, `<provider>_walk_complete`, title caches | fetch above the watermark, match, skip or create, decide, queue, advance the watermark | provider, outbox |
| Episode and rewatch decision (`process_max_aggregated_progress`) | `last_seen_episode`, `in_rewatch` | first sync, advance, complete, rewatch, resume | called per series |
| Sync pipeline (`app/main.py`, `run_full_sync.py`) | `_sync_state`, `sync_log` | buttons, daily job, steps with timeouts, outer timeout, orphan cleanup, notification, availability gate | subprocesses, notifications |
| Recommender (`run_recommender.py`) | `recommendation_scores`, `sync_log` | weekly: find candidates, hold back sequels, score, rank, store; dismiss, snooze | AniList, pipeline log |
| Sessions and impersonation (`app/sessions.py`) | `sessions`, signed cookie | create, resolve, lazy revoke, impersonate, stop, deactivate | every request |
| Accounts (`app/routers/auth.py`, `app/main.py`) | `users`, `invites` | register, OAuth callback, link, unlink, invite | sessions |
| Local login (`app/routers/auth.py`, `app/main.py`) | attempt counters, lockouts, `totp_recovery_codes`, `password_resets` | password form, second factor, enable, disable, reset | sessions |
| Airing alerts (`app/main.py`, `sync_airing_schedule.py`) | `airing_schedule_cache`, `notified_episodes` | hourly refresh and alert, visit digest, shifts | AniList, channels |
| Availability and health signals (`app/main.py`) | `planning_availability_state`, `instance_config` | poll, compare, alert, record | after a sync, hourly |
| Catalogue data (`sync_filler_data.py`, `sync_manga_data.py`) | filler and manga caches and check times | recheck what is due, title by title, until a timeout | remote services |
| Personal layer (`app/main.py`) | `personal_notes`, `rewatch_notes`, `episode_notes` | notes form, heart, bulk tags, tag vocabulary, queue, export, import | list edits, pull |
| Backups and restore (`app/main.py`, `restore_backup.py`) | `instance_backups` | scheduled zip with pruning, restore script | personal layer |
| Web push (`app/vapid.py`, `app/notify.py`) | key pair in `instance_config`, `push_subscriptions` | make the pair, subscribe, send, drop gone subscriptions | push service |
| Pages, stats, MCP tools, tokens, CSRF, Plex connection, front end | mostly read-only | | |

Hard behaviour, by component:

* **Outbox**: a push outlives the row it came from (superseded, cleared by a card
  edit); an answer is lost after AniList applied it; the process dies between push
  and acknowledgement; old and new rows of one anime wait in different drain
  batches; the pull holds a list that is older than an acknowledged push.
* **Provider syncs**: two commits per title in a script-dependent order; the
  watermark is shared by all titles of a walk, so a title that fails behind it is
  never fetched again; several titles may resolve to one entry.
* **Decision**: runs on snapshots; redelivered events; rewatches interleaved with
  drops, edits on AniList, forced resyncs.
* **Pipeline**: single flight between buttons and jobs, a kill at any point, cleanup
  by a query rather than by id, work after the flag is released, restarts.
* **Sessions, accounts, login**: every handler is a row of statements committed one
  by one, reads a copy and writes what it computed from it; two tabs overwrite each
  other's cookie; counts and look-ups precede the inserts they justify.
* **Alerts**: what is alerted and what is recorded are two steps; the schedule is
  rewritten between two polls; scripts are cut off by timeouts half-way.
* **Personal layer**: one row written by five handlers, each some of its columns,
  from pages loaded at different times; exports and backups read over many statements.
* **Recommender**: minutes lie between reading the library and storing scores.
* **Web push**: two halves of a key pair stored by two statements, generated by
  whoever first finds them missing.

## Modules

| Module | What it is | Code |
|---|---|---|
| `Outbox` | local list, outbox, AniList list, worker, card edits, pull, crash | `outbox.py`, `main.py` edits, `sync_anilist.py` |
| `OutboxHistory` | `Outbox` with the history needed to speak of delivery order | |
| `Delivery` | the abstract promise: an update is owed until it is delivered, replaced, cleared or put aside | |
| `OutboxPromise` | the refinement mapping from `Outbox` to `Delivery` | |
| `OutboxProofs` | proofs about `Outbox`, `OutboxHistory` and the refinement | |
| `ProviderSync` | many titles, one walk: watermark, full walks, skip/create, commit orders, kills; a Netflix export imported beside it | `anilist_sync_common.py`, the four scripts, `import_netflix_csv.py` |
| `EpisodeDecision` | the decision as a pure function of entry, state row and episode | `process_max_aggregated_progress` |
| `SeriesProgress` | one series across runs, edits, forced resyncs and kills, deciding with `EpisodeDecision` | `sync_crunchyroll.py`, `sync_plex.py`, `sync_primevideo.py` |
| `SyncPipeline` | triggers, jobs, subprocess, timeouts, sync log, after-work | `main.py`, `run_full_sync.py`, `run_recommender.py` |
| `SyncPipelineProofs` | proofs about `SyncPipeline` | |
| `ProviderSyncProofs` | proofs about `ProviderSync` | |
| `SessionsProofs` | proofs about `Sessions` | |
| `AccountsProofs`, `LocalLoginProofs` | proofs about `Accounts` and `LocalLogin` | |
| `AlertsProofs` | proofs about `AiringAlerts`, `Signals` and `Catalogue`, as `MCAlerts` composes them | |
| `LibraryProofs` | proofs about `SeriesProgress`, `WebPush`, `Library` and `Recommender` | |
| `Sessions` | session rows, cookies of concurrent tabs, impersonation, deactivation | `sessions.py`, `get_current_user`, admin handlers |
| `Accounts` | who gets an account, with which login methods | registration, OAuth callback, invites, link, unlink |
| `LocalLogin` | one account's password, second factor, recovery codes, resets | `auth.py`, `settings_2fa` handlers |
| `AiringAlerts` | airing times, their refresh, episode alerts, digest and shifts | `main.py`, `sync_airing_schedule.py` |
| `Signals` | availability and health: poll, compare, alert, record | `main.py` |
| `Catalogue` | the filler and manga scripts, cut off by timeouts | `sync_filler_data.py`, `sync_manga_data.py` |
| `Library` | the personal layer, export, import, backups, restore | `main.py`, `restore_backup.py` |
| `Recommender` | candidates, the walk over prequels, ranking, the user's decisions | `run_recommender.py`, `main.py` |
| `WebPush` | key pair, subscriptions, sends | `vapid.py`, `notify.py`, `main.py`, `settings.html` |
| `MC*` | constants, symmetry, refuted claims, and the modules checked in one run | |

How state corresponds:

* `Outbox`: every edit has a number, and the number stands for the values it
  writes; `ver[f]` of a list entry says whose value field `f` holds. That makes
  "newer" a comparison and keeps values abstract. `wpc`, `batch`, `item`, `attempt`
  are the worker's program point and its local variables in `_drain_once` and
  `_process_item`; `ui[e]` is a card request between its AniList call, its local
  write and its delete of outbox rows. One transaction of the code is one action.
* `ProviderSync`: `history[i]` is the title watched at time `i`, so timestamps are
  positions and a fetch is an interval. `done`, `applied`, `twice` and `clean` are
  ghosts: which events were handled, queued, counted twice, and whether a run that
  trusted `walk_complete` has been cut short, or an import has ended, since the last
  completed full walk. An import is a run of the same loop whose stamps are midnights:
  the days of the history are drawn when it reads its file.
* `SeriesProgress`: `run.snap` and `run.state` are the copies a run decides on;
  `entry` and `row` are the tables. `applied`, `strayed`, `rewalks` are ghosts.
* `SyncPipeline`: a task is one call of `_run_sync_task` or `_run_recommender_task`
  together with its subprocess; `pc` runs over both. `log[u]` are a user's
  `sync_log` rows by id. Fields of a finished call are reset, as its variables are
  gone; the ghosts `fresh` and `lost` live in the row.
* `Sessions`, `Accounts`, `LocalLogin`: `req[q]` and `sub[q]` are a handler's program
  point and the rows it has read. A session token is the number of its row, a person
  an email address, a batch of recovery codes one code.
* `AiringAlerts`: time is counted in half hours around the refresh of minute 45, so an
  airing time is a slot. `Catalogue` counts time in runs of its job.
* `Library`: `text` stands for the columns of `personal_notes` that are always written
  together. `heart`, `worn` and `peak` are ghosts: what the user last chose, what the
  tags should be called, how far a title ever got.
* `Recommender`: scores are drawn from a set, since no property is about the formula;
  the ranking and the walk are computed as the code computes them.
* `WebPush`: a stored half is the number of the pair it belongs to.

## Abstract delivery

`Delivery` states what the outbox is for without workers, attempts, batches or
requests: updates are owed, held by AniList, or on a shelf of failed ones. An owed
update leaves only by being accepted, by a newer update that covers its anime, by a
card edit that AniList confirmed, or onto the shelf. `OutboxPromise` maps `Outbox`
to it (`owed` are the rows that are pending or being pushed, `shelf` the failed
ones), and `outbox_safety` checks `KeepsPromise`: every step of the outbox is a step
of the promise or leaves it unchanged.

## Runs

| Run | Question | Result |
|---|---|---|
| `outbox_safety` | does the worker keep its row and acknowledge only what AniList has; who can strand a dirty entry; does the outbox implement `Delivery`? | holds |
| `outbox_delivery` | are updates delivered in order, does every row settle, do app and AniList converge? | holds |
| `outbox_stale_push` | can a row that is gone still overwrite a newer edit? (`main.py:8962` says not) | refuted |
| `provider` | is anything lost behind the watermark, counted twice or marked before it is queued; is every watch event looked at in the end? | holds |
| `provider_stranded` | the same without excluding incremental runs that were cut short | refuted |
| `pipeline` | single flight, rows of live and killed pipelines, availability gate; does the daily job get to everyone, is every flag released? | holds |
| `sessions` | does the way back survive any order of answers, does an ended session stay ended? | holds |
| `accounts` | who can register, can everybody log in, do recovery codes and lockouts hold under overlap? | holds |
| `alerts` | is each alert sent once, does each user get theirs, is the catalogue rechecked although runs are cut off? | holds |
| `alerts_missed` | does an episode stay in the cache until its followers were alerted? (`main.py`, `_check_airing_episodes`) | refuted |
| `library` | rewatch flag and counter, redelivery, backward steps; notes, tags, backups; sequels, ranks and decisions; push subscriptions | holds |
| `restore_sunk` | does one bad row leave the rest of a restore alone? (`restore_backup.py:168`) | refuted |

A run over several modules checks components that share no variable. A behaviour of
all of them is then an interleaving of behaviours of each, and no property speaks of
two of them, so it is enough to let one move at a time: `focus`, chosen at the
start, names it. A type invariant that is not proved on its own is a conjunct of an
invariant of its module's run (`NothingBehindWatermark`, `WayBack`, `Admitted`,
`CodesFollowSwitch`, `AlertsAccountedFor`, `SignalledOnce`, `CheckedTogether`);
those of `Outbox`, `SyncPipeline`, `SeriesProgress`, `WebPush`, `Library` and
`Recommender` are theorems.

### What the refuted claims show

* **Stale push** (`outbox.py:188`). `_drain_once` fetches up to a batch of rows and
  pushes each without looking whether it still exists. A card edit that succeeds
  meanwhile deletes the row, but the push still follows.
* **Stranded titles** (`anilist_sync_common.py:913`). A run that trusts
  `walk_complete` commits the watermark title by title. Killed part-way it leaves
  fetched, unhandled titles behind the newest watermark, and only Force Full Resync
  looks there again. `NothingBehindWatermark` is the version that holds.
* **Missed episodes** (`sync_airing_schedule.py:126`). The refresh at minute 45
  deletes the rows of episodes that have aired, and the alerts go out at minute 0: an
  episode that airs in between, or while the hourly job fails, is in the cache at no
  poll, and nobody is alerted of it.
* **Sunk restore** (`restore_backup.py:168`). The restore catches a database error of
  one entry and goes on in the same transaction, which Postgres has aborted: every
  later entry fails too and the commit at the end keeps nothing.

`NothingStranded` can also be broken by the page cap on an incremental run, and by
an import: `import_netflix_csv.py:239` sets `walk_complete` because the export is the
whole history, but the export may be older than a watermark a killed full walk left.
The exceptions in `NothingBehindWatermark` cover all three. What an import counted of
its last day is counted again by the next sync, because the export has dates and the
sync times; `CountedOnce` says that nothing else is, unless the two overlap. "Never goes backwards on progress"
(`sync_crunchyroll.py:40`) is true but for a dropped series that is resumed at the
provider's lower episode and a new rewatch pass: `BackwardsOnlyOnResume` says so.

Behaviour the models contain though no property forbids it, because nothing in the
repository promises otherwise: a bulk edit that supersedes a provider's queued row
drops that row's progress; `delete_anime` leaves outbox rows whose later push
re-creates the entry; an entry deleted during a provider run comes back with the
placeholder status; after a kill between Crunchyroll's two commits the next walk
takes the watermark row for a baseline; a
backlog skipped by a full walk can be fetched again by an incremental run; the
pipeline's outer timeout (1500 s) is below the 240 + 4 * 480 s its steps may take;
several episodes of a series in one fetch collapse into the one watched last. The
notes form writes back the tags and the queue position of the moment it was loaded;
two overlapping reorders mix; notes made between an import's count and its writes are
overwritten unasked; an import carries no favorites, and rewatch and episode notes,
like the notes of titles that left the library, are in no export. Racing first
callers leave the private half of one key pair with the public half of another
(`vapid.py:33` calls the race harmless): browsers that subscribe from then on get
nothing, which is why `Reachable` speaks of pages opened once the pair has settled. A
sequel stored by an earlier run stays visible when its prequel stops being finished.

### Bounds

* `outbox_*`: one anime (rows of different animes only share the batch limit, and a
  limit of one or two already makes newer rows wait), one card editor beside bulk
  edits, provider writes and the pull; two columns where a row may carry different
  subsets, one attempt where only the end of the attempts matters; three edits, so
  that an old, a middle and a new value exist; one crash or database error.
* `provider`: two titles and two entries in every way titles can resolve (to
  different, the same or no entry; which entry comes first makes no difference, and
  an entry no title resolves to none), three commit orders, three watch events with a
  page cap of two (so that full and incremental walks both lose one), one kill. Beside
  an import the history has two events (one for an older export to miss, or for two
  days), and a kill strikes the import. One runner: that pipelines of one user do not
  overlap is `SingleFlight` of `SyncPipeline`. `EventuallyReviewed` leaves out what
  newer events push beyond the cap.
* `pipeline`: two users, one provider step beside AniList's, two tasks (two buttons, a
  button and the job, or the recommender beside a sync), two failures, each a database
  error, a spawn failure or a restart. What depends on more tasks is proved.
* `sessions`: two admins, so that one can impersonate, deactivate or be deactivated
  by the other; one browser with two tabs, three session rows.
* `accounts`: two persons, two providers and two requests at a time, which is what
  a race takes; two setups of the second factor, so that one can inherit from the
  other; a budget of two wrong passwords (`LockoutBound` scales with it), one restart.
* `alerts`: four slots of time, that is two polls and two refreshes; two followers,
  one of whom edits and visits; two overlapping availability checks with three
  changes; a catalogue of three titles of which a run reaches one.
* `library`, by focus. Progress: a series of known length two and one of unknown
  length, three watch events (finish and start again), one user edit, one forced
  resync or one kill. Personal layer: two titles, three tags of which two differ in
  case only, three edits; with backups two edits, two backups of which one is kept,
  and one loss of data. Recommender: all prequel graphs over four titles with at most
  four relations, two hops instead of ten, two runs, two decisions of the user. Web
  push: two browsers and a sender, two key pairs, one restart.

Deadlock checking is off where the bounds end behaviours in states without a step
(`SyncPipeline`, `Sessions`, `Accounts` with `LocalLogin`, the alerts, the library).
In the real system there is always another request.

### Fairness

* `Outbox`: weak fairness of the worker (a thread that loops with a fallback sweep),
  of the remaining steps of a card request, and of the pull (a periodic job). The
  user is never obliged to do anything. `QueuedUpdatesSettle` assumes that "Retry
  failed" is not pressed for ever.
* `AiringAlerts`: weak fairness of the steps of the hourly check once it has begun; when
  it begins, fails or restarts is open. `Catalogue`: weak fairness of the job and of its
  script's steps; the timeout may strike every run.
* `ProviderSync`: weak fairness of starting an unforced run (the scheduler) and of
  the steps of a script, an import's too. Kills are bounded. `EventuallyReviewed` assumes that
  incremental runs stop being cut short, for the reason `provider_stranded` shows.
* `SyncPipeline`: weak fairness of the app's threads, of the outer timeout and of
  the job loops, and none of the scripts: they may hang anywhere, since their own
  database connections have no timeout.

## Proofs

What TLC checks on small instances the theorems state for every value of the
constants: any users, animes, browsers, requests, tasks, titles, and any bound. Each
rests on an inductive invariant, named below with what it adds and why the property
alone is not inductive; TLC checked each on the instances of the runs first, all but
`Searching` below, which is about the turns of one computation and is only proved.

**`OutboxProofs`.** `TypeCorrect`, `WorkerOwnership`, `DeliveredBeforeAck` and
`AttemptAccounting` come from `Typed` and `IInv`. Types alone are not inductive: a
push needs a row in hand, so `HoldsItem` (the worker holds a row exactly at `push` and
`ack`) is carried along. `IInv` adds that edit numbers identify rows (`Numbered`), that
the fetched batch is disjoint from the row in hand (`BatchApart`), and that a batch row
which is still in the table has the attempts it was fetched with and has not failed
(`BatchFresh`). Without `BatchFresh` the step that takes the next row from a batch that
is up to a hundred pushes old could not re-establish `WorkerOwnsItem`.

* `Refinement`: `Outbox` implements `Delivery`. The initial states map to initial
  states, and `StepRefines` goes through the actions one by one: each is one of the
  promise's steps or leaves `owed`, `shelf`, `held` and `cards` unchanged. It needs that
  the worker's copies of a row still have the row's fields (`FieldsAgree`), or an
  acknowledgement would not be the delivery of what was owed, and that only status
  edits clear rows (`ClearIsStatus`).
* `Stranding`: `OnlyClearStrands`, an action property, from the types in both states.
* `InOrder`: `InOrderUnlessRevived` over `OutboxHistory`. Order is kept by two facts
  about rows nobody revived (`Ordered`): none is older than the row in hand or the last
  one sent for its anime, and one the batch left out is not older than those in it. That
  nothing sent is younger than the clock (`SentBefore`) makes new edits fit in.

**`SyncPipelineProofs`.** `TypeCorrect` says among other things that a task's row
exists in its user's log, which needs `RowOfTask`: a task has a row exactly from
`_start_log` on, of its own type.

* `OneSyncPerUser`: `SingleFlight`, which is inductive given the types: every path
  that starts a sync claims the free flag, and every path that ends one releases it.
* `LiveRowsUntouched` and `NoStuckRow`: `LiveRowRunning` and `RowSettles`. The
  cleanup finds rows by user, type and status, so they rest on `Exclusive`: two tasks
  in progress differ in user or type. For syncs that is `SingleFlight`; the
  recommender takes no flag, and `OneRecommender` (any unfinished one is the task its
  job waits for) replaces it.
* `CheckedAfterRefresh`: `AvailabilityNeedsRefresh`. When a task checks, the flag is
  free and the result may be another task's. `FInv` says what makes that right: a sync
  in flight has cleared the result (`NoResultYet`) and has a newer row than every task
  that can still read it (`NewerRow`), and a result "ok" stands for a fresh row newer
  than all of those (`Vouched`).

The lemmas fall in three layers: what a record operator does to a task, what shape
an action's step has (`Moves`, `Rewrites`, `Closes`), and what such a step preserves.

**`ProviderSyncProofs`**, over `Base` (types, and where a run can be under which
script):

* `NeverAhead`: `SeenIsApplied`, for any number of overlapping runs. `MarksBacked` says
  that every watermark has an applied event behind it; Crunchyroll's may also be ahead
  of an update that is under way, or lost with a run that was killed.
* `NothingCountedTwice` and `NothingLost`: `CountedOnce` and `NothingBehindWatermark`.
  Both assume `OneSync`, that a user has one run of a provider at a time, which is what
  `OneSyncPerUser` proves of the pipeline. `Alone` keeps it beside imports. `Counted`
  says that what was applied lies behind its entry's watermark or on the last day an
  import saw, and that only the latter can be counted twice. `Reading` and `Underway`
  say that no mark is newer than the history, and that a run in progress has reviewed
  everything behind the mark it started from.

**`SessionsProofs`**, over `SInv`: `AlwaysAWayBack`, `EndedForGood`, `FallsBack`. A
cookie copy, in a browser or in a request, only names rows that exist (`Known`), a
request that resolved somebody works for the user its row names, and that row had not
ended when the request began (`RequestOK`). As the table only grows and a row only
dies (`TableStep`), what holds of one request survives every step of the others.

**`AccountsProofs`**, over `AInv`: `AWayIn`, `OnlyTheAdmitted`. The event loop has one
OAuth callback in it (`OneCallback`), since the callback does not yield; a request past
its look-ups shares its email only with an account inserted meanwhile, and then one of
the two is a local registration (`JoinOK`, `Apart`).

**`LocalLoginProofs`**: `OneLogin` and `SwitchFollowed` come from `CodesOK`: a code in
stock has let nobody in, and a disabling that has deleted its rows has seen every code
but those enabled since. `LockComes` is `LockoutBound` for any limit and any finite
set of submissions: a potential argument. A count of `f` fails leaves `Tri(MaxFails - f)`
wrong passwords; a request that holds an older count can put it back, and `Budget`
says that what was guessed so far leaves room for each of them to do so.

**`AlertsProofs`**, over the composition `MCAlerts` of three modules that share no
variable:

* `RowsOfOneCheck`: `CheckedTogether`; what is written and not committed belongs to the
  title in hand (`InHand`), so a rollback or a cut restores what was committed.
* `SignalsPaid`: `SignalledOnce`, by accounts: alerts sent, alerts that checks under way
  are about to send (`Coming`) and one more that the ledger may still cause (`Armed`)
  never exceed gains, overlaps and crashes (`Paid`); repeated health signals and
  forgotten ones never exceed crashes (`RepeatsPaid`).
* `EpisodesAccounted`: `AlertsAccountedFor`; an alert that is out has its row or is about
  to get it (`Once`), a digest has looked at every row up to its mark (`Digested`), and
  followers know the cached time until a refresh is compared with what was there
  (`Informed`).

**`LibraryProofs`**, over the specifications of four modules that share no variable.

*One series* (`SeriesProgress`). `Branches` turns the decision into one disjunct per
branch of `process_max_aggregated_progress` with the fields it returns; everything else
cites it. `ProgressInv` joins five facts about runs, which decide on copies:

* `ProgressTypes` needs more than types: that `rewalks` is bounded is `Paid`, a
  credit argument. A run that starts behind what was applied (`Behind`) owes a forced
  resync or a kill of its own, because a finished run leaves its watermark at or past
  what it applied.
* `RewatchRecorded`: `FlagFollowsStatus` is not inductive, since a run may record the
  rewatch of the entry it read while the user moves the entry: `FlagBacked` says the same
  of the copies a run has yet to decide on.
* `ViewingsCounted`: `Earned` counts the final episodes among what was applied, one per
  increment, and lends one to a copy that still says a rewatch is open.
* `RedeliveryQuiet`: after a decision the entry is `Handled`, the state in which every
  branch is silent on the same events; `Followed` carries that through the rest of the
  run while nobody edits.
* `NeverBackwards`: what the run read is still there (`Followed`) and no entry is past
  its last episode (`Plausible`).

*Push keys* (`WebPush`). `SubscribersReached`: a settled pair stays (`SettledStays`, a
caller that would store anything has read a half that is missing), so pages and
subscriptions made after it have the key that signs (`SoundPages`, `SoundBound`).

*Personal layer* (`Library`). `PersonalLayerKept` has two halves. Hearts and tags follow
row by row from what each statement writes; the tags rest on lemmas about the names of a
list that was joined (`NamesOfBoth`), merged (`DedupedNames`), respelled
(`SpelledNames`) or cut (`KeptNames`), which need that the picked positions are numbered
without gaps (`PlaceTaken`). Notes are never past the peak because no record of a title,
in the list or in any backup, is (`EntriesBelow`, `StoredBelow`, `NotingBelow`): a
restore brings an old position back, and the range check of a note reads it.
`BackupsRestoreWhole`: the keys of a snapshot carry their account (`Own`), so a backup
has one line to a title (`Lines`) and what the restore writes is what was read.

*Recommendations* (`Recommender`). `RanksAreDistinct`: the ranks are decided in one step
and stored in a later one, and the user may dismiss or put off rows between the two.
`RankedOnce` says nothing of the ranks a run carries, so `RanksReady` does: a run about
to store has one rank for every title it found and every row it carries, no rank twice,
and these are at least the rows that are not dismissed by now, because a row only ever
leaves that set (`RowStep`). What `Store` leaves alone (`StoreStep`) also gives
`DecisionsStand`. Neither needs a fact about the walk over prequels.

*The walk over prequels.* `SequelsAreHeldBack` does: `ScoreCandidates` holds back what
the recursive function `Walk` says, `SequelsHeldBack` speaks of chains of prequels, and
`PrequelWalkIsRight` states that the two agree for every relation, cycles and forks
included, every shelf and every hop limit. It takes three arguments.

* `Walk` is what its equation says (`WalkIs`). The library's induction theorems cannot
  be used for that, so `WalkSolved` names a solution: a recursion that only goes on from
  one argument to the next is true where following it hits before it stops.
* The walk ends: every turn takes one visit off the queue, and adds one only for a title
  not visited before, so `Size`, the queue with the titles not yet visited, goes down
  (`OnwardShrinks`). A claim about all walks is then proved of a wrong one of least
  `Size` (`LeastOf`), from which the walk goes on to a smaller wrong one (`WalkDecides`).
* What holds between turns is `Searching`, the invariant of a breadth-first search.
  Everything queued is reached by a chain of so many hops (`Fronts`), sorted and at most
  one hop apart (`Levels`), and by no shorter chain (`Nearest`); what is nearer than the
  front has been seen (`Nearer`), nothing seen is unfinished (`Seen`), and a chain that
  leaves what was seen leaves it from a queued title (`Pending`). `Nearest` is what the
  hop limit needs: a title dropped at the limit has no shorter chain to go on from. An
  empty queue with `Pending` means that no chain leads out of what was seen (`AllSeen`),
  and a hit extends the front's chain by one (`HitLeads`).

Assumptions: the named `ASSUME`s of the modules (bounds are numbers, sets lie where
they should, "none" is not an anime); `OneSync` in two theorems, as said; and
`IsFiniteSet(Submission)` in `LockComes`, without which "two at a time" could not be
counted; the accounts and titles of `Library` are finite, or an export would be no list, and
so are the titles of `Recommender`, or they could not be numbered. `MaxImports` is at most one.

Model-checked only:

* the seven liveness properties (`EventuallyConsistent`, `EventuallyReviewed`,
  `QueuedUpdatesSettle`, `FlagReleased`, `EveryUserVisited`, `EveryoneAlerted`,
  `CatalogueRechecked`): TLAPS 1.4 has no usable `ENABLED` and no fairness rules;
* `restore_sunk` and the other refuted claims, which are runs by nature.

Every invariant and every action property of the passing runs is stated by a theorem.

## Not modelled, and the plan

`PROJECT.json` lists every component with its reason. What is left, by value:

1. `delete_anime` and a bulk edit over a provider's row have no property: nothing
   in the repository says what should happen to the rows or the progress they lose.
2. Streaming coverage (`_greedy_set_cover`), a pure function.

Left outside for good: title matching and scoring (string similarity and weights,
over remote data); page rendering, statistics and collections, which read only; the
providers' wire formats; personal access tokens, MCP tools and CSRF, which are checked
per call and keep no state of their own; the id mapping refresh, one transaction that
replaces its table; the connection pool, which is a library; schema and deployment,
run by hand; Plex connection checks; the front end.
