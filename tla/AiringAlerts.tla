---------------------------- MODULE AiringAlerts ----------------------------
(***************************************************************************)
(* Airing times and the alerts about them (app/main.py,                    *)
(* scripts/sync_airing_schedule.py).  At minute 45 a job refreshes the     *)
(* shared cache of airing times from AniList and tells followers of        *)
(* shifts; at minute 0 a job tells each user which followed episodes have  *)
(* aired and records that in notified_episodes; the library page shows     *)
(* once per visit what was recorded since the last one.                    *)
(*                                                                         *)
(* Time is a count of slots: slot 2h is the part of hour h before the      *)
(* refresh, slot 2h+1 the part after it.  An episode that airs in a slot   *)
(* has aired for whatever happens in a later one.  Jobs end within their   *)
(* slot: the refresh has a timeout of 300 s, a channel one of 10 s.        *)
(***************************************************************************)
EXTENDS Integers, Sequences, FiniteSets, Functions

CONSTANTS
  Follower,   \* the users
  Active,     \* those of them who change their library and open its page
  Show,       \* releasing series
  Episodes,   \* number of episodes of a series
  MaxTime,    \* model bound on time
  MaxMoves,   \* model bound on changes of airing times at AniList
  MaxEdits,   \* model bound on status changes in libraries
  MaxVisits,  \* model bound on visits to the library page
  MaxOutages  \* model bound on failures: database or AniList errors, restarts

ASSUME AiringAssumption ==
  /\ Active \subseteq Follower /\ MaxTime \in Nat \ {0}
  /\ {Episodes, MaxMoves, MaxEdits, MaxVisits, MaxOutages} \subseteq Nat

Key == Show \X (1..Episodes)
NoRow == -1
NoVisit == -1
Time == 0..MaxTime
Schedule == [Key -> Time \cup {NoRow}]

VARIABLES
  now,      \* the current slot
  airsAt,   \* AniList's airing times
  cache,    \* airing_schedule_cache
  follows,  \* <<user, series>> with status WATCHING or PLANNING
  log,      \* each user's rows of notified_episodes, oldest first
  sent,     \* ghost: how often a user was alerted of an episode
  told,     \* ghost: the airing time a user was last shown or told
  check,    \* _check_airing_episodes
  refresh,  \* _refresh_airing_schedule and its subprocess
  seen,     \* digest_last_seen_at as a number of rows of log; NoVisit for NULL
  visit,    \* a library page under way: rows its digest is built from
  raced,    \* ghost: rows written while the user's page was under way
  shown,    \* ghost: rows a digest has looked at
  moves, edits, visits, outages

airing == <<now, airsAt, cache, follows, log, sent, told, check, refresh, seen, visit,
            raced, shown, moves, edits, visits, outages>>
page == <<seen, visit, shown, visits>>

Idle == [pc |-> "idle", todo |-> {}, rows |-> {}]
NoRefresh == [pc |-> "idle", before |-> [k \in Key |-> NoRow]]

Follows(u, k) == <<u, k[1]>> \in follows
Aired(k) == cache[k] # NoRow /\ cache[k] < now

AiringTypeOK ==
  /\ now \in Time
  /\ airsAt \in [Key -> Time] /\ cache \in Schedule
  /\ follows \subseteq Follower \X Show
  /\ log \in [Follower -> Seq(Key)]
  /\ sent \in [Follower \X Key -> Nat] /\ told \in [Follower \X Key -> Time \cup {NoRow}]
  /\ check \in [pc: {"idle", "loop", "mark"}, todo: SUBSET Follower, rows: SUBSET (Follower \X Key)]
  /\ refresh \in [pc: {"idle", "fetch", "diff"}, before: Schedule]
  /\ seen \in [Follower -> Nat \cup {NoVisit}] /\ visit \in [Follower -> Nat \cup {NoVisit}]
  /\ \A u \in Follower : seen[u] <= Len(log[u]) /\ visit[u] <= Len(log[u])

\* The cache starts as AniList has it; the episodes air in order, before the last slot.
AiringInit ==
  /\ now = 0
  /\ airsAt \in {f \in [Key -> 0..(MaxTime - 1)] : \A s \in Show, e \in 2..Episodes : f[<<s, e - 1>>] <= f[<<s, e>>]}
  /\ cache = airsAt
  /\ follows = Follower \X Show
  /\ log = [u \in Follower |-> <<>>]
  /\ sent = [x \in Follower \X Key |-> 0]
  /\ told = [x \in Follower \X Key |-> cache[x[2]]]
  /\ check = Idle /\ refresh = NoRefresh
  /\ seen \in [Follower -> {0, NoVisit}] /\ \A u \in Follower \ Active : seen[u] = NoVisit
  /\ visit = [u \in Follower |-> NoVisit]
  /\ raced = [u \in Follower |-> {}] /\ shown = [u \in Follower |-> {}]
  /\ moves = 0 /\ edits = 0 /\ visits = 0 /\ outages = 0

-----------------------------------------------------------------------------
(* The surroundings.                                                       *)

\* The clock reaches minute 0 or 45 and the scheduler starts that slot's job.
Tick ==
  /\ now < MaxTime /\ check.pc = "idle" /\ refresh.pc = "idle"
  /\ now' = now + 1
  /\ IF now' % 2 = 0
     THEN check' = [Idle EXCEPT !.pc = "loop", !.todo = Follower] /\ UNCHANGED refresh
     ELSE refresh' = [NoRefresh EXCEPT !.pc = "fetch", !.before = cache] /\ UNCHANGED check
  /\ UNCHANGED <<airsAt, cache, follows, log, sent, told, raced, moves, edits, outages, page>>

\* AniList changes the time of an episode that has not aired.
Move(k, t) ==
  /\ moves < MaxMoves /\ moves' = moves + 1
  /\ airsAt[k] >= now /\ t \in now..(MaxTime - 1) /\ t # airsAt[k]
  /\ airsAt' = [airsAt EXCEPT ![k] = t]
  /\ UNCHANGED <<now, cache, follows, log, sent, told, check, refresh, raced, edits, outages, page>>

\* A series enters or leaves a user's WATCHING and PLANNING entries; who adds one
\* sees the cached times.
Toggle(u, s) ==
  /\ edits < MaxEdits /\ edits' = edits + 1
  /\ follows' = IF <<u, s>> \in follows THEN follows \ {<<u, s>>} ELSE follows \cup {<<u, s>>}
  /\ told' = [x \in DOMAIN told |-> IF x[1] = u /\ x[2][1] = s THEN cache[x[2]] ELSE told[x]]
  /\ UNCHANGED <<now, airsAt, cache, log, sent, check, refresh, raced, moves, outages, page>>

-----------------------------------------------------------------------------
(* Minute 45: the refresh.                                                 *)

\* fetch_releasing_ids: the series somebody follows.
Releasing == {s \in Show : \E u \in Follower : <<u, s>> \in follows}

\* fetch_airing_schedules: what has not aired yet.
Upcoming(k) == IF airsAt[k] >= now THEN airsAt[k] ELSE NoRow

\* Mutant of Refetch: the before-image is taken from the refreshed cache.
RefetchThenRead ==
  /\ refresh.pc = "fetch"
  /\ cache' = [k \in Key |-> IF k[1] \in Releasing THEN Upcoming(k) ELSE cache[k]]
  /\ refresh' = [pc |-> "diff", before |-> cache']
  /\ UNCHANGED <<now, airsAt, follows, log, sent, told, check, raced, moves, edits, outages, page>>

\* The script: read the ids, fetch their schedules, and in one transaction delete
\* the rows of these series and insert what came.  What changes between the fetch
\* and the commit might as well change after it.
Refetch ==
  /\ refresh.pc = "fetch"
  /\ cache' = [k \in Key |-> IF k[1] \in Releasing THEN Upcoming(k) ELSE cache[k]]
  /\ refresh' = [refresh EXCEPT !.pc = "diff"]
  /\ UNCHANGED <<now, airsAt, follows, log, sent, told, check, raced, moves, edits, outages, page>>

\* _notify_airing_schedule_shifts: a slot stands for the threshold of an hour.  A
\* row the refresh added is new data, shown and not told.
Diff ==
  /\ refresh.pc = "diff"
  /\ told' = [x \in DOMAIN told |->
       IF Follows(x[1], x[2]) /\ refresh.before[x[2]] # cache[x[2]] THEN cache[x[2]] ELSE told[x]]
  /\ refresh' = NoRefresh
  /\ UNCHANGED <<now, airsAt, cache, follows, log, sent, check, raced, moves, edits, outages, page>>

\* AniList fails, the timeout strikes (perhaps after the commit), or an exception
\* ends the diff: nobody is told.
RefreshFails ==
  /\ refresh.pc # "idle" /\ outages < MaxOutages /\ outages' = outages + 1
  /\ refresh' = NoRefresh
  /\ UNCHANGED <<now, airsAt, cache, follows, log, sent, told, check, raced, moves, edits, page>>

-----------------------------------------------------------------------------
(* Minute 0: the alerts.                                                   *)

\* Mutant of Due: the anti-join with notified_episodes is missing.
DueAgain(u) == {k \in Key : Aired(k) /\ Follows(u, k)}

\* The query of _check_airing_episodes.
Due(u) == {k \in Key : Aired(k) /\ Follows(u, k) /\ k \notin Range(log[u])}

\* What u's turn sends.
Sent(u) == [x \in DOMAIN sent |-> IF x[1] = u /\ x[2] \in Due(u) THEN sent[x] + 1 ELSE sent[x]]

\* Mutant of Alert: a user without rows ends the loop (return for continue).
AlertOrStop(u) ==
  /\ check.pc = "loop" /\ u \in check.todo
  /\ check' = IF Due(u) = {} THEN Idle
              ELSE [pc |-> "mark", todo |-> check.todo \ {u}, rows |-> {u} \X Due(u)]
  /\ sent' = Sent(u)
  /\ UNCHANGED <<now, airsAt, cache, follows, log, told, refresh, raced, moves, edits, outages, page>>

\* One user's turn: query and notify(), whose channels swallow their errors.
Alert(u) ==
  /\ check.pc = "loop" /\ u \in check.todo
  /\ check' = [pc |-> IF Due(u) = {} THEN "loop" ELSE "mark",
               todo |-> check.todo \ {u}, rows |-> {u} \X Due(u)]
  /\ sent' = Sent(u)
  /\ UNCHANGED <<now, airsAt, cache, follows, log, told, refresh, raced, moves, edits, outages, page>>

\* INSERT INTO notified_episodes ... ON CONFLICT DO NOTHING, row by row.
Mark(u, k) ==
  /\ check.pc = "mark" /\ <<u, k>> \in check.rows
  /\ log' = [log EXCEPT ![u] = IF k \in Range(@) THEN @ ELSE Append(@, k)]
  /\ raced' = [raced EXCEPT ![u] = IF visit[u] # NoVisit THEN @ \cup {k} ELSE @]
  /\ check' = [check EXCEPT !.rows = @ \ {<<u, k>>},
                            !.pc = IF check.rows = {<<u, k>>} THEN "loop" ELSE @]
  /\ UNCHANGED <<now, airsAt, cache, follows, sent, told, refresh, moves, edits, outages, page>>

CheckEnds ==
  /\ check.pc = "loop" /\ check.todo = {}
  /\ check' = Idle
  /\ UNCHANGED <<now, airsAt, cache, follows, log, sent, told, refresh, raced, moves, edits, outages, page>>

\* An exception (a query, config.get, the push keys) leaves the job, and a
\* restart ends it: the users after this one wait for the next hour.
CheckFails ==
  /\ check.pc # "idle" /\ outages < MaxOutages /\ outages' = outages + 1
  /\ check' = Idle
  /\ UNCHANGED <<now, airsAt, cache, follows, log, sent, told, refresh, raced, moves, edits, page>>

-----------------------------------------------------------------------------
(* The library page's digest, once per browser session and never while     *)
(* impersonating.                                                          *)

\* _build_whats_new_digest: the rows after digest_last_seen_at; without one there
\* is no digest and everything so far counts as seen.
Visit(u) ==
  /\ visits < MaxVisits /\ visits' = visits + 1
  /\ visit[u] = NoVisit
  /\ visit' = [visit EXCEPT ![u] = Len(log[u])]
  /\ shown' = [shown EXCEPT ![u] = @ \cup
       {log[u][i] : i \in (IF seen[u] = NoVisit THEN 1 ELSE seen[u] + 1)..Len(log[u])}]
  /\ UNCHANGED <<now, airsAt, cache, follows, log, sent, told, check, refresh, seen, raced, moves, edits, outages>>

\* digest_last_seen_at = now().
Advance(u) ==
  /\ visit[u] # NoVisit
  /\ seen' = [seen EXCEPT ![u] = Len(log[u])]
  /\ visit' = [visit EXCEPT ![u] = NoVisit]
  /\ UNCHANGED <<now, airsAt, cache, follows, log, sent, told, check, refresh, raced, shown, moves, edits, visits, outages>>

CheckStep == (\E u \in Follower : Alert(u) \/ \E k \in Key : Mark(u, k)) \/ CheckEnds

AiringNext ==
  \/ Tick
  \/ \E k \in Key, t \in Time : Move(k, t)
  \/ \E u \in Active, s \in Show : Toggle(u, s)
  \/ Refetch \/ Diff \/ RefreshFails
  \/ CheckStep \/ CheckFails
  \/ \E u \in Active : Visit(u) \/ Advance(u)

-----------------------------------------------------------------------------
(* Properties.                                                             *)

\* A user hears of an episode once, and once more for each time the job died
\* between the alert and its rows; no digest skips a recorded episode, unless it
\* was recorded while the page was being built; and who follows a series knows
\* the cached time of each of its episodes, unless a refresh failed, however AniList
\* and the libraries change (_check_airing_episodes, _whats_new_for_request,
\* _notify_airing_schedule_shifts).
AlertsAccountedFor ==
  /\ AiringTypeOK
  /\ \A x \in DOMAIN sent : sent[x] <= 1 + outages
  /\ \A u \in Follower : \A i \in 1..seen[u] : log[u][i] \in shown[u] \cup raced[u]
  /\ outages = 0 /\ refresh.pc = "idle" =>
       \A x \in DOMAIN told : Follows(x[1], x[2]) /\ cache[x[2]] # NoRow => told[x] = cache[x[2]]

\* Every user the hourly job has before it is alerted of every followed episode
\* that the cache shows as aired, whatever the turns of the others bring, unless the
\* job dies (_check_airing_episodes: per-user state).
EveryoneAlerted ==
  \A u \in Follower, k \in Key :
    (u \in check.todo /\ k \in Due(u)) ~> (k \in Range(log[u]) \/ ~Follows(u, k) \/ outages > 0)

\* "notify each user about their own unwatched episodes that started airing": an
\* aired episode stays in the cache until its followers have been alerted.
NoneMissed ==
  [][\A u \in Follower, k \in Key :
       outages = 0 /\ Aired(k) /\ Follows(u, k) /\ cache'[k] = NoRow => k \in Range(log[u])]_airing
=============================================================================
