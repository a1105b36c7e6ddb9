---------------------------- MODULE SyncPipeline ----------------------------
(***************************************************************************)
(* How the app runs sync pipelines (app/main.py): buttons and the daily    *)
(* job claim a user's in-memory single-flight flag, start                  *)
(* scripts/run_full_sync.py as a subprocess with an outer timeout, close   *)
(* its sync_log row out if it had to be killed, release the flag, and      *)
(* afterwards notify the user and check streaming availability.  The       *)
(* weekly recommender job uses the same log without the flag.              *)
(*                                                                         *)
(* A task is one call of _run_sync_task or _run_recommender_task with the  *)
(* subprocess it waits for.  What a provider step does is ProviderSync;    *)
(* here it succeeds or fails.  A step keeps to its own timeout, but the    *)
(* budgets of the steps add up to more than the outer timeout              *)
(* (240 + 4 * 480 > 1500 s), so that one may strike at any time.           *)
(***************************************************************************)
EXTENDS Integers, Sequences, FiniteSets

CONSTANTS
  User,      \* the users
  Providers, \* number of provider steps in a pipeline
  MaxTasks,  \* model bound on tasks
  MaxFaults  \* model bound on failures: database errors in the bookkeeping,
             \* processes that cannot be spawned, app restarts

ASSUME BoundAssumption == {Providers, MaxTasks, MaxFaults} \subseteq Nat

VARIABLES
  flag,    \* _sync_state[user]["running"]
  last,    \* _sync_state[user]["last_result"]
  log,     \* each user's rows of sync_log, in the order of ids
  task,    \* the tasks so far
  job,     \* the scheduler's two jobs: users still to visit, the task in progress
  faults   \* failures so far

vars == <<flag, last, log, task, job, faults>>

SyncType == {"full_sync", "force_full_resync"}
Type == SyncType \cup {"recommender"}
Job == {"daily_sync", "weekly_recommender"}
TaskId == 1..MaxTasks

Live == {"boot", "steps"}   \* the subprocess is running

Task == [user: User, type: Type, row: Nat, began: Nat, fresh: BOOLEAN,
         failed: BOOLEAN, left: 0..(Providers + 1),
         pc: Live \cup {"queued", "exit0", "exit1", "killed", "notify", "check", "done"}]

\* Ghosts: fresh, this run refreshed the library; lost, the write that should
\* have closed the row failed, or a restart cut the run off.
Row == [type: Type, status: {"running", "ok", "partial", "error"}, fresh: BOOLEAN, lost: BOOLEAN]

\* A task's row is one of its user's rows, a job's task one of the tasks.
TypeOK ==
  /\ flag \in [User -> BOOLEAN]
  /\ last \in [User -> {"none", "ok", "error"}]
  /\ log \in [User -> Seq(Row)]
  /\ task \in Seq(Task)
  /\ \A k \in DOMAIN task : task[k].row <= Len(log[task[k].user])
  /\ job \in [Job -> [todo: SUBSET User, cur: Nat]]
  /\ \A j \in Job : job[j].cur <= Len(task)
  /\ faults \in 0..MaxFaults

Init ==
  /\ flag = [u \in User |-> FALSE]
  /\ last = [u \in User |-> "none"]
  /\ log = [u \in User |-> <<>>] /\ task = <<>>
  /\ job = [j \in Job |-> [todo |-> {}, cur |-> 0]]
  /\ faults = 0

-----------------------------------------------------------------------------
(* Starting a task.                                                        *)

Claim(u) == /\ ~flag[u]
            /\ flag' = [flag EXCEPT ![u] = TRUE]
            /\ last' = [last EXCEPT ![u] = "none"]

\* Model bound: tasks left once the jobs under way have visited their users.
Room == MaxTasks - Len(task) - Cardinality(job["daily_sync"].todo) - Cardinality(job["weekly_recommender"].todo)

Call(u, type) ==
  /\ task' = Append(task, [user |-> u, type |-> type, row |-> 0, began |-> 0, fresh |-> FALSE,
                           failed |-> FALSE, pc |-> "queued",
                           left |-> IF type = "recommender" THEN 1 ELSE Providers + 1])

\* POST /api/sync and POST /api/sync/full-resync.
Trigger(u, type) ==
  /\ Room > 0
  /\ Claim(u)
  /\ Call(u, type)
  /\ UNCHANGED <<log, job, faults>>

JobIdle(j) == job[j].cur # 0 => task[job[j].cur].pc = "done"

\* The cron trigger fires; max_instances=1 skips a run while one is going.  The
\* job visits the users who have a token at that moment.
JobStarts(j) ==
  /\ JobIdle(j) /\ job[j].todo = {}
  /\ \E U \in SUBSET User : /\ Room >= Cardinality(U)
                            /\ job' = [job EXCEPT ![j] = [todo |-> U, cur |-> 0]]
  /\ UNCHANGED <<flag, last, log, task, faults>>

\* Mutant of JobNext: the daily job looks at the flag and does not take it.
JobNextUnclaimed(j, u) ==
  /\ JobIdle(j) /\ u \in job[j].todo
  /\ Call(u, IF j = "daily_sync" THEN "full_sync" ELSE "recommender")
  /\ job' = [job EXCEPT ![j] = [todo |-> @.todo \ {u}, cur |-> Len(task) + 1]]
  /\ UNCHANGED <<flag, last, log, faults>>

\* One turn of the loop over users: a user whose sync is running is skipped.
JobNext(j, u) ==
  /\ JobIdle(j) /\ u \in job[j].todo
  /\ \/ /\ j = "daily_sync" /\ flag[u]
        /\ job' = [job EXCEPT ![j] = [todo |-> @.todo \ {u}, cur |-> 0]]
        /\ UNCHANGED <<flag, last, task>>
     \/ /\ \/ j = "daily_sync" /\ Claim(u) /\ Call(u, "full_sync")
           \/ j = "weekly_recommender" /\ Call(u, "recommender") /\ UNCHANGED <<flag, last>>
        /\ job' = [job EXCEPT ![j] = [todo |-> @.todo \ {u}, cur |-> Len(task) + 1]]
  /\ UNCHANGED <<log, faults>>

-----------------------------------------------------------------------------
(* The subprocess.                                                         *)

At(t, pc) == [t EXCEPT !.pc = pc]

\* The process of task t is gone, and its variables with it.
Gone(t, pc) == [t EXCEPT !.pc = pc, !.left = 0, !.failed = FALSE]

\* state["last_result"]; the recommender has none.
Settle(k, result) ==
  IF task[k].type \in SyncType THEN last' = [last EXCEPT ![task[k].user] = result]
  ELSE UNCHANGED last

\* began: the newest row when the task began.
Launched(t) == [t EXCEPT !.began = Len(log[t.user])]

\* A process that cannot be spawned is handled like one that was killed.
LaunchFails(k) ==
  /\ task[k].pc = "queued" /\ faults < MaxFaults
  /\ faults' = faults + 1
  /\ Settle(k, "error")
  /\ task' = [task EXCEPT ![k] = Launched(Gone(task[k], "killed"))]
  /\ UNCHANGED <<flag, log, job>>

Launch(k) ==
  /\ task[k].pc = "queued"
  /\ task' = [task EXCEPT ![k] = At(Launched(task[k]), "boot")]
  /\ UNCHANGED <<flag, last, log, job, faults>>

WithRow(t) == [log EXCEPT ![t.user] = Append(@, [type |-> t.type, status |-> "running",
                                                fresh |-> FALSE, lost |-> FALSE])]

Logged(t) == [t EXCEPT !.pc = "steps", !.row = Len(log[t.user]) + 1]

\* _start_log.
StartLog(k) ==
  /\ task[k].pc = "boot"
  /\ log' = WithRow(task[k])
  /\ task' = [task EXCEPT ![k] = Logged(task[k])]
  /\ UNCHANGED <<flag, last, job, faults>>

Stepped(t, left, fresh, failed) == [t EXCEPT !.left = left, !.fresh = fresh, !.failed = failed]

\* _run_step: AniList first, then the providers, each whatever became of the
\* ones before it; without AniList credentials there are no steps.
Step(k) ==
  LET t == task[k] IN
  /\ t.pc = "steps" /\ t.left > 0
  /\ \/ /\ t.left = Providers + 1 /\ t.type \in SyncType
        /\ \E ok \in BOOLEAN : /\ task' = [task EXCEPT ![k] = Stepped(t, t.left - 1, ok, FALSE)]
                              /\ log' = [log EXCEPT ![t.user][t.row].fresh = ok]
     \/ /\ t.left = Providers + 1 /\ t.type \in SyncType
        /\ task' = [task EXCEPT ![k] = Stepped(t, 0, FALSE, FALSE)] /\ UNCHANGED log
     \/ /\ t.left <= Providers \/ t.type = "recommender"
        /\ \E bad \in BOOLEAN : 
             task' = [task EXCEPT ![k] = Stepped(t, t.left - 1, t.fresh, t.failed \/ bad)]
        /\ UNCHANGED log
  /\ UNCHANGED <<flag, last, job, faults>>

\* Mutant of OverallStatus: a failed AniList step counts like a provider's.
OverallStatusLenient(t) == IF t.failed \/ ~t.fresh THEN "partial" ELSE "ok"

\* _compute_overall_status; the recommender knows ok and error.
OverallStatus(t) ==
  IF t.type = "recommender" THEN IF t.failed THEN "error" ELSE "ok"
  ELSE IF ~t.fresh THEN "error" ELSE IF t.failed THEN "partial" ELSE "ok"

Exit(t) == IF OverallStatus(t) = "error" THEN "exit1" ELSE "exit0"

\* Task t's row gets status st, unless the write fails.
Settled(t, st) ==
  \/ log' = [log EXCEPT ![t.user][t.row].status = st] /\ UNCHANGED faults
  \/ /\ faults < MaxFaults /\ faults' = faults + 1
     /\ log' = [log EXCEPT ![t.user][t.row].lost = TRUE]

\* _finish_log, whose own database errors are swallowed, and exit.
Finish(k) ==
  LET t == task[k] IN
  /\ t.pc = "steps" /\ t.left = 0
  /\ task' = [task EXCEPT ![k] = Gone(t, Exit(t))]
  /\ Settled(t, OverallStatus(t))
  /\ UNCHANGED <<flag, last, job>>

\* The user's rows, with those in R marked lost.
Lost(u, R) == [i \in DOMAIN log[u] |-> IF i \in R THEN [log[u][i] EXCEPT !.lost = TRUE] ELSE log[u][i]]

\* An exception outside any step (_start_log, load_settings) ends the script
\* with its traceback: exit code 1, and nobody closes the row.
Dies(k) ==
  LET t == task[k] IN
  /\ t.pc \in Live /\ faults < MaxFaults
  /\ faults' = faults + 1
  /\ task' = [task EXCEPT ![k] = Gone(t, "exit1")]
  /\ log' = [log EXCEPT ![t.user] = Lost(t.user, {t.row})]
  /\ UNCHANGED <<flag, last, job>>

-----------------------------------------------------------------------------
(* The app's side of the task.                                             *)

\* Mutant of Release: the flag is left set.
ReleaseNot(k) == UNCHANGED flag

Release(k) ==
  IF task[k].type \in SyncType THEN flag' = [flag EXCEPT ![task[k].user] = FALSE]
  ELSE UNCHANGED flag

\* subprocess.run returns; finally: running = False.
Return(k) ==
  /\ task[k].pc \in {"exit0", "exit1"}
  /\ Settle(k, IF task[k].pc = "exit0" THEN "ok" ELSE "error")
  /\ Release(k)
  /\ task' = [task EXCEPT ![k] = At(task[k], "notify")]
  /\ UNCHANGED <<log, job, faults>>

\* Mutant of TimeOut: only the start of the script is bounded.
TimeOutOfBoot(k) ==
  /\ task[k].pc = "boot"
  /\ Settle(k, "error")
  /\ task' = [task EXCEPT ![k] = Gone(task[k], "killed")]
  /\ UNCHANGED <<flag, log, job, faults>>

\* TimeoutExpired: the subprocess is killed.
TimeOut(k) ==
  /\ task[k].pc \in Live
  /\ Settle(k, "error")
  /\ task' = [task EXCEPT ![k] = Gone(task[k], "killed")]
  /\ UNCHANGED <<flag, log, job, faults>>

RunningRows(u) == {i \in DOMAIN log[u] : log[u][i].status = "running"}

\* Mutant of Orphans: every type of the user (issue #84).
OrphansAnyType(t) == RunningRows(t.user)

\* The rows _close_out_orphaned_log updates.
Orphans(t) == {i \in RunningRows(t.user) : log[t.user][i].type = t.type}

\* Mutant of CloseOut: only the flag in memory is released.
CloseOutOnlyFlag(k) ==
  /\ task[k].pc = "killed"
  /\ task' = [task EXCEPT ![k] = At(task[k], "notify")]
  /\ Release(k)
  /\ UNCHANGED <<last, log, job, faults>>

\* _close_out_orphaned_log, which swallows database errors; finally.
CloseOut(k) ==
  LET t == task[k] IN
  /\ t.pc = "killed"
  /\ task' = [task EXCEPT ![k] = At(task[k], "notify")]
  /\ Release(k)
  /\ \/ /\ log' = [log EXCEPT ![t.user] = [i \in DOMAIN @ |->
                   IF i \in Orphans(t) THEN [@[i] EXCEPT !.status = "error"] ELSE @[i]]]
        /\ UNCHANGED faults
     \/ /\ faults < MaxFaults /\ faults' = faults + 1
        /\ log' = [log EXCEPT ![t.user] = Lost(t.user, {t.row})]
  /\ UNCHANGED <<last, job>>

\* The newest row of the task's type, 0 if it is older than the task.
NewestRow(t) ==
  LET rows == {i \in DOMAIN log[t.user] : i > t.began /\ log[t.user][i].type = t.type}
  IN IF rows = {} THEN 0 ELSE CHOOSE i \in rows : \A j \in rows : j <= i

\* The call has returned.
Over(t) == [Gone(t, "done") EXCEPT !.row = 0, !.began = 0, !.fresh = FALSE]

\* _notify_sync_outcome, _notify_recommender_outcome: reports NewestRow.
Notify(k) ==
  /\ task[k].pc = "notify"
  /\ task' = [task EXCEPT ![k] = IF task[k].type \in SyncType THEN At(task[k], "check") ELSE Over(task[k])]
  /\ UNCHANGED <<flag, last, log, job, faults>>

\* _check_streaming_availability if the last result is ok.
ChecksAvailability(t) == t.pc = "check" /\ last[t.user] = "ok"

Check(k) ==
  /\ task[k].pc = "check"
  /\ task' = [task EXCEPT ![k] = Over(@)]
  /\ UNCHANGED <<flag, last, log, job, faults>>

\* The container restarts: threads, subprocesses and memory are gone.
Restart ==
  /\ faults < MaxFaults /\ faults' = faults + 1
  /\ flag' = [u \in User |-> FALSE] /\ last' = [u \in User |-> "none"]
  /\ task' = [k \in DOMAIN task |-> Over(task[k])]
  /\ job' = [j \in Job |-> [todo |-> {}, cur |-> 0]]
  /\ log' = [u \in User |-> Lost(u, RunningRows(u))]

Script(k) == StartLog(k) \/ Step(k) \/ Finish(k)
Thread(k) == Launch(k) \/ Return(k) \/ CloseOut(k) \/ Notify(k) \/ Check(k)

Next ==
  \/ \E u \in User, type \in SyncType : Trigger(u, type)
  \/ \E j \in Job : JobStarts(j) \/ \E u \in User : JobNext(j, u)
  \/ \E k \in DOMAIN task : Script(k) \/ Thread(k) \/ LaunchFails(k) \/ Dies(k) \/ TimeOut(k)
  \/ Restart

Spec == Init /\ [][Next]_vars

\* Threads run on; the outer timeout strikes a process that never ends; the
\* scheduler's loop goes on to the next user.  A script may hang anywhere (its
\* own database calls have no timeout), so it gets no fairness.
Fairness ==
  /\ \A k \in TaskId : /\ WF_vars(k \in DOMAIN task /\ Thread(k))
                       /\ WF_vars(k \in DOMAIN task /\ TimeOut(k))
  /\ \A j \in Job : WF_vars(\E u \in User : JobNext(j, u))

FairSpec == Spec /\ Fairness

-----------------------------------------------------------------------------
(* Properties.                                                             *)

\* Tasks that hold their user's flag.
Holding == {k \in DOMAIN task : task[k].type \in SyncType
                                /\ task[k].pc \notin {"notify", "check", "done"}}

\* However buttons and the daily job interleave, at most one sync of a user is
\* in flight, and the flag says so (the guard of POST /api/sync).
SingleFlight ==
  /\ \A k, l \in Holding : task[k].user = task[l].user => k = l
  /\ \A u \in User : flag[u] <=> \E k \in Holding : task[k].user = u

\* The row of a running pipeline is never settled by somebody else's cleanup
\* (_close_out_orphaned_log, issue #84).
LiveRowRunning ==
  \A k \in DOMAIN task : task[k].pc = "steps" => task[k].row \in RunningRows(task[k].user)

\* A row stays at "running" only while its task will still close it: no killed
\* pipeline leaves a stuck row, as long as the database takes the bookkeeping
\* and the app is not restarted (issue #91).
RowSettles ==
  \A u \in User : \A i \in RunningRows(u) : ~log[u][i].lost =>
    \E k \in DOMAIN task : task[k].user = u /\ task[k].row = i /\ task[k].pc \in {"steps", "killed"}

\* Streaming availability is checked only if some run of the user refreshed the
\* library since this task began, though the flag is free by then and the result
\* may be another task's.
AvailabilityNeedsRefresh ==
  \A k \in DOMAIN task : LET t == task[k] IN
    ChecksAvailability(t) => \E i \in DOMAIN log[t.user] : i > t.began /\ log[t.user][i].fresh

\* One user's hung or killed pipeline does not keep the scheduler from the other
\* users (issue #475).
EveryUserVisited == \A j \in Job : job[j].todo # {} ~> job[j].todo = {}

\* Every claimed sync ends, and the buttons work again.
FlagReleased == \A u \in User : flag[u] ~> ~flag[u]
=============================================================================
