------------------------ MODULE SyncPipelineProofs ------------------------
(* Proofs, for every set of users, every number of providers and every      *)
(* bound, that the variables of SyncPipeline keep their types, that a       *)
(* user's syncs are single-flight, that a running pipeline's row is never   *)
(* settled by somebody else, that no row is left at "running" without a     *)
(* task that will close it, and that availability is checked only after a   *)
(* refresh.                                                                 *)
EXTENDS SyncPipeline, TLAPS

(***************************************************************************)
(* The inductive invariant.  A row is matched to tasks by user and type    *)
(* only, so the row of a live task is safe because no other task in        *)
(* progress has both: for the two kinds of sync that is the flag           *)
(* (SingleFlight), for the recommender it is the job's single instance     *)
(* (OneRecommender).  RowOfTask says when a task has a row and of which    *)
(* type it is.                                                             *)
(***************************************************************************)
OneRecommender ==
  \A k \in DOMAIN task : task[k].type = "recommender" /\ task[k].pc # "done"
                         => k = job["weekly_recommender"].cur

HasRow(t) == t.pc \in {"steps", "killed"} /\ t.row > 0

RowOfTask ==
  \A k \in DOMAIN task :
    /\ task[k].pc \in {"queued", "boot"} => task[k].row = 0
    /\ task[k].pc = "steps" => task[k].row > 0
    /\ HasRow(task[k]) => log[task[k].user][task[k].row].type = task[k].type

Typed == TypeOK /\ RowOfTask

IInv == Typed /\ SingleFlight /\ OneRecommender /\ LiveRowRunning /\ RowSettles

-----------------------------------------------------------------------------
(* What the record operators do to a task.                                 *)

LEMMA GoneFields ==
  ASSUME NEW t \in Task, NEW pc \in {"exit0", "exit1", "killed", "done"}
  PROVE  /\ Gone(t, pc) \in Task
         /\ Gone(t, pc).user = t.user /\ Gone(t, pc).type = t.type
         /\ Gone(t, pc).row = t.row /\ Gone(t, pc).pc = pc
<1>1. 0 \in 0..(Providers + 1) BY BoundAssumption
<1> QED BY <1>1, Zenon DEF Gone, Task

LEMMA OverFields ==
  ASSUME NEW t \in Task
  PROVE  /\ Over(t) \in Task
         /\ Over(t).user = t.user /\ Over(t).type = t.type
         /\ Over(t).row = 0 /\ Over(t).pc = "done"
<1>1. Gone(t, "done") \in Task /\ Gone(t, "done").user = t.user
      /\ Gone(t, "done").type = t.type /\ Gone(t, "done").pc = "done"
  BY GoneFields
<1>2. 0 \in Nat OBVIOUS
<1> QED BY <1>1, <1>2, Zenon DEF Over, Task

LEMMA LaunchedFields ==
  ASSUME TypeOK, NEW t \in Task
  PROVE  /\ Launched(t) \in Task
         /\ Launched(t).user = t.user /\ Launched(t).type = t.type
         /\ Launched(t).row = t.row /\ Launched(t).pc = t.pc
<1>1. Len(log[t.user]) \in Nat BY DEF TypeOK, Task
<1> QED BY <1>1, Zenon DEF Launched, Task

LEMMA LoggedFields ==
  ASSUME TypeOK, NEW t \in Task
  PROVE  /\ Logged(t) \in Task
         /\ Logged(t).user = t.user /\ Logged(t).type = t.type
         /\ Logged(t).row = Len(log[t.user]) + 1 /\ Logged(t).pc = "steps"
<1>1. Len(log[t.user]) + 1 \in Nat BY DEF TypeOK, Task
<1> QED BY <1>1, Zenon DEF Logged, Task, Live

LEMMA SteppedFields ==
  ASSUME NEW t \in Task, NEW left \in 0..(Providers + 1), NEW f \in BOOLEAN, NEW g \in BOOLEAN
  PROVE  /\ Stepped(t, left, f, g) \in Task
         /\ Stepped(t, left, f, g).user = t.user /\ Stepped(t, left, f, g).type = t.type
         /\ Stepped(t, left, f, g).row = t.row /\ Stepped(t, left, f, g).pc = t.pc
BY Zenon DEF Stepped, Task

LEMMA PcFields ==
  ASSUME NEW t \in Task, NEW pc \in {"boot", "notify", "check"}
  PROVE  /\ At(t, pc) \in Task
         /\ At(t, pc).user = t.user /\ At(t, pc).type = t.type
         /\ At(t, pc).row = t.row /\ At(t, pc).pc = pc
BY Zenon DEF At, Task, Live

-----------------------------------------------------------------------------
(* Shapes of steps: task k moves on, the rows of user u are rewritten.     *)

Moves(k, pc, row) ==
  /\ task' \in Seq(Task) /\ DOMAIN task' = DOMAIN task
  /\ \A l \in DOMAIN task : l # k => task'[l] = task[l]
  /\ task'[k].user = task[k].user /\ task'[k].type = task[k].type
  /\ task'[k].pc = pc /\ task'[k].row = row

Rewrites(u) ==
  /\ log' \in [User -> Seq(Row)]
  /\ \A v \in User : v # u => log'[v] = log[v]
  /\ DOMAIN log'[u] = DOMAIN log[u]
  /\ \A i \in DOMAIN log[u] : log'[u][i].type = log[u][i].type

\* The two assignments, kept folded.
SetTask(k, t) == task' = [task EXCEPT ![k] = t]
SetRows(u, f) == log' = [log EXCEPT ![u] = f]

RowsLike(u, f) ==
  f \in [DOMAIN log[u] -> Row] /\ \A i \in DOMAIN log[u] : f[i].type = log[u][i].type

\* The rows of u stay as fresh as they were.
KeepsFresh(u) ==
  \A i \in DOMAIN log[u] : /\ log[u][i].fresh => log'[u][i].fresh
                           /\ log'[u][i].fresh => log[u][i].fresh

\* The rows of u keep their status; one that was lost stays lost.
KeepsStatus(u) ==
  \A i \in DOMAIN log[u] : /\ log'[u][i].status = log[u][i].status
                           /\ log[u][i].lost => log'[u][i].lost

LEMMA LenDomain == ASSUME NEW S, NEW s \in Seq(S) PROVE DOMAIN s = 1..Len(s) /\ Len(s) \in Nat
OBVIOUS

LEMMA PutTask ==
  ASSUME TypeOK, NEW k \in DOMAIN task, NEW t \in Task,
         SetTask(k, t), t.user = task[k].user, t.type = task[k].type
  PROVE  Moves(k, t.pc, t.row)
BY DEF Moves, SetTask, TypeOK

LEMMA TaskType ==
  ASSUME TypeOK, NEW k \in DOMAIN task
  PROVE  task[k] \in Task /\ task[k].user \in User /\ task[k].row \in Nat
<1>1. task[k] \in Task BY DEF TypeOK
<1> QED BY <1>1 DEF Task

LEMMA RowInLog ==
  ASSUME Typed, NEW k \in DOMAIN task, task[k].pc = "steps"
  PROVE  task[k].row \in DOMAIN log[task[k].user]
<1>1. task[k].user \in User /\ task[k].row \in Nat BY TaskType DEF Typed
<1>2. task[k].row > 0 /\ task[k].row <= Len(log[task[k].user])
  BY DEF Typed, TypeOK, RowOfTask
<1>3. log[task[k].user] \in Seq(Row) BY <1>1 DEF Typed, TypeOK
<1> QED BY <1>1, <1>2, <1>3, LenDomain

LEMMA SameLog ==
  ASSUME TypeOK, UNCHANGED log, NEW u \in User
  PROVE  Rewrites(u) /\ KeepsStatus(u) /\ KeepsFresh(u)
BY DEF Rewrites, KeepsStatus, KeepsFresh, TypeOK

LEMMA MapRows ==
  ASSUME TypeOK, NEW u \in User, NEW f, SetRows(u, f), RowsLike(u, f)
  PROVE  Rewrites(u) /\ log'[u] = f
<1>1. DOMAIN log[u] = 1..Len(log[u]) /\ Len(log[u]) \in Nat BY LenDomain DEF TypeOK
<1>2. f \in Seq(Row) BY <1>1 DEF RowsLike
<1> QED BY <1>2 DEF Rewrites, SetRows, RowsLike, TypeOK

LEMMA RowType ==
  ASSUME TypeOK, NEW u \in User, NEW i \in DOMAIN log[u]
  PROVE  log[u][i] \in Row
BY DEF TypeOK

LEMMA LostRow ==
  ASSUME NEW r \in Row
  PROVE  /\ [r EXCEPT !.lost = TRUE] \in Row
         /\ [r EXCEPT !.lost = TRUE].type = r.type
         /\ [r EXCEPT !.lost = TRUE].status = r.status
         /\ [r EXCEPT !.lost = TRUE].fresh = r.fresh
         /\ [r EXCEPT !.lost = TRUE].lost = TRUE
BY Zenon DEF Row

LEMMA StatusRow ==
  ASSUME NEW r \in Row, NEW st \in {"ok", "partial", "error"}
  PROVE  /\ [r EXCEPT !.status = st] \in Row
         /\ [r EXCEPT !.status = st].type = r.type
         /\ [r EXCEPT !.status = st].status = st
         /\ [r EXCEPT !.status = st].lost = r.lost
         /\ [r EXCEPT !.status = st].fresh = r.fresh
BY Zenon DEF Row

LEMMA FreshRow ==
  ASSUME NEW r \in Row, NEW ok \in BOOLEAN
  PROVE  /\ [r EXCEPT !.fresh = ok] \in Row
         /\ [r EXCEPT !.fresh = ok].type = r.type
         /\ [r EXCEPT !.fresh = ok].status = r.status
         /\ [r EXCEPT !.fresh = ok].lost = r.lost
BY Zenon DEF Row

LEMMA LostRows ==
  ASSUME TypeOK, NEW u \in User, NEW R
  PROVE  /\ RowsLike(u, Lost(u, R))
         /\ \A i \in DOMAIN log[u] : /\ Lost(u, R)[i].type = log[u][i].type
                                     /\ Lost(u, R)[i].status = log[u][i].status
                                     /\ log[u][i].lost => Lost(u, R)[i].lost
                                     /\ i \in R => Lost(u, R)[i].lost
                                     /\ log[u][i].fresh => Lost(u, R)[i].fresh
                                     /\ Lost(u, R)[i].fresh => log[u][i].fresh
<1> SUFFICES ASSUME NEW i \in DOMAIN log[u]
             PROVE  LET r == IF i \in R THEN [log[u][i] EXCEPT !.lost = TRUE] ELSE log[u][i]
                    IN /\ r \in Row /\ r.type = log[u][i].type /\ r.status = log[u][i].status
                       /\ log[u][i].lost => r.lost
                       /\ i \in R => r.lost
                       /\ (log[u][i].fresh => r.fresh) /\ (r.fresh => log[u][i].fresh)
  BY DEF Lost, RowsLike
<1> QED BY RowType, LostRow

LEMMA LoseRows ==
  ASSUME TypeOK, NEW u \in User, NEW R, SetRows(u, Lost(u, R))
  PROVE  /\ Rewrites(u) /\ KeepsStatus(u) /\ KeepsFresh(u)
         /\ \A i \in DOMAIN log[u] \cap R : log'[u][i].lost
<1>1. Rewrites(u) /\ log'[u] = Lost(u, R) BY LostRows, MapRows
<1> QED BY <1>1, LostRows DEF KeepsStatus, KeepsFresh

-----------------------------------------------------------------------------
(* Each action in these terms.                                             *)

\* Rows of k's user and type may be settled; k's own row is settled or lost.
Closes(k) ==
  LET u == task[k].user IN
  /\ Rewrites(u) /\ KeepsFresh(u)
  /\ \A i \in DOMAIN log[u] :
       /\ log[u][i].lost => log'[u][i].lost
       /\ log'[u][i].status = "running" => log[u][i].status = "running"
       /\ log'[u][i].status # log[u][i].status => log[u][i].type = task[k].type
       /\ i = task[k].row /\ log[u][i].type = task[k].type
            => log'[u][i].status # "running" \/ log'[u][i].lost

LEMMA LaunchEffect ==
  ASSUME Typed, NEW k \in DOMAIN task, Launch(k)
  PROVE  task[k].pc = "queued" /\ Moves(k, "boot", task[k].row)
<1> DEFINE t == At(Launched(task[k]), "boot")
<1>1. task[k] \in Task BY TaskType DEF Typed
<1>2. t \in Task /\ t.user = task[k].user /\ t.type = task[k].type
      /\ t.row = task[k].row /\ t.pc = "boot"
  BY <1>1, LaunchedFields, PcFields DEF Typed
<1>3. SetTask(k, t) BY DEF Launch, SetTask
<1> HIDE DEF t
<1> QED BY <1>2, <1>3, PutTask DEF Launch, Typed

LEMMA LaunchFailsEffect ==
  ASSUME Typed, NEW k \in DOMAIN task, LaunchFails(k)
  PROVE  task[k].pc = "queued" /\ Moves(k, "killed", task[k].row)
<1> DEFINE t == Launched(Gone(task[k], "killed"))
<1>1. task[k] \in Task BY TaskType DEF Typed
<1>2. t \in Task /\ t.user = task[k].user /\ t.type = task[k].type
      /\ t.row = task[k].row /\ t.pc = "killed"
  BY <1>1, LaunchedFields, GoneFields DEF Typed
<1>3. SetTask(k, t) BY DEF LaunchFails, SetTask
<1> HIDE DEF t
<1> QED BY <1>2, <1>3, PutTask DEF LaunchFails, Typed

LEMMA StartLogEffect ==
  ASSUME Typed, NEW k \in DOMAIN task, StartLog(k)
  PROVE  /\ task[k].pc = "boot"
         /\ Moves(k, "steps", Len(log[task[k].user]) + 1)
         /\ log' \in [User -> Seq(Row)]
         /\ \A v \in User : v # task[k].user => log'[v] = log[v]
         /\ Len(log'[task[k].user]) = Len(log[task[k].user]) + 1
         /\ \A i \in DOMAIN log[task[k].user] : log'[task[k].user][i] = log[task[k].user][i]
         /\ LET r == log'[task[k].user][Len(log[task[k].user]) + 1]
            IN r.status = "running" /\ r.type = task[k].type /\ ~r.fresh
<1> DEFINE u == task[k].user
           r == [type |-> task[k].type, status |-> "running", fresh |-> FALSE, lost |-> FALSE]
<1>1. task[k] \in Task /\ u \in User BY TaskType DEF Typed
<1>2. r \in Row BY <1>1 DEF Task, Row
<1>3. log[u] \in Seq(Row) BY <1>1 DEF Typed, TypeOK
<1>4. log' = [log EXCEPT ![u] = Append(log[u], r)] BY DEF StartLog, WithRow
<1>5. log'[u] = Append(log[u], r) BY <1>1, <1>4 DEF Typed, TypeOK
<1>6. Moves(k, "steps", Len(log[u]) + 1)
  <2>1. SetTask(k, Logged(task[k])) BY DEF StartLog, SetTask
  <2> QED BY <1>1, <2>1, LoggedFields, PutTask DEF Typed
<1>7. /\ Append(log[u], r) \in Seq(Row)
      /\ Len(Append(log[u], r)) = Len(log[u]) + 1
      /\ \A i \in 1..Len(log[u]) : Append(log[u], r)[i] = log[u][i]
      /\ Append(log[u], r)[Len(log[u]) + 1] = r
      /\ DOMAIN log[u] = 1..Len(log[u])
  BY <1>2, <1>3
<1>8. log' \in [User -> Seq(Row)] BY <1>4, <1>7 DEF Typed, TypeOK
<1>9. \A v \in User : v # u => log'[v] = log[v] BY <1>4 DEF Typed, TypeOK
<1> QED BY <1>5, <1>6, <1>7, <1>8, <1>9 DEF StartLog

LEMMA StepEffect ==
  ASSUME Typed, NEW k \in DOMAIN task, Step(k)
  PROVE  /\ task[k].pc = "steps" /\ Moves(k, "steps", task[k].row)
         /\ Rewrites(task[k].user) /\ KeepsStatus(task[k].user)
<1> DEFINE t == task[k]  u == t.user
<1>1. t \in Task /\ u \in User /\ t.left \in 0..(Providers + 1)
      /\ t.fresh \in BOOLEAN /\ t.failed \in BOOLEAN /\ t.pc = "steps" /\ t.left > 0
  <2>1. t \in Task /\ u \in User BY TaskType DEF Typed
  <2> QED BY <2>1 DEF Task, Step
<1>2. 0 \in 0..(Providers + 1) /\ t.left - 1 \in 0..(Providers + 1)
  BY <1>1, BoundAssumption
<1>3. ASSUME NEW left \in 0..(Providers + 1), NEW f \in BOOLEAN, NEW g \in BOOLEAN,
             SetTask(k, Stepped(t, left, f, g))
      PROVE  Moves(k, "steps", t.row)
  BY <1>1, <1>3, SteppedFields, PutTask DEF Typed
<1>4. CASE \E ok \in BOOLEAN : /\ SetTask(k, Stepped(t, t.left - 1, ok, FALSE))
                               /\ log' = [log EXCEPT ![u][t.row].fresh = ok]
  <2> PICK ok \in BOOLEAN : /\ SetTask(k, Stepped(t, t.left - 1, ok, FALSE))
                            /\ log' = [log EXCEPT ![u][t.row].fresh = ok]
    BY <1>4
  <2> DEFINE f == [log[u] EXCEPT ![t.row] = [log[u][t.row] EXCEPT !.fresh = ok]]
  <2>1. t.row \in DOMAIN log[u] BY <1>1, RowInLog
  <2>2. /\ RowsLike(u, f)
        /\ \A i \in DOMAIN log[u] : /\ f[i].status = log[u][i].status
                                    /\ f[i].lost = log[u][i].lost
    <3> SUFFICES ASSUME NEW i \in DOMAIN log[u]
                 PROVE  f[i] \in Row /\ f[i].type = log[u][i].type
                        /\ f[i].status = log[u][i].status /\ f[i].lost = log[u][i].lost
      BY DEF RowsLike
    <3>1. log[u][i] \in Row BY <1>1, RowType DEF Typed
    <3> QED BY <3>1, FreshRow
  <2>3. SetRows(u, f) BY DEF SetRows
  <2> HIDE DEF f
  <2>4. Rewrites(u) /\ log'[u] = f BY <1>1, <2>2, <2>3, MapRows DEF Typed
  <2>5. KeepsStatus(u) BY <2>2, <2>4 DEF KeepsStatus
  <2> QED BY <1>1, <1>2, <1>3, <2>4, <2>5
<1>5. CASE UNCHANGED log /\ SetTask(k, Stepped(t, 0, FALSE, FALSE))
  BY <1>1, <1>2, <1>3, <1>5, SameLog DEF Typed
<1>6. CASE UNCHANGED log /\ \E bad \in BOOLEAN :
             SetTask(k, Stepped(t, t.left - 1, t.fresh, t.failed \/ bad))
  BY <1>1, <1>2, <1>3, <1>6, SameLog DEF Typed
<1> QED BY <1>4, <1>5, <1>6 DEF Step, SetTask

LEMMA FinishEffect ==
  ASSUME Typed, NEW k \in DOMAIN task, Finish(k)
  PROVE  /\ task[k].pc = "steps"
         /\ \E pc \in {"exit0", "exit1"} : Moves(k, pc, task[k].row)
         /\ Closes(k)
         /\ faults' \in 0..MaxFaults
<1> DEFINE t == task[k]  u == t.user  st == OverallStatus(t)
           f == [log[u] EXCEPT ![t.row] = [log[u][t.row] EXCEPT !.status = st]]
           g == [log[u] EXCEPT ![t.row] = [log[u][t.row] EXCEPT !.lost = TRUE]]
<1>1. t \in Task /\ u \in User BY TaskType DEF Typed
<1>2. st \in {"ok", "partial", "error"} BY DEF OverallStatus
<1>3. Exit(t) \in {"exit0", "exit1"} BY DEF Exit
<1>4. Moves(k, Exit(t), t.row)
  <2>1. SetTask(k, Gone(t, Exit(t))) BY DEF Finish, SetTask
  <2> QED BY <1>1, <1>3, <2>1, GoneFields, PutTask DEF Typed
<1>5. t.pc = "steps" BY DEF Finish
<1>6. t.row \in DOMAIN log[u] BY <1>5, RowInLog
<1>7. ASSUME NEW i \in DOMAIN log[u]
      PROVE  /\ f[i] \in Row /\ f[i].type = log[u][i].type /\ f[i].lost = log[u][i].lost
             /\ f[i].fresh = log[u][i].fresh /\ g[i].fresh = log[u][i].fresh
             /\ g[i] \in Row /\ g[i].type = log[u][i].type
             /\ g[i].status = log[u][i].status
             /\ log[u][i].lost => g[i].lost
             /\ i # t.row => f[i] = log[u][i] /\ g[i] = log[u][i]
             /\ i = t.row => f[i].status = st /\ g[i].lost
  <2>1. log[u][i] \in Row BY <1>1, RowType DEF Typed
  <2>2. f[i] = IF i = t.row THEN [log[u][i] EXCEPT !.status = st] ELSE log[u][i]
    OBVIOUS
  <2>3. g[i] = IF i = t.row THEN [log[u][i] EXCEPT !.lost = TRUE] ELSE log[u][i]
    OBVIOUS
  <2> HIDE DEF f, g, st
  <2>4. CASE i # t.row BY <2>1, <2>2, <2>3, <2>4
  <2>5. CASE i = t.row
    <3> DEFINE a == [log[u][i] EXCEPT !.status = st]
               b == [log[u][i] EXCEPT !.lost = TRUE]
    <3>1. /\ a \in Row /\ a.type = log[u][i].type /\ a.status = st /\ a.lost = log[u][i].lost
          /\ a.fresh = log[u][i].fresh
      BY <1>2, <2>1, StatusRow, Zenon
    <3>2. /\ b \in Row /\ b.type = log[u][i].type /\ b.status = log[u][i].status /\ b.lost
          /\ b.fresh = log[u][i].fresh
      BY <2>1, LostRow, Zenon
    <3>3. f[i] = a /\ g[i] = b BY <2>2, <2>3, <2>5
    <3> HIDE DEF a, b
    <3> QED BY <2>5, <3>1, <3>2, <3>3
  <2> QED BY <2>4, <2>5
<1>8. RowsLike(u, f) /\ RowsLike(u, g) BY <1>7 DEF RowsLike
<1>9. \/ SetRows(u, f) /\ UNCHANGED faults
      \/ /\ SetRows(u, g)
         /\ faults < MaxFaults /\ faults' = faults + 1
  BY DEF Finish, Settled, SetRows
<1> HIDE DEF f, g, st
<1>10. Closes(k)
  <2>1. log[u][t.row].type = t.type
    BY <1>1, <1>5, <1>6 DEF Typed, RowOfTask, HasRow, Task
  <2>2. CASE SetRows(u, f)
    <3>1. Rewrites(u) /\ log'[u] = f BY <1>1, <1>8, <2>2, MapRows DEF Typed
    <3>2. KeepsFresh(u) BY <1>7, <3>1 DEF KeepsFresh
    <3> QED BY <1>2, <1>7, <2>1, <3>1, <3>2 DEF Closes
  <2>3. CASE SetRows(u, g)
    <3>1. Rewrites(u) /\ log'[u] = g BY <1>1, <1>8, <2>3, MapRows DEF Typed
    <3>2. \A i \in DOMAIN log[u] : g[i].status = log[u][i].status BY <1>7
    <3>3. KeepsFresh(u) BY <1>7, <3>1 DEF KeepsFresh
    <3> QED BY <1>7, <3>1, <3>2, <3>3 DEF Closes
  <2> QED BY <1>9, <2>2, <2>3
<1>11. faults' \in 0..MaxFaults BY <1>9, BoundAssumption DEF Typed, TypeOK
<1> QED BY <1>2, <1>3, <1>4, <1>5, <1>10, <1>11

LEMMA DiesEffect ==
  ASSUME Typed, NEW k \in DOMAIN task, Dies(k)
  PROVE  /\ task[k].pc \in Live /\ Moves(k, "exit1", task[k].row)
         /\ Closes(k)
<1> DEFINE t == task[k]  u == t.user
<1>1. t \in Task /\ u \in User BY TaskType DEF Typed
<1>2. SetTask(k, Gone(t, "exit1")) /\ SetRows(u, Lost(u, {t.row}))
  BY DEF Dies, SetTask, SetRows
<1>3. Moves(k, "exit1", t.row) BY <1>1, <1>2, GoneFields, PutTask DEF Typed
<1>4. Closes(k) BY <1>1, <1>2, LoseRows DEF Typed, Closes, KeepsStatus
<1> QED BY <1>3, <1>4 DEF Dies

LEMMA TimeOutEffect ==
  ASSUME Typed, NEW k \in DOMAIN task, TimeOut(k)
  PROVE  task[k].pc \in Live /\ Moves(k, "killed", task[k].row)
<1>1. SetTask(k, Gone(task[k], "killed")) BY DEF TimeOut, SetTask
<1> QED BY <1>1, TaskType, GoneFields, PutTask DEF TimeOut, Typed

LEMMA ReturnEffect ==
  ASSUME Typed, NEW k \in DOMAIN task, Return(k)
  PROVE  task[k].pc \in {"exit0", "exit1"} /\ Moves(k, "notify", task[k].row)
<1>1. SetTask(k, At(task[k], "notify")) BY DEF Return, SetTask
<1> QED BY <1>1, TaskType, PcFields, PutTask DEF Return, Typed

LEMMA CloseOutEffect ==
  ASSUME Typed, NEW k \in DOMAIN task, CloseOut(k)
  PROVE  /\ task[k].pc = "killed" /\ Moves(k, "notify", task[k].row)
         /\ Closes(k) /\ faults' \in 0..MaxFaults
<1> DEFINE t == task[k]  u == t.user
           f == [i \in DOMAIN log[u] |->
                   IF i \in Orphans(t) THEN [log[u][i] EXCEPT !.status = "error"] ELSE log[u][i]]
<1>1. t \in Task /\ u \in User BY TaskType DEF Typed
<1>2. SetTask(k, At(t, "notify")) BY DEF CloseOut, SetTask
<1>3. Moves(k, "notify", t.row) BY <1>1, <1>2, PcFields, PutTask DEF Typed
<1>4. \/ SetRows(u, f) /\ UNCHANGED faults
      \/ /\ SetRows(u, Lost(u, {t.row}))
         /\ faults < MaxFaults /\ faults' = faults + 1
  BY DEF CloseOut, SetRows
<1>5. faults' \in 0..MaxFaults BY <1>4, BoundAssumption DEF Typed, TypeOK
<1>6. CASE SetRows(u, Lost(u, {t.row}))
  BY <1>1, <1>3, <1>5, <1>6, LoseRows DEF Typed, Closes, KeepsStatus, CloseOut
<1>7. CASE SetRows(u, f)
  <2>1. ASSUME NEW i \in DOMAIN log[u]
        PROVE  /\ f[i] \in Row /\ f[i].type = log[u][i].type /\ f[i].lost = log[u][i].lost
               /\ f[i].fresh = log[u][i].fresh
               /\ i \in Orphans(t) => f[i].status = "error"
               /\ i \notin Orphans(t) => f[i] = log[u][i]
    <3>1. log[u][i] \in Row BY <1>1, RowType DEF Typed
    <3> DEFINE a == [log[u][i] EXCEPT !.status = "error"]
    <3>2. /\ a \in Row /\ a.type = log[u][i].type /\ a.status = "error"
          /\ a.lost = log[u][i].lost /\ a.fresh = log[u][i].fresh
      BY <3>1, StatusRow, Zenon
    <3>3. f[i] = IF i \in Orphans(t) THEN a ELSE log[u][i] OBVIOUS
    <3> HIDE DEF a, f
    <3> QED BY <3>1, <3>2, <3>3
  <2>2. RowsLike(u, f) BY <2>1 DEF RowsLike
  <2> HIDE DEF f
  <2>3. Rewrites(u) /\ log'[u] = f BY <1>1, <1>7, <2>2, MapRows DEF Typed
  <2>4. \A i \in DOMAIN log[u] : i \in Orphans(t) <=>
          log[u][i].status = "running" /\ log[u][i].type = t.type
    BY DEF Orphans, RunningRows
  <2>5. KeepsFresh(u) BY <2>1, <2>3 DEF KeepsFresh
  <2>6. Closes(k) BY <2>1, <2>3, <2>4, <2>5 DEF Closes
  <2> QED BY <1>3, <1>5, <2>6 DEF CloseOut
<1> QED BY <1>4, <1>6, <1>7

LEMMA NotifyEffect ==
  ASSUME Typed, NEW k \in DOMAIN task, Notify(k)
  PROVE  /\ task[k].pc = "notify"
         /\ \/ task[k].type \in SyncType /\ Moves(k, "check", task[k].row)
            \/ task[k].type \notin SyncType /\ Moves(k, "done", 0)
<1>1. task[k] \in Task BY TaskType DEF Typed
<1>2. CASE task[k].type \in SyncType
  <2>1. SetTask(k, At(task[k], "check")) BY <1>2 DEF Notify, SetTask
  <2> QED BY <1>1, <1>2, <2>1, PcFields, PutTask DEF Notify, Typed
<1>3. CASE task[k].type \notin SyncType
  <2>1. SetTask(k, Over(task[k])) BY <1>3 DEF Notify, SetTask
  <2> QED BY <1>1, <1>3, <2>1, OverFields, PutTask DEF Notify, Typed
<1> QED BY <1>2, <1>3

LEMMA CheckEffect ==
  ASSUME Typed, NEW k \in DOMAIN task, Check(k)
  PROVE  task[k].pc = "check" /\ Moves(k, "done", 0)
<1>1. SetTask(k, Over(task[k])) BY DEF Check, SetTask
<1> QED BY <1>1, TaskType, OverFields, PutTask DEF Check, Typed

LEMMA CallEffect ==
  ASSUME Typed, NEW u \in User, NEW type \in Type, Call(u, type)
  PROVE  /\ task' \in Seq(Task) /\ Len(task') = Len(task) + 1
         /\ DOMAIN task' = DOMAIN task \cup {Len(task) + 1}
         /\ Len(task) + 1 \notin DOMAIN task
         /\ \A k \in DOMAIN task : task'[k] = task[k]
         /\ LET t == task'[Len(task) + 1]
            IN /\ t.user = u /\ t.type = type /\ t.pc = "queued" /\ t.row = 0
               /\ t.began = 0 /\ ~t.fresh
<1> DEFINE t == [user |-> u, type |-> type, row |-> 0, began |-> 0, fresh |-> FALSE,
                 failed |-> FALSE, pc |-> "queued",
                 left |-> IF type = "recommender" THEN 1 ELSE Providers + 1]
<1>1. t \in Task BY BoundAssumption DEF Task
<1>2. task' = Append(task, t) BY DEF Call
<1>3. task \in Seq(Task) /\ DOMAIN task = 1..Len(task) /\ Len(task) \in Nat
  BY LenDomain DEF Typed, TypeOK
<1>4. /\ t.user = u /\ t.type = type /\ t.pc = "queued" /\ t.row = 0
      /\ t.began = 0 /\ ~t.fresh
  OBVIOUS
<1> HIDE DEF t
<1>5. /\ Append(task, t) \in Seq(Task) /\ Len(Append(task, t)) = Len(task) + 1
      /\ Append(task, t)[Len(task) + 1] = t
      /\ \A k \in 1..Len(task) : Append(task, t)[k] = task[k]
      /\ DOMAIN Append(task, t) = 1..(Len(task) + 1)
  BY <1>1, <1>3
<1> QED BY <1>2, <1>3, <1>4, <1>5

-----------------------------------------------------------------------------
(* What a move of one task preserves.                                      *)

Ended == {"notify", "check", "done"}

LEMMA MoveTyped ==
  ASSUME Typed, NEW k \in DOMAIN task, NEW pc, NEW row,
         Moves(k, pc, row), Rewrites(task[k].user), row \in {0, task[k].row},
         pc # "queued", pc = "boot" => task[k].pc = "queued",
         pc = "steps" => task[k].pc = "steps" /\ row = task[k].row,
         pc = "killed" => task[k].pc \in {"queued", "boot", "steps"},
         flag' \in [User -> BOOLEAN], last' \in [User -> {"none", "ok", "error"}],
         faults' \in 0..MaxFaults, UNCHANGED job
  PROVE  Typed'
<1>1. TypeOK'
  <2>1. Len(task') = Len(task)
    BY LenDomain DEF Moves, Typed, TypeOK
  <2>2. \A l \in DOMAIN task' : task'[l].row <= Len(log'[task'[l].user])
    <3> TAKE l \in DOMAIN task'
    <3>1. l \in DOMAIN task /\ task'[l].user = task[l].user /\ task[l].user \in User
          /\ task'[l].row \in {0, task[l].row}
      BY TaskType DEF Moves, Typed
    <3>2. Len(log'[task[l].user]) = Len(log[task[l].user])
      <4>1. DOMAIN log'[task[l].user] = DOMAIN log[task[l].user]
        BY <3>1 DEF Rewrites
      <4>2. log'[task[l].user] \in Seq(Row) /\ log[task[l].user] \in Seq(Row)
        BY <3>1 DEF Rewrites, Typed, TypeOK
      <4> QED BY <4>1, <4>2, LenDomain
    <3>3. task[l].row <= Len(log[task[l].user]) /\ Len(log[task[l].user]) \in Nat
      BY <3>1, LenDomain DEF Typed, TypeOK
    <3> QED BY <3>1, <3>2, <3>3
  <2> QED BY <2>1, <2>2 DEF Moves, Rewrites, Typed, TypeOK
<1>2. RowOfTask'
  <2> SUFFICES ASSUME NEW l \in DOMAIN task'
               PROVE  /\ task'[l].pc \in {"queued", "boot"} => task'[l].row = 0
                      /\ task'[l].pc = "steps" => task'[l].row > 0
                      /\ HasRow(task'[l]) => log'[task'[l].user][task'[l].row].type = task'[l].type
    BY DEF RowOfTask, HasRow
  <2>1. l \in DOMAIN task /\ task'[l].user = task[l].user /\ task[l].user \in User
        /\ task[l].row \in Nat /\ task'[l].type = task[l].type
    BY TaskType DEF Moves, Typed
  <2>2. /\ task'[l].pc \in {"queued", "boot"} => task[l].pc \in {"queued", "boot"}
        /\ task'[l].pc = "steps" => task[l].pc = "steps" /\ task'[l].row = task[l].row
        /\ task'[l].pc = "killed" => task[l].pc \in {"queued", "boot", "steps", "killed"}
        /\ task'[l].row \in {0, task[l].row}
    BY <2>1 DEF Moves
  <2>3. /\ task[l].pc \in {"queued", "boot"} => task[l].row = 0
        /\ task[l].pc = "steps" => task[l].row > 0
        /\ HasRow(task[l]) => log[task[l].user][task[l].row].type = task[l].type
    BY <2>1 DEF Typed, RowOfTask
  <2>4. ASSUME HasRow(task'[l])
        PROVE  log'[task'[l].user][task'[l].row].type = task'[l].type
    <3>1. task'[l].row = task[l].row /\ HasRow(task[l])
      BY <2>1, <2>2, <2>3, <2>4 DEF HasRow
    <3>2. task[l].row \in DOMAIN log[task[l].user]
      <4>1. task[l].row <= Len(log[task[l].user]) BY <2>1 DEF Typed, TypeOK
      <4>2. log[task[l].user] \in Seq(Row) BY <2>1 DEF Typed, TypeOK
      <4> QED BY <2>1, <3>1, <4>1, <4>2, LenDomain DEF HasRow
    <3>3. log'[task[l].user][task[l].row].type = log[task[l].user][task[l].row].type
      <4>1. CASE task[l].user = task[k].user BY <3>2, <4>1 DEF Rewrites
      <4>2. CASE task[l].user # task[k].user BY <2>1, <4>2 DEF Rewrites
      <4> QED BY <4>1, <4>2
    <3> QED BY <2>1, <2>3, <3>1, <3>3
  <2> QED BY <2>2, <2>3, <2>4
<1> QED BY <1>1, <1>2 DEF Typed

LEMMA MoveKeepsFlight ==
  ASSUME SingleFlight, NEW k \in DOMAIN task, NEW pc, NEW row, Moves(k, pc, row),
         UNCHANGED flag, task[k].type \in SyncType => (pc \in Ended <=> task[k].pc \in Ended)
  PROVE  SingleFlight'
<1>1. Holding' = Holding BY DEF Holding, Moves, Ended
<1>2. \A l \in Holding : task'[l].user = task[l].user BY DEF Holding, Moves
<1> QED BY <1>1, <1>2 DEF SingleFlight

LEMMA MoveReleases ==
  ASSUME Typed, SingleFlight, NEW k \in DOMAIN task, NEW pc, NEW row, Moves(k, pc, row),
         task[k].pc \notin Ended, pc \in Ended, Release(k)
  PROVE  SingleFlight' /\ flag' \in [User -> BOOLEAN]
<1>1. flag \in [User -> BOOLEAN] /\ task[k].user \in User BY TaskType DEF Typed, TypeOK
<1>2. \A l \in Holding' : task'[l].user = task[l].user BY DEF Holding, Moves
<1>3. Holding' = Holding \ {k} BY DEF Holding, Moves, Ended
<1>4. CASE task[k].type \in SyncType
  <2>1. flag' = [flag EXCEPT ![task[k].user] = FALSE] BY <1>4 DEF Release
  <2>2. k \in Holding BY <1>4 DEF Holding, Ended
  <2>3. ASSUME NEW u \in User
        PROVE  flag'[u] <=> \E l \in Holding' : task'[l].user = u
    <3>1. CASE u = task[k].user
      BY <1>1, <1>2, <1>3, <2>1, <2>2, <3>1 DEF SingleFlight
    <3>2. CASE u # task[k].user
      BY <1>1, <1>2, <1>3, <2>1, <3>2 DEF SingleFlight
    <3> QED BY <3>1, <3>2
  <2> QED BY <1>1, <1>2, <1>3, <2>1, <2>3 DEF SingleFlight
<1>5. CASE task[k].type \notin SyncType
  <2>1. Holding' = Holding BY <1>3, <1>5 DEF Holding
  <2>2. UNCHANGED flag BY <1>5 DEF Release
  <2> QED BY <1>1, <1>2, <2>1, <2>2 DEF SingleFlight
<1> QED BY <1>4, <1>5

LEMMA MoveKeepsRecommender ==
  ASSUME OneRecommender, NEW k \in DOMAIN task, NEW pc, NEW row, Moves(k, pc, row),
         task[k].pc # "done", UNCHANGED job
  PROVE  OneRecommender'
BY DEF OneRecommender, Moves

\* Two tasks in progress differ in their user or in their type.
LEMMA Exclusive ==
  ASSUME SingleFlight, OneRecommender, NEW k \in DOMAIN task, NEW l \in DOMAIN task,
         task[k].pc \notin Ended, task[l].pc \notin Ended, task[k].type \in Type,
         task[k].user = task[l].user, task[k].type = task[l].type
  PROVE  k = l
<1>1. CASE task[k].type = "recommender" BY <1>1 DEF OneRecommender, Ended
<1>2. CASE task[k].type # "recommender"
  BY <1>2 DEF SingleFlight, Holding, Type, Ended
<1> QED BY <1>1, <1>2

Rows == LiveRowRunning /\ RowSettles

LEMMA MoveKeepsRows ==
  ASSUME Typed, Rows, NEW k \in DOMAIN task, NEW pc, NEW row, Moves(k, pc, row),
         Rewrites(task[k].user), KeepsStatus(task[k].user),
         pc = "steps" => task[k].pc = "steps" /\ row = task[k].row,
         task[k].pc \in {"steps", "killed"} => pc \in {"steps", "killed"} /\ row = task[k].row
  PROVE  Rows'
<1>1. ASSUME NEW u \in User, NEW i \in DOMAIN log[u]
      PROVE  log'[u][i].status = log[u][i].status /\ (log[u][i].lost => log'[u][i].lost)
  BY DEF Rewrites, KeepsStatus
<1>2. ASSUME NEW u \in User PROVE DOMAIN log'[u] = DOMAIN log[u] BY DEF Rewrites
<1>3. \A u \in User : RunningRows(u)' = RunningRows(u) BY <1>1, <1>2 DEF RunningRows
<1>4. \A l \in DOMAIN task : task[l].user \in User BY TaskType DEF Typed
<1>5. LiveRowRunning' BY <1>3, <1>4 DEF Rows, LiveRowRunning, Moves
<1>6. RowSettles'
  <2> SUFFICES ASSUME NEW u \in User, NEW i \in RunningRows(u)', ~log'[u][i].lost
               PROVE  \E l \in DOMAIN task' : /\ task'[l].user = u /\ task'[l].row = i
                                              /\ task'[l].pc \in {"steps", "killed"}
    BY DEF RowSettles
  <2>1. i \in RunningRows(u) /\ ~log[u][i].lost BY <1>1, <1>3 DEF RunningRows
  <2>2. PICK l \in DOMAIN task : /\ task[l].user = u /\ task[l].row = i
                                 /\ task[l].pc \in {"steps", "killed"}
    BY <2>1 DEF Rows, RowSettles
  <2> QED BY <2>2 DEF Moves
<1> QED BY <1>5, <1>6 DEF Rows

LEMMA MoveClosesRow ==
  ASSUME Typed, Rows, SingleFlight, OneRecommender,
         NEW k \in DOMAIN task, NEW pc, NEW row, Moves(k, pc, row),
         task[k].pc \notin Ended, pc \notin {"steps", "killed"}, Closes(k)
  PROVE  Rows'
<1> DEFINE v == task[k].user
<1>1. v \in User /\ task[k].type \in Type
  <2>1. task[k] \in Task BY TaskType DEF Typed
  <2> QED BY <2>1 DEF Task
<1>2. ASSUME NEW u \in User PROVE DOMAIN log'[u] = DOMAIN log[u] BY DEF Closes, Rewrites
<1>3. ASSUME NEW u \in User, u # v PROVE log'[u] = log[u] BY <1>3 DEF Closes, Rewrites
<1>4. LiveRowRunning'
  <2> SUFFICES ASSUME NEW l \in DOMAIN task', task'[l].pc = "steps"
               PROVE  (task[l].row \in RunningRows(task[l].user))'
    BY DEF LiveRowRunning
  <2>1. l \in DOMAIN task /\ l # k /\ task'[l] = task[l] BY DEF Moves
  <2>2. task[l].user \in User BY <2>1, TaskType DEF Typed
  <2>3. task[l].row \in RunningRows(task[l].user)
    BY <2>1 DEF Rows, LiveRowRunning
  <2>4. CASE task[l].user # v BY <1>3, <2>1, <2>2, <2>3, <2>4 DEF RunningRows
  <2>5. CASE task[l].user = v
    <3>1. task[l].type # task[k].type BY <1>1, <2>1, <2>5, Exclusive DEF Ended
    <3>2. log[v][task[l].row].type = task[l].type
      <4>1. HasRow(task[l]) BY <2>1 DEF Typed, RowOfTask, HasRow
      <4> QED BY <2>1, <2>5, <4>1 DEF Typed, RowOfTask
    <3>3. task[l].row \in DOMAIN log[v] /\ log[v][task[l].row].status = "running"
      BY <2>3, <2>5 DEF RunningRows
    <3>4. log'[v][task[l].row].status = log[v][task[l].row].status
      BY <3>1, <3>2, <3>3 DEF Closes
    <3> QED BY <1>1, <1>2, <2>1, <2>5, <3>3, <3>4 DEF RunningRows
  <2> QED BY <2>4, <2>5
<1>5. RowSettles'
  <2> SUFFICES ASSUME NEW u \in User, NEW i \in RunningRows(u)', ~log'[u][i].lost
               PROVE  \E l \in DOMAIN task' : /\ task'[l].user = u /\ task'[l].row = i
                                              /\ task'[l].pc \in {"steps", "killed"}
    BY DEF RowSettles
  <2>1. i \in DOMAIN log[u] /\ log'[u][i].status = "running" BY <1>2 DEF RunningRows
  <2>2. i \in RunningRows(u) /\ ~log[u][i].lost
    <3>1. CASE u # v BY <1>3, <2>1, <3>1 DEF RunningRows
    <3>2. CASE u = v BY <2>1, <3>2 DEF RunningRows, Closes
    <3> QED BY <3>1, <3>2
  <2>3. PICK l \in DOMAIN task : /\ task[l].user = u /\ task[l].row = i
                                 /\ task[l].pc \in {"steps", "killed"}
    BY <2>2 DEF Rows, RowSettles
  <2>4. l # k
    <3> SUFFICES ASSUME l = k PROVE FALSE OBVIOUS
    <3>1. u = v /\ i = task[k].row BY <2>3
    <3>2. task[k].row > 0
      <4>1. DOMAIN log[u] = 1..Len(log[u]) BY LenDomain DEF Typed, TypeOK
      <4>2. Len(log[u]) \in Nat BY LenDomain DEF Typed, TypeOK
      <4> QED BY <2>1, <3>1, <4>1, <4>2
    <3>3. log[u][i].type = task[k].type
      BY <2>3, <3>1, <3>2 DEF Typed, RowOfTask, HasRow
    <3> QED BY <2>1, <3>1, <3>3 DEF Closes
  <2> QED BY <2>3, <2>4 DEF Moves
<1> QED BY <1>4, <1>5 DEF Rows

-----------------------------------------------------------------------------
(* The steps of other shapes.                                              *)

LEMMA InitInv == Init => IInv
<1> SUFFICES ASSUME Init PROVE IInv OBVIOUS
<1>1. TypeOK
  <2>1. <<>> \in Seq(Row) /\ task \in Seq(Task) /\ Len(task) = 0 /\ DOMAIN task = {}
    BY DEF Init
  <2> QED BY <2>1, BoundAssumption DEF Init, TypeOK
<1>2. DOMAIN task = {} /\ \A u \in User : DOMAIN log[u] = {} BY DEF Init
<1>3. SingleFlight BY <1>2 DEF Init, SingleFlight, Holding
<1>4. RowOfTask /\ OneRecommender /\ LiveRowRunning
  BY <1>2 DEF RowOfTask, OneRecommender, LiveRowRunning
<1>5. RowSettles BY <1>2 DEF RowSettles, RunningRows
<1> QED BY <1>1, <1>3, <1>4, <1>5 DEF IInv, Typed

LEMMA StartLogInv ==
  ASSUME IInv, NEW k \in DOMAIN task, StartLog(k)
  PROVE  IInv'
<1> DEFINE v == task[k].user  n == Len(log[v]) + 1
<1> USE DEF IInv
<1>1. /\ task[k].pc = "boot" /\ Moves(k, "steps", n)
      /\ log' \in [User -> Seq(Row)]
      /\ \A u \in User : u # v => log'[u] = log[u]
      /\ Len(log'[v]) = n
      /\ \A i \in DOMAIN log[v] : log'[v][i] = log[v][i]
      /\ log'[v][n].status = "running" /\ log'[v][n].type = task[k].type
  BY StartLogEffect
<1>2. task[k] \in Task /\ v \in User /\ n \in Nat /\ n > 0 /\ DOMAIN log[v] = 1..(n - 1)
      /\ DOMAIN log'[v] = 1..n
  <2>1. task[k] \in Task /\ v \in User BY TaskType DEF Typed
  <2>2. log[v] \in Seq(Row) /\ log'[v] \in Seq(Row) BY <1>1, <2>1 DEF Typed, TypeOK
  <2> QED BY <1>1, <2>1, <2>2, LenDomain
<1>3. UNCHANGED <<flag, last, job, faults>> BY DEF StartLog
<1>4. \A l \in DOMAIN task : /\ task[l].user \in User /\ task[l].row \in Nat
                             /\ task[l].row <= Len(log[task[l].user])
  BY TaskType DEF Typed, TypeOK
<1> HIDE DEF n
<1>5. TypeOK'
  <2>1. Len(task') = Len(task) BY <1>1, LenDomain DEF Moves, Typed, TypeOK
  <2>2. \A l \in DOMAIN task' : task'[l].row <= Len(log'[task'[l].user])
    <3> TAKE l \in DOMAIN task'
    <3>1. CASE l = k BY <1>1, <1>2, <3>1 DEF Moves
    <3>2. CASE l # k /\ task[l].user = v
      <4>1. task[l].row <= n - 1 BY <1>2, <1>4, <3>2, <1>1 DEF Moves, n
      <4> QED BY <1>1, <1>2, <1>4, <3>2, <4>1 DEF Moves
    <3>3. CASE l # k /\ task[l].user # v BY <1>1, <1>4, <3>3 DEF Moves
    <3> QED BY <3>1, <3>2, <3>3
  <2> QED BY <1>1, <1>3, <2>1, <2>2 DEF Moves, Typed, TypeOK
<1>6. \A l \in DOMAIN task : l # k /\ task[l].row > 0 =>
        /\ task[l].row \in DOMAIN log[task[l].user]
        /\ log'[task[l].user][task[l].row] = log[task[l].user][task[l].row]
  <2> SUFFICES ASSUME NEW l \in DOMAIN task, l # k, task[l].row > 0
               PROVE  /\ task[l].row \in DOMAIN log[task[l].user]
                      /\ log'[task[l].user][task[l].row] = log[task[l].user][task[l].row]
    OBVIOUS
  <2>1. task[l].row \in DOMAIN log[task[l].user]
    <3>1. log[task[l].user] \in Seq(Row) BY <1>4 DEF Typed, TypeOK
    <3> QED BY <1>4, <3>1, LenDomain
  <2> QED BY <1>1, <1>4, <2>1
<1>7. RowOfTask'
  <2> SUFFICES ASSUME NEW l \in DOMAIN task
               PROVE  /\ task'[l].pc \in {"queued", "boot"} => task'[l].row = 0
                      /\ task'[l].pc = "steps" => task'[l].row > 0
                      /\ HasRow(task'[l]) => log'[task'[l].user][task'[l].row].type = task'[l].type
    BY <1>1 DEF RowOfTask, HasRow, Moves
  <2>1. CASE l = k BY <1>1, <1>2, <2>1 DEF Moves
  <2>2. CASE l # k
    <3>1. task'[l] = task[l] BY <1>1, <2>2 DEF Moves
    <3> QED BY <1>6, <2>2, <3>1 DEF Typed, RowOfTask, HasRow
  <2> QED BY <2>1, <2>2
<1>8. SingleFlight' BY <1>1, <1>3, MoveKeepsFlight DEF Ended
<1>9. OneRecommender' BY <1>1, <1>3, MoveKeepsRecommender
<1>10. LiveRowRunning'
  <2> SUFFICES ASSUME NEW l \in DOMAIN task, task'[l].pc = "steps"
               PROVE  (task[l].row \in RunningRows(task[l].user))'
    BY <1>1 DEF LiveRowRunning, Moves
  <2>1. CASE l = k BY <1>1, <1>2, <2>1 DEF Moves, RunningRows
  <2>2. CASE l # k
    <3>1. task'[l] = task[l] BY <1>1, <2>2 DEF Moves
    <3>2. task[l].row \in RunningRows(task[l].user) /\ task[l].row > 0
      BY <3>1 DEF LiveRowRunning, Typed, RowOfTask
    <3>3. task[l].row \in DOMAIN log'[task[l].user]
      BY <1>1, <1>2, <1>4, <1>6, <2>2, <3>2
    <3> QED BY <1>6, <2>2, <3>1, <3>2, <3>3 DEF RunningRows
  <2> QED BY <2>1, <2>2
<1>11. RowSettles'
  <2> SUFFICES ASSUME NEW u \in User, NEW i \in RunningRows(u)', ~log'[u][i].lost
               PROVE  \E l \in DOMAIN task' : /\ task'[l].user = u /\ task'[l].row = i
                                              /\ task'[l].pc \in {"steps", "killed"}
    BY DEF RowSettles
  <2>1. CASE u = v /\ i = n BY <1>1, <2>1 DEF Moves
  <2>2. CASE ~(u = v /\ i = n)
    <3>1. i \in DOMAIN log[u] /\ log'[u][i] = log[u][i]
      <4>1. i \in DOMAIN log'[u] BY DEF RunningRows
      <4>2. CASE u = v
        <5>1. i \in 1..n /\ i # n BY <1>2, <2>2, <4>1, <4>2
        <5>2. i \in DOMAIN log[v] BY <1>2, <5>1
        <5> QED BY <1>1, <4>2, <5>2
      <4>3. CASE u # v BY <1>1, <4>1, <4>3
      <4> QED BY <4>2, <4>3
    <3>2. i \in RunningRows(u) /\ ~log[u][i].lost BY <3>1 DEF RunningRows
    <3>3. PICK l \in DOMAIN task : /\ task[l].user = u /\ task[l].row = i
                                   /\ task[l].pc \in {"steps", "killed"}
      BY <3>2 DEF RowSettles
    <3> QED BY <1>1, <3>3 DEF Moves
  <2> QED BY <2>1, <2>2
<1> QED BY <1>5, <1>7, <1>8, <1>9, <1>10, <1>11 DEF Typed

\* A new task: the invariants about rows and types do not notice it.
LEMMA CallKeeps ==
  ASSUME IInv, NEW u \in User, NEW type \in Type, Call(u, type), UNCHANGED <<log, faults>>,
         flag' \in [User -> BOOLEAN], last' \in [User -> {"none", "ok", "error"}],
         job' \in [Job -> [todo: SUBSET User, cur: Nat]],
         \A j \in Job : job'[j].cur <= Len(task) + 1
  PROVE  Typed' /\ LiveRowRunning' /\ RowSettles'
<1> DEFINE n == Len(task) + 1
<1> USE DEF IInv
<1>1. /\ task' \in Seq(Task) /\ Len(task') = n
      /\ DOMAIN task' = DOMAIN task \cup {n} /\ n \notin DOMAIN task
      /\ \A k \in DOMAIN task : task'[k] = task[k]
      /\ task'[n].user = u /\ task'[n].pc = "queued" /\ task'[n].row = 0
  BY CallEffect
<1>2. Len(log[u]) \in Nat BY LenDomain DEF Typed, TypeOK
<1> HIDE DEF n
<1>3. \A k \in DOMAIN task' : task'[k].row <= Len(log'[task'[k].user])
  <2> TAKE k \in DOMAIN task'
  <2>1. CASE k = n BY <1>1, <1>2, <2>1
  <2>2. CASE k \in DOMAIN task BY <1>1, <2>2 DEF Typed, TypeOK
  <2> QED BY <1>1, <2>1, <2>2
<1>4. TypeOK' BY <1>1, <1>3 DEF Typed, TypeOK, n
<1>5. RowOfTask' BY <1>1 DEF Typed, RowOfTask, HasRow
<1>6. \A v \in User : RunningRows(v)' = RunningRows(v) BY DEF RunningRows
<1>7. LiveRowRunning'
  <2> SUFFICES ASSUME NEW k \in DOMAIN task', task'[k].pc = "steps"
               PROVE  (task[k].row \in RunningRows(task[k].user))'
    BY DEF LiveRowRunning
  <2>1. k \in DOMAIN task /\ task'[k] = task[k] BY <1>1
  <2>2. task[k].user \in User BY <2>1, TaskType DEF Typed
  <2> QED BY <1>6, <2>1, <2>2 DEF LiveRowRunning
<1>8. RowSettles' BY <1>1, <1>6 DEF RowSettles
<1> QED BY <1>4, <1>5, <1>7, <1>8 DEF Typed

\* Claiming the flag for a new sync.
LEMMA ClaimKeepsFlight ==
  ASSUME IInv, NEW u \in User, NEW type \in SyncType, Claim(u), Call(u, type)
  PROVE  /\ SingleFlight'
         /\ flag' \in [User -> BOOLEAN] /\ last' \in [User -> {"none", "ok", "error"}]
<1> DEFINE n == Len(task) + 1
<1>1. type \in Type /\ Typed BY DEF Type, IInv
<1>2. /\ DOMAIN task' = DOMAIN task \cup {n} /\ n \notin DOMAIN task
      /\ \A k \in DOMAIN task : task'[k] = task[k]
      /\ task'[n].user = u /\ task'[n].type = type /\ task'[n].pc = "queued"
  BY <1>1, CallEffect
<1> HIDE DEF n
<1>3. flag \in [User -> BOOLEAN] /\ last \in [User -> {"none", "ok", "error"}]
  BY <1>1 DEF Typed, TypeOK
<1>4. Holding' = Holding \cup {n} BY <1>2 DEF Holding
<1>5. \A k \in Holding : task'[k] = task[k] BY <1>2 DEF Holding
<1>6. ~flag[u] /\ flag' = [flag EXCEPT ![u] = TRUE] /\ last' = [last EXCEPT ![u] = "none"]
  BY DEF Claim
<1>7. \A k \in Holding : task[k].user # u BY <1>6 DEF IInv, SingleFlight
<1>8. \A k, l \in Holding' : task'[k].user = task'[l].user => k = l
  BY <1>2, <1>4, <1>5, <1>7 DEF IInv, SingleFlight
<1>9. ASSUME NEW v \in User PROVE flag'[v] <=> \E k \in Holding' : task'[k].user = v
  <2>1. CASE v = u BY <1>2, <1>3, <1>4, <1>6, <2>1
  <2>2. CASE v # u BY <1>2, <1>3, <1>4, <1>5, <1>6, <2>2 DEF IInv, SingleFlight
  <2> QED BY <2>1, <2>2
<1>10. flag' \in [User -> BOOLEAN] /\ last' \in [User -> {"none", "ok", "error"}]
  BY <1>3, <1>6
<1> QED BY <1>8, <1>9, <1>10 DEF SingleFlight

LEMMA TriggerInv ==
  ASSUME IInv, NEW u \in User, NEW type \in SyncType, Trigger(u, type)
  PROVE  IInv'
<1>1. Claim(u) /\ Call(u, type) /\ UNCHANGED <<log, job, faults>> BY DEF Trigger
<1>2. type \in Type /\ Typed BY DEF Type, IInv
<1>3. SingleFlight' /\ flag' \in [User -> BOOLEAN] /\ last' \in [User -> {"none", "ok", "error"}]
  BY <1>1, ClaimKeepsFlight
<1>4. job' \in [Job -> [todo: SUBSET User, cur: Nat]] /\ \A j \in Job : job'[j].cur <= Len(task) + 1
  <2>1. Len(task) \in Nat BY <1>2, LenDomain DEF Typed, TypeOK
  <2>2. \A j \in Job : job[j].cur \in Nat BY <1>2 DEF Typed, TypeOK
  <2> QED BY <1>1, <1>2, <2>1, <2>2 DEF Typed, TypeOK
<1>5. Typed' /\ LiveRowRunning' /\ RowSettles' BY <1>1, <1>2, <1>3, <1>4, CallKeeps
<1>6. OneRecommender'
  <2>1. type # "recommender" BY DEF SyncType
  <2> QED BY <1>1, <1>2, <2>1, CallEffect DEF IInv, OneRecommender
<1> QED BY <1>3, <1>5, <1>6 DEF IInv

\* The last task of an idle job is over, so a job that starts, or goes on to
\* the next user, leaves no recommender behind.
LEMMA IdleRecommender ==
  ASSUME IInv, JobIdle("weekly_recommender"), NEW k \in DOMAIN task, task[k].type = "recommender"
  PROVE  task[k].pc = "done"
<1>1. CASE job["weekly_recommender"].cur # 0
  BY <1>1 DEF IInv, OneRecommender, JobIdle
<1>2. CASE job["weekly_recommender"].cur = 0
  <2>1. k # 0 BY LenDomain DEF IInv, Typed, TypeOK
  <2> QED BY <1>2, <2>1 DEF IInv, OneRecommender
<1> QED BY <1>1, <1>2

LEMMA JobStartsInv ==
  ASSUME IInv, NEW j \in Job, JobStarts(j)
  PROVE  IInv'
<1> USE DEF IInv
<1>0. PICK U \in SUBSET User : job' = [job EXCEPT ![j] = [todo |-> U, cur |-> 0]]
  BY DEF JobStarts
<1>1. /\ JobIdle(j) /\ UNCHANGED <<flag, last, log, task, faults>>
      /\ job' = [job EXCEPT ![j] = [todo |-> U, cur |-> 0]]
  BY <1>0 DEF JobStarts
<1>2. \A i \in Job : job'[i] = IF i = j THEN [todo |-> U, cur |-> 0] ELSE job[i]
  BY <1>1 DEF Typed, TypeOK
<1>3. Len(task) \in Nat BY LenDomain DEF Typed, TypeOK
<1>4. TypeOK' BY <1>1, <1>2, <1>3 DEF Typed, TypeOK
<1>5. RowOfTask' BY <1>1 DEF Typed, RowOfTask, HasRow
<1>6. SingleFlight' BY <1>1 DEF SingleFlight, Holding
<1>7. OneRecommender'
  <2>1. CASE j = "weekly_recommender"
    BY <1>1, <2>1, IdleRecommender DEF OneRecommender
  <2>2. CASE j # "weekly_recommender"
    BY <1>1, <1>2, <2>2 DEF OneRecommender, Job
  <2> QED BY <2>1, <2>2
<1>8. LiveRowRunning' /\ RowSettles'
  BY <1>1 DEF LiveRowRunning, RowSettles, RunningRows
<1> QED BY <1>4, <1>5, <1>6, <1>7, <1>8 DEF Typed

LEMMA JobNextInv ==
  ASSUME IInv, NEW j \in Job, NEW u \in User, JobNext(j, u)
  PROVE  IInv'
<1> DEFINE n == Len(task) + 1
<1> USE DEF IInv
<1>1. JobIdle(j) /\ UNCHANGED <<log, faults>> BY DEF JobNext
<1>2. n \in Nat /\ Len(task) \in Nat /\ 0 <= Len(task)
  BY LenDomain DEF Typed, TypeOK
<1>3. CASE /\ j = "daily_sync" /\ UNCHANGED <<flag, last, task>>
           /\ job' = [job EXCEPT ![j] = [todo |-> @.todo \ {u}, cur |-> 0]]
  <2>1. \A i \in Job : job'[i] = IF i = j THEN [todo |-> job[j].todo \ {u}, cur |-> 0] ELSE job[i]
    BY <1>3 DEF Typed, TypeOK
  <2>2. TypeOK' BY <1>1, <1>2, <1>3, <2>1 DEF Typed, TypeOK
  <2>3. RowOfTask' BY <1>1, <1>3 DEF Typed, RowOfTask, HasRow
  <2>4. SingleFlight' BY <1>3 DEF SingleFlight, Holding
  <2>5. OneRecommender' BY <1>3, <2>1 DEF OneRecommender, Job
  <2>6. LiveRowRunning' /\ RowSettles'
    BY <1>1, <1>3 DEF LiveRowRunning, RowSettles, RunningRows
  <2> QED BY <2>2, <2>3, <2>4, <2>5, <2>6 DEF Typed
<1>4. ASSUME job' = [job EXCEPT ![j] = [todo |-> @.todo \ {u}, cur |-> n]]
      PROVE  /\ job' \in [Job -> [todo: SUBSET User, cur: Nat]]
             /\ \A i \in Job : job'[i].cur <= n
             /\ job'[j].cur = n
             /\ \A i \in Job : i # j => job'[i] = job[i]
  <2>1. \A i \in Job : job'[i] = IF i = j THEN [todo |-> job[j].todo \ {u}, cur |-> n] ELSE job[i]
    BY <1>4 DEF Typed, TypeOK
  <2>2. \A i \in Job : job[i] \in [todo: SUBSET User, cur: Nat] /\ job[i].cur <= Len(task)
    BY DEF Typed, TypeOK
  <2> HIDE DEF n
  <2>3. Len(task) <= n BY <1>2 DEF n
  <2>4. \A i \in Job : job[i].cur <= n BY <1>2, <2>2, <2>3
  <2>5. job' \in [Job -> [todo: SUBSET User, cur: Nat]]
    BY <1>2, <1>4, <2>2 DEF Typed, TypeOK
  <2> QED BY <1>2, <2>1, <2>4, <2>5
<1>5. CASE /\ j = "daily_sync" /\ Claim(u) /\ Call(u, "full_sync")
           /\ job' = [job EXCEPT ![j] = [todo |-> @.todo \ {u}, cur |-> n]]
  <2>1. "full_sync" \in SyncType /\ "full_sync" \in Type BY DEF SyncType, Type
  <2>2. SingleFlight' /\ flag' \in [User -> BOOLEAN] /\ last' \in [User -> {"none", "ok", "error"}]
    BY <1>5, <2>1, ClaimKeepsFlight
  <2>3. Typed' /\ LiveRowRunning' /\ RowSettles'
    BY <1>1, <1>4, <1>5, <2>1, <2>2, CallKeeps
  <2>4. OneRecommender'
    <3>1. "full_sync" # "recommender" /\ "weekly_recommender" # "daily_sync"
          /\ "weekly_recommender" \in Job
      BY DEF Job
    <3> QED BY <1>4, <1>5, <2>1, <3>1, CallEffect DEF OneRecommender
  <2> QED BY <2>2, <2>3, <2>4
<1>6. CASE /\ j = "weekly_recommender" /\ Call(u, "recommender") /\ UNCHANGED <<flag, last>>
           /\ job' = [job EXCEPT ![j] = [todo |-> @.todo \ {u}, cur |-> n]]
  <2>1. "recommender" \in Type /\ "recommender" \notin SyncType BY DEF SyncType, Type
  <2>2. flag' \in [User -> BOOLEAN] /\ last' \in [User -> {"none", "ok", "error"}]
    BY <1>6 DEF Typed, TypeOK
  <2>3. Typed' /\ LiveRowRunning' /\ RowSettles'
    BY <1>1, <1>4, <1>6, <2>1, <2>2, CallKeeps
  <2>4. /\ DOMAIN task' = DOMAIN task \cup {n} /\ n \notin DOMAIN task
        /\ \A k \in DOMAIN task : task'[k] = task[k]
        /\ task'[n].type = "recommender" /\ task'[n].user = u
    BY <1>6, <2>1, CallEffect
  <2>5. SingleFlight'
    <3>1. Holding' = Holding BY <2>1, <2>4 DEF Holding
    <3>2. \A k \in Holding : task'[k] = task[k] BY <2>4 DEF Holding
    <3> QED BY <1>6, <3>1, <3>2 DEF SingleFlight
  <2>6. OneRecommender'
    BY <1>1, <1>4, <1>6, <2>4, IdleRecommender DEF OneRecommender
  <2> QED BY <2>3, <2>5, <2>6
<1> QED BY <1>3, <1>5, <1>6 DEF JobNext

LEMMA RestartInv ==
  ASSUME IInv, Restart
  PROVE  IInv'
<1> USE DEF IInv
<1>1. /\ faults < MaxFaults /\ faults' = faults + 1
      /\ flag' = [u \in User |-> FALSE] /\ last' = [u \in User |-> "none"]
      /\ job' = [j \in Job |-> [todo |-> {}, cur |-> 0]]
  BY DEF Restart
<1>2. /\ DOMAIN task' = DOMAIN task
      /\ \A k \in DOMAIN task : task'[k] = Over(task[k])
  BY DEF Restart
<1>3. \A k \in DOMAIN task : Over(task[k]) \in Task /\ Over(task[k]).pc = "done"
                             /\ Over(task[k]).row = 0 /\ Over(task[k]).user \in User
  BY OverFields, TaskType DEF Typed
<1>4. DOMAIN task = 1..Len(task) /\ Len(task) \in Nat BY LenDomain DEF Typed, TypeOK
<1>5. task' \in Seq(Task) /\ Len(task') = Len(task)
  <2>1. task' = [k \in 1..Len(task) |-> Over(task[k])] BY <1>4 DEF Restart
  <2>2. \A k \in 1..Len(task) : Over(task[k]) \in Task BY <1>3, <1>4
  <2> QED BY <1>4, <2>1, <2>2
<1>6. ASSUME NEW u \in User
      PROVE  /\ log'[u] \in Seq(Row) /\ DOMAIN log'[u] = DOMAIN log[u]
             /\ \A i \in DOMAIN log[u] : log'[u][i].status = "running" => log'[u][i].lost
  <2>1. log'[u] = Lost(u, RunningRows(u)) BY DEF Restart
  <2>2. RowsLike(u, Lost(u, RunningRows(u)))
        /\ \A i \in DOMAIN log[u] :
             /\ Lost(u, RunningRows(u))[i].status = log[u][i].status
             /\ i \in RunningRows(u) => Lost(u, RunningRows(u))[i].lost
    BY LostRows DEF Typed
  <2>3. DOMAIN log[u] = 1..Len(log[u]) /\ Len(log[u]) \in Nat BY LenDomain DEF Typed, TypeOK
  <2>4. log'[u] \in [1..Len(log[u]) -> Row] BY <2>1, <2>2, <2>3 DEF RowsLike
  <2>5. log'[u] \in Seq(Row) BY <2>3, <2>4
  <2>6. \A i \in DOMAIN log[u] : log'[u][i].status = "running" => log'[u][i].lost
    BY <2>1, <2>2 DEF RunningRows
  <2> QED BY <2>3, <2>4, <2>5, <2>6
<1>7. TypeOK'
  <2>1. log' \in [User -> Seq(Row)] BY <1>6 DEF Restart
  <2>2. \A k \in DOMAIN task' : task'[k].row <= Len(log'[task'[k].user])
    <3> TAKE k \in DOMAIN task'
    <3>1. task'[k].row = 0 /\ task'[k].user \in User BY <1>2, <1>3
    <3>2. Len(log'[task'[k].user]) \in Nat BY <2>1, <3>1, LenDomain
    <3> QED BY <3>1, <3>2
  <2>3. faults' \in 0..MaxFaults BY <1>1, BoundAssumption DEF Typed, TypeOK
  <2> QED BY <1>1, <1>4, <1>5, <2>1, <2>2, <2>3 DEF TypeOK
<1>8. \A k \in DOMAIN task' : task'[k].pc = "done" BY <1>2, <1>3
<1>9. RowOfTask' /\ OneRecommender' /\ LiveRowRunning'
  BY <1>8 DEF RowOfTask, HasRow, OneRecommender, LiveRowRunning
<1>10. SingleFlight'
  <2>1. Holding' = {} BY <1>8 DEF Holding
  <2> QED BY <1>1, <2>1 DEF SingleFlight
<1>11. RowSettles' BY <1>6 DEF RowSettles, RunningRows
<1> QED BY <1>7, <1>9, <1>10, <1>11 DEF Typed

-----------------------------------------------------------------------------
(* Every step preserves the invariant.                                     *)

LEMMA MoveInv ==
  ASSUME IInv, NEW k \in DOMAIN task,
         \/ Launch(k) \/ LaunchFails(k) \/ StartLog(k) \/ Step(k) \/ Finish(k) \/ Dies(k)
         \/ Return(k) \/ TimeOut(k) \/ CloseOut(k) \/ Notify(k) \/ Check(k)
  PROVE  IInv'
<1> USE DEF IInv
<1>1. /\ task[k] \in Task /\ task[k].user \in User /\ task[k].type \in Type
      /\ flag \in [User -> BOOLEAN] /\ last \in [User -> {"none", "ok", "error"}]
      /\ faults \in 0..MaxFaults
  <2>1. task[k] \in Task /\ task[k].user \in User BY TaskType DEF Typed
  <2> QED BY <2>1 DEF Typed, TypeOK, Task
<1>2. \A result \in {"ok", "error"} :
        Settle(k, result) => last' \in [User -> {"none", "ok", "error"}]
  BY <1>1 DEF Settle
<1>3. faults < MaxFaults /\ faults' = faults + 1 => faults' \in 0..MaxFaults
  BY <1>1, BoundAssumption
<1>4. UNCHANGED log => Rewrites(task[k].user) /\ KeepsStatus(task[k].user)
  BY <1>1, SameLog DEF Typed
<1>5. ASSUME Launch(k) PROVE IInv'
  <2>1. task[k].pc = "queued" /\ Moves(k, "boot", task[k].row) BY <1>5, LaunchEffect
  <2>2. UNCHANGED <<flag, last, log, job, faults>> BY <1>5 DEF Launch
  <2>3. Typed' BY <1>1, <1>4, <2>1, <2>2, MoveTyped
  <2>4. SingleFlight' BY <2>1, <2>2, MoveKeepsFlight DEF Ended
  <2>5. OneRecommender' BY <2>1, <2>2, MoveKeepsRecommender
  <2>6. Rows' BY <1>4, <2>1, <2>2, MoveKeepsRows DEF Rows
  <2> QED BY <2>3, <2>4, <2>5, <2>6 DEF Rows
<1>6. ASSUME LaunchFails(k) PROVE IInv'
  <2>1. task[k].pc = "queued" /\ Moves(k, "killed", task[k].row) BY <1>6, LaunchFailsEffect
  <2>2. UNCHANGED <<flag, log, job>> /\ faults' \in 0..MaxFaults
        /\ last' \in [User -> {"none", "ok", "error"}]
    BY <1>2, <1>3, <1>6 DEF LaunchFails
  <2>3. Typed' BY <1>1, <1>4, <2>1, <2>2, MoveTyped
  <2>4. SingleFlight' BY <2>1, <2>2, MoveKeepsFlight DEF Ended
  <2>5. OneRecommender' BY <2>1, <2>2, MoveKeepsRecommender
  <2>6. Rows' BY <1>4, <2>1, <2>2, MoveKeepsRows DEF Rows
  <2> QED BY <2>3, <2>4, <2>5, <2>6 DEF Rows
<1>7. ASSUME Step(k) PROVE IInv'
  <2>1. /\ task[k].pc = "steps" /\ Moves(k, "steps", task[k].row)
        /\ Rewrites(task[k].user) /\ KeepsStatus(task[k].user)
    BY <1>7, StepEffect
  <2>2. UNCHANGED <<flag, last, job, faults>> BY <1>7 DEF Step
  <2>3. Typed' BY <1>1, <2>1, <2>2, MoveTyped
  <2>4. SingleFlight' BY <2>1, <2>2, MoveKeepsFlight DEF Ended
  <2>5. OneRecommender' BY <2>1, <2>2, MoveKeepsRecommender
  <2>6. Rows' BY <2>1, MoveKeepsRows DEF Rows
  <2> QED BY <2>3, <2>4, <2>5, <2>6 DEF Rows
<1>8. ASSUME Finish(k) PROVE IInv'
  <2>1. PICK pc \in {"exit0", "exit1"} : Moves(k, pc, task[k].row) BY <1>8, FinishEffect
  <2>2. task[k].pc = "steps" /\ Closes(k) /\ faults' \in 0..MaxFaults BY <1>8, FinishEffect
  <2>3. UNCHANGED <<flag, last, job>> BY <1>8 DEF Finish
  <2>4. Typed' BY <1>1, <2>1, <2>2, <2>3, MoveTyped DEF Closes
  <2>5. SingleFlight' BY <2>1, <2>2, <2>3, MoveKeepsFlight DEF Ended
  <2>6. OneRecommender' BY <2>1, <2>2, <2>3, MoveKeepsRecommender
  <2>7. Rows' BY <2>1, <2>2, MoveClosesRow DEF Rows, Ended
  <2> QED BY <2>4, <2>5, <2>6, <2>7 DEF Rows
<1>9. ASSUME Dies(k) PROVE IInv'
  <2>1. task[k].pc \in Live /\ Moves(k, "exit1", task[k].row) /\ Closes(k)
    BY <1>9, DiesEffect
  <2>2. UNCHANGED <<flag, last, job>> /\ faults' \in 0..MaxFaults BY <1>3, <1>9 DEF Dies
  <2>3. Typed' BY <1>1, <2>1, <2>2, MoveTyped DEF Closes
  <2>4. SingleFlight' BY <2>1, <2>2, MoveKeepsFlight DEF Ended, Live
  <2>5. OneRecommender' BY <2>1, <2>2, MoveKeepsRecommender DEF Live
  <2>6. Rows' BY <2>1, MoveClosesRow DEF Rows, Ended, Live
  <2> QED BY <2>3, <2>4, <2>5, <2>6 DEF Rows
<1>10. ASSUME TimeOut(k) PROVE IInv'
  <2>1. task[k].pc \in Live /\ Moves(k, "killed", task[k].row) BY <1>10, TimeOutEffect
  <2>2. UNCHANGED <<flag, log, job, faults>> /\ last' \in [User -> {"none", "ok", "error"}]
    BY <1>2, <1>10 DEF TimeOut
  <2>3. Typed' BY <1>1, <1>4, <2>1, <2>2, MoveTyped DEF Live
  <2>4. SingleFlight' BY <2>1, <2>2, MoveKeepsFlight DEF Ended, Live
  <2>5. OneRecommender' BY <2>1, <2>2, MoveKeepsRecommender DEF Live
  <2>6. Rows' BY <1>4, <2>1, <2>2, MoveKeepsRows DEF Rows
  <2> QED BY <2>3, <2>4, <2>5, <2>6 DEF Rows
<1>11. ASSUME Return(k) PROVE IInv'
  <2>1. task[k].pc \in {"exit0", "exit1"} /\ Moves(k, "notify", task[k].row)
    BY <1>11, ReturnEffect
  <2>2. UNCHANGED <<log, job, faults>> /\ Release(k)
        /\ last' \in [User -> {"none", "ok", "error"}]
    BY <1>2, <1>11 DEF Return
  <2>3. SingleFlight' /\ flag' \in [User -> BOOLEAN]
    BY <2>1, <2>2, MoveReleases DEF Ended
  <2>4. Typed' BY <1>1, <1>4, <2>1, <2>2, <2>3, MoveTyped
  <2>5. OneRecommender' BY <2>1, <2>2, MoveKeepsRecommender
  <2>6. Rows' BY <1>4, <2>1, <2>2, MoveKeepsRows DEF Rows
  <2> QED BY <2>3, <2>4, <2>5, <2>6 DEF Rows
<1>12. ASSUME CloseOut(k) PROVE IInv'
  <2>1. /\ task[k].pc = "killed" /\ Moves(k, "notify", task[k].row)
        /\ Closes(k) /\ faults' \in 0..MaxFaults
    BY <1>12, CloseOutEffect
  <2>2. UNCHANGED <<last, job>> /\ Release(k) BY <1>12 DEF CloseOut
  <2>3. SingleFlight' /\ flag' \in [User -> BOOLEAN]
    BY <2>1, <2>2, MoveReleases DEF Ended
  <2>4. Typed' BY <1>1, <2>1, <2>2, <2>3, MoveTyped DEF Closes
  <2>5. OneRecommender' BY <2>1, <2>2, MoveKeepsRecommender
  <2>6. Rows' BY <2>1, MoveClosesRow DEF Rows, Ended
  <2> QED BY <2>3, <2>4, <2>5, <2>6 DEF Rows
<1>13. ASSUME NEW pc \in {"check", "done"}, NEW row \in {0, task[k].row}, Moves(k, pc, row),
              task[k].pc \in {"notify", "check"}, UNCHANGED <<flag, last, log, job, faults>>
       PROVE  IInv'
  <2>1. Typed' BY <1>1, <1>4, <1>13, MoveTyped
  <2>2. SingleFlight' BY <1>13, MoveKeepsFlight DEF Ended
  <2>3. OneRecommender' BY <1>13, MoveKeepsRecommender
  <2>4. Rows' BY <1>4, <1>13, MoveKeepsRows DEF Rows
  <2> QED BY <2>1, <2>2, <2>3, <2>4 DEF Rows
<1>14. ASSUME Notify(k) PROVE IInv'
  BY <1>13, <1>14, NotifyEffect DEF Notify
<1>15. ASSUME Check(k) PROVE IInv'
  BY <1>13, <1>15, CheckEffect DEF Check
<1>16. ASSUME StartLog(k) PROVE IInv'
  BY <1>16, StartLogInv
<1> QED BY <1>5, <1>6, <1>7, <1>8, <1>9, <1>10, <1>11, <1>12, <1>14, <1>15, <1>16

LEMMA StutterInv == IInv /\ UNCHANGED vars => IInv'
<1> SUFFICES ASSUME IInv, UNCHANGED vars PROVE IInv' OBVIOUS
<1> USE DEF vars
<1>1. Typed' BY DEF IInv, Typed, TypeOK, RowOfTask, HasRow
<1>2. SingleFlight' BY DEF IInv, SingleFlight, Holding
<1>3. OneRecommender' BY DEF IInv, OneRecommender
<1>4. LiveRowRunning' /\ RowSettles' BY DEF IInv, LiveRowRunning, RowSettles, RunningRows
<1> QED BY <1>1, <1>2, <1>3, <1>4 DEF IInv

LEMMA NextInv == IInv /\ [Next]_vars => IInv'
<1> SUFFICES ASSUME IInv, [Next]_vars PROVE IInv' OBVIOUS
<1>1. CASE \E u \in User, type \in SyncType : Trigger(u, type) BY <1>1, TriggerInv
<1>2. CASE \E j \in Job : JobStarts(j) \/ \E u \in User : JobNext(j, u)
  BY <1>2, JobStartsInv, JobNextInv
<1>3. CASE \E k \in DOMAIN task : Script(k) \/ Thread(k) \/ LaunchFails(k) \/ Dies(k) \/ TimeOut(k)
  BY <1>3, MoveInv DEF Script, Thread
<1>4. CASE Restart BY <1>4, RestartInv
<1>5. CASE UNCHANGED vars BY <1>5, StutterInv
<1> QED BY <1>1, <1>2, <1>3, <1>4, <1>5 DEF Next

\* The invariant holds in every reachable state (_run_sync_task and its jobs).
THEOREM Invariance == Spec => []IInv
BY InitInv, NextInv, PTL DEF Spec

-----------------------------------------------------------------------------
(* The invariant about fresh rows.  The flag is free when a task notifies   *)
(* and checks, so later syncs of the user may be anywhere: what makes the   *)
(* check right is that a result "ok" was reported by a run whose row is     *)
(* fresh and newer than every task that can still read it.                  *)

\* One task and its row: a row is fresh once its AniList step has succeeded.
TaskOK(t) ==
  /\ t.began <= Len(log[t.user])
  /\ t.pc \in {"queued", "boot"} => ~t.fresh
  /\ t.pc = "check" => t.type \in SyncType
  /\ t.type \in SyncType /\ t.pc \in {"steps", "exit0"} =>
       /\ t.row > t.began
       /\ t.fresh => log[t.user][t.row].fresh
       /\ t.pc = "exit0" => t.fresh
       /\ t.pc = "steps" /\ t.left = Providers + 1 => ~log[t.user][t.row].fresh

\* Syncs that may still look at the user's result.
Reading == {k \in DOMAIN task : task[k].type \in SyncType /\ task[k].pc \in {"notify", "check"}}

\* A sync that holds the flag has a newer row than those that released it.
NewerRow ==
  \A k \in Reading, l \in Holding :
    task[k].user = task[l].user /\ task[l].row > 0 => task[l].row > task[k].began

\* While a sync of the user is in flight there is no result.
NoResultYet == \A l \in Holding : last[task[l].user] # "ok"

\* A result "ok" stands for a fresh row newer than any task that may read it.
Vouched ==
  \A k \in Reading : last[task[k].user] = "ok" =>
    \E i \in DOMAIN log[task[k].user] : i > task[k].began /\ log[task[k].user][i].fresh

FInv == (\A k \in DOMAIN task : TaskOK(task[k])) /\ NewerRow /\ NoResultYet /\ Vouched

\* The rows keep their places, and what was fresh stays so.
Grown ==
  \A v \in User : /\ Len(log'[v]) >= Len(log[v])
                  /\ \A i \in DOMAIN log[v] : log[v][i].fresh => log'[v][i].fresh

\* Only a sync in flight makes a row fresh.
Freshens(k) ==
  \A v \in User : \A i \in DOMAIN log[v] :
    log'[v][i].fresh => log[v][i].fresh \/ (k \in Holding /\ v = task[k].user)

LEMMA RewritesGrow ==
  ASSUME TypeOK, NEW k \in DOMAIN task, Rewrites(task[k].user), KeepsFresh(task[k].user)
  PROVE  Grown /\ Freshens(k)
<1> SUFFICES ASSUME NEW v \in User
             PROVE  /\ Len(log'[v]) >= Len(log[v])
                    /\ \A i \in DOMAIN log[v] : /\ log[v][i].fresh => log'[v][i].fresh
                                                /\ log'[v][i].fresh => log[v][i].fresh
  BY DEF Grown, Freshens
<1>1. CASE v # task[k].user
  <2>1. log'[v] = log[v] /\ Len(log[v]) \in Nat BY <1>1, LenDomain DEF Rewrites, TypeOK
  <2> QED BY <2>1
<1>2. CASE v = task[k].user
  <2>1. DOMAIN log'[v] = DOMAIN log[v] /\ log'[v] \in Seq(Row) /\ log[v] \in Seq(Row)
    BY <1>2 DEF Rewrites, TypeOK
  <2>2. Len(log'[v]) = Len(log[v]) /\ Len(log[v]) \in Nat BY <2>1, LenDomain
  <2> QED BY <1>2, <2>2 DEF KeepsFresh
<1> QED BY <1>1, <1>2

\* The row of a sync that has one.
LEMMA OwnRow ==
  ASSUME TypeOK, NEW k \in DOMAIN task, TaskOK(task[k]),
         task[k].type \in SyncType, task[k].pc \in {"steps", "exit0"}
  PROVE  /\ task[k].row \in DOMAIN log[task[k].user] /\ task[k].row \in Nat
         /\ task[k].row > 0 /\ task[k].row > task[k].began
<1>1. task[k] \in Task /\ task[k].user \in User /\ task[k].row \in Nat BY TaskType
<1>2. task[k].began \in Nat BY <1>1 DEF Task
<1>3. task[k].row > task[k].began BY DEF TaskOK
<1>4. task[k].row <= Len(log[task[k].user]) BY DEF TypeOK
<1>5. DOMAIN log[task[k].user] = 1..Len(log[task[k].user]) /\ Len(log[task[k].user]) \in Nat
  BY <1>1, LenDomain DEF TypeOK
<1> QED BY <1>1, <1>2, <1>3, <1>4, <1>5

\* What the others may rely on while task k moves.
LEMMA OthersKept ==
  ASSUME IInv, FInv, IInv', NEW k \in DOMAIN task, NEW pc, NEW row, Moves(k, pc, row),
         Grown, Freshens(k), NEW l \in DOMAIN task, l # k
  PROVE  TaskOK(task[l])'
<1> DEFINE u == task[l].user
<1>1. task[l] \in Task /\ u \in User BY TaskType DEF IInv, Typed
<1>2. task'[l] = task[l] BY DEF Moves
<1>3. TaskOK(task[l]) BY DEF FInv
<1>4. task[l].began \in Nat /\ Len(log[u]) \in Nat /\ Len(log'[u]) \in Nat
  BY <1>1, LenDomain DEF Task, IInv, Typed, TypeOK
<1>5. task[l].began <= Len(log'[u])
  <2>1. task[l].began <= Len(log[u]) BY <1>3 DEF TaskOK
  <2>2. Len(log'[u]) >= Len(log[u]) BY <1>1 DEF Grown
  <2> QED BY <1>4, <2>1, <2>2
<1>6. ASSUME task[l].type \in SyncType, task[l].pc \in {"steps", "exit0"}
      PROVE  /\ task[l].row > task[l].began
             /\ task[l].fresh => log'[u][task[l].row].fresh
             /\ task[l].pc = "exit0" => task[l].fresh
             /\ task[l].pc = "steps" /\ task[l].left = Providers + 1 => ~log'[u][task[l].row].fresh
  <2>1. task[l].row \in DOMAIN log[u] BY <1>3, <1>6, OwnRow DEF IInv, Typed
  <2>2. log[u][task[l].row].fresh => log'[u][task[l].row].fresh BY <1>1, <2>1 DEF Grown
  <2>3. log'[u][task[l].row].fresh => log[u][task[l].row].fresh
    <3>1. l \in Holding BY <1>6 DEF Holding
    <3>2. ~(k \in Holding /\ u = task[k].user) BY <3>1 DEF IInv, SingleFlight
    <3> QED BY <1>1, <2>1, <3>2 DEF Freshens
  <2> QED BY <1>3, <1>6, <2>2, <2>3 DEF TaskOK
<1>7. /\ task[l].pc \in {"queued", "boot"} => ~task[l].fresh
      /\ task[l].pc = "check" => task[l].type \in SyncType
  BY <1>3 DEF TaskOK
<1> QED BY <1>2, <1>5, <1>6, <1>7 DEF TaskOK

\* A move of task k.  Only a sync that returns with its row fresh reports "ok",
\* and its row is newer than every task that can read the result.
LEMMA MoveFresh ==
  ASSUME IInv, FInv, IInv', NEW k \in DOMAIN task, NEW pc, NEW row, Moves(k, pc, row),
         Grown, Freshens(k), TaskOK(task[k])',
         pc \notin Ended => task[k].pc \notin Ended,
         row \in {0, task[k].row, Len(log[task[k].user]) + 1},
         pc \in {"notify", "check"} => task'[k].began = task[k].began /\ task[k].pc # "done",
         \A v \in User : last'[v] = "ok" =>
           \/ last[v] = "ok"
           \/ k \in Holding /\ task[k].pc = "exit0" /\ pc = "notify" /\ v = task[k].user
  PROVE  FInv'
<1> DEFINE u == task[k].user
<1>1. \A l \in DOMAIN task : /\ task[l] \in Task /\ task[l].user \in User
                             /\ task[l].row \in Nat /\ task[l].began \in Nat
                             /\ task[l].began <= Len(log[task[l].user])
                             /\ Len(log[task[l].user]) \in Nat
  <2> TAKE l \in DOMAIN task
  <2>1. task[l] \in Task /\ task[l].user \in User /\ task[l].row \in Nat
    BY TaskType DEF IInv, Typed
  <2> QED BY <2>1, LenDomain DEF Task, FInv, TaskOK, IInv, Typed, TypeOK
<1>2. /\ DOMAIN task' = DOMAIN task
      /\ \A l \in DOMAIN task : l # k => task'[l] = task[l]
      /\ task'[k].user = u /\ task'[k].type = task[k].type
      /\ task'[k].pc = pc /\ task'[k].row = row
  BY DEF Moves
<1>3. \A l \in DOMAIN task' : TaskOK(task[l])' BY <1>2, OthersKept
<1>4. \A l \in Holding' : l \in Holding BY <1>2 DEF Holding, Ended
<1>5. \A l \in Reading' : /\ l \in Reading \/ (l = k /\ k \in Holding)
                          /\ task'[l].user = task[l].user /\ task'[l].began = task[l].began
  <2> SUFFICES ASSUME NEW l \in Reading'
               PROVE  /\ l \in Reading \/ (l = k /\ k \in Holding)
                      /\ task'[l].user = task[l].user /\ task'[l].began = task[l].began
    OBVIOUS
  <2>1. CASE l # k BY <1>2, <2>1 DEF Reading
  <2>2. CASE l = k BY <1>2, <2>2 DEF Reading, Holding
  <2> QED BY <2>1, <2>2
<1>6. k \in Reading' => k \notin Holding' BY DEF Reading, Holding
<1>7. NewerRow'
  <2> SUFFICES ASSUME NEW a \in Reading', NEW l \in Holding', task'[a].user = task'[l].user,
                      task'[l].row > 0
               PROVE  task'[l].row > task'[a].began
    BY DEF NewerRow
  <2>1. l \in Holding /\ l \in DOMAIN task /\ task'[l].user = task[l].user
    BY <1>2, <1>4 DEF Holding
  <2>2. a # l BY DEF Reading, Holding
  <2>3. a \in Reading /\ a \in DOMAIN task
    <3>1. CASE a = k /\ k \in Holding BY <1>5, <2>1, <2>2, <3>1 DEF IInv, SingleFlight
    <3> QED BY <1>5, <3>1 DEF Reading
  <2>4. task[a].user = task[l].user /\ task'[a].began = task[a].began BY <1>5, <2>1
  <2>5. task[l].row > 0 => task[l].row > task[a].began BY <2>1, <2>3, <2>4 DEF FInv, NewerRow
  <2>6. CASE l # k BY <1>2, <2>1, <2>4, <2>5, <2>6
  <2>7. CASE l = k BY <1>1, <1>2, <2>3, <2>4, <2>5, <2>7
  <2> QED BY <2>6, <2>7
<1>8. NoResultYet'
  <2> SUFFICES ASSUME NEW l \in Holding', last'[task'[l].user] = "ok" PROVE FALSE
    BY DEF NoResultYet
  <2>1. l \in Holding /\ l \in DOMAIN task /\ task'[l].user = task[l].user
    BY <1>2, <1>4 DEF Holding
  <2>2. k \in Holding /\ pc = "notify" /\ task[l].user = u
    BY <1>1, <2>1 DEF FInv, NoResultYet
  <2>3. l = k BY <2>1, <2>2 DEF IInv, SingleFlight
  <2> QED BY <1>2, <2>2, <2>3 DEF Holding
<1>9. Vouched'
  <2> SUFFICES ASSUME NEW a \in Reading', last'[task'[a].user] = "ok"
               PROVE  \E i \in DOMAIN log'[task'[a].user] :
                        i > task'[a].began /\ log'[task'[a].user][i].fresh
    BY DEF Vouched
  <2> DEFINE v == task[a].user
  <2>1. a \in DOMAIN task /\ task'[a].user = v /\ task'[a].began = task[a].began /\ v \in User
    BY <1>1, <1>2, <1>5 DEF Reading
  <2>2. \E i \in DOMAIN log[v] : i > task[a].began /\ log[v][i].fresh
    <3>1. CASE last[v] = "ok"
      <4>1. a \in Reading
        BY <1>5, <3>1 DEF FInv, NoResultYet
      <4> QED BY <3>1, <4>1 DEF FInv, Vouched
    <3>2. CASE k \in Holding /\ task[k].pc = "exit0" /\ v = u
      <4>1. task[k].type \in SyncType /\ TaskOK(task[k]) BY <3>2 DEF Holding, FInv
      <4>2. /\ task[k].row \in DOMAIN log[u] /\ task[k].row > 0
            /\ task[k].row > task[k].began
        BY <3>2, <4>1, OwnRow DEF IInv, Typed
      <4>3. log[u][task[k].row].fresh BY <3>2, <4>1 DEF TaskOK
      <4>4. task[k].row > task[a].began
        <5>1. CASE a = k BY <4>2, <5>1
        <5>2. CASE a \in Reading BY <3>2, <4>2, <5>2 DEF FInv, NewerRow
        <5> QED BY <1>5, <5>1, <5>2
      <4> QED BY <3>2, <4>2, <4>3, <4>4
    <3> QED BY <2>1, <3>1, <3>2
  <2>3. PICK i \in DOMAIN log[v] : i > task[a].began /\ log[v][i].fresh BY <2>2
  <2>4. i \in DOMAIN log'[v]
    <3>1. log[v] \in Seq(Row) /\ log'[v] \in Seq(Row) BY <2>1 DEF IInv, Typed, TypeOK
    <3>2. Len(log'[v]) >= Len(log[v]) BY <2>1 DEF Grown
    <3> QED BY <3>1, <3>2, LenDomain
  <2>5. log'[v][i].fresh BY <2>1, <2>3 DEF Grown
  <2> QED BY <2>1, <2>3, <2>4, <2>5
<1> QED BY <1>3, <1>7, <1>8, <1>9 DEF FInv

-----------------------------------------------------------------------------
(* Each action preserves it.                                               *)

\* The fields of task k after a move that the shape does not mention.
LEMMA TaskPut ==
  ASSUME TypeOK, NEW k \in DOMAIN task, NEW t, SetTask(k, t)
  PROVE  task'[k] = t
BY DEF SetTask, TypeOK

LEMMA KeptFields ==
  ASSUME NEW t \in Task, NEW pc
  PROVE  /\ At(t, pc).began = t.began /\ At(t, pc).fresh = t.fresh
         /\ Gone(t, pc).began = t.began /\ Gone(t, pc).fresh = t.fresh
         /\ Over(t).began = 0
         /\ Logged(t).began = t.began /\ Logged(t).fresh = t.fresh
BY Zenon DEF At, Gone, Over, Logged, Task

LEMMA LaunchedBegan ==
  ASSUME NEW t \in Task
  PROVE  Launched(t).began = Len(log[t.user]) /\ Launched(t).fresh = t.fresh
BY Zenon DEF Launched, Task

LEMMA SteppedKeeps ==
  ASSUME NEW t \in Task, NEW left, NEW f, NEW g
  PROVE  /\ Stepped(t, left, f, g).began = t.began
         /\ Stepped(t, left, f, g).fresh = f /\ Stepped(t, left, f, g).left = left
BY Zenon DEF Stepped, Task

\* Types of what the next lemmas speak of.
LEMMA TaskFacts ==
  ASSUME IInv, FInv, NEW k \in DOMAIN task
  PROVE  /\ TypeOK /\ task[k] \in Task /\ task[k].user \in User /\ TaskOK(task[k])
         /\ task[k].row \in Nat /\ task[k].began \in Nat /\ Len(log[task[k].user]) \in Nat
         /\ task[k].fresh \in BOOLEAN /\ task[k].left \in 0..(Providers + 1)
<1>1. task[k] \in Task /\ task[k].user \in User /\ task[k].row \in Nat
  BY TaskType DEF IInv, Typed
<1> QED BY <1>1, LenDomain DEF IInv, Typed, TypeOK, Task, FInv

\* A result that is not "ok" is no news for the readers.
LEMMA SettleError ==
  ASSUME TypeOK, NEW k \in DOMAIN task, Settle(k, "error")
  PROVE  \A v \in User : last'[v] = "ok" => last[v] = "ok"
BY DEF Settle, TypeOK

LEMMA LaunchFresh ==
  ASSUME IInv, FInv, IInv', NEW k \in DOMAIN task, Launch(k)
  PROVE  FInv'
<1> DEFINE t == At(Launched(task[k]), "boot")
<1>1. task[k].pc = "queued" /\ Moves(k, "boot", task[k].row) BY LaunchEffect DEF IInv
<1>2. UNCHANGED <<last, log>> BY DEF Launch
<1>3. Grown /\ Freshens(k)
  BY <1>2, TaskFacts, SameLog, RewritesGrow
<1>4. task'[k] = t
  <2>1. SetTask(k, t) BY DEF Launch, SetTask
  <2> HIDE DEF t
  <2> QED BY <2>1, TaskPut DEF IInv, Typed
<1>5. t.began = Len(log[task[k].user]) /\ t.fresh = task[k].fresh
  <2>1. task[k] \in Task BY TaskFacts
  <2>2. Launched(task[k]) \in Task BY <2>1, LaunchedFields DEF IInv, Typed
  <2>3. t.began = Launched(task[k]).began /\ t.fresh = Launched(task[k]).fresh
    BY <2>2, KeptFields
  <2> QED BY <2>1, <2>3, LaunchedBegan
<1>6. TaskOK(task[k])'
  <2>1. ~task[k].fresh BY <1>1, TaskFacts DEF TaskOK
  <2> HIDE DEF t
  <2> QED BY <1>1, <1>2, <1>4, <1>5, <2>1, TaskFacts DEF TaskOK, Moves
<1> QED BY <1>1, <1>2, <1>3, <1>6, MoveFresh DEF Ended

LEMMA LaunchFailsFresh ==
  ASSUME IInv, FInv, IInv', NEW k \in DOMAIN task, LaunchFails(k)
  PROVE  FInv'
<1> DEFINE t == Launched(Gone(task[k], "killed"))
<1>1. task[k].pc = "queued" /\ Moves(k, "killed", task[k].row)
  BY LaunchFailsEffect DEF IInv
<1>2. UNCHANGED log /\ Settle(k, "error") BY DEF LaunchFails
<1>3. Grown /\ Freshens(k)
  BY <1>2, TaskFacts, SameLog, RewritesGrow
<1>4. task'[k] = t
  <2>1. SetTask(k, t) BY DEF LaunchFails, SetTask
  <2> HIDE DEF t
  <2> QED BY <2>1, TaskPut DEF IInv, Typed
<1>5. t.began = Len(log[task[k].user])
  <2>1. task[k] \in Task BY TaskFacts
  <2>2. Gone(task[k], "killed") \in Task /\ Gone(task[k], "killed").user = task[k].user
    BY <2>1, GoneFields
  <2> QED BY <2>2, LaunchedBegan
<1>6. TaskOK(task[k])'
  <2> HIDE DEF t
  <2> QED BY <1>1, <1>2, <1>4, <1>5, TaskFacts DEF TaskOK, Moves
<1>7. \A v \in User : last'[v] = "ok" => last[v] = "ok"
  BY <1>2, TaskFacts, SettleError
<1> QED BY <1>1, <1>3, <1>6, <1>7, MoveFresh DEF Ended

LEMMA StartLogFresh ==
  ASSUME IInv, FInv, IInv', NEW k \in DOMAIN task, StartLog(k)
  PROVE  FInv'
<1> DEFINE t == Logged(task[k])  u == task[k].user
<1>1. PICK n : n = Len(log[u]) + 1 OBVIOUS
<1>2. /\ task[k].pc = "boot" /\ Moves(k, "steps", n)
      /\ log' \in [User -> Seq(Row)]
      /\ \A v \in User : v # u => log'[v] = log[v]
      /\ Len(log'[u]) = n
      /\ \A i \in DOMAIN log[u] : log'[u][i] = log[u][i]
      /\ ~log'[u][n].fresh
  BY <1>1, StartLogEffect DEF IInv
<1>3. UNCHANGED last BY DEF StartLog
<1>4. /\ task[k] \in Task /\ u \in User /\ TaskOK(task[k]) /\ task[k].began \in Nat
      /\ Len(log[u]) \in Nat /\ n \in Nat /\ n > Len(log[u])
  BY <1>1, TaskFacts
<1>5. \A v \in User : Len(log[v]) \in Nat BY LenDomain DEF IInv, Typed, TypeOK
<1>6. Grown /\ Freshens(k)
  <2>1. ASSUME NEW v \in User
        PROVE  /\ Len(log'[v]) >= Len(log[v])
               /\ \A i \in DOMAIN log[v] : log'[v][i] = log[v][i]
    <3>1. CASE v = u BY <1>2, <1>4, <3>1
    <3>2. CASE v # u BY <1>2, <1>5, <3>2
    <3> QED BY <3>1, <3>2
  <2> QED BY <2>1 DEF Grown, Freshens
<1>7. task'[k] = t
  <2>1. SetTask(k, t) BY DEF StartLog, SetTask
  <2> HIDE DEF t
  <2> QED BY <2>1, TaskPut DEF IInv, Typed
<1>8. t.began = task[k].began /\ t.fresh = task[k].fresh BY <1>4, KeptFields
<1>9. TaskOK(task[k])'
  <2>1. ~task[k].fresh /\ task[k].began <= Len(log[u]) BY <1>2, <1>4 DEF TaskOK
  <2> HIDE DEF t
  <2> QED BY <1>2, <1>4, <1>7, <1>8, <2>1 DEF TaskOK, Moves
<1> QED BY <1>1, <1>2, <1>3, <1>6, <1>9, MoveFresh DEF Ended

LEMMA StepFresh ==
  ASSUME IInv, FInv, IInv', NEW k \in DOMAIN task, Step(k)
  PROVE  FInv'
<1> DEFINE t == task[k]  u == t.user
<1>1. /\ t.pc = "steps" /\ Moves(k, "steps", t.row) /\ Rewrites(u)
  BY StepEffect DEF IInv
<1>2. UNCHANGED last BY DEF Step
<1>3. /\ t \in Task /\ u \in User /\ TaskOK(t) /\ t.row \in Nat /\ t.began \in Nat
      /\ Len(log[u]) \in Nat /\ t.left \in 0..(Providers + 1) /\ TypeOK
  BY TaskFacts
<1>4. Providers \in Nat BY BoundAssumption
<1>5. \A v \in User : Len(log'[v]) = Len(log[v]) /\ Len(log[v]) \in Nat
  <2> TAKE v \in User
  <2>1. DOMAIN log'[v] = DOMAIN log[v] BY <1>1 DEF Rewrites
  <2>2. log'[v] \in Seq(Row) /\ log[v] \in Seq(Row) BY <1>1, <1>3 DEF Rewrites, TypeOK
  <2> QED BY <2>1, <2>2, LenDomain
<1>6. SUFFICES Grown /\ Freshens(k) /\ TaskOK(task[k])'
  BY <1>1, <1>2, MoveFresh DEF Ended
<1>7. ASSUME NEW left, NEW f, NEW g, SetTask(k, Stepped(t, left, f, g))
      PROVE  task'[k].began = t.began /\ task'[k].fresh = f /\ task'[k].left = left
  <2>1. task'[k] = Stepped(t, left, f, g) BY <1>3, <1>7, TaskPut
  <2> QED BY <1>3, <2>1, SteppedKeeps
<1>8. CASE /\ t.left = Providers + 1 /\ t.type \in SyncType
           /\ \E ok \in BOOLEAN : /\ SetTask(k, Stepped(t, t.left - 1, ok, FALSE))
                                  /\ log' = [log EXCEPT ![u][t.row].fresh = ok]
  <2> PICK ok \in BOOLEAN : /\ SetTask(k, Stepped(t, t.left - 1, ok, FALSE))
                            /\ log' = [log EXCEPT ![u][t.row].fresh = ok]
    BY <1>8
  <2>1. t.row \in DOMAIN log[u] /\ ~log[u][t.row].fresh /\ t.row > t.began
    BY <1>1, <1>3, <1>8, OwnRow DEF TaskOK
  <2>2. /\ \A v \in User : v # u => log'[v] = log[v]
        /\ \A i \in DOMAIN log[u] : i # t.row => log'[u][i] = log[u][i]
        /\ log'[u][t.row] = [log[u][t.row] EXCEPT !.fresh = ok]
    BY <1>3, <2>1 DEF TypeOK
  <2>3. log'[u][t.row].fresh = ok
    <3>1. log[u][t.row] \in Row BY <1>3, <2>1, RowType
    <3> QED BY <2>2, <3>1 DEF Row
  <2>4. Grown
    <3>1. ASSUME NEW v \in User, NEW i \in DOMAIN log[v], log[v][i].fresh
          PROVE  log'[v][i].fresh
      BY <2>1, <2>2, <3>1
    <3> QED BY <1>5, <3>1 DEF Grown
  <2>5. Freshens(k)
    <3>1. k \in Holding BY <1>1, <1>8 DEF Holding
    <3> QED BY <2>2, <3>1 DEF Freshens
  <2>6. TaskOK(task[k])'
    <3>1. /\ task'[k].began = t.began /\ task'[k].fresh = ok /\ task'[k].left = t.left - 1
      BY <1>7
    <3>2. task'[k].left # Providers + 1 BY <1>3, <1>4, <1>8, <3>1
    <3>3. t.began <= Len(log'[u]) BY <1>3, <1>5 DEF TaskOK
    <3> QED BY <1>1, <2>1, <2>3, <3>1, <3>2, <3>3 DEF TaskOK, Moves
  <2> QED BY <2>4, <2>5, <2>6
<1>9. ASSUME UNCHANGED log, NEW left, NEW f, NEW g, SetTask(k, Stepped(t, left, f, g)),
             left # Providers + 1, f = FALSE \/ f = t.fresh
      PROVE  Grown /\ Freshens(k) /\ TaskOK(task[k])'
  <2>1. Grown /\ Freshens(k) BY <1>3, <1>9, SameLog, RewritesGrow
  <2>2. /\ task'[k].began = t.began /\ task'[k].fresh = f /\ task'[k].left = left
    BY <1>7, <1>9
  <2>3. TaskOK(task[k])' BY <1>1, <1>3, <1>9, <2>2 DEF TaskOK, Moves
  <2> QED BY <2>1, <2>3
<1>10. CASE UNCHANGED log /\ SetTask(k, Stepped(t, 0, FALSE, FALSE))
  <2>1. 0 # Providers + 1 BY <1>4
  <2> QED BY <1>9, <1>10, <2>1
<1>11. CASE UNCHANGED log /\ \E bad \in BOOLEAN :
              SetTask(k, Stepped(t, t.left - 1, t.fresh, t.failed \/ bad))
  <2>1. t.left - 1 # Providers + 1 BY <1>3, <1>4
  <2> QED BY <1>9, <1>11, <2>1
<1> QED BY <1>8, <1>10, <1>11 DEF Step, SetTask

\* A task that leaves the script keeps its row's age and whether it refreshed.
LEMMA FinishFresh ==
  ASSUME IInv, FInv, IInv', NEW k \in DOMAIN task, Finish(k)
  PROVE  FInv'
<1> DEFINE t == task[k]  u == t.user
<1>1. PICK pc \in {"exit0", "exit1"} : pc = Exit(t) BY DEF Exit
<1>2. t.pc = "steps" /\ Closes(k) BY FinishEffect DEF IInv
<1>3. /\ t \in Task /\ u \in User /\ TaskOK(t) /\ t.row \in Nat /\ t.began \in Nat
      /\ Len(log[u]) \in Nat /\ TypeOK
  BY TaskFacts
<1>4. SetTask(k, Gone(t, pc)) BY <1>1 DEF Finish, SetTask
<1>5. Moves(k, pc, t.row) BY <1>3, <1>4, GoneFields, PutTask
<1>6. task'[k].began = t.began /\ task'[k].fresh = t.fresh
  <2>1. task'[k] = Gone(t, pc) BY <1>3, <1>4, TaskPut
  <2> QED BY <1>3, <2>1, KeptFields
<1>7. Grown /\ Freshens(k) BY <1>2, <1>3, RewritesGrow DEF Closes
<1>8. TaskOK(task[k])'
  <2>1. t.began <= Len(log'[u])
    <3>1. Len(log'[u]) >= Len(log[u]) BY <1>3, <1>7 DEF Grown
    <3>2. log'[u] \in Seq(Row) BY <1>2, <1>3 DEF Closes, Rewrites
    <3> QED BY <1>3, <3>1, <3>2, LenDomain DEF TaskOK
  <2>2. ASSUME t.type \in SyncType
        PROVE  /\ t.row > t.began /\ t.row \in DOMAIN log[u]
               /\ t.fresh => log[u][t.row].fresh
    BY <1>2, <1>3, <2>2, OwnRow DEF TaskOK
  <2>3. t.type \in SyncType /\ t.fresh => log'[u][t.row].fresh
    BY <1>3, <1>7, <2>2 DEF Grown
  <2>4. t.type \in SyncType /\ pc = "exit0" => t.fresh
    BY <1>1 DEF Exit, OverallStatus, SyncType
  <2> QED BY <1>5, <1>6, <2>1, <2>2, <2>3, <2>4 DEF TaskOK, Moves
<1>9. UNCHANGED last BY DEF Finish
<1> QED BY <1>2, <1>5, <1>7, <1>8, <1>9, MoveFresh DEF Ended

\* The remaining moves leave a task with nothing to say about its row.
LEMMA LeaveFresh ==
  ASSUME IInv, FInv, IInv', NEW k \in DOMAIN task, NEW pc, NEW row, Moves(k, pc, row),
         Rewrites(task[k].user), KeepsFresh(task[k].user), row \in {0, task[k].row},
         task'[k].began \in {0, task[k].began},
         pc \in {"exit1", "killed", "notify", "check", "done"},
         pc \notin Ended => task[k].pc \notin Ended,
         pc = "check" => task[k].type \in SyncType,
         pc \in {"notify", "check"} => task'[k].began = task[k].began /\ task[k].pc # "done",
         \A v \in User : last'[v] = "ok" =>
           \/ last[v] = "ok"
           \/ k \in Holding /\ task[k].pc = "exit0" /\ pc = "notify" /\ v = task[k].user
  PROVE  FInv'
<1> DEFINE u == task[k].user
<1>1. /\ u \in User /\ TaskOK(task[k]) /\ task[k].began \in Nat /\ Len(log[u]) \in Nat /\ TypeOK
  BY TaskFacts
<1>2. Grown /\ Freshens(k) BY <1>1, RewritesGrow
<1>3. task'[k].began <= Len(log'[u])
  <2>1. Len(log'[u]) >= Len(log[u]) BY <1>1, <1>2 DEF Grown
  <2>2. log'[u] \in Seq(Row) BY <1>1 DEF Rewrites
  <2> QED BY <1>1, <2>1, <2>2, LenDomain DEF TaskOK
<1>4. TaskOK(task[k])' BY <1>3 DEF TaskOK, Moves
<1> QED BY <1>2, <1>4, MoveFresh

LEMMA DiesFresh ==
  ASSUME IInv, FInv, IInv', NEW k \in DOMAIN task, Dies(k)
  PROVE  FInv'
<1>1. task[k].pc \in Live /\ Moves(k, "exit1", task[k].row) /\ Closes(k)
  BY DiesEffect DEF IInv
<1>2. task'[k].began = task[k].began
  <2>1. SetTask(k, Gone(task[k], "exit1")) BY DEF Dies, SetTask
  <2> QED BY <2>1, TaskFacts, TaskPut, KeptFields
<1>3. UNCHANGED last BY DEF Dies
<1> QED BY <1>1, <1>2, <1>3, LeaveFresh DEF Closes, Ended, Live

LEMMA TimeOutFresh ==
  ASSUME IInv, FInv, IInv', NEW k \in DOMAIN task, TimeOut(k)
  PROVE  FInv'
<1>1. task[k].pc \in Live /\ Moves(k, "killed", task[k].row)
  BY TimeOutEffect DEF IInv
<1>2. task'[k].began = task[k].began
  <2>1. SetTask(k, Gone(task[k], "killed")) BY DEF TimeOut, SetTask
  <2> QED BY <2>1, TaskFacts, TaskPut, KeptFields
<1>3. Rewrites(task[k].user) /\ KeepsFresh(task[k].user)
  BY TaskFacts, SameLog DEF TimeOut
<1>4. \A v \in User : last'[v] = "ok" => last[v] = "ok"
  BY TaskFacts, SettleError DEF TimeOut
<1> QED BY <1>1, <1>2, <1>3, <1>4, LeaveFresh DEF Ended, Live

LEMMA ReturnFresh ==
  ASSUME IInv, FInv, IInv', NEW k \in DOMAIN task, Return(k)
  PROVE  FInv'
<1>1. task[k].pc \in {"exit0", "exit1"} /\ Moves(k, "notify", task[k].row)
  BY ReturnEffect DEF IInv
<1>2. task'[k].began = task[k].began
  <2>1. SetTask(k, At(task[k], "notify")) BY DEF Return, SetTask
  <2> QED BY <2>1, TaskFacts, TaskPut, KeptFields
<1>3. Rewrites(task[k].user) /\ KeepsFresh(task[k].user)
  BY TaskFacts, SameLog DEF Return
<1>4. \A v \in User : last'[v] = "ok" =>
        last[v] = "ok" \/ (k \in Holding /\ task[k].pc = "exit0" /\ v = task[k].user)
  <2>1. CASE task[k].pc = "exit0"
    BY <2>1, TaskFacts DEF Return, Settle, TypeOK, Holding
  <2>2. CASE task[k].pc = "exit1"
    <3>1. Settle(k, "error") BY <2>2 DEF Return
    <3> QED BY <3>1, TaskFacts, SettleError
  <2> QED BY <1>1, <2>1, <2>2
<1> QED BY <1>1, <1>2, <1>3, <1>4, LeaveFresh DEF Ended

LEMMA CloseOutFresh ==
  ASSUME IInv, FInv, IInv', NEW k \in DOMAIN task, CloseOut(k)
  PROVE  FInv'
<1>1. task[k].pc = "killed" /\ Moves(k, "notify", task[k].row) /\ Closes(k)
  BY CloseOutEffect DEF IInv
<1>2. task'[k].began = task[k].began
  <2>1. SetTask(k, At(task[k], "notify")) BY DEF CloseOut, SetTask
  <2> QED BY <2>1, TaskFacts, TaskPut, KeptFields
<1>3. UNCHANGED last BY DEF CloseOut
<1> QED BY <1>1, <1>2, <1>3, LeaveFresh DEF Closes, Ended

LEMMA NotifyFresh ==
  ASSUME IInv, FInv, IInv', NEW k \in DOMAIN task, Notify(k)
  PROVE  FInv'
<1>1. UNCHANGED <<last, log>> /\ task[k].pc = "notify" BY DEF Notify
<1>2. Rewrites(task[k].user) /\ KeepsFresh(task[k].user)
  BY <1>1, TaskFacts, SameLog
<1>3. CASE task[k].type \in SyncType
  <2>1. SetTask(k, At(task[k], "check")) BY <1>3 DEF Notify, SetTask
  <2>2. task'[k].began = task[k].began BY <2>1, TaskFacts, TaskPut, KeptFields
  <2>3. Moves(k, "check", task[k].row) BY <1>3, NotifyEffect DEF IInv
  <2> QED BY <1>1, <1>2, <1>3, <2>2, <2>3, LeaveFresh DEF Ended
<1>4. CASE task[k].type \notin SyncType
  <2>1. SetTask(k, Over(task[k])) BY <1>4 DEF Notify, SetTask
  <2>2. task'[k].began = 0 BY <2>1, TaskFacts, TaskPut, KeptFields
  <2>3. Moves(k, "done", 0) BY <1>4, NotifyEffect DEF IInv
  <2> QED BY <1>1, <1>2, <2>2, <2>3, LeaveFresh DEF Ended
<1> QED BY <1>3, <1>4

LEMMA CheckFresh ==
  ASSUME IInv, FInv, IInv', NEW k \in DOMAIN task, Check(k)
  PROVE  FInv'
<1>1. UNCHANGED <<last, log>> /\ Moves(k, "done", 0) BY CheckEffect DEF Check, IInv
<1>2. Rewrites(task[k].user) /\ KeepsFresh(task[k].user)
  BY <1>1, TaskFacts, SameLog
<1>3. task'[k].began = 0
  <2>1. SetTask(k, Over(task[k])) BY DEF Check, SetTask
  <2> QED BY <2>1, TaskFacts, TaskPut, KeptFields
<1> QED BY <1>1, <1>2, <1>3, LeaveFresh DEF Ended

\* A new task has no row yet, and claiming the flag clears the result.
LEMMA CallFresh ==
  ASSUME IInv, FInv, NEW u \in User, NEW type \in Type, Call(u, type), UNCHANGED log,
         \A v \in User : last'[v] = "ok" => last[v] = "ok",
         type \in SyncType => last'[u] # "ok"
  PROVE  FInv'
<1>1. PICK n : n = Len(task) + 1 OBVIOUS
<1>2. /\ DOMAIN task' = DOMAIN task \cup {n} /\ n \notin DOMAIN task
      /\ \A k \in DOMAIN task : task'[k] = task[k]
      /\ task'[n].user = u /\ task'[n].type = type /\ task'[n].pc = "queued"
      /\ task'[n].row = 0 /\ task'[n].began = 0 /\ ~task'[n].fresh
  BY <1>1, CallEffect DEF IInv
<1>3. \A k \in DOMAIN task : task[k].user \in User BY TaskFacts
<1>4. Reading' = Reading /\ \A k \in Reading : k \in DOMAIN task /\ task'[k] = task[k]
  BY <1>2 DEF Reading
<1>5. \A l \in Holding' : \/ l \in Holding /\ l \in DOMAIN task /\ task'[l] = task[l]
                          \/ l = n /\ type \in SyncType
  BY <1>2 DEF Holding
<1>6. \A k \in DOMAIN task' : TaskOK(task[k])'
  <2> TAKE k \in DOMAIN task'
  <2>1. CASE k = n
    <3>1. Len(log[u]) \in Nat BY LenDomain DEF IInv, Typed, TypeOK
    <3> QED BY <1>2, <2>1, <3>1 DEF TaskOK
  <2>2. CASE k \in DOMAIN task
    <3>1. TaskOK(task[k]) /\ task'[k] = task[k] BY <1>2, <2>2 DEF FInv
    <3> QED BY <3>1 DEF TaskOK
  <2> QED BY <1>2, <2>1, <2>2
<1>7. NewerRow' BY <1>2, <1>4, <1>5 DEF FInv, NewerRow
<1>8. NoResultYet' BY <1>2, <1>3, <1>5 DEF FInv, NoResultYet
<1>9. Vouched' BY <1>3, <1>4 DEF FInv, Vouched
<1> QED BY <1>6, <1>7, <1>8, <1>9 DEF FInv

LEMMA SameFresh ==
  ASSUME FInv, UNCHANGED <<last, log, task>>
  PROVE  FInv'
<1>1. \A k \in DOMAIN task' : TaskOK(task[k])' BY DEF FInv, TaskOK
<1>2. Reading' = Reading /\ Holding' = Holding BY DEF Reading, Holding
<1> QED BY <1>1, <1>2 DEF FInv, NewerRow, NoResultYet, Vouched

LEMMA StartFresh ==
  ASSUME IInv, FInv, NEW u \in User
  PROVE  /\ \A type \in SyncType : Trigger(u, type) => FInv'
         /\ \A j \in Job : JobNext(j, u) => FInv'
<1>1. last \in [User -> {"none", "ok", "error"}] BY DEF IInv, Typed, TypeOK
<1>2. ASSUME NEW type \in SyncType, Claim(u), Call(u, type), UNCHANGED log PROVE FInv'
  <2>1. type \in Type BY DEF Type
  <2>2. last'[u] # "ok" /\ \A v \in User : last'[v] = "ok" => last[v] = "ok"
    BY <1>1, <1>2 DEF Claim
  <2> QED BY <1>2, <2>1, <2>2, CallFresh
<1>3. ASSUME Call(u, "recommender"), UNCHANGED <<last, log>> PROVE FInv'
  <2>1. "recommender" \in Type /\ "recommender" \notin SyncType BY DEF Type, SyncType
  <2> QED BY <1>3, <2>1, CallFresh
<1>4. ASSUME NEW type \in SyncType, Trigger(u, type) PROVE FInv'
  BY <1>2, <1>4 DEF Trigger
<1>5. ASSUME NEW j \in Job, JobNext(j, u) PROVE FInv'
  <2>1. "full_sync" \in SyncType BY DEF SyncType
  <2>2. CASE UNCHANGED <<last, task>> BY <1>5, <2>2, SameFresh DEF JobNext
  <2>3. CASE Claim(u) /\ Call(u, "full_sync") BY <1>2, <1>5, <2>1, <2>3 DEF JobNext
  <2>4. CASE Call(u, "recommender") /\ UNCHANGED <<flag, last>>
    BY <1>3, <1>5, <2>4 DEF JobNext
  <2> QED BY <1>5, <2>2, <2>3, <2>4 DEF JobNext
<1> QED BY <1>4, <1>5

LEMMA RestartFresh ==
  ASSUME IInv, FInv, Restart, IInv'
  PROVE  FInv'
<1>1. DOMAIN task' = DOMAIN task /\ \A k \in DOMAIN task : task'[k] = Over(task[k])
  BY DEF Restart
<1>2. ASSUME NEW k \in DOMAIN task
      PROVE  task'[k].pc = "done" /\ task'[k].began = 0 /\ task'[k].user \in User
  <2>1. task[k] \in Task /\ task[k].user \in User BY TaskFacts
  <2>2. /\ Over(task[k]).pc = "done" /\ Over(task[k]).began = 0
        /\ Over(task[k]).user = task[k].user
    BY <2>1, OverFields, KeptFields
  <2> QED BY <1>1, <2>1, <2>2
<1>3. Reading' = {} /\ Holding' = {} BY <1>1, <1>2 DEF Reading, Holding
<1>4. \A k \in DOMAIN task' : TaskOK(task[k])'
  <2> TAKE k \in DOMAIN task'
  <2>1. task'[k].user \in User /\ log' \in [User -> Seq(Row)]
    BY <1>1, <1>2 DEF IInv, Typed, TypeOK
  <2>2. Len(log'[task'[k].user]) \in Nat BY <2>1, LenDomain
  <2> QED BY <1>1, <1>2, <2>2 DEF TaskOK
<1> QED BY <1>3, <1>4 DEF FInv, NewerRow, NoResultYet, Vouched

LEMMA FreshInit == Init => FInv
<1> SUFFICES ASSUME Init PROVE FInv OBVIOUS
<1>1. DOMAIN task = {} BY DEF Init
<1>2. Reading = {} /\ Holding = {} BY <1>1 DEF Reading, Holding
<1> QED BY <1>1, <1>2 DEF FInv, NewerRow, NoResultYet, Vouched

LEMMA FreshNext == IInv /\ FInv /\ [Next]_vars => FInv'
<1> SUFFICES ASSUME IInv, FInv, [Next]_vars PROVE FInv' OBVIOUS
<1>1. IInv' BY NextInv
<1>2. CASE \E u \in User, type \in SyncType : Trigger(u, type) BY <1>2, StartFresh
<1>3. CASE \E j \in Job : JobStarts(j) \/ \E u \in User : JobNext(j, u)
  BY <1>3, SameFresh, StartFresh DEF JobStarts
<1>4. CASE \E k \in DOMAIN task : Script(k) \/ Thread(k) \/ LaunchFails(k) \/ Dies(k) \/ TimeOut(k)
  <2> PICK k \in DOMAIN task : Script(k) \/ Thread(k) \/ LaunchFails(k) \/ Dies(k) \/ TimeOut(k)
    BY <1>4
  <2>1. Script(k) => FInv' BY <1>1, StartLogFresh, StepFresh, FinishFresh DEF Script
  <2>2. Thread(k) => FInv'
    BY <1>1, LaunchFresh, ReturnFresh, CloseOutFresh, NotifyFresh, CheckFresh DEF Thread
  <2> QED BY <1>1, <2>1, <2>2, LaunchFailsFresh, DiesFresh, TimeOutFresh
<1>5. CASE Restart BY <1>1, <1>5, RestartFresh
<1>6. CASE UNCHANGED vars BY <1>6, SameFresh DEF vars
<1> QED BY <1>2, <1>3, <1>4, <1>5, <1>6 DEF Next

-----------------------------------------------------------------------------
(* The theorems.                                                           *)

\* The variables keep their types; in particular a task's row exists in its
\* user's log (_start_log, main.py's job loops).
THEOREM TypeCorrect == Spec => []TypeOK
<1>1. IInv => TypeOK BY DEF IInv, Typed
<1> QED BY <1>1, Invariance, PTL

\* At most one sync of a user is in flight and the flag says so, for any number
\* of users and tasks (POST /api/sync, _run_daily_sync_all_users).
THEOREM OneSyncPerUser == Spec => []SingleFlight
<1>1. IInv => SingleFlight BY DEF IInv
<1> QED BY <1>1, Invariance, PTL

\* A running pipeline's row is not settled by another task's cleanup
\* (_close_out_orphaned_log).
THEOREM LiveRowsUntouched == Spec => []LiveRowRunning
<1>1. IInv => LiveRowRunning BY DEF IInv
<1> QED BY <1>1, Invariance, PTL

\* A row that is still "running", and whose closing write has not failed,
\* belongs to a task that will close it (_finish_log, _close_out_orphaned_log).
THEOREM NoStuckRow == Spec => []RowSettles
<1>1. IInv => RowSettles BY DEF IInv
<1> QED BY <1>1, Invariance, PTL

\* Streaming availability is checked only after some run of the user refreshed
\* the library since the task began, for any number of users, overlapping tasks
\* and providers (_run_sync_task, _check_streaming_availability).
THEOREM CheckedAfterRefresh == Spec => []AvailabilityNeedsRefresh
<1>1. IInv /\ FInv => AvailabilityNeedsRefresh
  BY DEF FInv, Vouched, Reading, TaskOK, AvailabilityNeedsRefresh, ChecksAvailability
<1>2. Init => IInv /\ FInv BY InitInv, FreshInit
<1>3. IInv /\ FInv /\ [Next]_vars => (IInv /\ FInv)' BY NextInv, FreshNext
<1> QED BY <1>1, <1>2, <1>3, PTL DEF Spec
=============================================================================
