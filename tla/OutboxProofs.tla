---------------------------- MODULE OutboxProofs ----------------------------
(* Proofs, for every value of the constants: the variables of Outbox keep   *)
(* their types; the worker's hold on its row, the attempt counts and the    *)
(* delivery before acknowledgement are invariants; Outbox implements        *)
(* Delivery; only a card edit's clear strands an entry; and queued updates  *)
(* reach AniList in order.                                                  *)
EXTENDS OutboxPromise, OutboxHistory, TLAPS

(***************************************************************************)
(* The inductive invariant.  The three properties need to know that edit   *)
(* numbers identify rows (Numbered), that the fetched batch is disjoint    *)
(* from the row in hand (BatchApart), that it agrees with the table        *)
(* (BatchFresh), and when the worker holds a row at all (HoldsItem).       *)
(***************************************************************************)
Numbered == /\ \A r, s \in outbox : SameRow(r, s) => r = s
            /\ \A r \in outbox \cup batch : r.at <= clock
            /\ item # NoItem => item.at <= clock

HoldsItem == wpc \in {"push", "ack"} <=> item # NoItem

BatchApart == /\ \A r, s \in batch : SameRow(r, s) => r = s
              /\ item # NoItem => \A r \in batch : ~SameRow(r, item)
              /\ wpc = "idle" => batch = {}

BatchFresh == \A b \in batch, r \in outbox :
                SameRow(r, b) => r.state # "failed" /\ r.attempts = b.attempts

IInv == /\ Numbered /\ BatchApart /\ BatchFresh
        /\ WorkerOwnsItem /\ AckMeansDelivered /\ AttemptsMatchState

\* Types alone are not inductive: a push needs a row in hand.
Typed == TypeOK /\ HoldsItem

-----------------------------------------------------------------------------
(* Typing lemmas.                                                          *)

LEMMA WriteType ==
  ASSUME NEW ver \in Versions, NEW fields, NEW n \in Edit
  PROVE  Write(ver, fields, n) \in Versions
BY DEF Write, Versions

LEMMA MarkedType ==
  ASSUME NEW r \in Row,
         NEW state \in {"pending", "in_progress", "failed"}, NEW n \in 0..MaxAttempts
  PROVE  /\ Marked(r, state, n) \in Row
         /\ Marked(r, state, n).anime = r.anime
         /\ Marked(r, state, n).at = r.at
         /\ Marked(r, state, n).state = state
         /\ Marked(r, state, n).attempts = n
BY Zenon DEF Marked, Row

LEMMA SetRowType ==
  ASSUME outbox \subseteq Row, NEW row,
         NEW state \in {"pending", "in_progress", "failed"}, NEW n \in 0..MaxAttempts
  PROVE  SetRow(row, state, n) \subseteq Row
BY MarkedType DEF SetRow

LEMMA NoPullType == NoPull \in [fetched: BOOLEAN, list: [Anime -> ListRow]]
BY LimitAssumption DEF NoPull, ListRow, Versions, Edit

LEMMA DeliverType ==
  ASSUME TypeOK, item \in Row, Deliver
  PROVE  remote' \in [Anime -> ListRow]
<1>1. remote[item.anime].ver \in Versions BY DEF TypeOK, ListRow, Row
<1>2. Write(remote[item.anime].ver, item.fields, item.at) \in Versions
  BY <1>1, WriteType DEF Row
<1> QED BY <1>2 DEF TypeOK, Deliver, ListRow, Row

LEMMA InitType == Init => Typed
BY LimitAssumption DEF Init, Typed, TypeOK, HoldsItem, Edit, LibRow, ListRow, Versions, Session, NoPull

LEMMA EnqueueType ==
  ASSUME Typed, NEW S \in SUBSET Anime, NEW fields \in (SUBSET Field) \ {{}}, Enqueue(S, fields)
  PROVE  Typed'
<1> USE DEF Typed
<1>1. clock' \in Edit /\ clock' = clock + 1
  BY LimitAssumption DEF TypeOK, Enqueue, Edit
<1>2. lib' \in [Anime -> LibRow]
  <2> SUFFICES ASSUME NEW a \in Anime
               PROVE  [sync |-> "pending", ver |-> Write(lib[a].ver, fields, clock')] \in LibRow
    BY DEF TypeOK, Enqueue
  <2>1. lib[a].ver \in Versions BY DEF TypeOK, LibRow
  <2> QED BY <2>1, <1>1, WriteType DEF LibRow
<1>3. outbox' \subseteq Row
  BY <1>1, LimitAssumption DEF TypeOK, Enqueue, Row
<1> QED BY <1>1, <1>2, <1>3 DEF TypeOK, HoldsItem, Enqueue, workerVars

LEMMA WorkerType ==
  ASSUME Typed, Worker \/ DrainFails
  PROVE  Typed'
<1> USE DEF Typed
<1>0. NoItem \notin Row /\ \A r \in Row : r.attempts \in 0..MaxAttempts
  BY DEF Row, NoItem
<1>1. CASE Drain
  BY <1>1 DEF TypeOK, HoldsItem, Drain, Due
<1>2. CASE Take
  <2> PICK r \in batch : /\ item' = r /\ attempt' = r.attempts
                         /\ batch' = batch \ {r}
                         /\ outbox' = SetRow(r, "in_progress", r.attempts)
    BY <1>2 DEF Take
  <2>1. r \in Row /\ r.attempts \in 0..MaxAttempts BY <1>0 DEF TypeOK
  <2>2. outbox' \subseteq Row BY <2>1, SetRowType DEF TypeOK
  <2> QED BY <1>0, <1>2, <2>1, <2>2 DEF TypeOK, HoldsItem, Take
<1>3. CASE PushOk
  <2>1. item \in Row BY <1>3 DEF PushOk, TypeOK, HoldsItem
  <2>2. remote' \in [Anime -> ListRow] BY <1>3, <2>1, DeliverType DEF PushOk
  <2> QED BY <1>3, <2>2 DEF TypeOK, HoldsItem, PushOk
<1>4. CASE PushFails
  <2>1. item \in Row BY <1>4 DEF PushFails, TypeOK, HoldsItem
  <2>2. remote' \in [Anime -> ListRow]
    BY <1>4, <2>1, DeliverType DEF PushFails, TypeOK
  <2>3. attempt' \in 0..MaxAttempts BY <1>4, LimitAssumption DEF PushFails, TypeOK
  <2>4. outbox' \subseteq Row BY <1>4, <2>3, SetRowType DEF PushFails, TypeOK
  <2> QED BY <1>4, <2>2, <2>3, <2>4 DEF TypeOK, HoldsItem, PushFails
<1>5. CASE Ack
  <2>1. lib' \in [Anime -> LibRow] BY <1>5 DEF Ack, TypeOK, LibRow
  <2> QED BY <1>5, <2>1, LimitAssumption DEF TypeOK, HoldsItem, Ack, ItemDone
<1>6. CASE GiveUp
  <2>1. outbox' \subseteq Row BY <1>6, SetRowType DEF GiveUp, TypeOK
  <2> QED BY <1>6, <2>1, LimitAssumption DEF TypeOK, HoldsItem, GiveUp, ItemDone
<1>7. CASE DrainFails
  BY <1>7, LimitAssumption DEF TypeOK, HoldsItem, DrainFails, WorkerRestarts
<1> QED BY <1>1, <1>2, <1>3, <1>4, <1>5, <1>6, <1>7 DEF Worker

LEMMA CardType ==
  ASSUME Typed, NEW e \in Editors, UiPush(e) \/ UiWrite(e) \/ UiClear(e)
  PROVE  Typed'
<1> USE DEF Typed
<1>1. CASE UiPush(e)
  <2> PICK kind \in EditKind, a \in Anime, confirmed \in BOOLEAN :
        /\ clock' = clock + 1
        /\ remote' = [remote EXCEPT ![a] = [on  |-> kind # "delete",
                                            ver |-> Write(@.ver, FieldsOf(kind), clock')]]
        /\ ui' = IF confirmed
                 THEN [ui EXCEPT ![e] = [pc |-> "write", kind |-> kind, anime |-> a, at |-> clock']]
                 ELSE ui
    BY <1>1 DEF UiPush
  <2>1. clock' \in Edit BY <1>1, LimitAssumption DEF TypeOK, UiPush, Edit
  <2>2. remote[a].ver \in Versions BY DEF TypeOK, ListRow
  <2>3. remote' \in [Anime -> ListRow] BY <2>1, <2>2, WriteType DEF TypeOK, ListRow
  <2>4. ui' \in [Editors -> Session] BY <2>1 DEF TypeOK, Session
  <2> QED BY <1>1, <2>1, <2>3, <2>4 DEF TypeOK, HoldsItem, UiPush, workerVars
<1>2. CASE UiWrite(e)
  <2> DEFINE s == ui[e]
             sync == lib[s.anime].sync
  <2>1. s \in [pc: {"write", "clear"}, kind: EditKind, anime: Anime, at: Edit]
    BY <1>2 DEF UiWrite, TypeOK, Session, Idle
  <2>2. lib[s.anime].ver \in Versions /\ sync \in {"absent", "synced", "pending"}
    BY <2>1 DEF TypeOK, LibRow
  <2>3. Write(lib[s.anime].ver, FieldsOf(s.kind), s.at) \in Versions
    BY <2>1, <2>2, WriteType
  <2>4. lib' \in [Anime -> LibRow]
    BY <1>2, <2>1, <2>2, <2>3 DEF UiWrite, TypeOK, LibRow
  <2>5. ui' \in [Editors -> Session] BY <1>2, <2>1 DEF UiWrite, TypeOK, Session
  <2> QED BY <1>2, <2>4, <2>5 DEF TypeOK, HoldsItem, UiWrite, workerVars
<1>3. CASE UiClear(e)
  BY <1>3 DEF TypeOK, HoldsItem, UiClear, Session, workerVars
<1> QED BY <1>1, <1>2, <1>3

\* Every step of the worker, the handlers and the pull keeps the types.
THEOREM StepType == Typed /\ [Next]_vars => Typed'
<1> SUFFICES ASSUME Typed, [Next]_vars PROVE Typed'
  OBVIOUS
<1> USE DEF Typed
<1>1. CASE BulkSetStatus
  BY <1>1, FieldAssumption, EnqueueType DEF BulkSetStatus
<1>2. CASE ProviderUpdate
  BY <1>2, EnqueueType DEF ProviderUpdate
<1>3. ASSUME NEW a \in Anime, Retry(a) PROVE Typed'
  <2>1. \A r \in Row : Marked(r, "pending", 0) \in Row BY MarkedType, LimitAssumption
  <2>2. outbox' \subseteq Row BY <1>3, <2>1 DEF Retry, TypeOK
  <2> QED BY <1>3, <2>2 DEF TypeOK, HoldsItem, Retry, workerVars
<1>4. CASE Worker \/ DrainFails BY <1>4, WorkerType
<1>5. ASSUME NEW e \in Editors, UiPush(e) \/ UiWrite(e) \/ UiClear(e) PROVE Typed'
  BY <1>5, CardType
<1>6. CASE PullFetch
  BY <1>6 DEF TypeOK, HoldsItem, PullFetch, workerVars
<1>7. CASE PullApply
  <2>1. lib' \in [Anime -> LibRow] BY <1>7 DEF PullApply, TypeOK, LibRow, ListRow
  <2> QED BY <1>7, <2>1, NoPullType DEF TypeOK, HoldsItem, PullApply, workerVars
<1>8. CASE RemoteEdit
  <2> PICK a \in Anime, f \in Field :
        remote' = [remote EXCEPT ![a] = [on |-> TRUE, ver |-> Write(@.ver, {f}, clock')]]
    BY <1>8 DEF RemoteEdit
  <2>1. clock' \in Edit BY <1>8, LimitAssumption DEF TypeOK, RemoteEdit, Edit
  <2>2. remote[a].ver \in Versions BY DEF TypeOK, ListRow
  <2>3. remote' \in [Anime -> ListRow] BY <2>1, <2>2, WriteType DEF TypeOK, ListRow
  <2> QED BY <1>8, <2>1, <2>3 DEF TypeOK, HoldsItem, RemoteEdit, workerVars
<1>9. CASE Crash
  BY <1>9, NoPullType, LimitAssumption DEF TypeOK, HoldsItem, Crash, WorkerRestarts, Session
<1>10. CASE UNCHANGED vars
  BY <1>10 DEF vars, TypeOK, HoldsItem
<1> QED BY <1>1, <1>2, <1>3, <1>4, <1>5, <1>6, <1>7, <1>8, <1>9, <1>10 DEF Next

\* Every variable of the outbox model keeps its type in every behaviour.
THEOREM TypeCorrect == Spec => []TypeOK
<1>1. Typed => TypeOK BY DEF Typed
<1> QED BY <1>1, InitType, StepType, PTL DEF Spec
-----------------------------------------------------------------------------
(* The worker's invariant.                                                 *)

\* What SetRow makes of each row: the identity stays, and only the row with the
\* given identity changes.
LEMMA SetRowFacts ==
  ASSUME outbox \subseteq Row, NEW row,
         NEW state \in {"pending", "in_progress", "failed"}, NEW n \in 0..MaxAttempts
  PROVE  \A x \in SetRow(row, state, n) : \E r \in outbox :
           /\ SameRow(x, r) /\ SameRow(r, x)
           /\ SameRow(r, row) => x = Marked(r, state, n) /\ x.state = state /\ x.attempts = n
           /\ ~SameRow(r, row) => x = r
BY MarkedType DEF SetRow, SameRow

LEMMA SetRowNumbered ==
  ASSUME outbox \subseteq Row, Numbered, NEW row,
         NEW state \in {"pending", "in_progress", "failed"}, NEW n \in 0..MaxAttempts
  PROVE  /\ \A x, y \in SetRow(row, state, n) : SameRow(x, y) => x = y
         /\ \A x \in SetRow(row, state, n) : x.at <= clock
<1>0. ASSUME NEW x \in SetRow(row, state, n)
      PROVE  \E r \in outbox : /\ x = IF SameRow(r, row) THEN Marked(r, state, n) ELSE r
                               /\ x.anime = r.anime /\ x.at = r.at
  BY MarkedType DEF SetRow
<1>1. ASSUME NEW x \in SetRow(row, state, n), NEW y \in SetRow(row, state, n), SameRow(x, y)
      PROVE  x = y
  <2>1. PICK r \in outbox : /\ x = IF SameRow(r, row) THEN Marked(r, state, n) ELSE r
                            /\ x.anime = r.anime /\ x.at = r.at
    BY <1>0
  <2>2. PICK s \in outbox : /\ y = IF SameRow(s, row) THEN Marked(s, state, n) ELSE s
                            /\ y.anime = s.anime /\ y.at = s.at
    BY <1>0
  <2>3. r = s BY <1>1, <2>1, <2>2 DEF Numbered, SameRow
  <2> QED BY <2>1, <2>2, <2>3
<1>2. ASSUME NEW x \in SetRow(row, state, n) PROVE x.at <= clock
  BY <1>0 DEF Numbered
<1> QED BY <1>1, <1>2

LEMMA InitInv == Init => IInv
BY DEF Init, IInv, Numbered, BatchApart, BatchFresh, WorkerOwnsItem, AckMeansDelivered,
       AttemptsMatchState, NoItem

\* Steps that leave the worker and the outbox alone and only make the remote
\* list newer.
LEMMA QuietInv ==
  ASSUME Typed, IInv, UNCHANGED <<outbox, workerVars>>, clock' \in Edit, clock' >= clock,
         \A a \in Anime, f \in Field : \/ remote'[a].ver[f] = remote[a].ver[f]
                                       \/ remote'[a].ver[f] = clock'
  PROVE  IInv'
<1> USE DEF Typed, IInv, workerVars
<1>1. Numbered'
  <2>1. \A r \in Row : r.at \in Int BY LimitAssumption DEF Row, Edit
  <2>2. clock \in Int /\ clock' \in Int BY LimitAssumption DEF TypeOK, Edit
  <2> QED BY <2>1, <2>2 DEF Numbered, SameRow, TypeOK
<1>2. BatchApart' BY DEF BatchApart, SameRow
<1>3. BatchFresh' BY DEF BatchFresh, SameRow
<1>4. WorkerOwnsItem' BY DEF WorkerOwnsItem, SameRow
<1>5. AckMeansDelivered'
  <2> SUFFICES ASSUME wpc = "ack", NEW f \in item.fields
               PROVE  remote'[item.anime].ver[f] >= item.at
    BY DEF AckMeansDelivered
  <2>1. item \in Row /\ item # NoItem BY DEF TypeOK, HoldsItem
  <2>2. f \in Field /\ item.anime \in Anime /\ item.at \in Int
    BY <2>1, LimitAssumption DEF Row, Edit
  <2>3. remote[item.anime].ver[f] >= item.at BY DEF AckMeansDelivered
  <2>4. item.at <= clock /\ clock \in Int /\ clock' \in Int
    BY <2>1, LimitAssumption DEF Numbered, TypeOK, Edit
  <2> QED BY <2>2, <2>3, <2>4
<1>6. AttemptsMatchState' BY DEF AttemptsMatchState
<1> QED BY <1>1, <1>2, <1>3, <1>4, <1>5, <1>6

\* Steps that only take rows out of the outbox, or put the worker's row down.
LEMMA RemovalInv ==
  ASSUME Typed, IInv, outbox' \subseteq outbox, UNCHANGED <<clock, remote>>,
         \/ UNCHANGED workerVars
         \/ item' = NoItem /\ batch' = batch /\ wpc' = IF batch = {} THEN "idle" ELSE "next"
         \/ WorkerRestarts
  PROVE  IInv'
<1> USE DEF IInv, workerVars, WorkerRestarts
<1>0. item' \in {item, NoItem} /\ batch' \in {batch, {}} /\ (wpc' = "ack" => wpc = "ack" /\ item' = item)
  OBVIOUS
<1>1. Numbered' BY <1>0 DEF Numbered, SameRow
<1>2. BatchApart' BY <1>0 DEF BatchApart, SameRow
<1>3. BatchFresh' BY <1>0 DEF BatchFresh, SameRow
<1>4. WorkerOwnsItem' BY DEF WorkerOwnsItem, SameRow
<1>5. AckMeansDelivered' BY <1>0 DEF AckMeansDelivered
<1>6. AttemptsMatchState' BY DEF AttemptsMatchState
<1> QED BY <1>1, <1>2, <1>3, <1>4, <1>5, <1>6

\* The row of an edit made now is newer than every row there is.
LEMMA EnqueueInv ==
  ASSUME Typed, IInv, NEW S \in SUBSET Anime, NEW fields, Enqueue(S, fields)
  PROVE  IInv'
<1> USE DEF IInv
<1> DEFINE New == {[anime |-> a, at |-> clock', fields |-> fields,
                    state |-> "pending", attempts |-> 0] : a \in S}
<1>1. /\ UNCHANGED workerVars /\ remote' = remote
      /\ clock' = clock + 1 /\ clock \in Int
      /\ \A r \in outbox' : r \in outbox \/ r \in New
  BY LimitAssumption DEF Enqueue, Typed, TypeOK, Edit
<1>2. \A r \in New : r.at = clock + 1 /\ r.state = "pending" /\ r.attempts = 0
  BY <1>1
<1>3. \A r, s \in New : SameRow(r, s) => r = s BY <1>1 DEF SameRow
<1>4. /\ \A r \in outbox \cup batch : r.at \in Int /\ r.at <= clock
      /\ item # NoItem => item.at \in Int /\ item.at <= clock
  BY LimitAssumption DEF Numbered, Typed, TypeOK, Row, Edit
<1>5. /\ \A r \in New, s \in outbox \cup batch : ~SameRow(r, s) /\ ~SameRow(s, r)
      /\ item # NoItem => \A r \in New : ~SameRow(r, item)
  BY <1>1, <1>2, <1>4 DEF SameRow
<1> HIDE DEF New
<1>6. Numbered' BY <1>1, <1>2, <1>3, <1>4, <1>5 DEF Numbered, SameRow, workerVars
<1>7. BatchApart' BY <1>1 DEF BatchApart, SameRow, workerVars
<1>8. BatchFresh' BY <1>1, <1>5 DEF BatchFresh, SameRow, workerVars
<1>9. WorkerOwnsItem' BY <1>1, <1>5 DEF WorkerOwnsItem, SameRow, workerVars
<1>10. AckMeansDelivered' BY <1>1 DEF AckMeansDelivered, workerVars
<1>11. AttemptsMatchState' BY <1>1, <1>2 DEF AttemptsMatchState
<1> QED BY <1>6, <1>7, <1>8, <1>9, <1>10, <1>11

LEMMA RetryInv ==
  ASSUME Typed, IInv, NEW a \in Anime, Retry(a)
  PROVE  IInv'
<1> USE DEF IInv
<1>1. UNCHANGED <<workerVars, clock, remote>> BY DEF Retry
<1>2. ASSUME NEW x \in outbox'
      PROVE  \E r \in outbox : /\ x.anime = r.anime /\ x.at = r.at
                               /\ x = IF r.anime = a /\ r.state = "failed"
                                      THEN Marked(r, "pending", 0) ELSE r
                               /\ \/ x = r
                                  \/ r.state = "failed" /\ x.state = "pending" /\ x.attempts = 0
  <2>1. PICK r \in outbox : x = IF r.anime = a /\ r.state = "failed"
                               THEN Marked(r, "pending", 0) ELSE r
    BY DEF Retry
  <2>2. r \in Row /\ 0 \in 0..MaxAttempts BY LimitAssumption DEF Typed, TypeOK
  <2> QED BY <2>1, <2>2, MarkedType
<1>3. Numbered'
  <2>1. ASSUME NEW x \in outbox', NEW y \in outbox', SameRow(x, y) PROVE x = y
    <3>1. PICK r \in outbox : /\ x.anime = r.anime /\ x.at = r.at
                              /\ x = IF r.anime = a /\ r.state = "failed"
                                     THEN Marked(r, "pending", 0) ELSE r
      BY <1>2
    <3>2. PICK s \in outbox : /\ y.anime = s.anime /\ y.at = s.at
                              /\ y = IF s.anime = a /\ s.state = "failed"
                                     THEN Marked(s, "pending", 0) ELSE s
      BY <1>2
    <3>3. r = s BY <2>1, <3>1, <3>2 DEF Numbered, SameRow
    <3> QED BY <3>1, <3>2, <3>3
  <2> QED BY <1>1, <1>2, <2>1 DEF Numbered, SameRow, workerVars
<1>4. BatchApart' BY <1>1 DEF BatchApart, SameRow, workerVars
<1>5. BatchFresh' BY <1>1, <1>2 DEF BatchFresh, SameRow, workerVars
<1>6. WorkerOwnsItem' BY <1>1, <1>2 DEF WorkerOwnsItem, SameRow, workerVars
<1>7. AckMeansDelivered' BY <1>1 DEF AckMeansDelivered, workerVars
<1>8. AttemptsMatchState' BY <1>2 DEF AttemptsMatchState
<1> QED BY <1>3, <1>4, <1>5, <1>6, <1>7, <1>8

LEMMA DrainInv == ASSUME Typed, IInv, Drain PROVE IInv'
<1> USE DEF IInv
<1>1. /\ batch' \subseteq outbox
      /\ \A r \in batch' : r.state \in {"pending", "in_progress"}
      /\ UNCHANGED <<clock, outbox, remote, item, attempt>>
      /\ item = NoItem /\ wpc' = "next"
  BY DEF Drain, Due, Typed, HoldsItem
<1>2. Numbered' BY <1>1 DEF Numbered, SameRow
<1>3. BatchApart' BY <1>1 DEF BatchApart, Numbered, SameRow
<1>4. BatchFresh' BY <1>1 DEF BatchFresh, Numbered, SameRow
<1> QED BY <1>1, <1>2, <1>3, <1>4
        DEF WorkerOwnsItem, AckMeansDelivered, AttemptsMatchState

\* Take, PushFails and GiveUp change the outbox by SetRow alone: what is common.
LEMMA SetRowInv ==
  ASSUME Typed, IInv, NEW row,
         NEW state \in {"in_progress", "failed"}, NEW n \in 0..MaxAttempts,
         outbox' = SetRow(row, state, n), state = "failed" => n = MaxAttempts
  PROVE  /\ \A x, y \in outbox' : SameRow(x, y) => x = y
         /\ \A x \in outbox' : x.at <= clock
         /\ AttemptsMatchState'
         /\ \A x \in outbox' : SameRow(x, row) => x.state = state /\ x.attempts = n
         /\ \A x \in outbox' : ~SameRow(x, row) => x \in outbox
<1> USE DEF IInv
<1>1. outbox \subseteq Row BY DEF Typed, TypeOK
<1>2. ASSUME NEW x \in outbox'
      PROVE  \E r \in outbox : /\ x.anime = r.anime /\ x.at = r.at
                               /\ SameRow(r, row) => x.state = state /\ x.attempts = n
                               /\ ~SameRow(r, row) => x = r
  <2>1. PICK r \in outbox : x = IF SameRow(r, row) THEN Marked(r, state, n) ELSE r
    BY DEF SetRow
  <2> QED BY <1>1, <2>1, MarkedType
<1>3. AttemptsMatchState' BY <1>2 DEF AttemptsMatchState
<1>4. \A x \in outbox' : SameRow(x, row) => x.state = state /\ x.attempts = n
  BY <1>2 DEF SameRow
<1>5. \A x \in outbox' : ~SameRow(x, row) => x \in outbox
  BY <1>2 DEF SameRow
<1> QED BY <1>1, <1>3, <1>4, <1>5, SetRowNumbered

LEMMA TakeInv == ASSUME Typed, Typed', IInv, Take PROVE IInv'
<1> USE DEF IInv
<1>1. PICK r \in batch : /\ item' = r /\ attempt' = r.attempts
                         /\ batch' = batch \ {r}
                         /\ outbox' = SetRow(r, "in_progress", r.attempts)
  BY DEF Take
<1>2. r \in Row /\ r.attempts \in 0..MaxAttempts BY DEF Typed, TypeOK, Row
<1>3. /\ UNCHANGED <<clock, remote>> /\ wpc' = "push" BY DEF Take
<1>4. /\ \A x, y \in outbox' : SameRow(x, y) => x = y
      /\ \A x \in outbox' : x.at <= clock
      /\ AttemptsMatchState'
      /\ \A x \in outbox' : SameRow(x, r) => x.state = "in_progress" /\ x.attempts = r.attempts
      /\ \A x \in outbox' : ~SameRow(x, r) => x \in outbox
  BY <1>1, <1>2, SetRowInv
<1>5. Numbered' BY <1>1, <1>3, <1>4 DEF Numbered, SameRow
<1>6. BatchApart' BY <1>1, <1>3 DEF BatchApart, SameRow
<1>7. BatchFresh' BY <1>1, <1>4 DEF BatchFresh, BatchApart, SameRow
<1>8. WorkerOwnsItem' BY <1>1, <1>4 DEF WorkerOwnsItem, SameRow
<1>9. AckMeansDelivered' BY <1>3 DEF AckMeansDelivered
<1> QED BY <1>4, <1>5, <1>6, <1>7, <1>8, <1>9

LEMMA PushOkInv == ASSUME Typed, IInv, PushOk PROVE IInv'
<1> USE DEF IInv
<1>1. UNCHANGED <<clock, outbox, batch, item, attempt>> /\ wpc = "push" /\ wpc' = "ack"
  BY DEF PushOk
<1>2. item \in Row /\ item # NoItem BY <1>1 DEF Typed, TypeOK, HoldsItem
<1>3. AckMeansDelivered'
  <2>1. \A f \in item.fields : f \in Field BY <1>2 DEF Row
  <2>2. remote'[item.anime] = [on |-> TRUE, ver |-> Write(remote[item.anime].ver, item.fields, item.at)]
    BY <1>2 DEF PushOk, Deliver, Typed, TypeOK, Row
  <2>3. \A f \in item.fields : remote'[item.anime].ver[f] = item.at
    BY <2>1, <2>2 DEF Write
  <2>4. item.at \in Int BY <1>2, LimitAssumption DEF Row, Edit
  <2> QED BY <1>1, <2>3, <2>4 DEF AckMeansDelivered
<1> QED BY <1>1, <1>3
        DEF Numbered, BatchApart, BatchFresh, WorkerOwnsItem, AttemptsMatchState, SameRow

LEMMA PushFailsInv == ASSUME Typed, IInv, PushFails PROVE IInv'
<1> USE DEF IInv
<1>1. /\ UNCHANGED <<clock, batch, item, wpc>> /\ wpc = "push"
      /\ outbox' = SetRow(item, "in_progress", attempt') /\ attempt' \in 0..MaxAttempts
  BY LimitAssumption DEF PushFails, Typed, TypeOK
<1>2. /\ \A x, y \in outbox' : SameRow(x, y) => x = y
      /\ \A x \in outbox' : x.at <= clock
      /\ AttemptsMatchState'
      /\ \A x \in outbox' : SameRow(x, item) => x.state = "in_progress" /\ x.attempts = attempt'
      /\ \A x \in outbox' : ~SameRow(x, item) => x \in outbox
  BY <1>1, SetRowInv
<1>3. Numbered' BY <1>1, <1>2 DEF Numbered, SameRow
<1>4. BatchApart' BY <1>1 DEF BatchApart, SameRow
<1>5. BatchFresh'
  BY <1>1, <1>2 DEF BatchFresh, BatchApart, SameRow, Typed, HoldsItem
<1>6. WorkerOwnsItem' BY <1>1, <1>2 DEF WorkerOwnsItem, SameRow
<1>7. AckMeansDelivered' BY <1>1 DEF AckMeansDelivered
<1> QED BY <1>2, <1>3, <1>4, <1>5, <1>6, <1>7

LEMMA GiveUpInv == ASSUME Typed, IInv, GiveUp PROVE IInv'
<1> USE DEF IInv
<1>1. /\ UNCHANGED <<clock, batch, remote>> /\ item' = NoItem /\ wpc' \in {"idle", "next"}
      /\ wpc' = "idle" => batch = {}
      /\ outbox' = SetRow(item, "failed", attempt)
      /\ attempt \in 0..MaxAttempts /\ attempt = MaxAttempts /\ item # NoItem
  BY LimitAssumption DEF GiveUp, ItemDone, Typed, TypeOK, HoldsItem
<1>2. /\ \A x, y \in outbox' : SameRow(x, y) => x = y
      /\ \A x \in outbox' : x.at <= clock
      /\ AttemptsMatchState'
      /\ \A x \in outbox' : ~SameRow(x, item) => x \in outbox
  BY <1>1, SetRowInv
<1>3. Numbered' BY <1>1, <1>2 DEF Numbered, SameRow
<1>4. BatchApart' BY <1>1 DEF BatchApart, SameRow
<1>5. BatchFresh' BY <1>1, <1>2 DEF BatchFresh, BatchApart, SameRow
<1>6. WorkerOwnsItem' /\ AckMeansDelivered' BY <1>1 DEF WorkerOwnsItem, AckMeansDelivered
<1> QED BY <1>2, <1>3, <1>4, <1>5, <1>6

LEMMA CardInv ==
  ASSUME Typed, Typed', IInv, NEW e \in Editors, UiPush(e) \/ UiWrite(e) \/ UiClear(e)
  PROVE  IInv'
<1>0. clock \in Int /\ clock' \in Edit /\ clock \in Edit
  BY LimitAssumption DEF Typed, TypeOK, Edit
<1>1. CASE UiPush(e)
  <2> PICK kind \in EditKind, a \in Anime :
        remote' = [remote EXCEPT ![a] = [on  |-> kind # "delete",
                                         ver |-> Write(@.ver, FieldsOf(kind), clock')]]
    BY <1>1 DEF UiPush
  <2>1. \A b \in Anime, f \in Field : \/ remote'[b].ver[f] = remote[b].ver[f]
                                      \/ remote'[b].ver[f] = clock'
    BY DEF Typed, TypeOK, Write
  <2>2. UNCHANGED <<outbox, workerVars>> /\ clock' = clock + 1 BY <1>1 DEF UiPush
  <2>3. clock' \in Edit /\ clock' >= clock BY <1>0, <2>2
  <2> QED BY <2>1, <2>2, <2>3, QuietInv
<1>2. CASE UiWrite(e)
  <2>1. UNCHANGED <<outbox, workerVars, clock, remote>> BY <1>2 DEF UiWrite
  <2> QED BY <1>0, <2>1, QuietInv
<1>3. CASE UiClear(e)
  <2>1. outbox' \subseteq outbox /\ UNCHANGED <<workerVars, clock, remote>>
    BY <1>3 DEF UiClear
  <2> QED BY <2>1, RemovalInv
<1> QED BY <1>1, <1>2, <1>3

LEMMA WorkerInv == ASSUME Typed, Typed', IInv, Worker \/ DrainFails PROVE IInv'
<1>1. CASE Ack
  <2>1. /\ outbox' \subseteq outbox /\ UNCHANGED <<clock, remote>>
        /\ item' = NoItem /\ batch' = batch /\ wpc' = IF batch = {} THEN "idle" ELSE "next"
    BY <1>1 DEF Ack, ItemDone
  <2> QED BY <2>1, RemovalInv
<1>2. CASE DrainFails
  <2>1. outbox' \subseteq outbox /\ UNCHANGED <<clock, remote>> /\ WorkerRestarts
    BY <1>2 DEF DrainFails
  <2> QED BY <2>1, RemovalInv
<1> QED BY <1>1, <1>2, DrainInv, TakeInv, PushOkInv, PushFailsInv, GiveUpInv DEF Worker

\* Every step of the worker, the handlers and the pull keeps the invariant.
THEOREM StepInv == Typed /\ Typed' /\ IInv /\ [Next]_vars => IInv'
<1> SUFFICES ASSUME Typed, Typed', IInv, [Next]_vars PROVE IInv'
  OBVIOUS
<1>0. clock \in Int /\ clock' \in Edit /\ clock \in Edit
  BY LimitAssumption DEF Typed, TypeOK, Edit
<1>1. CASE BulkSetStatus BY <1>1, EnqueueInv DEF BulkSetStatus
<1>2. CASE ProviderUpdate BY <1>2, EnqueueInv DEF ProviderUpdate
<1>3. ASSUME NEW a \in Anime, Retry(a) PROVE IInv' BY <1>3, RetryInv
<1>4. CASE Worker \/ DrainFails BY <1>4, WorkerInv
<1>5. ASSUME NEW e \in Editors, UiPush(e) \/ UiWrite(e) \/ UiClear(e) PROVE IInv'
  BY <1>5, CardInv
<1>6. CASE PullFetch \/ PullApply
  <2>1. UNCHANGED <<outbox, workerVars, clock, remote>> BY <1>6 DEF PullFetch, PullApply
  <2> QED BY <1>0, <2>1, QuietInv
<1>7. CASE RemoteEdit
  <2> PICK a \in Anime, f \in Field :
        remote' = [remote EXCEPT ![a] = [on |-> TRUE, ver |-> Write(@.ver, {f}, clock')]]
    BY <1>7 DEF RemoteEdit
  <2>1. \A b \in Anime, g \in Field : \/ remote'[b].ver[g] = remote[b].ver[g]
                                      \/ remote'[b].ver[g] = clock'
    BY DEF Typed, TypeOK, Write
  <2>2. UNCHANGED <<outbox, workerVars>> /\ clock' = clock + 1 BY <1>7 DEF RemoteEdit
  <2>3. clock' \in Edit /\ clock' >= clock BY <1>0, <2>2
  <2> QED BY <2>1, <2>2, <2>3, QuietInv
<1>8. CASE Crash
  <2>1. outbox' \subseteq outbox /\ UNCHANGED <<clock, remote>> /\ WorkerRestarts
    BY <1>8 DEF Crash
  <2> QED BY <2>1, RemovalInv
<1>9. CASE UNCHANGED vars
  <2>1. UNCHANGED <<outbox, workerVars, clock, remote>> BY <1>9 DEF vars, workerVars
  <2> QED BY <1>0, <2>1, QuietInv
<1> QED BY <1>1, <1>2, <1>3, <1>4, <1>5, <1>6, <1>7, <1>8, <1>9 DEF Next

\* Types and invariant hold in every reachable state (outbox.py, main.py's edits).
THEOREM Invariance == Spec => [](Typed /\ IInv)
<1>1. Init => Typed /\ IInv BY InitType, InitInv
<1>2. Typed /\ IInv /\ [Next]_vars => (Typed /\ IInv)' BY StepType, StepInv
<1> QED BY <1>1, <1>2, PTL DEF Spec

\* No write, retry, card edit or restart takes the worker's row from it or changes
\* its attempt count behind its back.
THEOREM WorkerOwnership == Spec => []WorkerOwnsItem
<1>1. IInv => WorkerOwnsItem BY DEF IInv
<1> QED BY <1>1, Invariance, PTL

\* The worker deletes a row, and marks its entry synced, only when AniList holds
\* the row's values or newer ones.
THEOREM DeliveredBeforeAck == Spec => []AckMeansDelivered
<1>1. IInv => AckMeansDelivered BY DEF IInv
<1> QED BY <1>1, Invariance, PTL

\* A failed row used up its attempts and a waiting row has all of them left.
THEOREM AttemptAccounting == Spec => []AttemptsMatchState
<1>1. IInv => AttemptsMatchState BY DEF IInv
<1> QED BY <1>1, Invariance, PTL

-----------------------------------------------------------------------------
(***************************************************************************)
(* What the refinement needs beside IInv: the worker's copies of a row     *)
(* carry the fields of the row itself, and only status edits clear rows.   *)
(***************************************************************************)
FieldsAgree == \A r \in outbox, b \in batch \cup {item} :
                 b # NoItem /\ SameRow(r, b) => r.fields = b.fields

ClearIsStatus == \A e \in Editors : ui[e].pc = "clear" => ui[e].kind = "status"

RInv == Typed /\ IInv /\ FieldsAgree /\ ClearIsStatus

-----------------------------------------------------------------------------
(* The two additional invariants.                                          *)

\* Steps that change no row's fields and add no row.
LEMMA FieldsKept ==
  ASSUME FieldsAgree, batch' \subseteq batch, item' \in batch \cup {item, NoItem},
         \A x \in outbox' : \E r \in outbox : /\ x.anime = r.anime /\ x.at = r.at
                                              /\ x.fields = r.fields
  PROVE  FieldsAgree'
<1> SUFFICES ASSUME NEW x \in outbox', NEW b \in batch' \cup {item'}, b # NoItem, SameRow(x, b)
             PROVE  x.fields = b.fields
  BY DEF FieldsAgree, SameRow
<1>1. PICK r \in outbox : x.anime = r.anime /\ x.at = r.at /\ x.fields = r.fields
  OBVIOUS
<1> QED BY <1>1 DEF FieldsAgree, SameRow

LEMMA MarkedFields ==
  ASSUME NEW r \in Row, NEW state \in {"pending", "in_progress", "failed"}, NEW n \in 0..MaxAttempts
  PROVE  Marked(r, state, n).fields = r.fields
BY Zenon DEF Marked, Row

LEMMA SetRowFields ==
  ASSUME outbox \subseteq Row, NEW row,
         NEW state \in {"pending", "in_progress", "failed"}, NEW n \in 0..MaxAttempts
  PROVE  \A x \in SetRow(row, state, n) : \E r \in outbox :
           /\ x = IF SameRow(r, row) THEN Marked(r, state, n) ELSE r
           /\ x.anime = r.anime /\ x.at = r.at /\ x.fields = r.fields
           /\ x.state = IF SameRow(r, row) THEN state ELSE r.state
<1> SUFFICES ASSUME NEW x \in SetRow(row, state, n)
             PROVE  \E r \in outbox :
                      /\ x = IF SameRow(r, row) THEN Marked(r, state, n) ELSE r
                      /\ x.anime = r.anime /\ x.at = r.at /\ x.fields = r.fields
                      /\ x.state = IF SameRow(r, row) THEN state ELSE r.state
  OBVIOUS
<1>1. PICK r \in outbox : x = IF SameRow(r, row) THEN Marked(r, state, n) ELSE r
  BY DEF SetRow
<1>2. r \in Row OBVIOUS
<1> QED BY <1>1, <1>2, MarkedType, MarkedFields

LEMMA RetryRows ==
  ASSUME outbox \subseteq Row, NEW a \in Anime, Retry(a)
  PROVE  \A x \in outbox' : \E r \in outbox :
           /\ x = IF r.anime = a /\ r.state = "failed" THEN Marked(r, "pending", 0) ELSE r
           /\ x.anime = r.anime /\ x.at = r.at /\ x.fields = r.fields
           /\ x.state = IF r.anime = a /\ r.state = "failed" THEN "pending" ELSE r.state
<1> SUFFICES ASSUME NEW x \in outbox'
             PROVE  \E r \in outbox :
                      /\ x = IF r.anime = a /\ r.state = "failed" THEN Marked(r, "pending", 0) ELSE r
                      /\ x.anime = r.anime /\ x.at = r.at /\ x.fields = r.fields
                      /\ x.state = IF r.anime = a /\ r.state = "failed" THEN "pending" ELSE r.state
  OBVIOUS
<1>1. PICK r \in outbox : x = IF r.anime = a /\ r.state = "failed"
                               THEN Marked(r, "pending", 0) ELSE r
  BY DEF Retry
<1>2. r \in Row /\ 0 \in 0..MaxAttempts BY LimitAssumption
<1>3. /\ Marked(r, "pending", 0).anime = r.anime /\ Marked(r, "pending", 0).at = r.at
      /\ Marked(r, "pending", 0).fields = r.fields /\ Marked(r, "pending", 0).state = "pending"
  BY <1>2, MarkedType, MarkedFields
<1> QED BY <1>1, <1>3

LEMMA EnqueueFields ==
  ASSUME RInv, NEW S \in SUBSET Anime, NEW fields, Enqueue(S, fields)
  PROVE  FieldsAgree'
<1>1. UNCHANGED <<batch, item>> BY DEF Enqueue, workerVars
<1>2. \A b \in batch \cup {item} : b # NoItem => b.at \in Int /\ b.at < clock'
  BY LimitAssumption DEF RInv, IInv, Numbered, Typed, TypeOK, Row, Edit, Enqueue
<1>3. \A r \in outbox' : r \in outbox \/ r.at = clock' BY DEF Enqueue
<1> QED BY <1>1, <1>2, <1>3 DEF RInv, FieldsAgree, SameRow

LEMMA StepFields == RInv /\ [Next]_vars => FieldsAgree'
<1> SUFFICES ASSUME RInv, [Next]_vars PROVE FieldsAgree'
  OBVIOUS
<1>0. outbox \subseteq Row /\ batch \subseteq Row /\ attempt \in 0..MaxAttempts /\ FieldsAgree
  BY DEF RInv, Typed, TypeOK
<1>1. CASE BulkSetStatus BY <1>1, EnqueueFields DEF BulkSetStatus
<1>2. CASE ProviderUpdate BY <1>2, EnqueueFields DEF ProviderUpdate
<1>3. ASSUME NEW a \in Anime, Retry(a) PROVE FieldsAgree'
  <2>1. UNCHANGED <<batch, item>> BY <1>3 DEF Retry, workerVars
  <2>3. \A x \in outbox' : \E r \in outbox : x.anime = r.anime /\ x.at = r.at /\ x.fields = r.fields
    BY <1>0, <1>3, RetryRows
  <2> QED BY <1>0, <2>1, <2>3, FieldsKept
<1>4. CASE Drain
  <2>1. batch' \subseteq outbox /\ outbox' = outbox /\ item' = NoItem
    BY <1>4 DEF Drain, Due, RInv, Typed, HoldsItem
  <2> QED BY <1>0, <2>1 DEF FieldsAgree, SameRow, RInv, IInv, Numbered
<1>5. CASE Take
  <2>1. PICK r \in batch : /\ item' = r /\ batch' = batch \ {r}
                           /\ outbox' = SetRow(r, "in_progress", r.attempts)
    BY <1>5 DEF Take
  <2>2. r.attempts \in 0..MaxAttempts BY <1>0 DEF Row
  <2>3. \A x \in outbox' : \E s \in outbox : x.anime = s.anime /\ x.at = s.at /\ x.fields = s.fields
    BY <1>0, <2>1, <2>2, SetRowFields
  <2> QED BY <1>0, <2>1, <2>3, FieldsKept
<1>6. CASE PushFails
  <2>1. attempt' \in 0..MaxAttempts BY <1>0, <1>6, LimitAssumption DEF PushFails
  <2>2. UNCHANGED <<batch, item>> /\ outbox' = SetRow(item, "in_progress", attempt')
    BY <1>6 DEF PushFails
  <2>3. \A x \in outbox' : \E s \in outbox : x.anime = s.anime /\ x.at = s.at /\ x.fields = s.fields
    BY <1>0, <2>1, <2>2, SetRowFields
  <2> QED BY <1>0, <2>2, <2>3, FieldsKept
<1>7. CASE GiveUp
  <2>1. batch' = batch /\ item' = NoItem /\ outbox' = SetRow(item, "failed", attempt)
    BY <1>7 DEF GiveUp, ItemDone
  <2>2. \A x \in outbox' : \E s \in outbox : x.anime = s.anime /\ x.at = s.at /\ x.fields = s.fields
    BY <1>0, <2>1, SetRowFields
  <2> QED BY <1>0, <2>1, <2>2, FieldsKept
<1>8. ASSUME outbox' \subseteq outbox, batch' \subseteq batch, item' \in {item, NoItem}
      PROVE  FieldsAgree'
  BY <1>0, <1>8, FieldsKept
<1>9. CASE PushOk \/ Ack \/ DrainFails \/ PullFetch \/ PullApply \/ RemoteEdit \/ Crash
  BY <1>8, <1>9 DEF PushOk, Ack, ItemDone, DrainFails, WorkerRestarts, PullFetch, PullApply,
                    RemoteEdit, Crash, workerVars
<1>10. ASSUME NEW e \in Editors, UiPush(e) \/ UiWrite(e) \/ UiClear(e) PROVE FieldsAgree'
  BY <1>8, <1>10 DEF UiPush, UiWrite, UiClear, workerVars
<1>11. CASE UNCHANGED vars BY <1>8, <1>11 DEF vars
<1> QED BY <1>1, <1>2, <1>3, <1>4, <1>5, <1>6, <1>7, <1>9, <1>10, <1>11 DEF Next, Worker

LEMMA StepClear == RInv /\ [Next]_vars => ClearIsStatus'
<1> SUFFICES ASSUME RInv, [Next]_vars PROVE ClearIsStatus'
  OBVIOUS
<1>0. ui \in [Editors -> Session] /\ ClearIsStatus BY DEF RInv, Typed, TypeOK
<1>1. CASE UNCHANGED ui BY <1>0, <1>1 DEF ClearIsStatus
<1>2. ASSUME NEW e \in Editors, UiPush(e) PROVE ClearIsStatus'
  BY <1>0, <1>2 DEF UiPush, ClearIsStatus
<1>3. ASSUME NEW e \in Editors, UiWrite(e) PROVE ClearIsStatus'
  <2>1. ui'[e].pc = "clear" => ui'[e].kind = "status"
    <3>1. CASE ui[e].kind = "status"
      <4>1. ui[e] \in [pc: {"write", "clear"}, kind: EditKind, anime: Anime, at: Edit]
        BY <1>0, <1>3 DEF UiWrite, Session, Idle
      <4> QED BY <1>0, <1>3, <3>1, <4>1 DEF UiWrite
    <3>2. CASE ui[e].kind # "status" BY <1>0, <1>3, <3>2 DEF UiWrite, Idle
    <3> QED BY <3>1, <3>2
  <2>2. \A d \in Editors : d # e => ui'[d] = ui[d] BY <1>0, <1>3 DEF UiWrite
  <2> QED BY <1>0, <2>1, <2>2 DEF ClearIsStatus
<1>4. ASSUME NEW e \in Editors, UiClear(e) PROVE ClearIsStatus'
  BY <1>0, <1>4 DEF UiClear, ClearIsStatus, Idle
<1>5. CASE Crash BY <1>5 DEF Crash, ClearIsStatus, Idle
<1>6. CASE BulkSetStatus \/ ProviderUpdate \/ (\E a \in Anime : Retry(a)) \/ Worker \/ DrainFails
           \/ PullFetch \/ PullApply \/ RemoteEdit \/ UNCHANGED vars
  BY <1>1, <1>6 DEF BulkSetStatus, ProviderUpdate, Enqueue, Retry, Worker, Drain, Take, PushOk,
                    PushFails, Ack, GiveUp, DrainFails, PullFetch, PullApply, RemoteEdit, vars
<1> QED BY <1>2, <1>3, <1>4, <1>5, <1>6 DEF Next

\* The worker's copies of rows agree with the table and only status edits clear
\* rows, in every reachable state (_drain_once, the card handlers).
THEOREM RefinementInvariant == Spec => []RInv
<1>1. Init => FieldsAgree /\ ClearIsStatus
  BY DEF Init, FieldsAgree, ClearIsStatus, NoItem, Idle
<1>2. RInv /\ [Next]_vars => RInv'
  <2> SUFFICES ASSUME RInv, [Next]_vars PROVE RInv'
    OBVIOUS
  <2>1. Typed' BY StepType DEF RInv
  <2>2. IInv' BY <2>1, StepInv DEF RInv
  <2> QED BY <2>1, <2>2, StepFields, StepClear DEF RInv
<1>3. Init => RInv BY <1>1, InitType, InitInv DEF RInv
<1> QED BY <1>2, <1>3, PTL DEF Spec
-----------------------------------------------------------------------------
(* The refinement, one lemma per kind of step.                             *)

Live  == {"pending", "in_progress"}
Owed  == Updates({"pending", "in_progress"})
Shelf == Updates({"failed"})
Held  == [a \in Anime |-> remote[a].ver]
CardOf(e) == IF ui[e].pc # "idle" /\ ui[e].kind = "status"
             THEN [anime |-> ui[e].anime] ELSE [anime |-> "none"]
Cards == [e \in Editors |-> CardOf(e)]

Of(r) == [anime |-> r.anime, at |-> r.at, fields |-> r.fields]

\* What DNext allows, or nothing.
Allowed == Promise!DNext \/ UNCHANGED <<Owed, Shelf, Held, Cards>>

LEMMA UpdatesFacts ==
  /\ Owed = {Of(r) : r \in {s \in outbox : s.state \in Live}}
  /\ Shelf = {Of(r) : r \in {s \in outbox : s.state = "failed"}}
BY DEF Owed, Shelf, Updates, Of, Live

\* Rows that stay in the table in the same role, by whatever marking.
LEMMA SameUpdates ==
  ASSUME \A x \in outbox' : \E r \in outbox :
           /\ x.anime = r.anime /\ x.at = r.at /\ x.fields = r.fields
           /\ (x.state \in Live <=> r.state \in Live) /\ (x.state = "failed" <=> r.state = "failed"),
         \A r \in outbox : \E x \in outbox' :
           /\ x.anime = r.anime /\ x.at = r.at /\ x.fields = r.fields
           /\ (x.state \in Live <=> r.state \in Live) /\ (x.state = "failed" <=> r.state = "failed")
  PROVE  Owed' = Owed /\ Shelf' = Shelf
<1>1. ASSUME NEW u PROVE u \in Owed <=> u \in Owed'
  BY DEF Owed, Updates, Live
<1>2. ASSUME NEW u PROVE u \in Shelf <=> u \in Shelf'
  BY DEF Shelf, Updates
<1> QED BY <1>1, <1>2

\* The promise's actions in terms of the mapped variables.
LEMMA MayQueue ==
  ASSUME UNCHANGED <<Held, Cards>>, Owed' \ Owed # {},
         \A u, v \in Owed' \ Owed : u.at = v.at /\ u.fields = v.fields,
         \A u \in Owed' \ Owed, v \in Owed \cup Shelf : v.at < u.at,
         \A u \in Owed : u \in Owed' \/ \E v \in Owed' \ Owed : v.anime = u.anime,
         \A u \in Shelf : u \in Shelf' <=> ~\E v \in Owed' \ Owed : v.anime = u.anime,
         Shelf' \subseteq Shelf
  PROVE  Allowed
BY DEF Allowed, Promise!DNext, Promise!Queue, Owed, Shelf, Held, Cards, CardOf

LEMMA MayAccept ==
  ASSUME UNCHANGED <<Owed, Shelf>>, NEW a \in Anime, NEW n \in Edit,
         \A b \in Anime, f \in Field : Held'[b][f] = Held[b][f] \/ (b = a /\ Held'[b][f] = n),
         \/ UNCHANGED Cards
         \/ \E e \in Editors : /\ Cards[e] = [anime |-> "none"]
                               /\ Cards' = [Cards EXCEPT ![e] = [anime |-> a]]
  PROVE  Allowed
<1>1. \A b \in Anime, f \in Field : Held'[b][f] \in {Held[b][f]} \cup (IF b = a THEN {n} ELSE {})
  OBVIOUS
<1>2. \/ UNCHANGED Cards
      \/ \E e \in Editors : /\ Cards[e] = Promise!NoCard
                            /\ Cards' = [Cards EXCEPT ![e] = Promise!Card(a)]
  BY DEF Promise!NoCard, Promise!Card
<1>3. Promise!Accept BY <1>1, <1>2, Zenon DEF Promise!Accept, Owed, Shelf, Held, Cards, CardOf
<1> QED BY <1>3 DEF Allowed, Promise!DNext

LEMMA MaySettle ==
  ASSUME NEW u \in Owed, \A f \in u.fields : Held[u.anime][f] >= u.at,
         Owed' = Owed \ {u}, UNCHANGED <<Shelf, Held, Cards>>
  PROVE  Allowed
BY DEF Allowed, Promise!DNext, Promise!Settle, Owed, Shelf, Held, Cards, CardOf

LEMMA MayGiveUp ==
  ASSUME NEW u \in Owed, Owed' = Owed \ {u}, Shelf' = Shelf \cup {u}, UNCHANGED <<Held, Cards>>
  PROVE  Allowed
BY DEF Allowed, Promise!DNext, Promise!GiveUp, Owed, Shelf, Held, Cards, CardOf

LEMMA MayRevive ==
  ASSUME NEW a \in Anime, Owed' = Owed \cup {u \in Shelf : u.anime = a},
         Shelf' = {u \in Shelf : u.anime # a}, UNCHANGED <<Held, Cards>>
  PROVE  Allowed
BY DEF Allowed, Promise!DNext, Promise!Revive, Owed, Shelf, Held, Cards, CardOf

LEMMA MayClear ==
  ASSUME NEW e \in Editors, NEW a \in Anime,
         Cards[e] = [anime |-> a], [anime |-> a] # [anime |-> "none"],
         Cards' = [Cards EXCEPT ![e] = [anime |-> "none"]],
         Owed' = {u \in Owed : u.anime # a}, Shelf' = {u \in Shelf : u.anime # a}, UNCHANGED Held
  PROVE  Allowed
<1>1. Cards[e].anime = a /\ Cards[e] # [anime |-> "none"] OBVIOUS
<1>2. /\ Owed' = {u \in Owed : u.anime # Cards[e].anime}
      /\ Shelf' = {u \in Shelf : u.anime # Cards[e].anime}
  BY <1>1
<1>3. Promise!Clear(e)
  BY <1>1, <1>2, Zenon DEF Promise!Clear, Promise!NoCard, Owed, Shelf, Held, Cards, CardOf
<1> QED BY <1>3 DEF Allowed, Promise!DNext

LEMMA MayAbandon ==
  ASSUME Cards' = [e \in Editors |-> [anime |-> "none"]], UNCHANGED <<Owed, Shelf, Held>>
  PROVE  Allowed
BY DEF Allowed, Promise!DNext, Promise!Abandon, Promise!NoCard, Owed, Shelf, Held, Cards, CardOf

LEMMA EnqueueAllowed ==
  ASSUME RInv, NEW S \in (SUBSET Anime) \ {{}}, NEW fields, Enqueue(S, fields)
  PROVE  Allowed
<1> DEFINE new(a) == [anime |-> a, at |-> clock', fields |-> fields]
<1> DEFINE row(a) == [anime |-> a, at |-> clock', fields |-> fields, state |-> "pending", attempts |-> 0]
<1>0. outbox' = {r \in outbox : ~(r.anime \in S /\ r.state \in {"pending", "failed"})} \cup {row(a) : a \in S}
  BY DEF Enqueue
<1>1. /\ \A x \in outbox' : \/ x \in outbox /\ (x.anime \in S => x.state = "in_progress")
                            \/ x.anime \in S /\ Of(x) = new(x.anime) /\ x.state = "pending"
      /\ \A a \in S : \E x \in outbox' : Of(x) = new(a) /\ x.state = "pending"
      /\ \A r \in outbox : r.anime \notin S => r \in outbox'
  <2>1. \A a : Of(row(a)) = new(a) /\ row(a).state = "pending" /\ row(a).anime = a BY DEF Of
  <2>2. \A r \in outbox : r.state \in {"pending", "in_progress", "failed"}
    BY DEF RInv, Typed, TypeOK, Row
  <2> HIDE DEF row, new
  <2>3. ASSUME NEW x \in outbox'
        PROVE  \/ x \in outbox /\ (x.anime \in S => x.state = "in_progress")
               \/ x.anime \in S /\ Of(x) = new(x.anime) /\ x.state = "pending"
    BY <1>0, <2>1, <2>2
  <2>4. ASSUME NEW a \in S PROVE row(a) \in outbox' /\ Of(row(a)) = new(a) /\ row(a).state = "pending"
    BY <1>0, <2>1
  <2> QED BY <1>0, <2>3, <2>4
<1>2. \A r \in outbox : r.at < clock'
  BY LimitAssumption DEF RInv, IInv, Numbered, Typed, TypeOK, Row, Edit, Enqueue
<1>3. UNCHANGED <<Held, Cards>> BY DEF Enqueue, Held, Cards, CardOf
<1>4. \A u \in Owed \cup Shelf : u.at < clock' BY <1>2, UpdatesFacts DEF Of
<1>5. ASSUME NEW a \in S PROVE new(a) \in Owed' \ Owed /\ new(a).anime = a
  <2>1. PICK x \in outbox' : Of(x) = new(a) /\ x.state = "pending" BY <1>1
  <2>2. new(a) \in Owed' BY <2>1 DEF Owed, Updates, Of
  <2>3. new(a).at = clock' /\ clock' \in Int BY LimitAssumption DEF Enqueue, RInv, Typed, TypeOK, Edit
  <2> QED BY <2>2, <2>3, <1>4
<1>6. ASSUME NEW u \in Owed' \ Owed PROVE u.anime \in S /\ u = new(u.anime)
  <2>1. PICK x \in outbox' : u = Of(x) /\ x.state \in Live BY DEF Owed, Updates, Of, Live
  <2>2. x \notin outbox BY <2>1, UpdatesFacts
  <2> QED BY <1>1, <2>1, <2>2 DEF Of
<1>7. ASSUME NEW u \in Owed, u.anime \notin S PROVE u \in Owed'
  BY <1>1, <1>7 DEF Owed, Updates
<1>8. ASSUME NEW u \in Shelf PROVE u \in Shelf' <=> u.anime \notin S
  <2>1. PICK r \in outbox : u = Of(r) /\ r.state = "failed" BY <1>8, UpdatesFacts
  <2>2. u.anime = r.anime /\ u.at = r.at BY <2>1 DEF Of
  <2>3. u.anime \notin S => u \in Shelf' BY <1>1, <2>1, <2>2 DEF Shelf, Updates, Of
  <2>4. ASSUME u.anime \in S, u \in Shelf' PROVE FALSE
    <3>1. PICK x \in outbox' : u = Of(x) /\ x.state = "failed" BY <2>4 DEF Shelf, Updates, Of
    <3>2. x.anime = u.anime BY <3>1 DEF Of
    <3> QED BY <1>1, <2>4, <3>1, <3>2
  <2> QED BY <2>3, <2>4
<1>9. Shelf' \subseteq Shelf
  BY <1>1 DEF Shelf, Updates
<1>10. Owed' \ Owed # {} BY <1>5
<1>11. \A u, v \in Owed' \ Owed : u.at = v.at /\ u.fields = v.fields BY <1>6
<1>12. \A u \in Owed' \ Owed, v \in Owed \cup Shelf : v.at < u.at BY <1>4, <1>6
<1>13. \A u \in Owed : u \in Owed' \/ \E v \in Owed' \ Owed : v.anime = u.anime
  BY <1>5, <1>7
<1>14. \A u \in Shelf : u \in Shelf' <=> ~\E v \in Owed' \ Owed : v.anime = u.anime
  BY <1>5, <1>6, <1>8
<1> QED BY <1>3, <1>9, <1>10, <1>11, <1>12, <1>13, <1>14, MayQueue

\* Marking the row the worker holds, or takes, as in_progress.
LEMMA MarkingAllowed ==
  ASSUME RInv, NEW row, NEW n \in 0..MaxAttempts, outbox' = SetRow(row, "in_progress", n),
         \A r \in outbox : SameRow(r, row) => r.state \in Live
  PROVE  UNCHANGED <<Owed, Shelf>>
<1>0. outbox \subseteq Row BY DEF RInv, Typed, TypeOK
<1>1. \A x \in outbox' : \E r \in outbox :
           /\ x.anime = r.anime /\ x.at = r.at /\ x.fields = r.fields
           /\ (x.state \in Live <=> r.state \in Live) /\ (x.state = "failed" <=> r.state = "failed")
  BY <1>0, SetRowFields DEF Live
<1>2. ASSUME NEW r \in outbox
      PROVE  \E x \in outbox' :
           /\ x.anime = r.anime /\ x.at = r.at /\ x.fields = r.fields
           /\ (x.state \in Live <=> r.state \in Live) /\ (x.state = "failed" <=> r.state = "failed")
  <2>1. r \in Row BY <1>0
  <2>2. CASE SameRow(r, row)
    <3>1. Marked(r, "in_progress", n) \in outbox' BY <2>2 DEF SetRow
    <3>2. /\ Marked(r, "in_progress", n).anime = r.anime /\ Marked(r, "in_progress", n).at = r.at
          /\ Marked(r, "in_progress", n).fields = r.fields
          /\ Marked(r, "in_progress", n).state = "in_progress"
      BY <2>1, MarkedType, MarkedFields
    <3> QED BY <2>2, <3>1, <3>2 DEF Live
  <2>3. CASE ~SameRow(r, row)
    <3>1. r \in outbox' BY <2>3 DEF SetRow
    <3> QED BY <3>1
  <2> QED BY <2>2, <2>3
<1> QED BY <1>1, <1>2, SameUpdates

\* A push, by the worker or a card, an edit elsewhere.
LEMMA RemoteAllowed ==
  ASSUME RInv, NEW a \in Anime, NEW on, NEW fields, NEW n \in Edit,
         remote' = [remote EXCEPT ![a] = [on |-> on, ver |-> Write(@.ver, fields, n)]],
         UNCHANGED <<Owed, Shelf>>,
         \/ UNCHANGED Cards
         \/ \E e \in Editors : /\ Cards[e] = [anime |-> "none"]
                               /\ Cards' = [Cards EXCEPT ![e] = [anime |-> a]]
  PROVE  Allowed
<1>0. remote \in [Anime -> ListRow] BY DEF RInv, Typed, TypeOK
<1>1. ASSUME NEW b \in Anime, NEW f \in Field
      PROVE  Held'[b][f] = Held[b][f] \/ (b = a /\ Held'[b][f] = n)
  <2>1. Held[b] = remote[b].ver /\ Held'[b] = remote'[b].ver BY DEF Held
  <2>2. b # a => remote'[b] = remote[b] BY <1>0
  <2>3. remote'[a].ver = Write(remote[a].ver, fields, n) BY <1>0
  <2>4. Write(remote[a].ver, fields, n)[f] \in {remote[a].ver[f], n} BY DEF Write
  <2>5. CASE b = a BY <2>1, <2>3, <2>4, <2>5
  <2>6. CASE b # a BY <2>1, <2>2, <2>6
  <2> QED BY <2>5, <2>6
<1> QED BY <1>1, MayAccept

\* What the worker's row in hand stands for in the table: the promise's update
\* of the row, if the row is still there.
LEMMA ItemUpdate ==
  ASSUME RInv, item # NoItem
  PROVE  /\ item \in Row
         /\ \A r \in outbox : SameRow(r, item) => Of(r) = Of(item) /\ r.state = "in_progress"
         /\ \A r, s \in outbox : SameRow(r, item) /\ SameRow(s, item) => r = s
         /\ \A r \in outbox : Of(r) = Of(item) => SameRow(r, item)
BY DEF RInv, Typed, TypeOK, FieldsAgree, IInv, WorkerOwnsItem, Numbered, SameRow, Of

LEMMA AckAllowed == ASSUME RInv, Ack PROVE Allowed
<1>1. /\ item # NoItem /\ wpc = "ack" /\ UNCHANGED <<Held, Cards>>
      /\ outbox' = {r \in outbox : ~SameRow(r, item)}
  BY DEF Ack, RInv, Typed, HoldsItem, Held, Cards, CardOf
<1>2. Shelf' = Shelf
  BY <1>1, ItemUpdate DEF Shelf, Updates
<1>3. CASE \E r \in outbox : SameRow(r, item)
  <2>1. Of(item) \in Owed
    BY <1>1, <1>3, ItemUpdate, UpdatesFacts DEF Live
  <2>2. ASSUME NEW u PROVE u \in Owed' <=> u \in Owed \ {Of(item)}
    <3>1. u \in Owed' => u \in Owed \ {Of(item)}
      BY <1>1, ItemUpdate DEF Owed, Updates, Of
    <3>2. u \in Owed \ {Of(item)} => u \in Owed'
      BY <1>1, ItemUpdate DEF Owed, Updates, Of
    <3> QED BY <3>1, <3>2
  <2>3. \A f \in Of(item).fields : Held[Of(item).anime][f] >= Of(item).at
    BY <1>1, ItemUpdate DEF Of, Held, Row, RInv, IInv, AckMeansDelivered
  <2> QED BY <1>1, <1>2, <2>1, <2>2, <2>3, MaySettle
<1>4. CASE ~\E r \in outbox : SameRow(r, item)
  <2>1. outbox' = outbox BY <1>1, <1>4
  <2> QED BY <1>1, <2>1 DEF Allowed, Owed, Shelf, Updates
<1> QED BY <1>3, <1>4

LEMMA GiveUpAllowed == ASSUME RInv, GiveUp PROVE Allowed
<1>1. /\ item # NoItem /\ UNCHANGED <<Held, Cards>> /\ attempt \in 0..MaxAttempts
      /\ outbox' = SetRow(item, "failed", attempt) /\ outbox \subseteq Row
  BY DEF GiveUp, RInv, Typed, TypeOK, HoldsItem, Held, Cards, CardOf
<1>2. ASSUME NEW x \in outbox'
      PROVE  \/ x \in outbox /\ ~SameRow(x, item)
             \/ Of(x) = Of(item) /\ x.state = "failed" /\ \E r \in outbox : SameRow(r, item)
  <2>1. PICK r \in outbox : /\ x = IF SameRow(r, item) THEN Marked(r, "failed", attempt) ELSE r
                            /\ x.anime = r.anime /\ x.at = r.at /\ x.fields = r.fields
                            /\ x.state = IF SameRow(r, item) THEN "failed" ELSE r.state
    BY <1>1, SetRowFields
  <2> QED BY <1>1, <2>1, ItemUpdate DEF Of
<1>3. ASSUME NEW r \in outbox
      PROVE  \/ r \in outbox' /\ ~SameRow(r, item)
             \/ SameRow(r, item) /\ \E x \in outbox' : Of(x) = Of(item) /\ x.state = "failed"
  <2>1. CASE SameRow(r, item)
    <3>1. Marked(r, "failed", attempt) \in outbox' BY <1>1, <2>1 DEF SetRow
    <3>2. r \in Row BY <1>1
    <3>3. Of(Marked(r, "failed", attempt)) = Of(r) /\ Marked(r, "failed", attempt).state = "failed"
      BY <1>1, <3>2, MarkedType, MarkedFields DEF Of
    <3> QED BY <1>1, <2>1, <3>1, <3>3, ItemUpdate
  <2>2. CASE ~SameRow(r, item) BY <1>1, <2>2 DEF SetRow
  <2> QED BY <2>1, <2>2
<1>4. CASE \E r \in outbox : SameRow(r, item)
  <2>1. Of(item) \in Owed
    BY <1>1, <1>4, ItemUpdate, UpdatesFacts DEF Live
  <2>2. ASSUME NEW u PROVE u \in Owed' <=> u \in Owed \ {Of(item)}
    <3>1. u \in Owed' => u \in Owed \ {Of(item)}
      BY <1>1, <1>2, ItemUpdate DEF Owed, Updates, Of
    <3>2. u \in Owed \ {Of(item)} => u \in Owed'
      BY <1>1, <1>3, ItemUpdate DEF Owed, Updates, Of
    <3> QED BY <3>1, <3>2
  <2>3. ASSUME NEW u PROVE u \in Shelf' <=> u \in Shelf \cup {Of(item)}
    <3>1. u \in Shelf' => u \in Shelf \cup {Of(item)}
      BY <1>2 DEF Shelf, Updates, Of
    <3>2. u \in Shelf => u \in Shelf'
      BY <1>1, <1>3, ItemUpdate DEF Shelf, Updates, Of
    <3>3. Of(item) \in Shelf'
      BY <1>3, <1>4 DEF Shelf, Updates, Of
    <3> QED BY <3>1, <3>2, <3>3
  <2> QED BY <1>1, <2>1, <2>2, <2>3, MayGiveUp
<1>5. CASE ~\E r \in outbox : SameRow(r, item)
  <2>1. outbox' = outbox BY <1>2, <1>3, <1>5
  <2> QED BY <1>1, <2>1 DEF Allowed, Owed, Shelf, Updates
<1> QED BY <1>4, <1>5

LEMMA RetryAllowed == ASSUME RInv, NEW a \in Anime, Retry(a) PROVE Allowed
<1>1. /\ outbox \subseteq Row /\ UNCHANGED <<Held, Cards>>
      /\ outbox' = {IF r.anime = a /\ r.state = "failed" THEN Marked(r, "pending", 0) ELSE r : r \in outbox}
  BY DEF Retry, RInv, Typed, TypeOK, Held, Cards, CardOf
<1>2. ASSUME NEW x \in outbox'
      PROVE  \E r \in outbox : /\ Of(x) = Of(r) /\ r.anime = Of(r).anime
                               /\ x.state = IF r.anime = a /\ r.state = "failed" THEN "pending" ELSE r.state
  BY <1>1, RetryRows DEF Of
<1>3. ASSUME NEW r \in outbox
      PROVE  \E x \in outbox' : /\ Of(x) = Of(r) /\ r.anime = Of(r).anime
                                /\ x.state = IF r.anime = a /\ r.state = "failed" THEN "pending" ELSE r.state
  <2>1. CASE r.anime = a /\ r.state = "failed"
    <3>1. Marked(r, "pending", 0) \in outbox' BY <1>1, <2>1
    <3>2. r \in Row /\ 0 \in 0..MaxAttempts BY <1>1, LimitAssumption
    <3>3. Of(Marked(r, "pending", 0)) = Of(r) /\ Marked(r, "pending", 0).state = "pending"
      BY <3>2, MarkedType, MarkedFields DEF Of
    <3> QED BY <2>1, <3>1, <3>3 DEF Of
  <2>2. CASE ~(r.anime = a /\ r.state = "failed")
    <3>1. r \in outbox' BY <1>1, <2>2
    <3> QED BY <2>2, <3>1 DEF Of
  <2> QED BY <2>1, <2>2
<1>4. ASSUME NEW u PROVE u \in Owed' <=> u \in Owed \cup {v \in Shelf : v.anime = a}
  <2>1. u \in Owed' => u \in Owed \cup {v \in Shelf : v.anime = a}
    <3> SUFFICES ASSUME u \in Owed' PROVE u \in Owed \cup {v \in Shelf : v.anime = a}
      OBVIOUS
    <3>1. PICK x \in outbox' : u = Of(x) /\ x.state \in Live BY DEF Owed, Updates, Of, Live
    <3> QED BY <1>2, <3>1, UpdatesFacts DEF Live
  <2>2. ASSUME u \in Owed PROVE u \in Owed'
    <3>1. PICK r \in outbox : u = Of(r) /\ r.state \in Live BY <2>2, UpdatesFacts
    <3>2. PICK x \in outbox' : Of(x) = Of(r) /\ x.state \in Live BY <1>3, <3>1 DEF Live
    <3> QED BY <3>1, <3>2 DEF Owed, Updates, Of, Live
  <2>3. ASSUME u \in Shelf, u.anime = a PROVE u \in Owed'
    <3>1. PICK r \in outbox : u = Of(r) /\ r.state = "failed" BY <2>3, UpdatesFacts
    <3>2. PICK x \in outbox' : Of(x) = Of(r) /\ x.state = "pending" BY <1>3, <2>3, <3>1
    <3> QED BY <3>1, <3>2 DEF Owed, Updates, Of
  <2> QED BY <2>1, <2>2, <2>3
<1>5. ASSUME NEW u PROVE u \in Shelf' <=> u \in {v \in Shelf : v.anime # a}
  <2>1. u \in Shelf' => u \in {v \in Shelf : v.anime # a}
    <3> SUFFICES ASSUME u \in Shelf' PROVE u \in {v \in Shelf : v.anime # a}
      OBVIOUS
    <3>1. PICK x \in outbox' : u = Of(x) /\ x.state = "failed" BY DEF Shelf, Updates, Of
    <3> QED BY <1>2, <3>1, UpdatesFacts
  <2>2. ASSUME u \in Shelf, u.anime # a PROVE u \in Shelf'
    <3>1. PICK r \in outbox : u = Of(r) /\ r.state = "failed" BY <2>2, UpdatesFacts
    <3>2. PICK x \in outbox' : Of(x) = Of(r) /\ x.state = "failed" BY <1>3, <2>2, <3>1
    <3> QED BY <3>1, <3>2 DEF Shelf, Updates, Of
  <2> QED BY <2>1, <2>2
<1> QED BY <1>1, <1>4, <1>5, MayRevive

\* Take and PushFails mark a row that is owed already.
LEMMA WorkerAllowed == ASSUME RInv, Worker \/ DrainFails PROVE Allowed
<1>0. /\ outbox \subseteq Row /\ batch \subseteq Row /\ attempt \in 0..MaxAttempts
      /\ wpc = "push" => item \in Row /\ item # NoItem
  BY DEF RInv, Typed, TypeOK, HoldsItem
<1>1. CASE Drain \/ DrainFails
  BY <1>1 DEF Drain, DrainFails, Allowed, Owed, Shelf, Held, Cards, CardOf, Updates
<1>2. CASE Take
  <2>1. PICK r \in batch : outbox' = SetRow(r, "in_progress", r.attempts)
    BY <1>2 DEF Take
  <2>2. r.attempts \in 0..MaxAttempts BY <1>0 DEF Row
  <2>3. \A s \in outbox : SameRow(s, r) => s.state \in Live
    BY <1>0 DEF RInv, IInv, BatchFresh, Row, Live
  <2>4. UNCHANGED <<Owed, Shelf>> BY <2>1, <2>2, <2>3, MarkingAllowed
  <2>5. UNCHANGED <<Held, Cards>> BY <1>2 DEF Take, Held, Cards, CardOf
  <2> QED BY <2>4, <2>5 DEF Allowed
<1>3. CASE PushOk
  <2>1. UNCHANGED <<Owed, Shelf, Cards>> BY <1>3 DEF PushOk, Owed, Shelf, Updates, Cards, CardOf
  <2>2. wpc = "push" /\ item.anime \in Anime /\ item.at \in Edit BY <1>0, <1>3 DEF PushOk, Row
  <2> QED BY <1>3, <2>1, <2>2, RemoteAllowed DEF PushOk, Deliver
<1>4. CASE PushFails
  <2>1. wpc = "push" /\ item.anime \in Anime /\ item.at \in Edit /\ attempt' \in 0..MaxAttempts
    BY <1>0, <1>4, LimitAssumption DEF PushFails, Row
  <2>2. outbox' = SetRow(item, "in_progress", attempt') BY <1>4 DEF PushFails
  <2>3. \A r \in outbox : SameRow(r, item) => r.state \in Live
    BY <1>0, <2>1 DEF RInv, IInv, WorkerOwnsItem, Live
  <2>4. UNCHANGED <<Owed, Shelf>> BY <2>1, <2>2, <2>3, MarkingAllowed
  <2>5. UNCHANGED Cards BY <1>4 DEF PushFails, Cards, CardOf
  <2>6. CASE Deliver BY <2>1, <2>4, <2>5, <2>6, RemoteAllowed DEF Deliver
  <2>7. CASE UNCHANGED remote BY <2>4, <2>5, <2>7 DEF Allowed, Held
  <2> QED BY <1>4, <2>6, <2>7 DEF PushFails
<1> QED BY <1>1, <1>2, <1>3, <1>4, AckAllowed, GiveUpAllowed DEF Worker

LEMMA CardAllowed ==
  ASSUME RInv, NEW e \in Editors, UiPush(e) \/ UiWrite(e) \/ UiClear(e)
  PROVE  Allowed
<1>1. CASE UiPush(e)
  <2> PICK kind \in EditKind, a \in Anime, confirmed \in BOOLEAN :
        /\ clock' = clock + 1
        /\ remote' = [remote EXCEPT ![a] = [on  |-> kind # "delete",
                                            ver |-> Write(@.ver, FieldsOf(kind), clock')]]
        /\ ui' = IF confirmed
                 THEN [ui EXCEPT ![e] = [pc |-> "write", kind |-> kind, anime |-> a, at |-> clock']]
                 ELSE ui
    BY <1>1 DEF UiPush
  <2>1. ui \in [Editors -> Session] /\ clock' \in Edit /\ ui[e].pc = "idle"
    BY <1>1, LimitAssumption DEF RInv, Typed, TypeOK, UiPush, Edit
  <2>2. UNCHANGED <<Owed, Shelf>> BY <1>1 DEF UiPush, Owed, Shelf, Updates
  <2>3. \/ UNCHANGED Cards
        \/ Cards[e] = [anime |-> "none"] /\ Cards' = [Cards EXCEPT ![e] = [anime |-> a]]
    <3>1. Cards[e] = [anime |-> "none"] BY <2>1 DEF Cards, CardOf
    <3>2. CASE confirmed /\ kind = "status"
      BY <2>1, <3>1, <3>2 DEF Cards, CardOf
    <3>3. CASE ~(confirmed /\ kind = "status")
      BY <2>1, <3>3 DEF Cards, CardOf
    <3> QED BY <3>2, <3>3
  <2> QED BY <2>1, <2>2, <2>3, RemoteAllowed
<1>2. CASE UiWrite(e)
  <2>1. /\ ui \in [Editors -> Session] /\ ui[e].pc = "write" /\ UNCHANGED <<outbox, remote>>
        /\ ui' = [ui EXCEPT ![e] = IF ui[e].kind = "status" THEN [ui[e] EXCEPT !.pc = "clear"] ELSE Idle]
    BY <1>2 DEF RInv, Typed, TypeOK, UiWrite
  <2>2. ui[e] \in [pc: {"write", "clear"}, kind: EditKind, anime: Anime, at: Edit]
    BY <2>1 DEF Session, Idle
  <2>3. CardOf(e)' = CardOf(e)
    BY <2>1, <2>2 DEF CardOf, Idle
  <2>4. \A d \in Editors : d # e => CardOf(d)' = CardOf(d)
    BY <2>1 DEF CardOf
  <2>5. UNCHANGED Cards BY <2>3, <2>4 DEF Cards
  <2> QED BY <2>1, <2>5 DEF Allowed, Owed, Shelf, Held, Updates
<1>3. CASE UiClear(e)
  <2> DEFINE a == ui[e].anime
  <2>1. /\ ui \in [Editors -> Session] /\ ui[e].pc = "clear" /\ UNCHANGED remote
        /\ ui[e].kind = "status"
        /\ ui' = [ui EXCEPT ![e] = Idle] /\ outbox' = {r \in outbox : r.anime # a}
    BY <1>3 DEF RInv, Typed, TypeOK, UiClear, ClearIsStatus, RowsOf
  <2>2. a \in Anime BY <2>1 DEF Session, Idle
  <2>3. Cards[e] = [anime |-> a] /\ [anime |-> a].anime # [anime |-> "none"].anime
    BY <2>1, <2>2, AnimeAssumption DEF Cards, CardOf
  <2>4. Cards' = [Cards EXCEPT ![e] = [anime |-> "none"]]
    BY <2>1 DEF Cards, CardOf, Idle
  <2>5. Owed' = {u \in Owed : u.anime # a}
    BY <2>1 DEF Owed, Updates
  <2>6. Shelf' = {u \in Shelf : u.anime # a}
    BY <2>1 DEF Shelf, Updates
  <2>7. UNCHANGED Held BY <2>1 DEF Held
  <2> HIDE DEF a
  <2> QED BY <2>2, <2>3, <2>4, <2>5, <2>6, <2>7, MayClear
<1> QED BY <1>1, <1>2, <1>3

\* Every step of the outbox maps to a step of the promise, or to none.
THEOREM StepRefines == RInv /\ [Next]_vars => Allowed
<1> SUFFICES ASSUME RInv, [Next]_vars PROVE Allowed
  OBVIOUS
<1>1. CASE BulkSetStatus BY <1>1, EnqueueAllowed DEF BulkSetStatus
<1>2. CASE ProviderUpdate
  <2> PICK a \in Anime, fields \in (SUBSET Field) \ {{}} : Enqueue({a}, fields)
    BY <1>2 DEF ProviderUpdate
  <2>1. {a} \in (SUBSET Anime) \ {{}} OBVIOUS
  <2> QED BY <2>1, EnqueueAllowed
<1>3. ASSUME NEW a \in Anime, Retry(a) PROVE Allowed BY <1>3, RetryAllowed
<1>4. CASE Worker \/ DrainFails BY <1>4, WorkerAllowed
<1>5. ASSUME NEW e \in Editors, UiPush(e) \/ UiWrite(e) \/ UiClear(e) PROVE Allowed
  BY <1>5, CardAllowed
<1>6. CASE PullFetch \/ PullApply \/ UNCHANGED vars
  BY <1>6 DEF PullFetch, PullApply, vars, Allowed, Owed, Shelf, Updates, Held, Cards, CardOf
<1>7. CASE RemoteEdit
  <2> PICK a \in Anime, f \in Field :
        remote' = [remote EXCEPT ![a] = [on |-> TRUE, ver |-> Write(@.ver, {f}, clock')]]
    BY <1>7 DEF RemoteEdit
  <2>1. clock' \in Edit BY <1>7, LimitAssumption DEF RemoteEdit, RInv, Typed, TypeOK, Edit
  <2>2. UNCHANGED <<Owed, Shelf, Cards>> BY <1>7 DEF RemoteEdit, Owed, Shelf, Updates, Cards, CardOf
  <2> QED BY <2>1, <2>2, RemoteAllowed
<1>8. CASE Crash
  <2>1. Cards' = [e \in Editors |-> [anime |-> "none"]] BY <1>8 DEF Crash, Cards, CardOf, Idle
  <2>2. UNCHANGED <<Owed, Shelf, Held>> BY <1>8 DEF Crash, Owed, Shelf, Updates, Held
  <2> QED BY <2>1, <2>2, MayAbandon
<1> QED BY <1>1, <1>2, <1>3, <1>4, <1>5, <1>6, <1>7, <1>8 DEF Next

\* Init maps to the promise's initial states.
LEMMA InitRefines == Init => Promise!DInit
<1> SUFFICES ASSUME Init PROVE Promise!DInit
  OBVIOUS
<1>1. Owed = {} /\ Shelf = {} BY DEF Init, Owed, Shelf, Updates
<1>2. Held \in [Anime -> [Field -> Edit]]
  BY LimitAssumption DEF Init, Held, Edit
<1>3. Cards = [e \in Editors |-> [anime |-> "none"]] BY DEF Init, Cards, CardOf, Idle
<1> QED BY <1>1, <1>2, <1>3 DEF Promise!DInit, Promise!NoCard, Owed, Shelf, Held, Cards, CardOf

\* The outbox keeps local-first delivery's promise: every behaviour of the worker,
\* the bulk and provider writes, card edits, pulls and crashes is one Delivery
\* allows, for every number of entries, requests, attempts and rows per drain.
THEOREM Refinement == Spec => KeepsPromise
<1>1. Init => Promise!DInit BY InitRefines
<1>2. RInv /\ [Next]_vars => [Promise!DNext]_(Promise!dvars)
  BY StepRefines DEF Allowed, Promise!dvars, Owed, Shelf, Held, Cards, CardOf
<1> QED BY <1>1, <1>2, RefinementInvariant, PTL DEF Spec, KeepsPromise, Promise!DSpec
-----------------------------------------------------------------------------
(* What strands an entry.                                                  *)

StrandedOnlyByClear ==
  \A a \in Anime : Stranded(a)' /\ ~Stranded(a) =>
    \E e \in Editors : /\ ui[e].pc = "clear" /\ ui[e].anime = a
                       /\ ui'[e] = Idle /\ RowsOf(a) # {}

\* Steps after which every anime that had a row, or whose entry was clean, still
\* has one, or is still clean.
LEMMA StrandsNone ==
  ASSUME \A a \in Anime : Stranded(a)' => Stranded(a)
  PROVE  StrandedOnlyByClear
BY DEF StrandedOnlyByClear

LEMMA RowsStay ==
  ASSUME \A a \in Anime : lib'[a].sync = "pending" => lib[a].sync = "pending",
         \A r \in outbox : \E x \in outbox' : x.anime = r.anime
  PROVE  StrandedOnlyByClear
<1>1. ASSUME NEW a \in Anime, Stranded(a)' PROVE Stranded(a)
  BY <1>1 DEF Stranded, RowsOf
<1> QED BY <1>1, StrandsNone

LEMMA SetRowStays ==
  ASSUME Typed, NEW row, NEW state \in {"pending", "in_progress", "failed"},
         NEW n \in 0..MaxAttempts, outbox' = SetRow(row, state, n), UNCHANGED lib
  PROVE  StrandedOnlyByClear
<1>1. ASSUME NEW r \in outbox PROVE \E x \in outbox' : x.anime = r.anime
  <2>1. r \in Row BY DEF Typed, TypeOK
  <2>2. Marked(r, state, n).anime = r.anime BY <2>1, MarkedType
  <2>3. (IF SameRow(r, row) THEN Marked(r, state, n) ELSE r) \in outbox' BY DEF SetRow
  <2> QED BY <2>2, <2>3
<1> QED BY <1>1, RowsStay

LEMMA EnqueueStrands ==
  ASSUME NEW S \in SUBSET Anime, NEW fields, Enqueue(S, fields)
  PROVE  StrandedOnlyByClear
<1>1. ASSUME NEW a \in Anime, Stranded(a)' PROVE Stranded(a)
  <2>1. CASE a \in S
    <3>1. [anime |-> a, at |-> clock', fields |-> fields, state |-> "pending", attempts |-> 0] \in outbox'
      BY <2>1 DEF Enqueue
    <3> QED BY <1>1, <3>1 DEF Stranded, RowsOf
  <2>2. CASE a \notin S
    <3>1. \A r \in outbox : r.anime = a => r \in outbox' BY <2>2 DEF Enqueue
    <3>2. lib'[a] = lib[a] BY <2>2 DEF Enqueue
    <3> QED BY <1>1, <3>1, <3>2 DEF Stranded, RowsOf
  <2> QED BY <2>1, <2>2
<1> QED BY <1>1, StrandsNone

LEMMA AckStrands == ASSUME Typed, Ack PROVE StrandedOnlyByClear
<1>1. /\ lib \in [Anime -> LibRow] /\ item \in Row /\ outbox \subseteq Row
      /\ lib' = [lib EXCEPT ![item.anime].sync = IF @ = "absent" THEN @ ELSE "synced"]
      /\ outbox' = {r \in outbox : ~SameRow(r, item)}
  BY DEF Ack, Typed, TypeOK, HoldsItem
<1>2. ASSUME NEW a \in Anime, Stranded(a)' PROVE Stranded(a)
  <2>1. a # item.anime
    <3> SUFFICES ASSUME a = item.anime PROVE FALSE
      OBVIOUS
    <3>1. lib'[a].sync # "pending" BY <1>1 DEF LibRow, Row
    <3> QED BY <1>2, <3>1 DEF Stranded
  <2>2. lib'[a] = lib[a] BY <1>1, <2>1
  <2>3. \A r \in outbox : r.anime = a => r \in outbox' BY <1>1, <2>1 DEF SameRow
  <2> QED BY <1>2, <2>2, <2>3 DEF Stranded, RowsOf
<1> QED BY <1>2, StrandsNone

LEMMA CardStrands ==
  ASSUME Typed, NEW e \in Editors, UiPush(e) \/ UiWrite(e) \/ UiClear(e)
  PROVE  StrandedOnlyByClear
<1>1. CASE UiPush(e) BY <1>1, RowsStay DEF UiPush
<1>2. CASE UiWrite(e)
  <2> DEFINE s == ui[e]
  <2>1. s \in [pc: {"write", "clear"}, kind: EditKind, anime: Anime, at: Edit]
    BY <1>2 DEF UiWrite, Typed, TypeOK, Session, Idle
  <2>2. lib \in [Anime -> LibRow] BY DEF Typed, TypeOK
  <2>3. \A a \in Anime : lib'[a].sync = "pending" => lib[a].sync = "pending"
    <3>1. \A a \in Anime : a # s.anime => lib'[a] = lib[a] BY <1>2, <2>2 DEF UiWrite
    <3>2. lib'[s.anime].sync = "pending" => lib[s.anime].sync = "pending"
      BY <1>2, <2>1, <2>2 DEF UiWrite
    <3> QED BY <3>1, <3>2
  <2>4. outbox' = outbox BY <1>2 DEF UiWrite
  <2> QED BY <2>3, <2>4, RowsStay
<1>3. CASE UiClear(e)
  <2>1. ui[e].pc = "clear" /\ ui'[e] = Idle BY <1>3 DEF UiClear, Typed, TypeOK
  <2>2. ASSUME NEW a \in Anime, Stranded(a)', ~Stranded(a)
        PROVE  a = ui[e].anime /\ RowsOf(a) # {}
    BY <1>3, <2>2 DEF UiClear, Stranded, RowsOf
  <2> QED BY <2>1, <2>2 DEF StrandedOnlyByClear
<1> QED BY <1>1, <1>2, <1>3

LEMMA WorkerStrands == ASSUME Typed, Typed', Worker \/ DrainFails PROVE StrandedOnlyByClear
<1>0. /\ attempt \in 0..MaxAttempts /\ attempt' \in 0..MaxAttempts
      /\ \A r \in batch : r.attempts \in 0..MaxAttempts
  BY DEF Typed, TypeOK, Row
<1>1. CASE Drain \/ PushOk \/ DrainFails
  BY <1>1, RowsStay DEF Drain, PushOk, DrainFails
<1>2. CASE Take BY <1>0, <1>2, SetRowStays DEF Take
<1>3. CASE PushFails BY <1>0, <1>3, SetRowStays DEF PushFails
<1>4. CASE GiveUp BY <1>0, <1>4, SetRowStays DEF GiveUp
<1> QED BY <1>1, <1>2, <1>3, <1>4, AckStrands DEF Worker

\* An entry is left dirty without a row that would clean it by nothing but the
\* clear of a single-card status edit: not by acknowledgements, superseding
\* writes, giving up, retries, pulls or crashes.
THEOREM Stranding == Spec => OnlyClearStrands
<1>1. Typed /\ Typed' /\ [Next]_vars => StrandedOnlyByClear
  <2> SUFFICES ASSUME Typed, Typed', [Next]_vars PROVE StrandedOnlyByClear
    OBVIOUS
  <2>1. CASE BulkSetStatus BY <2>1, EnqueueStrands DEF BulkSetStatus
  <2>2. CASE ProviderUpdate BY <2>2, EnqueueStrands DEF ProviderUpdate
  <2>3. ASSUME NEW a \in Anime, Retry(a) PROVE StrandedOnlyByClear
    <3>1. ASSUME NEW r \in outbox PROVE \E x \in outbox' : x.anime = r.anime
      <4>1. r \in Row /\ 0 \in 0..MaxAttempts BY LimitAssumption DEF Typed, TypeOK
      <4>2. Marked(r, "pending", 0).anime = r.anime BY <4>1, MarkedType
      <4>3. (IF r.anime = a /\ r.state = "failed" THEN Marked(r, "pending", 0) ELSE r) \in outbox'
        BY <2>3 DEF Retry
      <4> QED BY <4>2, <4>3
    <3>2. UNCHANGED lib BY <2>3 DEF Retry
    <3> QED BY <3>1, <3>2, RowsStay
  <2>4. CASE Worker \/ DrainFails BY <2>4, WorkerStrands
  <2>5. ASSUME NEW e \in Editors, UiPush(e) \/ UiWrite(e) \/ UiClear(e) PROVE StrandedOnlyByClear
    BY <2>5, CardStrands
  <2>6. CASE PullApply
    <3>1. \A a \in Anime : lib'[a].sync = "pending" => lib[a].sync = "pending"
      BY <2>6 DEF PullApply
    <3> QED BY <2>6, <3>1, RowsStay DEF PullApply
  <2>7. CASE PullFetch \/ RemoteEdit \/ Crash \/ UNCHANGED vars
    BY <2>7, RowsStay DEF PullFetch, RemoteEdit, Crash, vars
  <2> QED BY <2>1, <2>2, <2>3, <2>4, <2>5, <2>6, <2>7 DEF Next
<1>2. RInv => Typed BY DEF RInv
<1> QED BY <1>1, <1>2, RefinementInvariant, PTL DEF Spec, OnlyClearStrands, StrandedOnlyByClear
-----------------------------------------------------------------------------
(* The order in which queued updates reach AniList.                        *)

Pushing == wpc = "push" /\ attempt < MaxAttempts

Fresher(r) == Id(r) \notin revived

InHand(r) == item # NoItem /\ SameRow(r, item)

\* Rows nobody revived: none in the table or the batch is older than the newest
\* update sent for its anime or than the row in hand; and a due row the drain left
\* out of its batch is not older than the rows in it.
Ordered ==
  /\ sentAt \in [Anime -> Edit]
  /\ \A r \in Due \cup batch : Fresher(r) => r.at >= sentAt[r.anime]
  /\ Pushing /\ Fresher(item) => item.at >= sentAt[item.anime]
  /\ item # NoItem => \A r \in Due \cup batch : Fresher(r) => r.at >= item.at
  /\ \A r \in Due, b \in batch : Fresher(r) =>
       r.at >= b.at \/ InHand(r) \/ \E c \in batch : SameRow(r, c)

\* Due rows and sent updates carry edit numbers up to the clock.
SentBefore == \A a \in Anime : sentAt[a] <= clock

HInv == RInv /\ Ordered /\ SentBefore

LEMMA HInit0 == HInit => Ordered /\ SentBefore
BY LimitAssumption DEF HInit, Init, Ordered, SentBefore, Due, Pushing, NoItem, Edit

\* What a step does to the history variables.
LEMMA HStep ==
  ASSUME HInv, HNext
  PROVE  /\ revived \subseteq revived'
         /\ \A a \in Anime : sentAt'[a] = sentAt[a] \/ (Sent /\ a = item.anime /\ sentAt'[a] = item.at)
         /\ sentAt' \in [Anime -> Edit]
         /\ ~Sent => sentAt' = sentAt
         /\ Sent => item \in Row /\ item # NoItem
<1>1. Sent => item \in Row /\ item # NoItem
  BY DEF Sent, HInv, RInv, Typed, TypeOK, HoldsItem
<1> QED BY <1>1 DEF HNext, HInv, Ordered, Row

LEMMA SentBeforeStep ==
  ASSUME HInv, HNext, Typed', clock' >= clock
  PROVE  SentBefore'
<1>1. clock \in Int /\ clock' \in Int /\ \A a \in Anime : sentAt[a] \in Int
  BY LimitAssumption DEF HInv, Typed, TypeOK, RInv, Ordered, Edit
<1>2. item # NoItem => item.at <= clock BY DEF HInv, RInv, IInv, Numbered
<1>3. Sent => item.at \in Int BY HStep, LimitAssumption DEF Row, Edit
<1> QED BY <1>1, <1>2, <1>3, HStep DEF HInv, SentBefore

\* Steps that keep the row in hand and the batch, or put them down: every due row
\* was due before under the same identity, was revived, or is newer than all.
LEMMA OrderKept ==
  ASSUME HInv, HNext,
         \/ item' = item /\ batch' = batch
         \/ item' = NoItem /\ batch' = {}
         \/ item' = NoItem /\ batch' = batch /\ \A x \in Due' : ~InHand(x),
         Pushing' => Pushing /\ item' = item,
         \A x \in Due' : /\ x.at \in Int /\ x.anime \in Anime
                         /\ Fresher(x)' => \/ x.at > clock
                                           \/ \E r \in Due : r.at = x.at /\ r.anime = x.anime
  PROVE  Ordered'
<1>0. /\ \A r \in Due \cup batch : r.at \in Int /\ r.anime \in Anime
      /\ item # NoItem => item.at \in Int /\ item.anime \in Anime /\ item.at <= clock
      /\ \A b \in batch : b.at <= clock
      /\ clock \in Int /\ \A a \in Anime : sentAt[a] \in Int /\ sentAt[a] <= clock
      /\ Pushing => item # NoItem
  BY LimitAssumption
     DEF HInv, RInv, Typed, TypeOK, Row, Edit, Due, IInv, Numbered, SentBefore, Ordered, Pushing, HoldsItem
<1>1. \A r : Fresher(r)' => Fresher(r) BY HStep DEF Fresher, Id
<1>2. ASSUME NEW x \in Due', Fresher(x)'
      PROVE  \/ x.at > clock
             \/ \E r \in Due : r.at = x.at /\ r.anime = x.anime /\ Fresher(r)
  BY <1>1, <1>2 DEF Fresher, Id
<1>3. ASSUME NEW x \in Due' \cup batch', Fresher(x)'
      PROVE  /\ x.at \in Int /\ x.anime \in Anime /\ x.at >= sentAt[x.anime]
             /\ item # NoItem => x.at >= item.at
  <2>1. CASE x \in batch' BY <1>0, <1>1, <1>3, <2>1 DEF HInv, Ordered
  <2>2. CASE x \in Due' BY <1>0, <1>2, <1>3, <2>2 DEF HInv, Ordered
  <2> QED BY <2>1, <2>2
<1>4. sentAt' \in [Anime -> Edit] BY HStep
<1>5. ASSUME NEW x \in Due' \cup batch', Fresher(x)' PROVE x.at >= sentAt'[x.anime]
  BY <1>3, <1>5, HStep
<1>6. Pushing' /\ Fresher(item)' => item'.at >= sentAt'[item'.anime]
  BY <1>0, <1>1, HStep DEF HInv, Ordered, Fresher, Id
<1>7. ASSUME item' # NoItem, NEW x \in Due' \cup batch', Fresher(x)' PROVE x.at >= item'.at
  BY <1>3, <1>7
<1>8. ASSUME NEW x \in Due', NEW b \in batch', Fresher(x)'
      PROVE  x.at >= b.at \/ InHand(x)' \/ \E c \in batch' : SameRow(x, c)
  <2>1. CASE x.at > clock BY <1>0, <1>8, <2>1
  <2>2. CASE \E r \in Due : r.at = x.at /\ r.anime = x.anime /\ Fresher(r)
    <3>1. PICK r \in Due : r.at = x.at /\ r.anime = x.anime /\ Fresher(r) BY <2>2
    <3>2. r.at >= b.at \/ InHand(r) \/ \E c \in batch : SameRow(r, c)
      BY <1>8, <3>1 DEF HInv, Ordered
    <3> QED BY <1>8, <3>1, <3>2 DEF InHand, SameRow
  <2> QED BY <1>2, <1>8, <2>1, <2>2
<1> QED BY <1>4, <1>5, <1>6, <1>7, <1>8 DEF Ordered

LEMMA DueType ==
  ASSUME Typed', NEW x \in Due'
  PROVE  x.at \in Int /\ x.anime \in Anime /\ x \in outbox' /\ x.state \in Live
BY LimitAssumption DEF Due, Typed, TypeOK, Row, Edit, Live

\* Rows only leave the table, or keep identity and state.
LEMMA DueShrinks ==
  ASSUME HInv, HNext, Typed', outbox' \subseteq outbox,
         \/ item' = item /\ batch' = batch
         \/ item' = NoItem /\ batch' = {}
         \/ item' = NoItem /\ batch' = batch /\ \A x \in outbox' : ~InHand(x),
         Pushing' => Pushing /\ item' = item
  PROVE  Ordered'
<1>1. ASSUME NEW x \in Due' PROVE x \in Due BY <1>1 DEF Due
<1> QED BY <1>1, DueType, OrderKept

LEMMA EnqueueOrdered ==
  ASSUME HInv, HNext, Typed', NEW S \in SUBSET Anime, NEW fields, Enqueue(S, fields)
  PROVE  Ordered'
<1>1. /\ item' = item /\ batch' = batch /\ (Pushing' => Pushing) /\ clock' > clock
  BY LimitAssumption DEF Enqueue, workerVars, Pushing, HInv, RInv, Typed, TypeOK, Edit
<1>2. ASSUME NEW x \in Due' PROVE x \in Due \/ x.at > clock
  BY <1>1, <1>2 DEF Due, Enqueue
<1> QED BY <1>1, <1>2, DueType, OrderKept

LEMMA RetryOrdered ==
  ASSUME HInv, HNext, Typed', NEW a \in Anime, Retry(a)
  PROVE  Ordered'
<1>1. /\ item' = item /\ batch' = batch /\ (Pushing' => Pushing)
      /\ outbox \subseteq Row
  BY DEF Retry, workerVars, Pushing, HInv, RInv, Typed, TypeOK
<1>2. ASSUME NEW x \in Due', Fresher(x)'
      PROVE  \E r \in Due : r.at = x.at /\ r.anime = x.anime
  <2>1. PICK r \in outbox : /\ x.anime = r.anime /\ x.at = r.at
                            /\ x.state = IF r.anime = a /\ r.state = "failed" THEN "pending" ELSE r.state
    BY <1>1, RetryRows DEF Due
  <2>2. ASSUME r.state = "failed" PROVE FALSE
    <3>1. x.state = "pending" /\ SameRow(r, x) BY <2>1, <2>2 DEF Due, SameRow
    <3>2. Id(r) \in revived' BY <2>2, <3>1 DEF HNext, Due
    <3> QED BY <1>2, <2>1, <3>2 DEF Fresher, Id
  <2> QED BY <2>1, <2>2 DEF Due
<1> QED BY <1>1, <1>2, DueType, OrderKept

\* The worker marks the row in hand: nothing else changes its place in the table.
LEMMA MarkingDue ==
  ASSUME outbox \subseteq Row, NEW row, NEW state \in {"in_progress", "failed"}, NEW n \in 0..MaxAttempts,
         outbox' = SetRow(row, state, n),
         \A r \in outbox : SameRow(r, row) => r.state \in Live
  PROVE  \A x \in Due' : /\ \E r \in Due : r.at = x.at /\ r.anime = x.anime
                         /\ state = "failed" => ~SameRow(x, row)
<1> SUFFICES ASSUME NEW x \in Due'
             PROVE  /\ \E r \in Due : r.at = x.at /\ r.anime = x.anime
                    /\ state = "failed" => ~SameRow(x, row)
  OBVIOUS
<1>1. PICK r \in outbox : /\ x.anime = r.anime /\ x.at = r.at
                          /\ x.state = IF SameRow(r, row) THEN state ELSE r.state
  BY SetRowFields DEF Due
<1> QED BY <1>1 DEF Due, Live, SameRow

LEMMA TakeOrdered == ASSUME HInv, HNext, Typed', Take PROVE Ordered'
<1>1. PICK r \in batch : /\ \A s \in batch : r.at <= s.at
                         /\ item' = r /\ batch' = batch \ {r} /\ item = NoItem
                         /\ outbox' = SetRow(r, "in_progress", r.attempts)
  BY DEF Take, HInv, RInv, Typed, HoldsItem
<1>2. /\ outbox \subseteq Row /\ r \in Row /\ r.attempts \in 0..MaxAttempts
      /\ \A b \in batch : b.at \in Int
      /\ \A s \in outbox : SameRow(s, r) => s.state \in Live
  BY LimitAssumption DEF HInv, RInv, Typed, TypeOK, Row, Edit, IInv, BatchFresh, Live
<1>3. sentAt' = sentAt BY HStep, <1>1
<1>4. \A x : Fresher(x)' => Fresher(x) BY HStep DEF Fresher, Id
<1>5. ASSUME NEW x \in Due', Fresher(x)'
      PROVE  \E s \in Due : s.at = x.at /\ s.anime = x.anime /\ Fresher(s)
  BY <1>1, <1>2, <1>4, <1>5, MarkingDue DEF Fresher, Id
<1>6. sentAt' \in [Anime -> Edit] BY HStep
<1>7. ASSUME NEW x \in Due' \cup batch', Fresher(x)' PROVE x.at >= sentAt'[x.anime]
  BY <1>1, <1>3, <1>4, <1>5, <1>7 DEF HInv, Ordered
<1>8. Fresher(item)' => item'.at >= sentAt'[item'.anime]
  BY <1>1, <1>3, <1>4 DEF HInv, Ordered, Fresher
<1>9. ASSUME NEW x \in Due' \cup batch', Fresher(x)' PROVE x.at >= item'.at
  <2>1. CASE x \in batch' BY <1>1, <2>1
  <2>2. CASE x \in Due'
    <3>1. PICK s \in Due : s.at = x.at /\ s.anime = x.anime /\ Fresher(s) BY <1>5, <1>9, <2>2
    <3>2. s.at >= r.at \/ \E c \in batch : SameRow(s, c)
      BY <1>1, <3>1 DEF HInv, Ordered, InHand
    <3> QED BY <1>1, <1>2, <3>1, <3>2 DEF SameRow
  <2> QED BY <2>1, <2>2
<1>10. ASSUME NEW x \in Due', NEW b \in batch', Fresher(x)'
       PROVE  x.at >= b.at \/ InHand(x)' \/ \E c \in batch' : SameRow(x, c)
  <2>1. PICK s \in Due : s.at = x.at /\ s.anime = x.anime /\ Fresher(s) BY <1>5, <1>10
  <2>2. s.at >= b.at \/ \E c \in batch : SameRow(s, c)
    BY <1>1, <2>1 DEF HInv, Ordered, InHand
  <2>3. item' # NoItem BY <1>1, <1>2 DEF Row, NoItem
  <2> QED BY <1>1, <2>1, <2>2, <2>3 DEF InHand, SameRow
<1> QED BY <1>6, <1>7, <1>8, <1>9, <1>10 DEF Ordered

LEMMA DrainOrdered == ASSUME HInv, HNext, Typed', Drain PROVE Ordered'
<1>1. /\ batch' \subseteq Due /\ Due' = Due /\ item = NoItem /\ item' = NoItem
      /\ \A r \in batch', s \in Due \ batch' : r.at <= s.at
      /\ \A r \in Due : r.at \in Int
      /\ ~Pushing'
  BY LimitAssumption DEF Drain, HInv, RInv, Typed, TypeOK, HoldsItem, Due, Row, Edit, Pushing
<1>2. sentAt' = sentAt /\ sentAt' \in [Anime -> Edit] BY HStep, <1>1
<1>3. \A x : Fresher(x)' => Fresher(x) BY HStep DEF Fresher, Id
<1>4. ASSUME NEW x \in Due', NEW b \in batch'
      PROVE  x.at >= b.at \/ \E c \in batch' : SameRow(x, c)
  BY <1>1, <1>4 DEF SameRow
<1> QED BY <1>1, <1>2, <1>3, <1>4 DEF HInv, Ordered

LEMMA WorkerOrdered == ASSUME HInv, HNext, Typed', Worker \/ DrainFails PROVE Ordered'
<1>0. /\ outbox \subseteq Row /\ attempt \in 0..MaxAttempts
      /\ wpc \in {"push", "ack"} <=> item # NoItem
      /\ \A r \in outbox : item # NoItem /\ SameRow(r, item) => r.state \in Live
  BY DEF HInv, RInv, Typed, TypeOK, HoldsItem, IInv, WorkerOwnsItem, Live
<1>1. CASE PushOk BY <1>1, DueShrinks DEF PushOk, Pushing
<1>2. CASE PushFails
  <2>1. /\ wpc = "push" /\ item # NoItem /\ item' = item /\ batch' = batch
        /\ outbox' = SetRow(item, "in_progress", attempt') /\ attempt' \in 0..MaxAttempts
        /\ Pushing' => Pushing
    BY <1>0, <1>2, LimitAssumption DEF PushFails, Pushing
  <2>2. \A x \in Due' : \E r \in Due : r.at = x.at /\ r.anime = x.anime
    BY <1>0, <2>1, MarkingDue
  <2> QED BY <2>1, <2>2, DueType, OrderKept
<1>3. CASE Ack
  <2>1. \A x \in outbox' : ~InHand(x) BY <1>3 DEF Ack, InHand
  <2>2. item' = NoItem /\ batch' = batch /\ outbox' \subseteq outbox /\ ~Pushing'
    BY <1>3 DEF Ack, ItemDone, Pushing
  <2> QED BY <2>1, <2>2, DueShrinks
<1>4. CASE GiveUp
  <2>1. /\ item # NoItem /\ item' = NoItem /\ batch' = batch
        /\ outbox' = SetRow(item, "failed", attempt) /\ ~Pushing'
    BY <1>0, <1>4 DEF GiveUp, ItemDone, Pushing
  <2>2. \A x \in Due' : /\ \E r \in Due : r.at = x.at /\ r.anime = x.anime
                        /\ ~InHand(x)
    BY <1>0, <2>1, MarkingDue DEF InHand
  <2> QED BY <2>1, <2>2, DueType, OrderKept
<1>5. CASE DrainFails BY <1>5, DueShrinks DEF DrainFails, WorkerRestarts, Pushing
<1> QED BY <1>1, <1>2, <1>3, <1>4, <1>5, DrainOrdered, TakeOrdered DEF Worker

LEMMA ClockGrows == ASSUME Typed, [Next]_vars PROVE clock' >= clock
<1>0. clock \in Int BY LimitAssumption DEF Typed, TypeOK, Edit
<1>1. clock' = clock \/ clock' = clock + 1
  <2>1. ASSUME BulkSetStatus \/ ProviderUpdate \/ RemoteEdit PROVE clock' = clock + 1
    BY <2>1 DEF BulkSetStatus, ProviderUpdate, Enqueue, RemoteEdit
  <2>2. ASSUME NEW e \in Editors, UiPush(e) \/ UiWrite(e) \/ UiClear(e)
        PROVE  clock' = clock \/ clock' = clock + 1
    BY <2>2 DEF UiPush, UiWrite, UiClear
  <2>3. ASSUME (\E a \in Anime : Retry(a)) \/ Worker \/ DrainFails \/ PullFetch \/ PullApply
               \/ Crash \/ UNCHANGED vars
        PROVE  clock' = clock
    BY <2>3 DEF Retry, Worker, Drain, Take, PushOk, PushFails, Ack, GiveUp, DrainFails, PullFetch,
                PullApply, Crash, vars
  <2> QED BY <2>1, <2>2, <2>3 DEF Next
<1> QED BY <1>0, <1>1

LEMMA OrderStep == ASSUME HInv, HNext, Typed' PROVE Ordered' /\ SentBefore'
<1>1. Ordered'
  <2>1. CASE BulkSetStatus BY <2>1, FieldAssumption, EnqueueOrdered DEF BulkSetStatus
  <2>2. CASE ProviderUpdate BY <2>2, EnqueueOrdered DEF ProviderUpdate
  <2>3. ASSUME NEW a \in Anime, Retry(a) PROVE Ordered' BY <2>3, RetryOrdered
  <2>4. CASE Worker \/ DrainFails BY <2>4, WorkerOrdered
  <2>5. ASSUME NEW e \in Editors, UiPush(e) \/ UiWrite(e) \/ UiClear(e) PROVE Ordered'
    BY <2>5, DueShrinks DEF UiPush, UiWrite, UiClear, workerVars, Pushing
  <2>6. CASE PullFetch \/ PullApply \/ RemoteEdit
    BY <2>6, DueShrinks DEF PullFetch, PullApply, RemoteEdit, workerVars, Pushing
  <2>7. CASE Crash BY <2>7, DueShrinks DEF Crash, WorkerRestarts, Pushing
  <2> QED BY <2>1, <2>2, <2>3, <2>4, <2>5, <2>6, <2>7 DEF HNext, Next
<1> QED BY <1>1, ClockGrows, SentBeforeStep DEF HInv, RInv, HNext

\* Queued updates of one anime reach AniList in the order they were made, as long
\* as the user revives no failed row, for every interleaving of drains with stale
\* batches, superseding writes, lost answers and crashes.
THEOREM InOrder == HSpec => []InOrderUnlessRevived
<1>1. HInit => Typed /\ IInv /\ Ordered /\ SentBefore
  BY HInit0, InitType, InitInv DEF HInit
<1>2. HSpec => Spec
  <2>1. HInit => Init BY DEF HInit
  <2>2. [HNext]_hvars => [Next]_vars BY DEF HNext, hvars
  <2> QED BY <2>1, <2>2, PTL DEF HSpec, Spec
<1>3. RInv /\ RInv' /\ Ordered /\ SentBefore /\ [HNext]_hvars => (Ordered /\ SentBefore)'
  <2> SUFFICES ASSUME RInv, RInv', Ordered, SentBefore, [HNext]_hvars PROVE (Ordered /\ SentBefore)'
    OBVIOUS
  <2>1. CASE HNext BY <2>1, OrderStep DEF HInv, RInv
  <2>2. CASE UNCHANGED hvars
    BY <2>2 DEF hvars, vars, Ordered, SentBefore, Due, Pushing, Fresher, Id, InHand, SameRow
  <2> QED BY <2>1, <2>2
<1>4. Ordered => InOrderUnlessRevived BY DEF Ordered, InOrderUnlessRevived, Pushing, Fresher
<1> QED BY <1>1, <1>2, <1>3, <1>4, RefinementInvariant, PTL DEF HSpec
=============================================================================
