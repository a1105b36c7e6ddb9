---------------------------- MODULE LibraryProofs ----------------------------
(***************************************************************************)
(* What is proved of the library run's components.  The progress of one    *)
(* series (EpisodeDecision, SeriesProgress): its types with the bound on   *)
(* repeated decisions, the recorded rewatch and the entry's status, the    *)
(* rewatch counter, what redelivered events may change, and that progress  *)
(* does not go backwards.  The push keys (WebPush): who subscribed from a  *)
(* sound page is reached.  The personal layer (Library): hearts, tags and  *)
(* notes through every edit, import and restore, and the restore itself.   *)
(* The recommender: one rank to a row, the user's decisions, and what the  *)
(* walk over prequels returns, by which sequels are held back.             *)
(***************************************************************************)
EXTENDS SeriesProgress, WebPush, Library, Recommender, TLAPS, FiniteSetTheorems, SequenceTheorems, WellFoundedInduction

-----------------------------------------------------------------------------
(* EpisodeDecision: what one decision returns.                             *)

Entered == Status \cup {"NONE"}

LEMMA UpsertType ==
  ASSUME NEW e \in Entry, NEW d \in Outcome
  PROVE  /\ Upsert(e, d) \in Entry
         /\ Upsert(e, d).status = IF d.status # SameStatus THEN d.status
                                  ELSE IF Silent(d) \/ e.status # "NONE" THEN e.status ELSE "PLANNING"
         /\ Upsert(e, d).progress = IF d.progress # Same THEN d.progress
                                    ELSE IF Silent(d) \/ e.status # "NONE" THEN e.progress ELSE 0
         /\ Upsert(e, d).repeat = IF d.repeat # Same THEN d.repeat
                                  ELSE IF Silent(d) \/ e.status # "NONE" THEN e.repeat ELSE 0
BY DEF Upsert, Silent, Entry, Outcome, Status, Same, SameStatus

LEMMA DecideType ==
  ASSUME NEW e \in Entry, NEW s \in StateRow, NEW w \in Nat, NEW t \in Nat
  PROVE  Decide(e, s, w, t) \in Outcome
<1>1. LastSeen(e, s) \in Nat
  BY DEF LastSeen, Entry, StateRow
<1>2. Greater(w, LastSeen(e, s)) \in Nat
  BY <1>1 DEF Greater
<1>3. e.repeat + 1 \in Nat /\ s.rewatch \in BOOLEAN
  BY DEF Entry, StateRow
<1>4. ASSUME NEW st \in Status \cup {SameStatus}, NEW p \in Nat \cup {Same}, NEW r \in Nat \cup {Same},
             NEW l \in Nat, NEW b \in BOOLEAN
      PROVE  Out(st, p, r, l, b) \in Outcome
  BY DEF Out, Outcome, StateRow
<1> QED
  BY <1>1, <1>2, <1>3, <1>4 DEF Decide, Record, Advance, Restatus, Completion, Status

\* f is e, or e with its status read back in the app's own words.
Near(e, f) == /\ f.progress = e.progress /\ f.repeat = e.repeat
              /\ f.status = e.status \/ (e.status = "CURRENT" /\ f.status = "WATCHING")

Fields(d, st, p, r, l, b) ==
  /\ d.status = st /\ d.progress = p /\ d.repeat = r
  /\ d.row.known = TRUE /\ d.row.last = l /\ d.row.rewatch = b

LEMMA OutFields ==
  ASSUME NEW st, NEW p, NEW r, NEW l, NEW b
  PROVE  Fields(Out(st, p, r, l, b), st, p, r, l, b)
BY DEF Out, Fields

\* Which branch decides, and what it returns.
Branch(e, s, w, t, d) ==
  \/ e.status = "NONE" /\ Fields(d, "WATCHING", w, Same, w, FALSE)
  \/ FirstSight(e, s) /\ Fields(d, SameStatus, Same, Same, w, FALSE)
  \/ /\ e.status = "REPEATING" /\ ~s.rewatch
     /\ \/ Ahead(e, s, w) /\ Fields(d, SameStatus, w, Same, w, TRUE)
        \/ ~Ahead(e, s, w) /\ Fields(d, SameStatus, Same, Same, w, TRUE)
  \/ RewatchStarts(e, s, w, t) /\ Fields(d, "REPEATING", w, Same, w, TRUE)
  \/ /\ e.status # "NONE" /\ ~FirstSight(e, s) /\ ~(e.status = "REPEATING" /\ ~s.rewatch)
     /\ ~RewatchStarts(e, s, w, t)
     /\ \/ NewPass(e, s, w) /\ Fields(d, SameStatus, w, Same, w, TRUE)
        \/ NothingNew(e, s, w) /\ Fields(d, SameStatus, Same, Same, LastSeen(e, s), s.rewatch)
        \/ /\ ~NewPass(e, s, w) /\ ~NothingNew(e, s, w)
           /\ \/ RewatchEnds(s, w, t) /\ Fields(d, "COMPLETED", w, e.repeat + 1, w, FALSE)
              \/ s.rewatch /\ Ahead(e, s, w) /\ Fields(d, SameStatus, w, Same, w, TRUE)
              \/ e.status = "DROPPED" /\ w > LastSeen(e, s) /\ Fields(d, "CURRENT", w, Same, w, FALSE)
              \/ ~s.rewatch /\ Ahead(e, s, w) /\ Fields(d, SameStatus, w, Same, w, FALSE)
              \/ /\ ~RewatchEnds(s, w, t) /\ ~Ahead(e, s, w)
                 /\ Fields(d, SameStatus, Same, Same, Greater(w, LastSeen(e, s)), s.rewatch)

LEMMA Branches ==
  ASSUME NEW e, NEW s, NEW w, NEW t
  PROVE  Branch(e, s, w, t, Decide(e, s, w, t))
<1> DEFINE d == Decide(e, s, w, t)
<1>1. ASSUME NEW st, NEW p, NEW r, NEW l, NEW b, d = Out(st, p, r, l, b)
      PROVE  Fields(d, st, p, r, l, b)
  BY <1>1, OutFields
<1>2. CASE e.status = "NONE"
  <2>1. d = Out("WATCHING", w, Same, w, FALSE)
    BY <1>2 DEF Decide, Restatus
  <2> QED
    BY <2>1, <1>1, <1>2 DEF Branch
<1>3. CASE e.status # "NONE" /\ FirstSight(e, s)
  <2>1. d = Out(SameStatus, Same, Same, w, FALSE)
    BY <1>3 DEF Decide, Record
  <2> QED
    BY <2>1, <1>1, <1>3 DEF Branch
<1>4. CASE e.status = "REPEATING" /\ ~s.rewatch
  <2>1. CASE Ahead(e, s, w)
    <3>1. d = Out(SameStatus, w, Same, w, TRUE)
      BY <1>4, <2>1 DEF Decide, Advance, FirstSight
    <3> QED
      BY <3>1, <1>1, <1>4, <2>1 DEF Branch
  <2>2. CASE ~Ahead(e, s, w)
    <3>1. d = Out(SameStatus, Same, Same, w, TRUE)
      BY <1>4, <2>2 DEF Decide, Record, FirstSight
    <3> QED
      BY <3>1, <1>1, <1>4, <2>2 DEF Branch
  <2> QED
    BY <2>1, <2>2
<1>5. CASE e.status # "NONE" /\ ~FirstSight(e, s) /\ ~(e.status = "REPEATING" /\ ~s.rewatch) /\ RewatchStarts(e, s, w, t)
  <2>1. d = Out("REPEATING", w, Same, w, TRUE)
    BY <1>5 DEF Decide, Restatus
  <2> QED
    BY <2>1, <1>1, <1>5 DEF Branch
<1>6. CASE e.status # "NONE" /\ ~FirstSight(e, s) /\ ~(e.status = "REPEATING" /\ ~s.rewatch) /\ ~RewatchStarts(e, s, w, t)
  <2>0. d = IF NewPass(e, s, w) THEN Advance(w, TRUE)
            ELSE IF NothingNew(e, s, w) THEN Record(LastSeen(e, s), s.rewatch)
            ELSE IF RewatchEnds(s, w, t) THEN Completion(e, w)
            ELSE IF s.rewatch /\ Ahead(e, s, w) THEN Advance(w, TRUE)
            ELSE IF e.status = "DROPPED" /\ w > LastSeen(e, s) THEN Restatus("CURRENT", w, FALSE)
            ELSE IF Ahead(e, s, w) THEN Advance(w, FALSE)
            ELSE Record(Greater(w, LastSeen(e, s)), s.rewatch)
    BY <1>6 DEF Decide
  <2>1. CASE NewPass(e, s, w)
    <3>1. Fields(d, SameStatus, w, Same, w, TRUE)
      BY <2>0, <2>1, <1>1 DEF Advance
    <3> QED
      BY <3>1, <1>6, <2>1 DEF Branch
  <2>2. CASE ~NewPass(e, s, w) /\ NothingNew(e, s, w)
    <3>1. Fields(d, SameStatus, Same, Same, LastSeen(e, s), s.rewatch)
      BY <2>0, <2>2, <1>1 DEF Record
    <3> QED
      BY <3>1, <1>6, <2>2 DEF Branch
  <2>3. CASE ~NewPass(e, s, w) /\ ~NothingNew(e, s, w) /\ RewatchEnds(s, w, t)
    <3>1. Fields(d, "COMPLETED", w, e.repeat + 1, w, FALSE)
      BY <2>0, <2>3, <1>1 DEF Completion
    <3> QED
      BY <3>1, <1>6, <2>3 DEF Branch
  <2>4. CASE ~NewPass(e, s, w) /\ ~NothingNew(e, s, w) /\ ~RewatchEnds(s, w, t)
    <3>0. d = IF s.rewatch /\ Ahead(e, s, w) THEN Advance(w, TRUE)
              ELSE IF e.status = "DROPPED" /\ w > LastSeen(e, s) THEN Restatus("CURRENT", w, FALSE)
              ELSE IF Ahead(e, s, w) THEN Advance(w, FALSE)
              ELSE Record(Greater(w, LastSeen(e, s)), s.rewatch)
      BY <2>0, <2>4
    <3>1. CASE s.rewatch /\ Ahead(e, s, w)
      <4>1. Fields(d, SameStatus, w, Same, w, TRUE)
        BY <3>0, <3>1, <1>1 DEF Advance
      <4> QED
        BY <4>1, <1>6, <2>4, <3>1 DEF Branch
    <3>2. CASE ~(s.rewatch /\ Ahead(e, s, w)) /\ e.status = "DROPPED" /\ w > LastSeen(e, s)
      <4>1. Fields(d, "CURRENT", w, Same, w, FALSE)
        BY <3>0, <3>2, <1>1 DEF Restatus
      <4> QED
        BY <4>1, <1>6, <2>4, <3>2 DEF Branch
    <3>3. CASE ~(s.rewatch /\ Ahead(e, s, w)) /\ ~(e.status = "DROPPED" /\ w > LastSeen(e, s)) /\ Ahead(e, s, w)
      <4>1. Fields(d, SameStatus, w, Same, w, FALSE)
        BY <3>0, <3>3, <1>1 DEF Advance
      <4> QED
        BY <4>1, <1>6, <2>4, <3>3 DEF Branch
    <3>4. CASE ~(e.status = "DROPPED" /\ w > LastSeen(e, s)) /\ ~Ahead(e, s, w)
      <4>1. Fields(d, SameStatus, Same, Same, Greater(w, LastSeen(e, s)), s.rewatch)
        BY <3>0, <3>4, <1>1 DEF Record
      <4> QED
        BY <4>1, <1>6, <2>4, <3>4 DEF Branch
    <3> QED
      BY <3>1, <3>2, <3>3, <3>4
  <2> QED
    BY <2>1, <2>2, <2>3, <2>4
<1> QED
  BY <1>2, <1>3, <1>4, <1>5, <1>6

\* What a decision with a recorded rewatch in its row came from.
LEMMA RewatchDecided ==
  ASSUME NEW e \in Entry, NEW s \in StateRow, NEW w \in Nat, NEW t \in Nat,
         NEW d, Branch(e, s, w, t, d), d.row.rewatch
  PROVE  \/ d.status = "REPEATING"
         \/ d.status = SameStatus /\ (s.rewatch \/ e.status = "REPEATING")
BY DEF Branch, Fields, NewPass

\* The counter moves when a recorded rewatch ends, and by one.
LEMMA RepeatDecided ==
  ASSUME NEW e \in Entry, NEW s \in StateRow, NEW w \in Nat, NEW t \in Nat,
         NEW d, Branch(e, s, w, t, d)
  PROVE  d.repeat = Same \/ (d.repeat = e.repeat + 1 /\ t > 0 /\ w >= t)
BY DEF Branch, Fields, RewatchEnds

LEMMA ProgressDecided ==
  ASSUME NEW e \in Entry, NEW s \in StateRow, NEW w \in Nat, NEW t \in Nat,
         NEW d, Branch(e, s, w, t, d)
  PROVE  /\ d.progress \in {Same, w}
         /\ d.progress = w /\ ~d.row.rewatch =>
              \/ e.status \in {"NONE", "DROPPED"} \/ w > e.progress
              \/ t > 0 /\ w >= t
         /\ d.progress = Same => d.status = SameStatus /\ d.repeat = Same
         /\ e.status = "NONE" => d.progress = w
         /\ d.status # "NONE"
BY DEF Branch, Fields, RewatchEnds, Ahead, Same, SameStatus, FirstSight, RewatchStarts

\* What a decision leaves behind, as far as the same event is concerned.
Handled(g, r, w, t) ==
  /\ r.known /\ g.status # "NONE" /\ w <= g.progress
  /\ \/ ~r.rewatch /\ w <= r.last /\ g.status # "REPEATING" /\ ~RewatchStarts(g, r, w, t)
     \/ r.rewatch /\ w = r.last

LEMMA HandledIsQuiet ==
  ASSUME NEW g \in Entry, NEW r \in StateRow, NEW w \in Nat \ {0}, NEW t \in Nat, Handled(g, r, w, t),
         ~RewatchEnds(r, w, t), NEW c, Branch(g, r, w, t, c)
  PROVE  Silent(c)
<1>1. LastSeen(g, r) = r.last /\ ~FirstSight(g, r) /\ ~Ahead(g, r, w) /\ ~NewPass(g, r, w)
  BY DEF Handled, LastSeen, FirstSight, Ahead, NewPass, Entry, StateRow
<1>2. CASE ~r.rewatch
  <2>1. NothingNew(g, r, w) /\ ~RewatchStarts(g, r, w, t)
    BY <1>1, <1>2 DEF Handled, NothingNew
  <2> QED
    BY <1>1, <1>2, <2>1 DEF Branch, Fields, Silent, Handled
<1>3. CASE r.rewatch
  <2>1. ~NothingNew(g, r, w) /\ ~RewatchStarts(g, r, w, t) /\ ~(w > LastSeen(g, r))
    BY <1>1, <1>3 DEF Handled, NothingNew, RewatchStarts, StateRow
  <2> QED
    BY <1>1, <1>3, <2>1 DEF Branch, Fields, Silent, Handled
<1> QED
  BY <1>2, <1>3

\* The second decision on the same event, taken on what the first one left.
LEMMA Redelivered ==
  ASSUME NEW e \in Entry, NEW f \in Entry, Near(e, f), NEW s \in StateRow, NEW w \in Nat \ {0}, NEW t \in Nat,
         NEW d \in Outcome, Branch(e, s, w, t, d), NEW g \in Entry, Near(Upsert(f, d), g)
  PROVE  Handled(g, d.row, w, t) \/ (e.status = "COMPLETED" /\ e.progress < w)
<1>1. SUFFICES ASSUME ~(e.status = "COMPLETED" /\ e.progress < w)
               PROVE  Handled(g, d.row, w, t)
  OBVIOUS
<1>2. /\ d.progress \in {Same, w} /\ d.status # "NONE"
      /\ d.progress = Same => d.status = SameStatus /\ d.repeat = Same
      /\ e.status = "NONE" => d.progress = w
  BY ProgressDecided
<1>3. /\ d.progress = w => g.progress = w
      /\ d.progress = Same => g.progress = e.progress
  BY <1>2, UpsertType DEF Near, Silent, Same
<1>4. /\ d.status # SameStatus => g.status = d.status \/ (d.status = "CURRENT" /\ g.status = "WATCHING")
      /\ d.status = SameStatus /\ e.status # "NONE" =>
           g.status = e.status \/ (e.status = "CURRENT" /\ g.status = "WATCHING")
  <2>1. /\ d.status # SameStatus => Upsert(f, d).status = d.status
        /\ d.status = SameStatus /\ f.status # "NONE" => Upsert(f, d).status = f.status
    BY UpsertType
  <2> QED
    BY <2>1 DEF Near
<1>5. /\ LastSeen(e, s) \in Nat /\ e.progress \in Nat /\ s.rewatch \in BOOLEAN /\ d.row \in StateRow
      /\ g.progress \in Nat /\ d.row.last \in Nat
  BY DEF LastSeen, Entry, StateRow, Outcome
<1>6. ASSUME d.row.known, d.row.last = w
      PROVE  ~RewatchStarts(g, d.row, w, t)
  BY <1>6 DEF RewatchStarts, Peak, LastSeen
<1>7. d.row.known
  BY DEF Branch, Fields
<1>8. CASE e.status = "NONE" /\ Fields(d, "WATCHING", w, Same, w, FALSE)
  BY <1>8, <1>3, <1>4, <1>6 DEF Handled, Fields, SameStatus
<1>9. CASE FirstSight(e, s) /\ Fields(d, SameStatus, Same, Same, w, FALSE)
  BY <1>1, <1>9, <1>3, <1>4, <1>5, <1>6 DEF Handled, Fields, FirstSight
<1>10. CASE e.status # "NONE" /\ Fields(d, SameStatus, w, Same, w, TRUE)
  BY <1>10, <1>3, <1>4, <1>5 DEF Handled, Fields
<1>11. CASE e.status = "REPEATING" /\ ~Ahead(e, s, w) /\ Fields(d, SameStatus, Same, Same, w, TRUE)
  BY <1>11, <1>3, <1>4, <1>5 DEF Handled, Fields, Ahead
<1>12. CASE Fields(d, "REPEATING", w, Same, w, TRUE)
  BY <1>12, <1>3, <1>4, <1>5 DEF Handled, Fields, SameStatus
<1>13. CASE /\ e.status # "NONE" /\ ~(e.status = "REPEATING" /\ ~s.rewatch) /\ ~RewatchStarts(e, s, w, t)
            /\ NothingNew(e, s, w) /\ Fields(d, SameStatus, Same, Same, LastSeen(e, s), s.rewatch)
  <2>1. ~s.rewatch /\ w <= LastSeen(e, s) /\ w <= e.progress
    BY <1>13 DEF NothingNew
  <2>2. Peak(g, d.row, t) = Peak(e, s, t)
    BY <1>13, <1>5, <2>1 DEF Peak, LastSeen, Fields
  <2>3. ~RewatchStarts(g, d.row, w, t)
    BY <1>13, <1>4, <2>1, <2>2 DEF RewatchStarts, Fields
  <2> QED
    BY <1>13, <1>3, <1>4, <1>5, <2>1, <2>3 DEF Handled, Fields
<1>14. CASE Fields(d, "COMPLETED", w, e.repeat + 1, w, FALSE) \/ Fields(d, "CURRENT", w, Same, w, FALSE)
  BY <1>14, <1>3, <1>4, <1>5, <1>6 DEF Handled, Fields, SameStatus
<1>15. CASE /\ e.status # "NONE" /\ ~(e.status = "REPEATING" /\ ~s.rewatch)
            /\ ~s.rewatch /\ Fields(d, SameStatus, w, Same, w, FALSE)
  BY <1>15, <1>3, <1>4, <1>5, <1>6 DEF Handled, Fields
<1>16. CASE /\ e.status # "NONE" /\ ~(e.status = "REPEATING" /\ ~s.rewatch)
            /\ ~NewPass(e, s, w) /\ ~NothingNew(e, s, w) /\ ~Ahead(e, s, w)
            /\ Fields(d, SameStatus, Same, Same, Greater(w, LastSeen(e, s)), s.rewatch)
  <2>1. w <= e.progress /\ LastSeen(e, s) <= w
    BY <1>16, <1>5 DEF Ahead, NewPass, NothingNew
  <2>2. d.row.last = w
    BY <1>16, <1>5, <2>1 DEF Fields, Greater
  <2> QED
    BY <1>16, <1>3, <1>4, <1>5, <1>6, <1>7, <2>1, <2>2 DEF Handled, Fields
<1> QED
  BY <1>8, <1>9, <1>10, <1>11, <1>12, <1>13, <1>14, <1>15, <1>16 DEF Branch

-----------------------------------------------------------------------------
(* SeriesProgress: types.                                                  *)

ProgressTyped ==
  /\ script \in Script /\ total \in Totals
  /\ history \in Seq(Episode) /\ Len(history) <= MaxWatch
  /\ entry \in Entry /\ row \in StateRow /\ run \in Run
  /\ seen \in 0..MaxWatch /\ applied \in 0..MaxWatch /\ rewalks \in Nat
  /\ marked \in BOOLEAN /\ walk \in BOOLEAN /\ strayed \in BOOLEAN
  /\ edits \in 0..MaxEdits /\ forced \in 0..MaxForced /\ kills \in 0..MaxKills

\* Where a run can be, and what it has reviewed by then.
RunOK ==
  /\ applied <= Len(history) /\ seen <= Len(history)
  /\ run.pc = "idle" => run = NoRun
  /\ run.pc # "idle" => /\ applied <= run.asOf /\ seen <= run.asOf /\ run.asOf <= Len(history)
                        /\ run.full \/ (walk /\ marked)
                        /\ run.full => run.from = 0
  /\ run.pc = "first" => ~run.did /\ run.from < run.asOf /\ (run.full \/ run.from = seen)
  /\ run.pc = "second" => run.from < run.asOf /\ (run.did <=> script = "plex")
  /\ run.pc = "second" /\ ~run.did => marked /\ seen = run.asOf
  /\ run.did => applied = run.asOf /\ run.asOf > 0
  /\ run.pc = "end" /\ run.did => marked /\ seen = run.asOf

ProgressBase == ProgressTyped /\ RunOK

LEMMA Bounds == /\ MaxEpisode \in Nat /\ MaxWatch \in Nat /\ MaxEdits \in Nat /\ MaxForced \in Nat /\ MaxKills \in Nat
                /\ \A t \in Totals : t \in Nat
BY BoundAssumption, TotalsAssumption

LEMMA SettableType ==
  ASSUME total \in Totals, NEW c \in Settable
  PROVE  /\ c.status \in Status \ {"CURRENT"} /\ c.progress \in Nat
         /\ total > 0 => c.progress <= total
BY Bounds, UserStatusAssumption DEF Settable, Episode

LEMMA ProgressInitBase == ProgressInit => ProgressBase
<1> SUFFICES ASSUME ProgressInit PROVE ProgressBase
  OBVIOUS
<1>1. entry \in Entry
  BY SettableType DEF ProgressInit, Entry, Untracked
<1>2. history \in Seq(Episode) /\ Len(history) = 0
  BY DEF ProgressInit
<1>3. NoRun \in Run
  BY Bounds DEF NoRun, Run, Entry, Untracked, StateRow, NoStateRow
<1>4. NoStateRow \in StateRow
  BY DEF StateRow, NoStateRow
<1>5. ProgressTyped
  <2>1. /\ script \in Script /\ total \in Totals /\ row \in StateRow /\ run \in Run
        /\ seen = 0 /\ applied = 0 /\ rewalks = 0 /\ edits = 0 /\ forced = 0 /\ kills = 0
        /\ marked \in BOOLEAN /\ walk \in BOOLEAN /\ strayed \in BOOLEAN
    BY <1>3, <1>4 DEF ProgressInit
  <2> QED
    BY <2>1, <1>1, <1>2, Bounds DEF ProgressTyped
<1>6. NoRun.pc = "idle" /\ ~NoRun.did
  BY DEF NoRun
<1>7. RunOK
  BY <1>2, <1>6 DEF ProgressInit, RunOK
<1> QED
  BY <1>5, <1>7 DEF ProgressBase

\* The event a run decides on.
LEMMA LatestType ==
  ASSUME ProgressBase, run.asOf > 0, run.pc # "idle"
  PROVE  Latest \in Episode /\ Latest \in Nat \ {0} /\ (total > 0 => Latest <= total)
<1>1. run.asOf \in 1..Len(history)
  BY Bounds DEF ProgressBase, ProgressTyped, RunOK, Run
<1>2. Latest \in Episode
  BY <1>1 DEF ProgressBase, ProgressTyped, Latest
<1> QED
  BY <1>2, Bounds DEF Episode, ProgressBase, ProgressTyped

-----------------------------------------------------------------------------
(* What a decision does to the entry and the row.                          *)

\* Process and the facts about it every invariant needs.
LEMMA ProcessStep ==
  ASSUME ProgressBase, run.asOf > 0, run.pc # "idle", Process
  PROVE  \E d \in Outcome : /\ Branch(run.snap, run.state, Latest, total, d)
                            /\ entry' = Upsert(entry, d) /\ row' = d.row /\ entry' \in Entry /\ row' \in StateRow
                            /\ strayed' = (strayed /\ d.row.rewatch)
                            /\ applied' = run.asOf
                            /\ run.from < applied => rewalks' = rewalks + 1
                            /\ ~(run.from < applied) => rewalks' = rewalks
<1> DEFINE dd == Decide(run.snap, run.state, Latest, total)
<1>1. run.snap \in Entry /\ run.state \in StateRow /\ total \in Nat /\ Latest \in Nat /\ entry \in Entry /\ rewalks \in Nat
  BY LatestType, Bounds DEF ProgressBase, ProgressTyped, Run
<1>2. dd \in Outcome /\ Branch(run.snap, run.state, Latest, total, dd)
  BY <1>1, DecideType, Branches
<1>3. entry' = Upsert(entry, dd) /\ row' = dd.row /\ strayed' = (strayed /\ dd.row.rewatch)
  BY DEF Process
<1>4. /\ applied' = run.asOf
      /\ run.from < applied => rewalks' = rewalks + 1
      /\ ~(run.from < applied) => rewalks' = rewalks
  BY <1>1 DEF Process
<1> HIDE DEF dd
<1>5. Upsert(entry, dd) \in Entry /\ dd.row \in StateRow
  BY <1>1, <1>2, UpsertType DEF Outcome
<1> QED
  BY <1>2, <1>3, <1>4, <1>5

-----------------------------------------------------------------------------
(* The base is kept, action by action.                                     *)

LEMMA WatchBase == ASSUME ProgressBase, Watch PROVE ProgressBase'
<1>1. PICK e \in Episode : history' = Append(history, e)
  BY DEF Watch
<1>2. history' \in Seq(Episode) /\ Len(history') = Len(history) + 1
  BY <1>1 DEF ProgressBase, ProgressTyped
<1>3. Episode' = Episode
  BY DEF Watch, fixed, Episode
<1>4. ProgressTyped'
  BY <1>2, <1>3, Bounds DEF ProgressBase, ProgressTyped, Watch, fixed, ghosts, bounds
<1>5. RunOK'
  BY <1>2, Bounds DEF ProgressBase, ProgressTyped, RunOK, Watch, fixed, ghosts, bounds, Run
<1> QED
  BY <1>4, <1>5 DEF ProgressBase

LEMMA EditedEntry ==
  ASSUME ProgressBase, UserEdit
  PROVE  /\ entry' \in Entry
         /\ entry' = Untracked \/ (/\ entry'.repeat = entry.repeat /\ entry'.status \in Status \ {"CURRENT"}
                                   /\ total > 0 => entry'.progress <= total)
<1>1. CASE entry' = Untracked
  BY <1>1 DEF Entry, Untracked
<1>2. CASE \E c \in Settable : Sensible(c) /\ entry' = [entry EXCEPT !.status = c.status, !.progress = c.progress]
  <2>1. PICK c \in Settable : entry' = [entry EXCEPT !.status = c.status, !.progress = c.progress]
    BY <1>2
  <2>2. c.status \in Status \ {"CURRENT"} /\ c.progress \in Nat /\ (total > 0 => c.progress <= total)
    BY SettableType DEF ProgressBase, ProgressTyped
  <2>3. entry \in Entry
    BY DEF ProgressBase, ProgressTyped
  <2> QED
    BY <2>1, <2>2, <2>3 DEF Entry
<1> QED
  BY <1>1, <1>2 DEF UserEdit

LEMMA EditedRun ==
  ASSUME ProgressBase, UserEdit
  PROVE  /\ run' \in Run /\ run'.pc = run.pc /\ run'.full = run.full /\ run'.from = run.from /\ run'.asOf = run.asOf
         /\ run'.snap = run.snap /\ run'.state = run.state /\ run'.did = run.did
         /\ run.pc = "idle" => run' = run
         /\ run.pc # "idle" => run'.edited
<1>1. run \in Run /\ run' = [run EXCEPT !.edited = (run.pc # "idle")]
  BY DEF ProgressBase, ProgressTyped, UserEdit
<1>2. CASE run.pc # "idle"
  <2>1. run' = [run EXCEPT !.edited = TRUE]
    BY <1>1, <1>2
  <2> QED
    BY <1>1, <1>2, <2>1 DEF Run
<1>3. CASE run.pc = "idle"
  <2>1. run = NoRun
    BY <1>3 DEF ProgressBase, RunOK
  <2>2. run' = [run EXCEPT !.edited = FALSE]
    BY <1>1, <1>3
  <2>3. run.edited = FALSE
    BY <2>1 DEF NoRun
  <2>4. run' = run
    BY <1>1, <2>2, <2>3 DEF Run
  <2> QED
    BY <1>1, <1>3, <2>4
<1> QED
  BY <1>2, <1>3

LEMMA EditBase == ASSUME ProgressBase, UserEdit PROVE ProgressBase'
<1>1. entry' \in Entry
  BY EditedEntry
<1>2. Episode' = Episode
  BY DEF UserEdit, fixed, Episode
<1>3. strayed' \in BOOLEAN
  BY DEF UserEdit
<1>4. edits' \in 0..MaxEdits
  <2>1. edits < MaxEdits /\ edits' = edits + 1
    BY DEF UserEdit
  <2> QED
    BY <2>1, Bounds DEF ProgressBase, ProgressTyped
<1>5. ProgressTyped'
  BY <1>1, <1>2, <1>3, <1>4, EditedRun DEF ProgressBase, ProgressTyped, UserEdit, fixed
<1>6. RunOK'
  BY EditedRun DEF ProgressBase, RunOK, UserEdit, fixed
<1> QED
  BY <1>5, <1>6 DEF ProgressBase

LEMMA PullBase == ASSUME ProgressBase, Pull PROVE ProgressBase'
<1>1. entry' \in Entry
  BY DEF Pull, ProgressBase, ProgressTyped, Entry, Status
<1>2. Episode' = Episode
  BY DEF Pull, fixed, Episode
<1>3. ProgressTyped'
  BY <1>1, <1>2 DEF ProgressBase, ProgressTyped, Pull, fixed, ghosts, bounds
<1>4. RunOK'
  BY DEF ProgressBase, RunOK, Pull, fixed, ghosts
<1> QED
  BY <1>3, <1>4 DEF ProgressBase

LEMMA StartedRun ==
  ASSUME ProgressBase, NEW force \in BOOLEAN, Start(force)
  PROVE  /\ run' \in Run /\ ~run'.did /\ ~run'.edited
         /\ run'.snap = entry /\ run'.state = row /\ run'.asOf = Len(history)
         /\ run'.pc = IF run'.asOf > run'.from THEN "first" ELSE "end"
         /\ run'.full = (force \/ ~walk \/ ~marked)
         /\ run'.full => run'.from = 0
         /\ ~run'.full => run'.from = seen
         /\ walk' = (walk /\ ~force) /\ marked' = marked
<1> DEFINE full == force \/ ~walk \/ ~marked
           from == IF full THEN 0 ELSE seen
           n == Len(history)
           pc == IF n > from THEN "first" ELSE "end"
<1>1. run' = [NoRun EXCEPT !.pc = pc, !.full = full, !.from = from, !.asOf = n, !.snap = entry, !.state = row]
  BY DEF Start
<1>2. /\ full \in BOOLEAN /\ from \in 0..MaxWatch /\ n \in 0..MaxWatch /\ pc \in {"first", "end"}
      /\ entry \in Entry /\ row \in StateRow
  BY Bounds DEF ProgressBase, ProgressTyped
<1>3. walk' = (walk /\ ~force) /\ marked' = marked
  BY DEF Start
<1> HIDE DEF full, from, n, pc
<1>4. /\ run' \in Run /\ run'.pc = pc /\ run'.full = full /\ run'.from = from /\ run'.asOf = n
      /\ run'.snap = entry /\ run'.state = row /\ run'.did = FALSE /\ run'.edited = FALSE
  BY <1>1, <1>2 DEF NoRun, Run
<1> QED
  BY <1>3, <1>4 DEF full, from, n, pc

LEMMA StartBase == ASSUME ProgressBase, NEW force \in BOOLEAN, Start(force) PROVE ProgressBase'
<1>1. Episode' = Episode
  BY DEF Start, fixed, Episode
<1>2. forced' \in 0..MaxForced
  BY Bounds DEF Start, ProgressBase, ProgressTyped
<1>3. run' \in Run /\ walk' \in BOOLEAN
  BY StartedRun
<1>4. ProgressTyped'
  BY <1>1, <1>2, <1>3 DEF ProgressBase, ProgressTyped, Start, fixed, ghosts
<1>5. run'.pc \in {"first", "end"} /\ (run'.pc = "first" <=> run'.asOf > run'.from)
  BY StartedRun
<1>6. walk' <=> walk /\ ~force
  BY StartedRun
<1>7. run'.full <=> (force \/ ~walk \/ ~marked)
  BY StartedRun
<1>8. Len(history) \in Nat
  BY DEF ProgressBase, ProgressTyped
<1>9. /\ applied' = applied /\ seen' = seen /\ history' = history
      /\ applied \in Nat /\ seen \in Nat /\ applied <= Len(history) /\ seen <= Len(history)
  BY Bounds DEF ProgressBase, ProgressTyped, RunOK, Start, fixed, ghosts
<1>10. run'.asOf = Len(history) /\ ~run'.did /\ (run'.full => run'.from = 0) /\ (~run'.full => run'.from = seen)
       /\ marked' = marked
  BY StartedRun
<1>11. run'.full \/ (walk' /\ marked')
  BY <1>6, <1>7, <1>10 DEF ProgressBase, ProgressTyped
<1>12. RunOK'
  BY <1>5, <1>8, <1>9, <1>10, <1>11 DEF RunOK
<1> QED
  BY <1>4, <1>12 DEF ProgressBase

LEMMA SkipBase == ASSUME ProgressBase, Skip PROVE ProgressBase'
<1>1. run \in Run /\ run' = [run EXCEPT !.pc = "end"]
  BY DEF ProgressBase, ProgressTyped, Skip
<1>2. /\ run' \in Run /\ run'.pc = "end" /\ run'.full = run.full /\ run'.from = run.from
      /\ run'.asOf = run.asOf /\ run'.did = run.did
  BY <1>1 DEF Run
<1>3. Episode' = Episode
  BY DEF Skip, fixed, Episode
<1>4. ProgressTyped'
  BY <1>2, <1>3 DEF ProgressBase, ProgressTyped, Skip, fixed, ghosts, bounds
<1>5. run.pc = "first" /\ ~run.did
  BY DEF Skip, ProgressBase, RunOK
<1>6. RunOK'
  BY <1>2, <1>5 DEF ProgressBase, RunOK, Skip, fixed, ghosts
<1> QED
  BY <1>4, <1>6 DEF ProgressBase

\* A commit either takes the decision or saves the watermark.
Commit == FirstCommit \/ SecondCommit

Decides == \/ run.pc = "first" /\ script = "plex"
           \/ run.pc = "second" /\ script = "crunchyroll"

LEMMA CommitStep ==
  ASSUME ProgressBase, Commit
  PROVE  /\ run.pc \in {"first", "second"} /\ run.asOf > 0 /\ (run.pc = "second" => (run.did <=> ~Decides))
         /\ run' \in Run /\ (run.pc = "first" => run'.pc = "second") /\ (run.pc = "second" => run'.pc = "end")
         /\ run'.full = run.full /\ run'.from = run.from /\ run'.asOf = run.asOf
         /\ run'.snap = run.snap /\ run'.state = run.state /\ run'.edited = run.edited
         /\ (run'.did <=> run.did \/ Decides)
         /\ run.did => ~Decides
         /\ Decides => Process /\ UNCHANGED <<seen, marked>>
         /\ ~Decides => Mark /\ UNCHANGED <<entry, ghosts>>
         /\ UNCHANGED <<fixed, history, walk, bounds>>
<1>1. script \in {"crunchyroll", "plex"} /\ run \in Run
  BY ScriptAssumption DEF ProgressBase, ProgressTyped
<1>2. CASE FirstCommit
  <2>1. run.pc = "first" /\ ~run.did /\ run.from < run.asOf /\ run.from \in Nat /\ run.asOf \in Nat
    BY <1>2, Bounds DEF FirstCommit, ProgressBase, ProgressTyped, RunOK, Run
  <2>2. run' = [run EXCEPT !.pc = "second", !.did = (script = "plex")]
    BY <1>2 DEF FirstCommit
  <2>3. /\ run' \in Run /\ run'.pc = "second" /\ run'.did = (script = "plex")
        /\ run'.full = run.full /\ run'.from = run.from /\ run'.asOf = run.asOf
        /\ run'.snap = run.snap /\ run'.state = run.state /\ run'.edited = run.edited
    BY <1>1, <2>2 DEF Run
  <2>4. /\ Decides => Process /\ UNCHANGED <<seen, marked>>
        /\ ~Decides => Mark /\ UNCHANGED <<entry, ghosts>>
        /\ UNCHANGED <<fixed, history, walk, bounds>>
    BY <1>1, <1>2, <2>1 DEF FirstCommit, Decides
  <2>5. run'.did <=> Decides
    BY <2>1, <2>3 DEF Decides
  <2> QED
    BY <2>1, <2>3, <2>4, <2>5
<1>3. CASE SecondCommit
  <2>1. /\ run.pc = "second" /\ (run.did <=> script = "plex") /\ run.from < run.asOf
        /\ run.from \in Nat /\ run.asOf \in Nat /\ run.did \in BOOLEAN
    BY <1>3, Bounds DEF SecondCommit, ProgressBase, ProgressTyped, RunOK, Run
  <2>2. run' = [run EXCEPT !.pc = "end", !.did = TRUE]
    BY <1>3 DEF SecondCommit
  <2>3. /\ run' \in Run /\ run'.pc = "end" /\ run'.did = TRUE
        /\ run'.full = run.full /\ run'.from = run.from /\ run'.asOf = run.asOf
        /\ run'.snap = run.snap /\ run'.state = run.state /\ run'.edited = run.edited
    BY <1>1, <2>2 DEF Run
  <2>4. /\ Decides => Process /\ UNCHANGED <<seen, marked>>
        /\ ~Decides => Mark /\ UNCHANGED <<entry, ghosts>>
        /\ UNCHANGED <<fixed, history, walk, bounds>>
    BY <1>1, <1>3, <2>1 DEF SecondCommit, Decides
  <2>5. Decides <=> ~run.did
    BY <1>1, <2>1 DEF Decides
  <2> QED
    BY <2>1, <2>3, <2>4, <2>5 DEF Decides
<1> QED
  BY <1>2, <1>3 DEF Commit

LEMMA MarkStep ==
  ASSUME ProgressBase, Mark
  PROVE  /\ seen' = run.asOf /\ marked' = TRUE /\ row' \in StateRow
         /\ row'.known /\ row'.last = row.last /\ row'.rewatch = row.rewatch
BY DEF Mark, ProgressBase, ProgressTyped, StateRow

LEMMA CommitBase == ASSUME ProgressBase, Commit PROVE ProgressBase'
<1>1. Episode' = Episode
  BY CommitStep DEF fixed, Episode
<1>2. run.asOf \in 0..MaxWatch /\ applied <= run.asOf /\ seen <= run.asOf /\ run.asOf <= Len(history) /\ run.asOf > 0
  BY CommitStep DEF ProgressBase, ProgressTyped, RunOK, Run
<1>3. CASE Decides
  <2>0. Process /\ seen' = seen /\ marked' = marked /\ ~run.did
    BY <1>3, CommitStep
  <2>1. PICK d \in Outcome : /\ entry' \in Entry /\ row' \in StateRow
                             /\ strayed' = (strayed /\ d.row.rewatch) /\ applied' = run.asOf
                             /\ run.from < applied => rewalks' = rewalks + 1
                             /\ ~(run.from < applied) => rewalks' = rewalks
    BY <2>0, CommitStep, ProcessStep
  <2>2. strayed' \in BOOLEAN /\ rewalks' \in Nat /\ applied' \in 0..MaxWatch
    BY <2>1, <1>2 DEF ProgressBase, ProgressTyped
  <2>3. ProgressTyped'
    BY <1>1, <2>0, <2>1, <2>2, CommitStep DEF ProgressBase, ProgressTyped, fixed, bounds
  <2>4. run.pc = "second" => marked /\ seen = run.asOf
    BY <2>0 DEF ProgressBase, RunOK
  <2>5. /\ run.pc \in {"first", "second"} /\ (run.pc = "first" => run'.pc = "second") /\ (run.pc = "second" => run'.pc = "end")
        /\ run'.full = run.full /\ run'.from = run.from /\ run'.asOf = run.asOf /\ run'.did
        /\ walk' = walk /\ script' = script /\ history' = history
    BY <1>3, CommitStep DEF fixed
  <2>6. run.from < run.asOf /\ (run.full \/ (walk /\ marked)) /\ (run.full => run.from = 0) /\ seen <= Len(history)
    BY <2>5 DEF ProgressBase, RunOK
  <2>7. run'.pc = "second" => script' = "plex"
    BY <1>3, <2>5 DEF Decides
  <2>8. run.asOf \in Nat /\ seen \in Nat /\ Len(history) \in Nat
    BY Bounds DEF ProgressBase, ProgressTyped, Run
  <2>9. RunOK'
    BY <1>2, <2>0, <2>1, <2>4, <2>5, <2>6, <2>7, <2>8 DEF RunOK
  <2> QED
    BY <2>3, <2>9 DEF ProgressBase
<1>4. CASE ~Decides
  <2>0. /\ Mark /\ entry' = entry /\ applied' = applied /\ strayed' = strayed /\ rewalks' = rewalks
    BY <1>4, CommitStep DEF ghosts
  <2>1. seen' = run.asOf /\ marked' = TRUE /\ row' \in StateRow
    BY <2>0, MarkStep
  <2>2. ProgressTyped'
    BY <1>1, <1>2, <2>0, <2>1, CommitStep DEF ProgressBase, ProgressTyped, fixed, bounds
  <2>3. run'.did <=> run.did
    BY <1>4, CommitStep
  <2>4. /\ run.pc \in {"first", "second"} /\ (run.pc = "first" => run'.pc = "second") /\ (run.pc = "second" => run'.pc = "end")
        /\ run'.full = run.full /\ run'.from = run.from /\ run'.asOf = run.asOf
        /\ walk' = walk /\ script' = script /\ history' = history /\ (run.pc = "second" => run.did)
    BY <1>4, CommitStep DEF fixed
  <2>5. /\ run.from < run.asOf /\ (run.full => run.from = 0) /\ seen <= Len(history) /\ applied <= Len(history)
        /\ run.full \/ walk
        /\ run.pc = "first" => ~run.did
        /\ run.did => applied = run.asOf
    BY <2>4 DEF ProgressBase, RunOK
  <2>6. run'.pc = "second" => script' # "plex"
    BY <1>4, <2>4 DEF Decides
  <2>7. run.asOf \in Nat /\ seen \in Nat /\ applied \in Nat /\ Len(history) \in Nat
    BY Bounds DEF ProgressBase, ProgressTyped, Run
  <2>8. RunOK'
    BY <1>2, <2>0, <2>1, <2>3, <2>4, <2>5, <2>6, <2>7 DEF RunOK
  <2> QED
    BY <2>2, <2>8 DEF ProgressBase
<1> QED
  BY <1>3, <1>4

LEMMA OthersStep ==
  ASSUME ProgressBase, OthersMark, run.pc # "idle"
  PROVE  /\ seen' \in 0..MaxWatch /\ marked' \in BOOLEAN /\ seen <= seen' /\ seen' <= Len(history) /\ (marked => marked')
         /\ run.pc = "end" /\ run.did => seen' = seen
<1>1. /\ seen <= run.asOf /\ run.asOf <= Len(history) /\ run.asOf \in 0..MaxWatch /\ Len(history) \in Nat
      /\ seen \in 0..MaxWatch /\ marked \in BOOLEAN
      /\ run.pc = "end" /\ run.did => seen = run.asOf
  BY DEF ProgressBase, ProgressTyped, RunOK, Run
<1>2. \/ seen' = seen /\ marked' = marked
      \/ marked' = TRUE /\ seen' \in seen..run.asOf
  BY DEF OthersMark
<1>3. marked' \in BOOLEAN /\ (marked => marked')
  BY <1>1, <1>2
<1>4. seen' \in 0..MaxWatch /\ seen <= seen' /\ seen' <= run.asOf
  <2>1. seen' = seen \/ seen' \in seen..run.asOf
    BY <1>2
  <2> QED
    BY <1>1, <2>1, Bounds
<1> QED
  BY <1>1, <1>3, <1>4

LEMMA FinishBase == ASSUME ProgressBase, Finish PROVE ProgressBase'
<1>1. Episode' = Episode
  BY DEF Finish, fixed, Episode
<1>2. run' = NoRun /\ NoRun \in Run /\ NoRun.pc = "idle" /\ ~NoRun.did
  BY Bounds DEF Finish, NoRun, Run, Entry, Untracked, StateRow, NoStateRow
<1>3. run.pc = "end" /\ OthersMark
  BY DEF Finish
<1>4. ProgressTyped'
  BY <1>1, <1>2, <1>3, OthersStep DEF ProgressBase, ProgressTyped, Finish, fixed, ghosts, bounds
<1>5. RunOK'
  BY <1>2, <1>3, OthersStep DEF ProgressBase, RunOK, Finish, fixed, ghosts
<1> QED
  BY <1>4, <1>5 DEF ProgressBase

LEMMA KillBase == ASSUME ProgressBase, Kill PROVE ProgressBase'
<1>1. Episode' = Episode
  BY DEF Kill, fixed, Episode
<1>2. run' = NoRun /\ NoRun \in Run /\ NoRun.pc = "idle" /\ ~NoRun.did
  BY Bounds DEF Kill, NoRun, Run, Entry, Untracked, StateRow, NoStateRow
<1>3. run.pc # "idle" /\ OthersMark /\ kills' \in 0..MaxKills
  BY Bounds DEF Kill, ProgressBase, ProgressTyped
<1>4. ProgressTyped'
  BY <1>1, <1>2, <1>3, OthersStep DEF ProgressBase, ProgressTyped, Kill, fixed, ghosts
<1>5. RunOK'
  BY <1>2, <1>3, OthersStep DEF ProgressBase, RunOK, Kill, fixed, ghosts
<1> QED
  BY <1>4, <1>5 DEF ProgressBase

-----------------------------------------------------------------------------
(* Decisions on old events are paid for: each needs a forced resync or a   *)
(* killed run of its own.                                                  *)

\* The run has not decided yet.
Undecided == run.pc \in {"first", "second"} /\ ~run.did

\* The next run will be handed events that were decided on before.
Behind == applied > 0 /\ (~(walk \/ run.full) \/ ~marked \/ seen < applied)

Debt == (Undecided /\ run.from < applied) \/ (~Undecided /\ ~run.did /\ Behind)

Paid == rewalks <= forced + kills /\ (Debt => rewalks < forced + kills)

LEMMA PaidNumbers ==
  ASSUME ProgressBase
  PROVE  /\ rewalks \in Nat /\ forced \in Nat /\ kills \in Nat /\ seen \in Nat /\ applied \in Nat
         /\ run.from \in Nat /\ run.asOf \in Nat /\ run.did \in BOOLEAN /\ run.full \in BOOLEAN
         /\ walk \in BOOLEAN /\ marked \in BOOLEAN /\ Len(history) \in Nat
BY Bounds DEF ProgressBase, ProgressTyped, Run

LEMMA PaidWhenQuiet ==
  ASSUME ProgressBase, Paid, rewalks' = rewalks, forced' = forced, kills' = kills, Debt' => Debt
  PROVE  Paid'
BY DEF Paid

LEMMA WatchPaid == ASSUME ProgressBase, Paid, Watch PROVE Paid'
BY PaidWhenQuiet DEF Watch, ghosts, bounds, Debt, Undecided, Behind

LEMMA EditPaid == ASSUME ProgressBase, Paid, UserEdit PROVE Paid'
<1>1. Debt' => Debt
  BY EditedRun DEF UserEdit, Debt, Undecided, Behind
<1> QED
  BY <1>1, PaidWhenQuiet DEF UserEdit

LEMMA PullPaid == ASSUME ProgressBase, Paid, Pull PROVE Paid'
BY PaidWhenQuiet DEF Pull, ghosts, bounds, Debt, Undecided, Behind

LEMMA StartPaid == ASSUME ProgressBase, Paid, NEW force \in BOOLEAN, Start(force) PROVE Paid'
<1>1. rewalks' = rewalks /\ kills' = kills /\ applied' = applied /\ seen' = seen
  BY DEF Start, ghosts
<1>2. CASE force
  <2>1. forced' = forced + 1
    BY <1>2 DEF Start
  <2> QED
    BY <1>1, <2>1, PaidNumbers DEF Paid
<1>3. CASE ~force
  <2>1. forced' = forced
    BY <1>3, PaidNumbers DEF Start
  <2>2. run = NoRun /\ NoRun.pc = "idle" /\ ~NoRun.did /\ ~NoRun.full
    BY DEF Start, ProgressBase, RunOK, NoRun
  <2>3. Debt <=> Behind
    BY <2>2 DEF Debt, Undecided
  <2>4. /\ run'.full <=> (~walk \/ ~marked)
        /\ walk' <=> walk
        /\ marked' = marked /\ ~run'.did /\ run'.asOf = Len(history)
        /\ run'.full => run'.from = 0
        /\ ~run'.full => run'.from = seen
        /\ run'.pc \in {"first", "end"} /\ (run'.pc = "first" <=> run'.asOf > run'.from)
    BY <1>3, StartedRun
  <2>5. applied <= Len(history) /\ seen <= Len(history)
    BY DEF ProgressBase, RunOK
  <2>6. Debt' => Behind
    BY <1>1, <2>2, <2>4, <2>5, PaidNumbers DEF Debt, Undecided, Behind
  <2> QED
    BY <1>1, <2>1, <2>3, <2>6, PaidWhenQuiet
<1> QED
  BY <1>2, <1>3

LEMMA SkipPaid == ASSUME ProgressBase, Paid, Skip PROVE Paid'
<1>1. run' = [run EXCEPT !.pc = "end"] /\ run \in Run
  BY DEF Skip, ProgressBase, ProgressTyped
<1>2. run'.pc = "end" /\ run'.full = run.full /\ run'.from = run.from /\ run'.did = run.did
  BY <1>1 DEF Run
<1>3. /\ run.pc = "first" /\ ~run.did /\ (run.full \/ (walk /\ marked /\ run.from = seen))
      /\ run.full => run.from = 0
  BY DEF Skip, ProgressBase, RunOK
<1>4. Debt' => Debt
  BY <1>2, <1>3, PaidNumbers DEF Skip, ghosts, Debt, Undecided, Behind
<1> QED
  BY <1>4, PaidWhenQuiet DEF Skip, ghosts, bounds

LEMMA CommitPaid == ASSUME ProgressBase, Paid, Commit PROVE Paid'
<1>1. forced' = forced /\ kills' = kills
  BY CommitStep DEF bounds
<1>2. CASE Decides
  <2>1. run'.did /\ Undecided /\ Process /\ run.asOf > 0 /\ run.pc # "idle"
    BY <1>2, CommitStep DEF Undecided
  <2>2. (run.from < applied => rewalks' = rewalks + 1) /\ (~(run.from < applied) => rewalks' = rewalks)
    BY <2>1, ProcessStep
  <2> QED
    BY <1>1, <2>1, <2>2, PaidNumbers DEF Paid, Debt, Undecided
<1>3. CASE ~Decides
  <2>1. /\ run'.from = run.from /\ (run'.did <=> run.did) /\ applied' = applied /\ rewalks' = rewalks
        /\ run.pc = "first" \/ (run.pc = "second" /\ run.did)
    BY <1>3, CommitStep DEF ghosts
  <2>2. Debt' => Debt
    BY <2>1, CommitStep DEF Debt, Undecided
  <2> QED
    BY <1>1, <2>1, <2>2, PaidWhenQuiet
<1> QED
  BY <1>2, <1>3

LEMMA FinishPaid == ASSUME ProgressBase, Paid, Finish PROVE Paid'
<1>1. run.pc = "end" /\ run' = NoRun /\ (walk' <=> walk \/ run.full) /\ OthersMark /\ applied' = applied
  BY DEF Finish, ghosts
<1>2. NoRun.pc = "idle" /\ ~NoRun.did /\ ~NoRun.full
  BY DEF NoRun
<1>3. /\ seen <= seen' /\ (marked => marked') /\ seen' \in Nat
      /\ run.did => seen' = seen /\ marked /\ seen = run.asOf /\ applied = run.asOf
      /\ run.full \/ walk
  BY <1>1, OthersStep, Bounds DEF ProgressBase, RunOK
<1>4. Debt' => Debt
  BY <1>1, <1>2, <1>3, PaidNumbers DEF Debt, Undecided, Behind
<1> QED
  BY <1>4, PaidWhenQuiet DEF Finish, ghosts, bounds

LEMMA KillPaid == ASSUME ProgressBase, Paid, Kill PROVE Paid'
<1>1. kills' = kills + 1 /\ forced' = forced /\ rewalks' = rewalks
  BY DEF Kill, ghosts
<1> QED
  BY <1>1, PaidNumbers DEF Paid

-----------------------------------------------------------------------------
(* The recorded rewatch.                                                   *)

\* A run that has not decided may still be about to record the rewatch that the
\* entry or the row it loaded were in.
FlagBacked ==
  /\ FlagFollowsStatus
  /\ Undecided /\ ~strayed /\ (run.state.rewatch \/ run.snap.status = "REPEATING") => entry.status = "REPEATING"

LEMMA FlagWhenQuiet ==
  ASSUME FlagBacked, row' = row, strayed' = strayed, entry' = entry, Undecided' => Undecided /\ run'.state = run.state /\ run'.snap = run.snap
  PROVE  FlagBacked'
BY DEF FlagBacked, FlagFollowsStatus

LEMMA EditFlag == ASSUME ProgressBase, FlagBacked, UserEdit PROVE FlagBacked'
<1>1. row' = row /\ strayed' = (strayed \/ (entry'.status # "REPEATING" /\ (row.rewatch \/ run.pc # "idle")))
  BY DEF UserEdit
<1>2. Undecided' => Undecided /\ run.pc # "idle" /\ run'.state = run.state /\ run'.snap = run.snap
  BY EditedRun DEF Undecided
<1> QED
  BY <1>1, <1>2 DEF FlagBacked, FlagFollowsStatus

LEMMA PullFlag == ASSUME ProgressBase, FlagBacked, Pull PROVE FlagBacked'
<1>1. entry.status = "CURRENT" /\ row' = row /\ strayed' = strayed /\ run' = run
  BY DEF Pull, ghosts
<1> QED
  BY <1>1 DEF FlagBacked, FlagFollowsStatus, Undecided

LEMMA StartFlag == ASSUME ProgressBase, FlagBacked, NEW force \in BOOLEAN, Start(force) PROVE FlagBacked'
<1>1. row' = row /\ strayed' = strayed /\ entry' = entry /\ run'.snap = entry /\ run'.state = row
  BY StartedRun DEF Start, ghosts
<1> QED
  BY <1>1 DEF FlagBacked, FlagFollowsStatus

LEMMA CommitFlag == ASSUME ProgressBase, FlagBacked, Commit PROVE FlagBacked'
<1>1. CASE Decides
  <2>1. run'.did /\ ~run.did /\ Undecided /\ Process /\ run.asOf > 0 /\ run.pc # "idle"
    BY <1>1, CommitStep DEF Undecided
  <2>2. PICK d \in Outcome : /\ Branch(run.snap, run.state, Latest, total, d)
                             /\ entry' = Upsert(entry, d) /\ row' = d.row
                             /\ strayed' = (strayed /\ d.row.rewatch)
    BY <2>1, ProcessStep
  <2>3. run.snap \in Entry /\ run.state \in StateRow /\ Latest \in Nat /\ total \in Nat /\ entry \in Entry
    BY <2>1, LatestType, Bounds DEF ProgressBase, ProgressTyped, Run
  <2>4. ASSUME row'.rewatch, ~strayed' PROVE entry'.status = "REPEATING"
    <3>1. d.row.rewatch /\ ~strayed
      BY <2>2, <2>4
    <3>2. \/ d.status = "REPEATING"
          \/ d.status = SameStatus /\ entry.status = "REPEATING"
      BY <2>1, <2>2, <2>3, <3>1, RewatchDecided DEF FlagBacked
    <3> QED
      BY <2>2, <2>3, <3>2, UpsertType DEF SameStatus
  <2> QED
    BY <2>1, <2>4 DEF FlagBacked, FlagFollowsStatus, Undecided
<1>2. CASE ~Decides
  <2>1. /\ (run'.did <=> run.did) /\ entry' = entry /\ strayed' = strayed /\ (row'.rewatch <=> row.rewatch)
        /\ run'.snap = run.snap /\ run'.state = run.state
    BY <1>2, CommitStep, MarkStep DEF ghosts
  <2>2. Undecided' => Undecided
    BY <2>1, CommitStep DEF Undecided
  <2> QED
    BY <2>1, <2>2 DEF FlagBacked, FlagFollowsStatus
<1> QED
  BY <1>1, <1>2

LEMMA FlagKept ==
  ASSUME ProgressBase, FlagBacked, ProgressNext
  PROVE  FlagBacked'
<1>1. CASE Watch
  BY <1>1, FlagWhenQuiet DEF Watch, ghosts, Undecided
<1>2. CASE Skip
  <2>1. run' = [run EXCEPT !.pc = "end"] /\ run \in Run
    BY <1>2 DEF Skip, ProgressBase, ProgressTyped
  <2>2. ~Undecided'
    BY <2>1 DEF Undecided, Run
  <2> QED
    BY <1>2, <2>2, FlagWhenQuiet DEF Skip, ghosts
<1>3. CASE Finish \/ Kill
  <2>1. ~Undecided'
    BY <1>3 DEF Finish, Kill, Undecided, NoRun
  <2> QED
    BY <1>3, <2>1, FlagWhenQuiet DEF Finish, Kill, ghosts
<1> QED
  BY <1>1, <1>2, <1>3, EditFlag, PullFlag, StartFlag, CommitFlag DEF ProgressNext, Commit

-----------------------------------------------------------------------------
(* The rewatch counter.                                                    *)

Finals(n) == {i \in 1..n : history[i] = total}

Earned ==
  /\ entry.repeat <= Cardinality(Finals(applied)) + rewalks
  /\ Undecided => run.snap.repeat <= Cardinality(Finals(applied)) + rewalks

LEMMA FinalsFinite ==
  ASSUME NEW n \in Nat
  PROVE  IsFiniteSet(Finals(n)) /\ Cardinality(Finals(n)) \in Nat
<1>1. IsFiniteSet(1..n)
  BY FS_Interval
<1> QED
  BY <1>1, FS_Subset, FS_CardinalityType DEF Finals

LEMMA FinalsGrow ==
  ASSUME NEW m \in Nat, NEW n \in Nat, m <= n
  PROVE  /\ Cardinality(Finals(m)) <= Cardinality(Finals(n))
         /\ m < n /\ history[n] = total => Cardinality(Finals(m)) + 1 <= Cardinality(Finals(n))
<1>1. Finals(m) \subseteq Finals(n)
  BY DEF Finals
<1>2. Cardinality(Finals(m)) <= Cardinality(Finals(n))
  BY <1>1, FinalsFinite, FS_Subset
<1>3. ASSUME m < n, history[n] = total PROVE Cardinality(Finals(m)) + 1 <= Cardinality(Finals(n))
  <2>1. n \notin Finals(m) /\ Finals(m) \cup {n} \subseteq Finals(n)
    BY <1>1, <1>3 DEF Finals
  <2>2. Cardinality(Finals(m) \cup {n}) = Cardinality(Finals(m)) + 1
    BY <2>1, FinalsFinite, FS_AddElement
  <2> QED
    BY <2>1, <2>2, FinalsFinite, FS_Subset
<1> QED
  BY <1>2, <1>3

LEMMA EarnedNumbers ==
  ASSUME ProgressBase
  PROVE  /\ entry.repeat \in Nat /\ run.snap.repeat \in Nat /\ entry.progress \in Nat /\ run.snap.progress \in Nat
         /\ Cardinality(Finals(applied)) \in Nat
BY PaidNumbers, FinalsFinite DEF ProgressBase, ProgressTyped, Run, Entry

LEMMA EarnedWhenQuiet ==
  ASSUME ProgressBase, Earned, history' = history, total' = total, applied' = applied, rewalks' = rewalks,
         entry'.repeat = entry.repeat \/ entry'.repeat = 0,
         Undecided' => Undecided /\ run'.snap = run.snap
  PROVE  Earned'
<1>1. Finals(applied)' = Finals(applied)
  BY DEF Finals
<1> QED
  BY <1>1, EarnedNumbers, PaidNumbers DEF Earned

LEMMA WatchEarned == ASSUME ProgressBase, Earned, Watch PROVE Earned'
<1>1. PICK e \in Episode : history' = Append(history, e)
  BY DEF Watch
<1>2. applied <= Len(history) /\ history \in Seq(Episode)
  BY DEF ProgressBase, ProgressTyped, RunOK
<1>3. \A i \in 1..applied : history'[i] = history[i]
  BY <1>1, <1>2, PaidNumbers
<1>4. Finals(applied)' = Finals(applied)
  BY <1>3 DEF Finals, Watch, ghosts, fixed
<1> QED
  BY <1>4 DEF Earned, Watch, ghosts, Undecided

LEMMA StartEarned == ASSUME ProgressBase, Earned, NEW force \in BOOLEAN, Start(force) PROVE Earned'
<1>1. Finals(applied)' = Finals(applied) /\ entry' = entry /\ rewalks' = rewalks /\ run'.snap = entry
  BY StartedRun DEF Start, ghosts, fixed, Finals
<1> QED
  BY <1>1 DEF Earned

LEMMA CommitEarned == ASSUME ProgressBase, Earned, Commit PROVE Earned'
<1>1. history' = history /\ total' = total
  BY CommitStep DEF fixed
<1>2. CASE Decides
  <2>1. run'.did /\ ~run.did /\ Undecided /\ Process /\ run.asOf > 0 /\ run.pc # "idle"
    BY <1>2, CommitStep DEF Undecided
  <2>2. PICK d \in Outcome : /\ Branch(run.snap, run.state, Latest, total, d)
                             /\ entry' = Upsert(entry, d)
                             /\ applied' = run.asOf
                             /\ run.from < applied => rewalks' = rewalks + 1
                             /\ ~(run.from < applied) => rewalks' = rewalks
    BY <2>1, ProcessStep
  <2>3. /\ run.snap \in Entry /\ run.state \in StateRow /\ Latest \in Nat /\ total \in Nat /\ entry \in Entry
        /\ total > 0 => Latest <= total
    BY <2>1, LatestType, Bounds DEF ProgressBase, ProgressTyped, Run
  <2>4. applied <= run.asOf /\ run.from < run.asOf /\ ~Undecided'
    BY <2>1 DEF ProgressBase, RunOK, Undecided
  <2>5. Cardinality(Finals(applied)) <= Cardinality(Finals(run.asOf)) /\ Cardinality(Finals(run.asOf)) \in Nat
    BY <2>4, PaidNumbers, FinalsGrow, FinalsFinite
  <2>6. Finals(applied)' = Finals(run.asOf)
    BY <1>1, <2>2 DEF Finals
  <2>7. entry'.repeat <= Cardinality(Finals(run.asOf)) + rewalks'
    <3>1. d.repeat = Same \/ (d.repeat = run.snap.repeat + 1 /\ total > 0 /\ Latest >= total)
      BY <2>2, <2>3, RepeatDecided
    <3> DEFINE A == Cardinality(Finals(applied))
               B == Cardinality(Finals(run.asOf))
    <3>a. A \in Nat /\ B \in Nat /\ A <= B /\ entry.repeat <= A + rewalks
      BY <2>5, EarnedNumbers DEF Earned
    <3>b. rewalks \in Nat /\ entry.repeat \in Nat /\ run.snap.repeat \in Nat
      BY PaidNumbers, EarnedNumbers
    <3>c. (run.from < applied /\ rewalks' = rewalks + 1) \/ (~(run.from < applied) /\ rewalks' = rewalks)
      BY <2>2
    <3>2. CASE d.repeat = Same
      <4>1. entry'.repeat = entry.repeat \/ entry'.repeat = 0
        BY <2>2, <2>3, <3>2, UpsertType
      <4> QED
        <5> HIDE DEF A, B
        <5>1. entry'.repeat <= B + rewalks'
          BY <4>1, <3>a, <3>b, <3>c
        <5> QED
          BY <5>1 DEF B
    <3>3. CASE d.repeat = run.snap.repeat + 1 /\ total > 0 /\ Latest >= total
      <4>1. entry'.repeat = run.snap.repeat + 1
        BY <2>2, <2>3, <3>3, EarnedNumbers, UpsertType DEF Same
      <4>2. history[run.asOf] = total
        BY <2>3, <3>3 DEF Latest
      <4>3. run.snap.repeat <= Cardinality(Finals(applied)) + rewalks
        BY <2>1 DEF Earned
      <4>a. run.snap.repeat <= A + rewalks
        BY <4>3
      <4>4. CASE run.from < applied
        <5> HIDE DEF A, B
        <5>1. entry'.repeat <= B + rewalks'
          BY <4>1, <4>a, <4>4, <3>a, <3>b, <3>c
        <5> QED
          BY <5>1 DEF B
      <4>5. CASE ~(run.from < applied)
        <5>1. applied < run.asOf
          BY <4>5, <2>4, PaidNumbers
        <5>2. Cardinality(Finals(applied)) + 1 <= Cardinality(Finals(run.asOf))
          BY <4>2, <5>1, <2>4, PaidNumbers, FinalsGrow
        <5>3. A + 1 <= B
          BY <5>2
        <5> HIDE DEF A, B
        <5>4. entry'.repeat <= B + rewalks'
          BY <4>1, <4>a, <4>5, <5>3, <3>a, <3>b, <3>c
        <5> QED
          BY <5>4 DEF B
      <4> QED
        BY <4>4, <4>5
    <3> QED
      BY <3>1, <3>2, <3>3
  <2> QED
    BY <2>4, <2>6, <2>7 DEF Earned
<1>3. CASE ~Decides
  <2>1. /\ (run'.did <=> run.did) /\ entry' = entry /\ applied' = applied /\ rewalks' = rewalks /\ run'.snap = run.snap
    BY <1>3, CommitStep DEF ghosts
  <2>2. Undecided' => Undecided
    BY <2>1, CommitStep DEF Undecided
  <2> QED
    BY <1>1, <2>1, <2>2, EarnedWhenQuiet
<1> QED
  BY <1>2, <1>3

LEMMA EarnedKept ==
  ASSUME ProgressBase, Earned, ProgressNext
  PROVE  Earned'
<1>1. CASE UserEdit
  <2>1. entry'.repeat = entry.repeat \/ entry'.repeat = 0
    BY <1>1, EditedEntry DEF Untracked
  <2>2. Undecided' => Undecided /\ run'.snap = run.snap
    BY <1>1, EditedRun DEF Undecided
  <2> QED
    BY <1>1, <2>1, <2>2, EarnedWhenQuiet DEF UserEdit, fixed
<1>2. CASE Pull
  <2>1. entry'.repeat = entry.repeat
    BY <1>2 DEF Pull, ProgressBase, ProgressTyped, Entry
  <2> QED
    BY <1>2, <2>1, EarnedWhenQuiet DEF Pull, fixed, ghosts, Undecided
<1>3. CASE Skip
  <2>1. run' = [run EXCEPT !.pc = "end"] /\ run \in Run
    BY <1>3 DEF Skip, ProgressBase, ProgressTyped
  <2>2. ~Undecided'
    BY <2>1 DEF Undecided, Run
  <2> QED
    BY <1>3, <2>2, EarnedWhenQuiet DEF Skip, ghosts, fixed
<1>4. CASE Finish \/ Kill
  <2>1. ~Undecided'
    BY <1>4 DEF Finish, Kill, Undecided, NoRun
  <2> QED
    BY <1>4, <2>1, EarnedWhenQuiet DEF Finish, Kill, ghosts, fixed
<1> QED
  BY <1>1, <1>2, <1>3, <1>4, WatchEarned, StartEarned, CommitEarned DEF ProgressNext, Commit

-----------------------------------------------------------------------------
(* What the run knows of an entry nobody edits under it.                   *)

Followed ==
  /\ Undecided /\ ~run.edited => Near(run.snap, entry)
  /\ run.did /\ ~run.edited => \/ Handled(entry, row, Latest, total)
                               \/ run.snap.status = "COMPLETED" /\ run.snap.progress < Latest

\* What the user and the sync can have made of the entry.
Plausible ==
  /\ total > 0 => entry.progress <= total
  /\ entry.status = "NONE" => entry.progress = 0

LEMMA HandledNear ==
  ASSUME NEW g \in Entry, NEW h \in Entry, Near(g, h), NEW r, NEW w, NEW t, Handled(g, r, w, t)
  PROVE  Handled(h, r, w, t)
<1>1. RewatchStarts(h, r, w, t) => RewatchStarts(g, r, w, t)
  BY DEF Near, RewatchStarts, Peak, LastSeen
<1> QED
  BY <1>1 DEF Near, Handled

LEMMA FollowedWhenQuiet ==
  ASSUME ProgressBase, Followed, entry' \in Entry, Near(entry, entry'), row' = row, total' = total, Latest' = Latest \/ ~run'.did,
         Undecided' => Undecided, run'.did => run.did, run'.snap = run.snap \/ (~Undecided' /\ ~run'.did),
         ~run'.edited => ~run.edited \/ (~Undecided' /\ ~run'.did)
  PROVE  Followed'
<1>1. ASSUME Undecided', ~run'.edited PROVE Near(run'.snap, entry')
  BY <1>1 DEF Followed, Near
<1>2. ASSUME run'.did, ~run'.edited
      PROVE  \/ Handled(entry', row, Latest, total)
             \/ run.snap.status = "COMPLETED" /\ run.snap.progress < Latest
  BY <1>2, HandledNear DEF Followed, ProgressBase, ProgressTyped
<1> QED
  BY <1>1, <1>2 DEF Followed

LEMMA NearItself == ASSUME NEW e PROVE Near(e, e)
BY DEF Near

LEMMA WatchFollowed == ASSUME ProgressBase, Followed, Watch PROVE Followed'
<1>1. PICK e \in Episode : history' = Append(history, e)
  BY DEF Watch
<1>2. run' = run /\ entry' = entry /\ row' = row /\ total' = total
  BY DEF Watch, fixed
<1>3. run.did => Latest' = Latest
  <2>1. run.did => run.asOf \in 1..Len(history)
    BY PaidNumbers DEF ProgressBase, RunOK, NoRun
  <2> QED
    BY <1>1, <1>2, <2>1 DEF Latest, ProgressBase, ProgressTyped
<1> QED
  BY <1>2, <1>3, NearItself, FollowedWhenQuiet DEF Undecided, ProgressBase, ProgressTyped

LEMMA EditFollowed == ASSUME ProgressBase, Followed, UserEdit PROVE Followed'
<1>1. CASE run.pc = "idle"
  <2>1. run' = run /\ ~run.did
    BY <1>1, EditedRun DEF ProgressBase, RunOK, NoRun
  <2> QED
    BY <1>1, <2>1 DEF Followed, Undecided
<1>2. CASE run.pc # "idle"
  BY <1>2, EditedRun DEF Followed
<1> QED
  BY <1>1, <1>2

LEMMA PullFollowed == ASSUME ProgressBase, Followed, Pull PROVE Followed'
<1>1. entry' = [entry EXCEPT !.status = "WATCHING"] /\ entry.status = "CURRENT" /\ entry \in Entry
  BY DEF Pull, ProgressBase, ProgressTyped
<1>2. entry' \in Entry /\ Near(entry, entry')
  BY <1>1 DEF Entry, Status, Near
<1>3. run' = run /\ row' = row /\ total' = total /\ history' = history
  BY DEF Pull, fixed
<1> QED
  BY <1>2, <1>3, FollowedWhenQuiet DEF Undecided, Latest

LEMMA StartFollowed == ASSUME ProgressBase, Followed, NEW force \in BOOLEAN, Start(force) PROVE Followed'
<1>1. run'.snap = entry /\ ~run'.did /\ entry' = entry
  BY StartedRun DEF Start
<1> QED
  BY <1>1, NearItself DEF Followed

LEMMA CommitFollowed == ASSUME ProgressBase, Followed, Commit PROVE Followed'
<1>1. Latest' = Latest /\ run'.snap = run.snap /\ run'.edited = run.edited /\ total' = total
  BY CommitStep DEF fixed, Latest
<1>2. CASE Decides
  <2>1. run'.did /\ ~run.did /\ Undecided /\ Process /\ run.asOf > 0 /\ run.pc # "idle" /\ ~Undecided'
    BY <1>2, CommitStep DEF Undecided
  <2>2. PICK d \in Outcome : /\ Branch(run.snap, run.state, Latest, total, d)
                             /\ entry' = Upsert(entry, d) /\ row' = d.row /\ entry' \in Entry
    BY <2>1, ProcessStep
  <2>3. /\ run.snap \in Entry /\ run.state \in StateRow /\ Latest \in Nat \ {0} /\ total \in Nat /\ entry \in Entry
    BY <2>1, LatestType, Bounds DEF ProgressBase, ProgressTyped, Run
  <2>4. ASSUME ~run.edited
        PROVE  Handled(entry', row', Latest, total) \/ (run.snap.status = "COMPLETED" /\ run.snap.progress < Latest)
    <3>1. Near(run.snap, entry)
      BY <2>1, <2>4 DEF Followed
    <3>2. Near(Upsert(entry, d), Upsert(entry, d)) /\ Upsert(entry, d) \in Entry
      BY <2>2, NearItself
    <3> QED
      BY <2>2, <2>3, <3>1, <3>2, Redelivered
  <2> QED
    BY <1>1, <2>1, <2>4 DEF Followed
<1>3. CASE ~Decides
  <2>1. /\ (run'.did <=> run.did) /\ entry' = entry /\ entry \in Entry
        /\ row'.known /\ row'.last = row.last /\ row'.rewatch = row.rewatch
    BY <1>3, CommitStep, MarkStep DEF ProgressBase, ProgressTyped
  <2>2. Undecided' => Undecided
    BY <2>1, CommitStep DEF Undecided
  <2>3. Handled(entry, row, Latest, total) => Handled(entry, row', Latest, total)
    BY <2>1 DEF Handled, RewatchStarts, Peak, LastSeen
  <2> QED
    BY <1>1, <2>1, <2>2, <2>3 DEF Followed
<1> QED
  BY <1>2, <1>3

LEMMA FollowedKept ==
  ASSUME ProgressBase, Followed, ProgressNext
  PROVE  Followed'
<1>1. CASE Skip
  <2>1. run' = [run EXCEPT !.pc = "end"] /\ run \in Run /\ run.pc = "first" /\ ~run.did
    BY <1>1 DEF Skip, ProgressBase, ProgressTyped, RunOK
  <2>2. ~Undecided' /\ ~run'.did
    BY <2>1 DEF Undecided, Run
  <2> QED
    BY <2>2 DEF Followed
<1>2. CASE Finish \/ Kill
  <2>1. ~Undecided' /\ ~run'.did
    BY <1>2 DEF Finish, Kill, Undecided, NoRun
  <2> QED
    BY <2>1 DEF Followed
<1> QED
  BY <1>1, <1>2, WatchFollowed, EditFollowed, PullFollowed, StartFollowed, CommitFollowed DEF ProgressNext, Commit

LEMMA PlausibleKept ==
  ASSUME ProgressBase, Plausible, ProgressNext
  PROVE  Plausible'
<1>1. CASE UserEdit
  <2>1. total' = total /\ total \in Nat
    BY <1>1, Bounds DEF UserEdit, fixed, ProgressBase, ProgressTyped
  <2>2. CASE entry' = Untracked
    BY <2>1, <2>2 DEF Plausible, Untracked
  <2>3. CASE entry' # Untracked
    BY <1>1, <2>1, <2>3, EditedEntry DEF Plausible, Status
  <2> QED
    BY <2>2, <2>3
<1>2. CASE Pull
  <2>1. entry' = [entry EXCEPT !.status = "WATCHING"] /\ entry \in Entry
    BY <1>2 DEF Pull, ProgressBase, ProgressTyped
  <2>2. entry'.status = "WATCHING" /\ entry'.progress = entry.progress
    BY <2>1 DEF Entry
  <2> QED
    BY <1>2, <2>2 DEF Plausible, Pull, fixed
<1>3. CASE Commit
  <2>1. CASE Decides
    <3>1. Process /\ run.asOf > 0 /\ run.pc # "idle"
      BY <1>3, <2>1, CommitStep
    <3>2. PICK d \in Outcome : /\ Branch(run.snap, run.state, Latest, total, d) /\ entry' = Upsert(entry, d)
      BY <3>1, ProcessStep
    <3>3. /\ run.snap \in Entry /\ run.state \in StateRow /\ Latest \in Nat /\ total \in Nat /\ entry \in Entry
          /\ total > 0 => Latest <= total
      BY <3>1, LatestType, Bounds DEF ProgressBase, ProgressTyped, Run
    <3>4. /\ d.progress \in {Same, Latest} /\ d.status # "NONE"
          /\ d.progress = Same => d.status = SameStatus /\ d.repeat = Same
      BY <3>2, <3>3, ProgressDecided
    <3>5. d.progress = Same => entry' = entry
      BY <3>2, <3>4 DEF Upsert, Silent
    <3>6. d.progress # Same => entry'.progress = Latest /\ entry'.status # "NONE"
      BY <3>2, <3>3, <3>4, UpsertType DEF Silent
    <3>7. total' = total
      BY <1>3, CommitStep DEF fixed
    <3> QED
      BY <3>3, <3>5, <3>6, <3>7 DEF Plausible
  <2>2. CASE ~Decides
    BY <1>3, <2>2, CommitStep DEF Plausible, fixed
  <2> QED
    BY <2>1, <2>2
<1>4. CASE Watch \/ (\E force \in BOOLEAN : Start(force)) \/ Skip \/ Finish \/ Kill
  BY <1>4 DEF Plausible, Watch, Start, Skip, Finish, Kill, fixed
<1> QED
  BY <1>1, <1>2, <1>3, <1>4 DEF ProgressNext, Commit

-----------------------------------------------------------------------------
(* The theorems about one series.                                          *)

ProgressInv == ProgressBase /\ Paid /\ FlagBacked /\ Earned /\ Followed /\ Plausible

LEMMA ProgressInitInv == ProgressInit => ProgressInv
<1> SUFFICES ASSUME ProgressInit PROVE ProgressInv
  OBVIOUS
<1>1. ProgressBase
  BY ProgressInitBase
<1>2. /\ applied = 0 /\ rewalks = 0 /\ forced = 0 /\ kills = 0 /\ run.pc = "idle" /\ ~run.did /\ ~row.rewatch
      /\ total \in Nat
  BY Bounds DEF ProgressInit, NoRun, NoStateRow
<1>3. entry.repeat = 0 /\ Plausible
  <2>1. CASE entry = Untracked
    BY <1>2, <2>1 DEF Untracked, Plausible
  <2>2. CASE \E c \in Settable : Sensible(c) /\ entry = [status |-> c.status, progress |-> c.progress, repeat |-> 0]
    <3>1. PICK c \in Settable : entry = [status |-> c.status, progress |-> c.progress, repeat |-> 0]
      BY <2>2
    <3> QED
      BY <1>1, <1>2, <3>1, SettableType DEF Plausible, Status, ProgressBase, ProgressTyped
  <2> QED
    BY <2>1, <2>2 DEF ProgressInit
<1>4. Paid
  BY <1>2 DEF Paid, Debt, Undecided, Behind
<1>5. FlagBacked /\ Followed
  BY <1>2 DEF FlagBacked, FlagFollowsStatus, Followed, Undecided
<1>6. Earned
  BY <1>1, <1>2, <1>3, EarnedNumbers DEF Earned, Undecided
<1> QED
  BY <1>1, <1>3, <1>4, <1>5, <1>6 DEF ProgressInv

LEMMA ProgressStepInv == ProgressInv /\ [ProgressNext]_series => ProgressInv'
<1> SUFFICES ASSUME ProgressInv, [ProgressNext]_series PROVE ProgressInv'
  OBVIOUS
<1>1. CASE ProgressNext
  <2>1. ProgressBase'
    BY <1>1, WatchBase, EditBase, PullBase, StartBase, SkipBase, CommitBase, FinishBase, KillBase
       DEF ProgressInv, ProgressNext, Commit
  <2>2. Paid'
    BY <1>1, WatchPaid, EditPaid, PullPaid, StartPaid, SkipPaid, CommitPaid, FinishPaid, KillPaid
       DEF ProgressInv, ProgressNext, Commit
  <2> QED
    BY <1>1, <2>1, <2>2, FlagKept, EarnedKept, FollowedKept, PlausibleKept DEF ProgressInv
<1>2. CASE UNCHANGED series
  BY <1>2 DEF series, ProgressInv, ProgressBase, ProgressTyped, RunOK, Episode, Paid, Debt, Undecided, Behind,
              FlagBacked, FlagFollowsStatus, Earned, Finals, Followed, Latest, Plausible
<1> QED
  BY <1>1, <1>2

\* The invariant of one series over every history of watching, edits, pulls and
\* provider runs (process_max_aggregated_progress and its callers).
THEOREM ProgressInvariance == ProgressSpec => []ProgressInv
BY ProgressInitInv, ProgressStepInv, PTL DEF ProgressSpec

\* The variables keep their types, and events are decided again at most once for
\* each forced resync or killed run (save_watermark of the provider scripts).
THEOREM ProgressTypes == ProgressSpec => []ProgressTypeOK
<1>1. ProgressInv => ProgressTypeOK
  BY PaidNumbers, Bounds DEF ProgressInv, ProgressBase, ProgressTyped, Paid, ProgressTypeOK
<1> QED
  BY <1>1, ProgressInvariance, PTL

\* A recorded rewatch never outlives the status it was recorded under: the entry says
\* REPEATING, unless the user took it out of the rewatch himself
\* (process_max_aggregated_progress).
THEOREM RewatchRecorded == ProgressSpec => []FlagFollowsStatus
<1>1. ProgressInv => FlagFollowsStatus
  BY DEF ProgressInv, FlagBacked
<1> QED
  BY <1>1, ProgressInvariance, PTL

\* The rewatch counter never exceeds how often the final episode was watched, plus
\* the runs that were handed old events again (process_max_aggregated_progress).
THEOREM ViewingsCounted == ProgressSpec => []RepeatsEarned
<1>1. ProgressInv => RepeatsEarned
  <2> SUFFICES ASSUME ProgressInv PROVE RepeatsEarned
    OBVIOUS
  <2>1. ProgressBase /\ Earned /\ applied <= Len(history)
    BY DEF ProgressInv, ProgressBase, RunOK
  <2> DEFINE A == Cardinality(Finals(applied))
             B == Cardinality(Finals(Len(history)))
  <2>2. A \in Nat /\ B \in Nat /\ A <= B
    BY <2>1, PaidNumbers, FinalsFinite, FinalsGrow
  <2>3. entry.repeat \in Nat /\ rewalks \in Nat /\ entry.repeat <= A + rewalks
    BY <2>1, EarnedNumbers, PaidNumbers DEF Earned
  <2> HIDE DEF A, B
  <2>4. entry.repeat <= B + rewalks
    BY <2>2, <2>3
  <2> QED
    BY <2>4 DEF B, Finals, RepeatsEarned
<1> QED
  BY <1>1, ProgressInvariance, PTL

\* The same events handed to the sync again change nothing, apart from a rewatch
\* first seen at its final episode and a completed entry behind its provider
\* (process_max_aggregated_progress, save_watermark).
THEOREM RedeliveryQuiet == ProgressSpec => []RedeliveryHarmless
<1>1. ProgressInv => RedeliveryHarmless
  <2> SUFFICES ASSUME ProgressInv, run.did, ~run.edited, ~RewatchEnds(row, Latest, total),
                      ~(run.snap.status = "COMPLETED" /\ run.snap.progress < Latest)
               PROVE  Upsert(entry, Decide(entry, row, Latest, total)) = entry
    BY DEF RedeliveryHarmless
  <2>1. ProgressBase /\ Handled(entry, row, Latest, total)
    BY DEF ProgressInv, Followed
  <2>2. run.asOf > 0 /\ run.pc # "idle"
    BY <2>1 DEF ProgressBase, RunOK, NoRun
  <2>3. entry \in Entry /\ row \in StateRow /\ Latest \in Nat \ {0} /\ total \in Nat
    BY <2>1, <2>2, LatestType, Bounds DEF ProgressBase, ProgressTyped
  <2>4. Silent(Decide(entry, row, Latest, total))
    BY <2>1, <2>3, Branches, HandledIsQuiet
  <2> QED
    BY <2>4 DEF Upsert
<1> QED
  BY <1>1, ProgressInvariance, PTL

\* Outside a rewatch no decision lowers the progress of an entry nobody edits under
\* it, but that of a dropped title (process_max_aggregated_progress).
THEOREM NeverBackwards == ProgressSpec => BackwardsOnlyOnResume
<1>1. ASSUME ProgressInv, [ProgressNext]_series, Deciding, ~run.edited, ~row'.rewatch, entry.status # "DROPPED"
      PROVE  entry'.progress >= entry.progress
  <2>1. ProgressBase /\ Followed /\ Plausible
    BY <1>1 DEF ProgressInv
  <2>2. run.pc \in {"first", "second"} /\ ~run.did /\ run'.did /\ entry' # entry
    BY <1>1 DEF Deciding
  <2>3. Commit /\ Decides
    <3>1. ProgressNext /\ run' # run
      BY <1>1, <2>2 DEF series
    <3>2. ~(Watch \/ Pull \/ Finish \/ Kill \/ Skip \/ \E force \in BOOLEAN : Start(force))
      BY <2>2 DEF Watch, Pull, Finish, Kill, Skip, Start
    <3>3. ~UserEdit
      BY <2>1, <2>2, EditedRun
    <3>4. Commit
      BY <3>1, <3>2, <3>3 DEF ProgressNext, Commit
    <3> QED
      BY <2>1, <2>2, <3>4, CommitStep
  <2>4. Process /\ run.asOf > 0 /\ run.pc # "idle" /\ Undecided
    BY <2>1, <2>2, <2>3, CommitStep DEF Undecided
  <2>5. PICK d \in Outcome : /\ Branch(run.snap, run.state, Latest, total, d)
                             /\ entry' = Upsert(entry, d) /\ row' = d.row
    BY <2>1, <2>4, ProcessStep
  <2>6. /\ run.snap \in Entry /\ run.state \in StateRow /\ Latest \in Nat /\ total \in Nat /\ entry \in Entry
        /\ total > 0 => Latest <= total
    BY <2>1, <2>4, LatestType, Bounds DEF ProgressBase, ProgressTyped, Run
  <2>7. Near(run.snap, entry)
    BY <1>1, <2>1, <2>4 DEF Followed
  <2>8. /\ d.progress \in {Same, Latest}
        /\ d.progress = Latest => \/ run.snap.status \in {"NONE", "DROPPED"} \/ Latest > run.snap.progress
                                  \/ total > 0 /\ Latest >= total
        /\ d.progress = Same => d.status = SameStatus /\ d.repeat = Same
    BY <1>1, <2>5, <2>6, ProgressDecided
  <2>9. CASE d.progress = Same
    BY <2>2, <2>5, <2>8, <2>9 DEF Upsert, Silent
  <2>10. CASE d.progress # Same
    <3>1. entry'.progress = Latest
      BY <2>5, <2>6, <2>8, <2>10, UpsertType
    <3>2. entry.progress \in Nat /\ entry.progress = run.snap.progress
      BY <2>6, <2>7 DEF Near, Entry
    <3>3. run.snap.status = "NONE" => entry.progress = 0
      BY <2>1, <2>7 DEF Plausible, Near
    <3>4. run.snap.status # "DROPPED"
      BY <1>1, <2>7 DEF Near
    <3>5. total > 0 => entry.progress <= total
      BY <2>1 DEF Plausible
    <3> QED
      BY <2>6, <2>8, <2>10, <3>1, <3>2, <3>3, <3>4, <3>5
  <2> QED
    BY <2>9, <2>10
<1>2. ProgressInv /\ [ProgressNext]_series =>
        [Deciding /\ ~run.edited /\ ~row'.rewatch /\ entry.status # "DROPPED" => entry'.progress >= entry.progress]_series
  BY <1>1
<1> QED
  BY <1>2, ProgressInvariance, PTL DEF ProgressSpec, BackwardsOnlyOnResume

-----------------------------------------------------------------------------
(* WebPush: types.                                                         *)

CallOf(pcs) == [pc: pcs, private: Half, public: Half]
CallState == {NoCall} \cup [pc: {"private"}] \cup [pc: {"decide"}, private: Half]
             \cup CallOf({"storePrivate"}) \cup CallOf({"storePublic"}) \cup CallOf({"return"})

PushTyped ==
  /\ stored \in [private: Half, public: Half] /\ pairs \in 0..MaxPairs
  /\ calls \in [Caller -> CallState]
  /\ pages \in [Browser -> Half] /\ sound \subseteq Browser
  /\ bound \in [Browser -> [n: 0..MaxSubs, key: Half, sound: BOOLEAN]] /\ made \in [Browser -> 0..MaxSubs]
  /\ rows \subseteq Endpoint
  /\ sending \in [Sender -> [todo: SUBSET Endpoint, key: Half]]

LEMMA CallShapes ==
  ASSUME NEW c \in CallState
  PROVE  /\ c.pc \in {"idle", "private", "decide", "storePrivate", "storePublic", "return"}
         /\ c.pc = "decide" => c \in [pc: {"decide"}, private: Half]
         /\ c.pc = "storePrivate" => c \in CallOf({"storePrivate"})
         /\ c.pc = "storePublic" => c \in CallOf({"storePublic"})
         /\ c.pc = "return" => c \in CallOf({"return"})
BY DEF CallState, CallOf, NoCall

LEMMA PushNumbers == MaxPairs \in Nat /\ MaxSubs \in Nat /\ None \in Half /\ Pair \subseteq Nat /\ Half \subseteq Nat
BY PushAssumption DEF None, Half, Pair

LEMMA PushInitTyped == PushInit => PushTyped
<1> SUFFICES ASSUME PushInit PROVE PushTyped
  OBVIOUS
<1>1. NoCall \in CallState
  BY DEF CallState
<1>2. NotBound \in [n: 0..MaxSubs, key: Half, sound: BOOLEAN]
  BY PushNumbers DEF NotBound
<1> QED
  BY <1>1, <1>2, PushNumbers DEF PushInit, PushTyped

\* A step of get_or_create_keypair.
LEMMA GoesTyped ==
  ASSUME PushTyped, NEW c \in Caller, NEW call \in CallState, Goes(c, call),
         stored' \in [private: Half, public: Half], pairs' \in 0..MaxPairs
  PROVE  PushTyped'
BY DEF PushTyped, Goes

LEMMA CallTyped == ASSUME PushTyped, NEW c \in Caller, Call(c) PROVE PushTyped'
<1>1. [pc |-> "private"] \in CallState
  BY DEF CallState
<1> QED
  BY <1>1, GoesTyped DEF Call, PushTyped

LEMMA ReadPrivateTyped == ASSUME PushTyped, NEW c \in Caller, ReadPrivate(c) PROVE PushTyped'
<1>1. [pc |-> "decide", private |-> stored.private] \in CallState
  BY DEF CallState, PushTyped
<1> QED
  BY <1>1, GoesTyped DEF ReadPrivate, PushTyped

\* What the caller goes on with after both reads.
LEMMA ReadPublicStep ==
  ASSUME PushTyped, NEW c \in Caller, ReadPublic(c)
  PROVE  \E call \in CallOf({"return"}) \cup CallOf({"storePrivate"}) :
           /\ Goes(c, call) /\ stored' = stored /\ pairs' \in 0..MaxPairs
           /\ calls[c].private # None /\ stored.public # None => call.pc = "return"
<1>1. calls[c] \in CallState /\ calls[c].pc = "decide"
  BY DEF PushTyped, ReadPublic
<1>2. calls[c].private \in Half /\ stored.public \in Half
  BY <1>1, CallShapes DEF PushTyped
<1>3. CASE calls[c].private # None /\ stored.public # None
  <2> DEFINE call == [pc |-> "return", private |-> calls[c].private, public |-> stored.public]
  <2>1. call \in CallOf({"return"}) /\ call.pc = "return"
    BY <1>2 DEF CallOf
  <2>2. Goes(c, call) /\ pairs' = pairs /\ stored' = stored
    BY <1>3 DEF ReadPublic
  <2> QED
    BY <2>1, <2>2 DEF PushTyped
<1>4. CASE ~(calls[c].private # None /\ stored.public # None)
  <2> DEFINE call == [pc |-> "storePrivate", private |-> pairs + 1, public |-> pairs + 1]
  <2>1. pairs < MaxPairs /\ pairs' = pairs + 1 /\ Goes(c, call) /\ stored' = stored
    BY <1>4 DEF ReadPublic
  <2>2. pairs + 1 \in Half /\ pairs' \in 0..MaxPairs
    BY <2>1, PushNumbers DEF PushTyped, Half, Pair
  <2>3. call \in CallOf({"storePrivate"})
    BY <2>2 DEF CallOf
  <2> QED
    BY <1>4, <2>1, <2>2, <2>3
<1> QED
  BY <1>3, <1>4

LEMMA ReadPublicTyped == ASSUME PushTyped, NEW c \in Caller, ReadPublic(c) PROVE PushTyped'
<1>1. PICK call \in CallOf({"return"}) \cup CallOf({"storePrivate"}) :
        Goes(c, call) /\ stored' = stored /\ pairs' \in 0..MaxPairs
  BY ReadPublicStep
<1>2. call \in CallState
  BY <1>1 DEF CallState
<1> QED
  BY <1>1, <1>2, GoesTyped DEF PushTyped

LEMMA StorePrivateTyped == ASSUME PushTyped, NEW c \in Caller, StorePrivate(c) PROVE PushTyped'
<1>1. calls[c] \in CallOf({"storePrivate"})
  BY CallShapes DEF PushTyped, StorePrivate
<1>2. [calls[c] EXCEPT !.pc = "storePublic"] \in CallState
  BY <1>1 DEF CallOf, CallState
<1>3. stored' \in [private: Half, public: Half]
  BY <1>1 DEF StorePrivate, PushTyped, CallOf
<1> QED
  BY <1>2, <1>3, GoesTyped DEF StorePrivate, PushTyped

LEMMA StorePublicTyped == ASSUME PushTyped, NEW c \in Caller, StorePublic(c) PROVE PushTyped'
<1>1. calls[c] \in CallOf({"storePublic"})
  BY CallShapes DEF PushTyped, StorePublic
<1>2. [calls[c] EXCEPT !.pc = "return"] \in CallState
  BY <1>1 DEF CallOf, CallState
<1>3. stored' \in [private: Half, public: Half]
  BY <1>1 DEF StorePublic, PushTyped, CallOf
<1> QED
  BY <1>2, <1>3, GoesTyped DEF StorePublic, PushTyped

LEMMA PageTyped == ASSUME PushTyped, NEW b \in Browser, PageShown(b) PROVE PushTyped'
<1>1. b \in Caller
  BY DEF Caller
<1>2. calls[b].public \in Half /\ NoCall \in CallState
  BY <1>1, CallShapes DEF PushTyped, PageShown, CallOf, CallState
<1>3. calls' \in [Caller -> CallState]
  BY <1>2 DEF PushTyped, PageShown
<1>4. pages' \in [Browser -> Half]
  BY <1>2 DEF PushTyped, PageShown
<1>5. sound' \subseteq Browser
  BY DEF PushTyped, PageShown
<1> QED
  BY <1>3, <1>4, <1>5 DEF PushTyped, PageShown

LEMMA SubscribeTyped == ASSUME PushTyped, NEW b \in Browser, Subscribe(b) PROVE PushTyped'
<1>1. made[b] + 1 \in 1..MaxSubs /\ pages[b] \in Half /\ (b \in sound) \in BOOLEAN
  BY PushNumbers DEF PushTyped, Subscribe
<1>2. made' \in [Browser -> 0..MaxSubs]
  BY <1>1 DEF PushTyped, Subscribe
<1>3. rows' \subseteq Endpoint
  BY <1>1 DEF PushTyped, Subscribe, Endpoint
<1>4. bound' \in [Browser -> [n: 0..MaxSubs, key: Half, sound: BOOLEAN]]
  <2>1. PICK x \in BOOLEAN : bound' = [bound EXCEPT ![b] = [n |-> made[b] + 1, key |-> pages[b], sound |-> x]]
    BY <1>1 DEF Subscribe
  <2>2. [n |-> made[b] + 1, key |-> pages[b], sound |-> x] \in [n: 0..MaxSubs, key: Half, sound: BOOLEAN]
    BY <1>1
  <2> QED
    BY <2>1, <2>2 DEF PushTyped
<1> QED
  BY <1>2, <1>3, <1>4 DEF PushTyped, Subscribe

LEMMA UnsubscribeTyped == ASSUME PushTyped, NEW b \in Browser, Unsubscribe(b) \/ Discard(b) PROVE PushTyped'
<1>1. NotBound \in [n: 0..MaxSubs, key: Half, sound: BOOLEAN]
  BY PushNumbers DEF NotBound
<1>2. bound' = [bound EXCEPT ![b] = NotBound] /\ rows' \subseteq rows
  BY DEF Unsubscribe, Discard
<1> QED
  BY <1>1, <1>2 DEF PushTyped, Unsubscribe, Discard

LEMMA SendsTyped == ASSUME PushTyped, NEW s \in Sender, Sends(s) PROVE PushTyped'
<1>1. s \in Caller
  BY DEF Caller
<1>2. calls[s].private \in Half /\ NoCall \in CallState
  BY <1>1, CallShapes DEF PushTyped, Sends, CallOf, CallState
<1>3. [todo |-> rows, key |-> calls[s].private] \in [todo: SUBSET Endpoint, key: Half]
  BY <1>2 DEF PushTyped
<1> QED
  BY <1>2, <1>3 DEF PushTyped, Sends

LEMMA PushPushTyped == ASSUME PushTyped, NEW s \in Sender, NEW e, Push(s, e) PROVE PushTyped'
<1>1. sending' \in [Sender -> [todo: SUBSET Endpoint, key: Half]]
  BY DEF PushTyped, Push
<1>2. rows' \subseteq rows
  BY DEF Push
<1> QED
  BY <1>1, <1>2 DEF PushTyped, Push

LEMMA StopTyped == ASSUME PushTyped, Stop PROVE PushTyped'
<1>1. NoCall \in CallState
  BY DEF CallState
<1> QED
  BY <1>1, PushNumbers DEF PushTyped, Stop

LEMMA PushStepTyped == ASSUME PushTyped, PushNext PROVE PushTyped'
BY CallTyped, ReadPrivateTyped, ReadPublicTyped, StorePrivateTyped, StorePublicTyped, PageTyped, SubscribeTyped,
   UnsubscribeTyped, SendsTyped, PushPushTyped, StopTyped DEF PushNext

-----------------------------------------------------------------------------
(* Once the key pair has settled it stays.                                 *)

Harmless(call) == /\ call.pc \notin {"storePrivate", "storePublic"}
                  /\ call.pc = "decide" => call.private # None

LEMMA SettledWhen ==
  ASSUME PushTyped, Settled, stored' = stored,
         \A c \in Caller : calls'[c] = calls[c] \/ Harmless(calls'[c])
  PROVE  Settled'
BY DEF Settled, Harmless

LEMMA SettledGoes ==
  ASSUME PushTyped, Settled, NEW c \in Caller, NEW call, Harmless(call), Goes(c, call), stored' = stored
  PROVE  Settled'
<1>1. calls' = [calls EXCEPT ![c] = call] /\ calls \in [Caller -> CallState]
  BY DEF Goes, PushTyped
<1>2. \A d \in Caller : calls'[d] = calls[d] \/ Harmless(calls'[d])
  BY <1>1
<1> QED
  BY <1>2, SettledWhen

LEMMA SettledStays ==
  ASSUME PushTyped, Settled, PushNext
  PROVE  Settled' /\ stored' = stored
<1>1. ASSUME NEW c \in Caller, Call(c) PROVE Settled' /\ stored' = stored
  <2>1. Harmless([pc |-> "private"])
    BY DEF Harmless
  <2> QED
    BY <1>1, <2>1, SettledGoes DEF Call
<1>2. ASSUME NEW c \in Caller, ReadPrivate(c) PROVE Settled' /\ stored' = stored
  <2>1. Harmless([pc |-> "decide", private |-> stored.private])
    BY DEF Harmless, Settled
  <2> QED
    BY <1>2, <2>1, SettledGoes DEF ReadPrivate
<1>3. ASSUME NEW c \in Caller, ReadPublic(c) PROVE Settled' /\ stored' = stored
  <2>1. PICK call \in CallOf({"return"}) \cup CallOf({"storePrivate"}) :
          /\ Goes(c, call) /\ stored' = stored
          /\ calls[c].private # None /\ stored.public # None => call.pc = "return"
    BY <1>3, ReadPublicStep
  <2>2. call.pc = "return"
    BY <1>3, <2>1 DEF Settled, ReadPublic
  <2>3. Harmless(call)
    BY <2>2 DEF Harmless
  <2> QED
    BY <2>1, <2>3, SettledGoes
<1>4. ASSUME NEW c \in Caller, StorePrivate(c) \/ StorePublic(c) PROVE FALSE
  BY <1>4 DEF Settled, StorePrivate, StorePublic
<1>5. Harmless(NoCall)
  BY DEF Harmless, NoCall
<1>6. ASSUME NEW b \in Browser, PageShown(b) PROVE Settled' /\ stored' = stored
  <2>1. \A c \in Caller : calls'[c] = calls[c] \/ calls'[c] = NoCall
    BY <1>6 DEF PageShown, PushTyped
  <2> QED
    BY <1>5, <1>6, <2>1, SettledWhen DEF PageShown
<1>7. ASSUME NEW s \in Sender, Sends(s) PROVE Settled' /\ stored' = stored
  <2>1. \A c \in Caller : calls'[c] = calls[c] \/ calls'[c] = NoCall
    BY <1>7 DEF Sends, PushTyped
  <2> QED
    BY <1>5, <1>7, <2>1, SettledWhen DEF Sends
<1>8. ASSUME Stop PROVE Settled' /\ stored' = stored
  <2>1. \A c \in Caller : calls'[c] = NoCall
    BY <1>8 DEF Stop
  <2> QED
    BY <1>5, <1>8, <2>1, SettledWhen DEF Stop
<1>9. ASSUME calls' = calls, stored' = stored PROVE Settled' /\ stored' = stored
  BY <1>9 DEF Settled
<1>10. ASSUME NEW b \in Browser, Subscribe(b) \/ Unsubscribe(b) \/ Discard(b) PROVE calls' = calls /\ stored' = stored
  BY <1>10 DEF Subscribe, Unsubscribe, Discard
<1>11. ASSUME NEW s \in Sender, NEW e, Push(s, e) PROVE calls' = calls /\ stored' = stored
  BY <1>11 DEF Push
<1> QED
  BY <1>1, <1>2, <1>3, <1>4, <1>6, <1>7, <1>8, <1>9, <1>10, <1>11 DEF PushNext

-----------------------------------------------------------------------------
(* Who subscribed from a page shown after that is reached.                 *)

SoundPages == \A b \in sound : Settled /\ pages[b] = stored.private

SoundBound == \A b \in Browser : bound[b].sound => /\ Settled /\ bound[b].key = stored.private
                                                   /\ <<b, bound[b].n>> \in rows

PushInv == PushTyped /\ SoundPages /\ SoundBound

LEMMA PushInitInv == PushInit => PushInv
BY PushInitTyped DEF PushInit, PushInv, SoundPages, SoundBound, NotBound

LEMMA PagesKept == ASSUME PushInv, PushNext PROVE SoundPages'
<1>1. ASSUME NEW b \in sound', \E c \in Browser : PageShown(c) PROVE Settled' /\ pages'[b] = stored'.private
  <2>1. PICK c \in Browser : PageShown(c)
    BY <1>1
  <2>2. pages' = [pages EXCEPT ![c] = calls[c].public] /\ pages \in [Browser -> Half] /\ sound \subseteq Browser
    BY <2>1 DEF PageShown, PushInv, PushTyped
  <2>3. CASE b = c
    <3>1. Settled /\ calls[c].public = stored.public
      BY <1>1, <2>1, <2>3 DEF PageShown
    <3>2. stored.public = stored.private
      BY <3>1 DEF Settled
    <3> QED
      BY <2>2, <2>3, <3>1, <3>2, SettledStays DEF PushInv
  <2>4. CASE b # c
    <3>1. b \in sound
      BY <1>1, <2>1, <2>4 DEF PageShown
    <3>2. pages'[b] = pages[b]
      BY <2>2, <2>4, <3>1
    <3> QED
      BY <3>1, <3>2, SettledStays DEF PushInv, SoundPages
  <2> QED
    BY <2>3, <2>4
<1>2. ASSUME NEW b \in sound', ~\E c \in Browser : PageShown(c) PROVE Settled' /\ pages'[b] = stored'.private
  <2>1. sound' = sound /\ pages' = pages
    BY <1>2 DEF PushNext, Call, ReadPrivate, ReadPublic, StorePrivate, StorePublic, Goes, Subscribe, Unsubscribe,
                Discard, Sends, Push, Stop
  <2> QED
    BY <1>2, <2>1, SettledStays DEF PushInv, SoundPages
<1> QED
  BY <1>1, <1>2 DEF SoundPages

LEMMA BoundKept == ASSUME PushInv, PushNext PROVE SoundBound'
<1> SUFFICES ASSUME NEW b \in Browser, bound'[b].sound
             PROVE  Settled' /\ bound'[b].key = stored'.private /\ <<b, bound'[b].n>> \in rows'
  BY DEF SoundBound
<1>0. bound \in [Browser -> [n: 0..MaxSubs, key: Half, sound: BOOLEAN]]
  BY DEF PushInv, PushTyped
\* An old subscription, whose row nobody takes away.
<1>1. ASSUME bound'[b] = bound[b], <<b, bound[b].n>> \in rows => <<b, bound[b].n>> \in rows'
      PROVE  Settled' /\ bound'[b].key = stored'.private /\ <<b, bound'[b].n>> \in rows'
  BY <1>1, SettledStays DEF PushInv, SoundBound
<1>2. CASE \E c \in Browser : Subscribe(c)
  <2>1. PICK c \in Browser : Subscribe(c)
    BY <1>2
  <2>2. CASE b # c
    <3>1. bound'[b] = bound[b] /\ rows \subseteq rows'
      BY <2>1, <2>2, <1>0 DEF Subscribe
    <3> QED
      BY <3>1, <1>1
  <2>3. CASE b = c
    <3>1. /\ bound' = [bound EXCEPT ![b] = [n |-> made[b] + 1, key |-> pages[b], sound |-> b \in sound]]
          /\ rows' = rows \cup {<<b, made[b] + 1>>}
      BY <2>1, <2>3, <1>0 DEF Subscribe
    <3>2. bound'[b] = [n |-> made[b] + 1, key |-> pages[b], sound |-> b \in sound]
      BY <3>1, <1>0
    <3>a. b \in sound
      <4>1. ASSUME b \notin sound PROVE bound'[b] = [n |-> made[b] + 1, key |-> pages[b], sound |-> FALSE]
        <5>1. (b \in sound) = FALSE
          BY <4>1
        <5> QED
          BY <3>2, <5>1, Zenon
      <4> QED
        BY <4>1
    <3>3. b \in sound /\ bound'[b].key = pages[b] /\ bound'[b].n = made[b] + 1
      BY <3>2, <3>a
    <3> QED
      BY <3>1, <3>3, SettledStays DEF PushInv, SoundPages
  <2> QED
    BY <2>2, <2>3
<1>3. CASE \E c \in Browser : Unsubscribe(c) \/ Discard(c)
  <2>1. PICK c \in Browser : Unsubscribe(c) \/ Discard(c)
    BY <1>3
  <2>2. b # c
    BY <2>1, <1>0 DEF Unsubscribe, Discard, NotBound
  <2>3. bound'[b] = bound[b] /\ (<<b, bound[b].n>> \in rows => <<b, bound[b].n>> \in rows')
    BY <2>1, <2>2, <1>0 DEF Unsubscribe, Discard
  <2> QED
    BY <2>3, <1>1
<1>4. CASE \E s \in Sender : \E e \in rows \cup sending[s].todo : Push(s, e)
  <2>0. PICK s \in Sender : \E e \in rows \cup sending[s].todo : Push(s, e)
    BY <1>4
  <2>1. PICK e \in rows \cup sending[s].todo : Push(s, e)
    BY <2>0
  <2>2. bound' = bound /\ (rows' = rows \/ (Answer(e, sending[s].key) = "gone" /\ rows' = rows \ {e}))
    BY <2>1 DEF Push
  <2>3. e = <<b, bound[b].n>> => Answer(e, sending[s].key) # "gone"
    BY DEF Answer
  <2>4. <<b, bound[b].n>> \in rows => <<b, bound[b].n>> \in rows'
    BY <2>2, <2>3
  <2> QED
    BY <2>2, <2>4, <1>1
<1>5. CASE \/ \E c \in Caller : Call(c) \/ ReadPrivate(c) \/ ReadPublic(c) \/ StorePrivate(c) \/ StorePublic(c)
           \/ \E c \in Browser : PageShown(c)
           \/ \E s \in Sender : Sends(s)
           \/ Stop
  <2>1. bound' = bound /\ rows' = rows
    BY <1>5 DEF Call, ReadPrivate, ReadPublic, StorePrivate, StorePublic, Goes, PageShown, Sends, Stop
  <2> QED
    BY <2>1, <1>1
<1> QED
  BY <1>2, <1>3, <1>4, <1>5 DEF PushNext

\* The invariant of the push keys over every interleaving of their readers and
\* writers (get_or_create_keypair, WebPushChannel).
THEOREM PushInvariance == PushSpec => []PushInv
<1>1. PushInv /\ [PushNext]_push => PushInv'
  <2>1. CASE PushNext
    BY <2>1, PushStepTyped, PagesKept, BoundKept DEF PushInv
  <2>2. CASE UNCHANGED push
    BY <2>2 DEF push, PushInv, PushTyped, SoundPages, SoundBound, Settled
  <2> QED
    BY <2>1, <2>2
<1> QED
  BY <1>1, PushInitInv, PTL DEF PushSpec

\* The variables of the push keys and subscriptions keep their types.
THEOREM PushTypes == PushSpec => []PushTypeOK
<1>1. PushInv => PushTypeOK
  BY CallShapes DEF PushInv, PushTyped, PushTypeOK
<1> QED
  BY <1>1, PushInvariance, PTL

\* A browser that subscribed from a page with the settled key is reached by every
\* push signed later: no second pair ever replaces the first
\* (get_or_create_keypair, WebPushChannel.send).
THEOREM SubscribersReached == PushSpec => []Reachable
<1>1. PushInv => Reachable
  BY DEF PushInv, SoundBound, Reachable
<1> QED
  BY <1>1, PushInvariance, PTL

-----------------------------------------------------------------------------
(* Library: tables by key, and tags picked out of a list.                  *)

LEMMA OverFacts ==
  ASSUME NEW f, NEW g
  PROVE  /\ DOMAIN Over(f, g) = DOMAIN f \cup DOMAIN g
         /\ \A k \in DOMAIN f : Over(f, g)[k] = f[k]
         /\ \A k \in DOMAIN g \ DOMAIN f : Over(f, g)[k] = g[k]
BY DEF Over

LEMMA PutFacts ==
  ASSUME NEW k, NEW x, NEW g
  PROVE  /\ DOMAIN Put(k, x, g) = DOMAIN g \cup {k}
         /\ Put(k, x, g)[k] = x
         /\ \A j \in DOMAIN g : j # k => Put(k, x, g)[j] = g[j]
BY OverFacts DEF Put, Over

\* How many positions of at are not after i.
Upto(at, i) == {j \in at : j <= i}

LEMMA PlaceOf ==
  ASSUME NEW m \in Nat, NEW at \in SUBSET (1..m)
  PROVE  /\ IsFiniteSet(at) /\ Cardinality(at) \in Nat
         /\ \A i \in at : Cardinality(Upto(at, i)) \in 1..Cardinality(at)
         /\ \A i, j \in at : i < j => Cardinality(Upto(at, i)) < Cardinality(Upto(at, j))
<1>1. IsFiniteSet(at) /\ Cardinality(at) \in Nat
  <2>1. IsFiniteSet(1..m)
    BY FS_Interval
  <2> QED
    BY <2>1, FS_Subset, FS_CardinalityType
<1>0. at \subseteq Int
  OBVIOUS
<1>2. ASSUME NEW i \in at
      PROVE  IsFiniteSet(Upto(at, i)) /\ Cardinality(Upto(at, i)) \in Nat /\ Cardinality(Upto(at, i)) <= Cardinality(at)
  BY <1>1, FS_Subset, FS_CardinalityType DEF Upto
<1>3. ASSUME NEW i \in at PROVE Cardinality(Upto(at, i)) # 0
  <2>1. i \in Upto(at, i)
    BY DEF Upto
  <2> QED
    BY <1>2, <2>1, FS_EmptySet
<1>4. ASSUME NEW i \in at, NEW j \in at, i < j
      PROVE  Cardinality(Upto(at, i)) < Cardinality(Upto(at, j))
  <2>0. i \in Int /\ j \in Int /\ \A k \in at : k \in Int
    BY <1>0
  <2>1. Upto(at, i) \subseteq Upto(at, j) /\ j \in Upto(at, j) /\ j \notin Upto(at, i)
    <3>1. \A k \in at : k <= i => k <= j
      BY <2>0, <1>4
    <3>2. j <= j /\ ~(j <= i)
      BY <2>0, <1>4
    <3> QED
      BY <3>1, <3>2 DEF Upto
  <2>2. Upto(at, i) \cup {j} \subseteq Upto(at, j) /\ Cardinality(Upto(at, i) \cup {j}) = Cardinality(Upto(at, i)) + 1
    BY <2>1, <1>2, FS_AddElement
  <2>3. Cardinality(Upto(at, i) \cup {j}) <= Cardinality(Upto(at, j))
    BY <2>2, <1>2, FS_Subset
  <2> QED
    BY <2>2, <2>3, <1>2
<1> QED
  BY <1>1, <1>2, <1>3, <1>4

\* The CHOOSE of Picked finds one position for each place.
LEMMA PlaceTaken ==
  ASSUME NEW m \in Nat, NEW at \in SUBSET (1..m), NEW n \in 1..Cardinality(at)
  PROVE  \E i \in at : Cardinality(Upto(at, i)) = n
<1> DEFINE place == [i \in at |-> Cardinality(Upto(at, i))]
<1>0. /\ IsFiniteSet(at) /\ Cardinality(at) \in Nat
      /\ \A i \in at : Cardinality(Upto(at, i)) \in 1..Cardinality(at)
      /\ \A i, j \in at : i < j => Cardinality(Upto(at, i)) < Cardinality(Upto(at, j))
  BY PlaceOf, Zenon
<1>1. place \in [at -> 1..Cardinality(at)]
  BY <1>0
<1>2. \A i, j \in at : place[i] = place[j] => i = j
  <2> SUFFICES ASSUME NEW i \in at, NEW j \in at, i # j PROVE place[i] # place[j]
    OBVIOUS
  <2>1. i < j \/ j < i
    OBVIOUS
  <2>2. Cardinality(Upto(at, i)) \in Int /\ Cardinality(Upto(at, j)) \in Int
    BY <1>0
  <2>3. Cardinality(Upto(at, i)) < Cardinality(Upto(at, j)) \/ Cardinality(Upto(at, j)) < Cardinality(Upto(at, i))
    BY <2>1, <1>0
  <2> QED
    BY <2>2, <2>3
<1>3. place \in Injection(at, 1..Cardinality(at))
  BY <1>1, <1>2 DEF Injection, IsInjective
<1>4. IsFiniteSet(1..Cardinality(at)) /\ Cardinality(1..Cardinality(at)) = Cardinality(at)
  <2>1. Cardinality(at) \in Int /\ 1 \in Int
    BY <1>0
  <2>2. IsFiniteSet(1..Cardinality(at)) /\ Cardinality(1..Cardinality(at)) = IF 1 > Cardinality(at) THEN 0 ELSE Cardinality(at) - 1 + 1
    BY <2>1, FS_Interval
  <2> QED
    BY <1>0, <2>2
<1>5. place \in Surjection(at, 1..Cardinality(at))
  BY <1>3, <1>4, FS_Injection
<1>6. \E i \in at : place[i] = n
  BY <1>5 DEF Surjection
<1> QED
  BY <1>6

LEMMA PickedTags ==
  ASSUME NEW tags \in Seq(Tag), NEW at \in SUBSET (1..Len(tags))
  PROVE  /\ Picked(tags, at) \in Seq(Tag)
         /\ \A n \in DOMAIN Picked(tags, at) : \E i \in at : Picked(tags, at)[n] = tags[i]
         /\ \A i \in at : \E n \in DOMAIN Picked(tags, at) : Picked(tags, at)[n] = tags[i]
<1> DEFINE pos(n) == CHOOSE i \in at : Cardinality({j \in at : j <= i}) = n
           c == Cardinality(at)
<1>a. Len(tags) \in Nat /\ DOMAIN tags = 1..Len(tags) /\ \A i \in 1..Len(tags) : tags[i] \in Tag
  BY LenProperties, ElementOfSeq
<1>0. /\ c \in Nat
      /\ \A i \in at : Cardinality(Upto(at, i)) \in 1..c
      /\ \A i, j \in at : i < j => Cardinality(Upto(at, i)) < Cardinality(Upto(at, j))
      /\ at \subseteq Int
  <2>1. Len(tags) \in Nat
    BY <1>a
  <2>2. at \subseteq Int
    BY <1>a
  <2> QED
    BY <2>1, <2>2, PlaceOf, Zenon
<1>1. ASSUME NEW n \in 1..c PROVE pos(n) \in at /\ Cardinality(Upto(at, pos(n))) = n
  <2>1. \E i \in at : Cardinality(Upto(at, i)) = n
    BY <1>a, PlaceTaken, Zenon
  <2>2. \E i \in at : Cardinality({j \in at : j <= i}) = n
    BY <2>1 DEF Upto
  <2> QED
    BY <2>2 DEF Upto
<1>2. Picked(tags, at) = [n \in 1..c |-> tags[pos(n)]]
  BY DEF Picked
<1>3. \A n \in 1..c : tags[pos(n)] \in Tag
  <2> HIDE DEF pos, c
  <2> QED
    BY <1>1, <1>a
<1>4. Picked(tags, at) \in Seq(Tag) /\ DOMAIN Picked(tags, at) = 1..c
  <2> HIDE DEF pos
  <2>1. Picked(tags, at) \in [1..c -> Tag]
    BY <1>2, <1>3
  <2> QED
    BY <1>0, <2>1, SeqDef
<1>5. ASSUME NEW i \in at PROVE \E n \in 1..c : pos(n) = i
  <2>1. Cardinality(Upto(at, i)) \in 1..c
    BY <1>0, PlaceOf
  <2> DEFINE n == Cardinality(Upto(at, i))
  <2>2. pos(n) \in at /\ Cardinality(Upto(at, pos(n))) = n
    BY <1>1, <2>1
  <2>3. ~(pos(n) < i) /\ ~(i < pos(n))
    <3> HIDE DEF pos
    <3>1. n \in Int
      BY <2>1, <1>0
    <3>2. pos(n) < i => Cardinality(Upto(at, pos(n))) < Cardinality(Upto(at, i))
      BY <1>0, <2>2
    <3>3. i < pos(n) => Cardinality(Upto(at, i)) < Cardinality(Upto(at, pos(n)))
      BY <1>0, <2>2
    <3> HIDE DEF n
    <3> QED
      BY <2>2, <3>1, <3>2, <3>3 DEF n
  <2>4. pos(n) = i
    <3> HIDE DEF pos, n
    <3> QED
      <4>1. pos(n) \in Int /\ i \in Int
        BY <1>0, <2>2
      <4> QED
        BY <4>1, <2>3
  <2> QED
    BY <2>1, <2>4
<1> HIDE DEF pos
<1>6. \A n \in 1..c : Picked(tags, at)[n] = tags[pos(n)]
  BY <1>2
<1> QED
  BY <1>1, <1>4, <1>5, <1>6

LEMMA LeastOf ==
  ASSUME NEW S \in SUBSET Nat, S # {}
  PROVE  \E i \in S : \A j \in S : i <= j
<1>1. PICK i \in S : \A j \in S : ~(<<j, i>> \in OpToRel(<, Nat))
  BY WFMin, NatLessThanWellFounded
<1>2. \A j \in S : ~(j < i)
  BY <1>1 DEF OpToRel
<1> QED
  BY <1>2

LEMMA NamesOfPicked ==
  ASSUME NEW tags \in Seq(Tag), NEW at \in SUBSET (1..Len(tags))
  PROVE  Names(Picked(tags, at)) = {Lower[tags[i]] : i \in at}
<1>1. /\ \A n \in DOMAIN Picked(tags, at) : \E i \in at : Picked(tags, at)[n] = tags[i]
      /\ \A i \in at : \E n \in DOMAIN Picked(tags, at) : Picked(tags, at)[n] = tags[i]
  BY PickedTags, Zenon
<1> DEFINE p == Picked(tags, at)
<1> HIDE DEF p
<1>2. {Lower[p[n]] : n \in DOMAIN p} = {Lower[tags[i]] : i \in at}
  BY <1>1 DEF p
<1> QED
  BY <1>2 DEF Names, p

\* Only spellings go: of each name the first occurrence stays.
LEMMA DedupedNames ==
  ASSUME NEW tags \in Seq(Tag)
  PROVE  Deduped(tags) \in Seq(Tag) /\ Names(Deduped(tags)) = Names(tags)
<1> DEFINE at == {i \in DOMAIN tags : \A j \in 1..(i - 1) : Lower[tags[j]] # Lower[tags[i]]}
<1>1. Len(tags) \in Nat /\ DOMAIN tags = 1..Len(tags)
  BY LenProperties
<1>2. at \in SUBSET (1..Len(tags))
  BY <1>1
<1>3. ASSUME NEW i \in DOMAIN tags PROVE \E j \in at : Lower[tags[j]] = Lower[tags[i]]
  <2> DEFINE same == {j \in DOMAIN tags : Lower[tags[j]] = Lower[tags[i]]}
  <2>1. same \in SUBSET Nat /\ same # {}
    BY <1>1, <1>3
  <2>2. PICK j \in same : \A x \in same : j <= x
    BY <2>1, LeastOf, Zenon
  <2>3. \A x \in 1..(j - 1) : x \notin same /\ x \in DOMAIN tags
    <3>1. j \in 1..Len(tags) /\ Len(tags) \in Nat
      BY <1>1, <2>2
    <3>2. \A x \in 1..(j - 1) : ~(j <= x) /\ x \in 1..Len(tags)
      BY <3>1
    <3> QED
      BY <3>2, <2>2, <1>1
  <2> QED
    BY <2>2, <2>3
<1>4. {Lower[tags[i]] : i \in at} = {Lower[tags[i]] : i \in DOMAIN tags}
  BY <1>3
<1>5. Deduped(tags) = Picked(tags, at)
  BY DEF Deduped
<1> HIDE DEF at
<1>6. Picked(tags, at) \in Seq(Tag)
  BY <1>2, PickedTags
<1>7. Names(Picked(tags, at)) = {Lower[tags[i]] : i \in at}
  BY <1>2, NamesOfPicked
<1>8. Names(tags) = {Lower[tags[i]] : i \in DOMAIN tags}
  BY DEF Names
<1> QED
  BY <1>4, <1>5, <1>6, <1>7, <1>8

LEMMA NamesOfBoth ==
  ASSUME NEW s \in Seq(Tag), NEW t \in Seq(Tag)
  PROVE  s \o t \in Seq(Tag) /\ Names(s \o t) = Names(s) \cup Names(t)
<1>1. /\ Len(s) \in Nat /\ DOMAIN s = 1..Len(s) /\ Len(t) \in Nat /\ DOMAIN t = 1..Len(t)
      /\ s \o t \in Seq(Tag) /\ Len(s \o t) = Len(s) + Len(t) /\ DOMAIN (s \o t) = 1..(Len(s) + Len(t))
      /\ \A i \in 1 .. Len(s) + Len(t) : (s \o t)[i] = IF i <= Len(s) THEN s[i] ELSE t[i - Len(s)]
  BY LenProperties, ConcatProperties
<1> DEFINE both == s \o t
<1> HIDE DEF both
<1>2. ASSUME NEW i \in 1..Len(s) PROVE i \in DOMAIN both /\ both[i] = s[i]
  BY <1>1 DEF both
<1>3. ASSUME NEW i \in 1..Len(t) PROVE Len(s) + i \in DOMAIN both /\ both[Len(s) + i] = t[i]
  BY <1>1 DEF both
<1>4. ASSUME NEW i \in DOMAIN both
      PROVE  (i \in 1..Len(s) /\ both[i] = s[i]) \/ (i - Len(s) \in 1..Len(t) /\ both[i] = t[i - Len(s)])
  BY <1>1 DEF both
<1>5. Names(both) \subseteq Names(s) \cup Names(t)
  BY <1>1, <1>4 DEF Names
<1>6. Names(s) \subseteq Names(both) /\ Names(t) \subseteq Names(both)
  BY <1>1, <1>2, <1>3 DEF Names
<1> QED
  BY <1>1, <1>5, <1>6 DEF both

LEMMA NamesAreTags ==
  ASSUME NEW tags \in Seq(Tag)
  PROVE  Names(tags) \in SUBSET Tag
<1>1. DOMAIN tags = 1..Len(tags) /\ \A i \in 1..Len(tags) : tags[i] \in Tag
  BY LenProperties, ElementOfSeq
<1> QED
  BY <1>1, LibraryAssumption DEF Names

LEMMA NoNames == Names(<<>>) = {}
BY DEF Names

\* A renamed tag changes its name and no other's.
LEMMA SpelledNames ==
  ASSUME NEW tags \in Seq(Tag), NEW old \in Tag, NEW new \in Tag, Lower[old] \in Names(tags),
         NEW t \in [DOMAIN tags -> Tag],
         \A i \in DOMAIN tags : Lower[tags[i]] = Lower[old] => t[i] = new,
         \A i \in DOMAIN tags : Lower[tags[i]] # Lower[old] => t[i] = tags[i]
  PROVE  t \in Seq(Tag) /\ Names(t) = (Names(tags) \ {Lower[old]}) \cup {Lower[new]}
<1>1. Len(tags) \in Nat /\ DOMAIN tags = 1..Len(tags) /\ \A i \in 1..Len(tags) : tags[i] \in Tag
  BY LenProperties, ElementOfSeq
<1>2. t \in [1..Len(tags) -> Tag]
  BY <1>1
<1>3. t \in Seq(Tag) /\ DOMAIN t = DOMAIN tags
  BY <1>1, <1>2, SeqDef
<1>4. PICK n \in DOMAIN tags : Lower[tags[n]] = Lower[old]
  BY DEF Names
<1>5. Names(t) \subseteq (Names(tags) \ {Lower[old]}) \cup {Lower[new]}
  BY <1>3 DEF Names
<1>6. Lower[new] \in Names(t)
  BY <1>3, <1>4 DEF Names
<1>7. Names(tags) \ {Lower[old]} \subseteq Names(t)
  BY <1>3 DEF Names
<1> QED
  BY <1>3, <1>5, <1>6, <1>7

LEMMA KeptNames ==
  ASSUME NEW tags \in Seq(Tag), NEW tag \in Tag,
         NEW t, t = Picked(tags, {i \in DOMAIN tags : Lower[tags[i]] # Lower[tag]})
  PROVE  t \in Seq(Tag) /\ Names(t) = Names(tags) \ {Lower[tag]}
<1> DEFINE at == {i \in DOMAIN tags : Lower[tags[i]] # Lower[tag]}
<1>1. DOMAIN tags = 1..Len(tags)
  BY LenProperties
<1>2. at \in SUBSET (1..Len(tags))
  BY <1>1
<1>3. {Lower[tags[i]] : i \in at} = {Lower[tags[i]] : i \in DOMAIN tags} \ {Lower[tag]}
  OBVIOUS
<1> HIDE DEF at
<1>4. Picked(tags, at) \in Seq(Tag)
  BY <1>2, PickedTags
<1>5. Names(Picked(tags, at)) = {Lower[tags[i]] : i \in at}
  BY <1>2, NamesOfPicked
<1> QED
  BY <1>3, <1>4, <1>5 DEF Names, at

-----------------------------------------------------------------------------
(* Rows.                                                                   *)

RowsTyped == DOMAIN notes \subseteq Key /\ \A k \in DOMAIN notes : notes[k] \in Row
GhostsTyped == heart \subseteq Key /\ worn \in [Key -> SUBSET Tag]

\* The personal layer, with the types it needs.
Layer == RowsTyped /\ GhostsTyped /\ HeartKept /\ TagsKept

Form == [text : Text \cup {Blank}, tags : Seq(Tag), priority : Nat]

LEMMA EmptyRow == Empty \in Row /\ Empty.favorite = FALSE /\ Names(Empty.tags) = {}
<1>1. <<>> \in Seq(Tag)
  BY EmptySeq
<1> QED
  BY <1>1, NoNames DEF Empty, Row, Unset

LEMMA RowFields ==
  ASSUME NEW r \in Row
  PROVE  r.text \in Text \cup {Blank} /\ r.tags \in Seq(Tag) /\ r.priority \in Nat /\ r.favorite \in BOOLEAN
BY DEF Row

LEMMA WrittenRow ==
  ASSUME NEW line \in Row, NEW r, r.text \in Text \cup {Blank}, r.tags \in Seq(Tag), r.priority \in Nat
  PROVE  Written(line, r) \in Row /\ Written(line, r).favorite = line.favorite /\ Written(line, r).tags = r.tags
BY DEF Written, Row

LEMMA NotesOfRow ==
  ASSUME RowsTyped, NEW k
  PROVE  NotesOf(k) \in Row
BY EmptyRow DEF RowsTyped, NotesOf

LEMMA OverRows ==
  ASSUME RowsTyped, NEW f, DOMAIN f \subseteq Key, \A k \in DOMAIN f : f[k] \in Row, notes' = Over(f, notes)
  PROVE  /\ RowsTyped'
         /\ \A k \in DOMAIN f : NotesOf(k)' = f[k]
         /\ \A k \in Key \ DOMAIN f : NotesOf(k)' = NotesOf(k)
<1>1. /\ DOMAIN notes' = DOMAIN f \cup DOMAIN notes
      /\ \A k \in DOMAIN f : notes'[k] = f[k]
      /\ \A k \in DOMAIN notes \ DOMAIN f : notes'[k] = notes[k]
  BY DEF Over
<1> QED
  BY <1>1 DEF RowsTyped, NotesOf

LEMMA SavedRow ==
  ASSUME RowsTyped, NEW k \in Key, NEW line \in Row, notes' = Saved(k, line)
  PROVE  /\ RowsTyped' /\ NotesOf(k)' = line
         /\ \A j \in Key : j # k => NotesOf(j)' = NotesOf(j)
<1> DEFINE f == [j \in {k} |-> line]
<1>1. DOMAIN f = {k} /\ f[k] = line
  OBVIOUS
<1>2. notes' = Over(f, notes)
  BY DEF Saved, Put
<1> HIDE DEF f
<1>3. /\ RowsTyped'
      /\ \A j \in DOMAIN f : NotesOf(j)' = f[j]
      /\ \A j \in Key \ DOMAIN f : NotesOf(j)' = NotesOf(j)
  BY <1>1, <1>2, OverRows
<1> QED
  BY <1>1, <1>3

\* The layer is kept by whatever leaves notes and the ghosts of it alone.
LEMMA LayerWhenQuiet == ASSUME Layer, UNCHANGED personal PROVE Layer'
BY DEF Layer, personal, RowsTyped, GhostsTyped, HeartKept, TagsKept, NotesOf

LEMMA SaveNotesLayer ==
  ASSUME Layer, NEW k \in Key, NEW r \in Forms, SaveNotes(k, r)
  PROVE  Layer'
<1>1. r \in Form
  BY LibraryAssumption DEF Form
<1>2. r.text \in Text \cup {Blank} /\ r.tags \in Seq(Tag) /\ r.priority \in Nat
  BY <1>1 DEF Form
<1>3. NotesOf(k) \in Row
  BY NotesOfRow DEF Layer
<1>4. /\ Written(NotesOf(k), r) \in Row /\ Written(NotesOf(k), r).favorite = NotesOf(k).favorite
      /\ Written(NotesOf(k), r).tags = r.tags
  BY <1>2, <1>3, WrittenRow
<1>5. notes' = Saved(k, Written(NotesOf(k), r)) /\ worn' = [worn EXCEPT ![k] = Names(r.tags)] /\ heart' = heart
  BY DEF SaveNotes
<1>6. /\ RowsTyped' /\ NotesOf(k)' = Written(NotesOf(k), r)
      /\ \A j \in Key : j # k => NotesOf(j)' = NotesOf(j)
  BY <1>4, <1>5, SavedRow DEF Layer
<1>7. Names(r.tags) \in SUBSET Tag
  BY <1>2, NamesAreTags
<1>8. worn' \in [Key -> SUBSET Tag] /\ worn'[k] = Names(r.tags) /\ \A j \in Key : j # k => worn'[j] = worn[j]
  BY <1>5, <1>7 DEF Layer, GhostsTyped
<1>9. HeartKept'
  BY <1>4, <1>5, <1>6 DEF Layer, HeartKept
<1>10. TagsKept'
  BY <1>4, <1>6, <1>8 DEF Layer, TagsKept
<1> QED
  BY <1>5, <1>6, <1>8, <1>9, <1>10 DEF Layer, GhostsTyped

LEMMA SetFavoriteLayer ==
  ASSUME Layer, NEW k \in Key, NEW on \in BOOLEAN, SetFavorite(k, on)
  PROVE  Layer'
<1>1. NotesOf(k) \in Row
  BY NotesOfRow DEF Layer
<1> DEFINE line == [NotesOf(k) EXCEPT !.favorite = on]
<1>2. line \in Row /\ line.tags = NotesOf(k).tags
  BY <1>1 DEF Row
<1>3. line.favorite <=> on
  BY <1>1 DEF Row
<1>4. notes' = Saved(k, line) /\ heart' = (IF on THEN heart \cup {k} ELSE heart \ {k}) /\ worn' = worn
  BY DEF SetFavorite
<1> HIDE DEF line
<1>5. /\ RowsTyped' /\ NotesOf(k)' = line
      /\ \A j \in Key : j # k => NotesOf(j)' = NotesOf(j)
  BY <1>2, <1>4, SavedRow DEF Layer
<1>6. (k \in heart' <=> on) /\ (\A j \in Key : j # k => (j \in heart' <=> j \in heart)) /\ heart' \subseteq Key
  BY <1>4 DEF Layer, GhostsTyped
<1>7. HeartKept'
  <2> SUFFICES ASSUME NEW j \in Key PROVE NotesOf(j)'.favorite <=> j \in heart'
    BY DEF HeartKept
  <2>1. CASE j = k
    BY <2>1, <1>3, <1>5, <1>6, Zenon
  <2>2. CASE j # k
    BY <2>2, <1>5, <1>6 DEF Layer, HeartKept
  <2> QED
    BY <2>1, <2>2
<1>8. TagsKept'
  BY <1>2, <1>4, <1>5 DEF Layer, TagsKept
<1> QED
  BY <1>4, <1>5, <1>6, <1>7, <1>8 DEF Layer, GhostsTyped

LEMMA BulkTagsLayer ==
  ASSUME Layer, NEW ks \in SUBSET Key, NEW tags \in TagLists, BulkTags(ks, tags)
  PROVE  Layer'
<1>0. tags \in Seq(Tag)
  BY LibraryAssumption
<1> DEFINE tagsOf(k) == IF k \in DOMAIN notes THEN Deduped(notes[k].tags \o tags) ELSE tags
           f == [k \in ks |-> [NotesOf(k) EXCEPT !.tags = tagsOf(k)]]
<1>1. ASSUME NEW k \in ks
      PROVE  tagsOf(k) \in Seq(Tag) /\ Names(tagsOf(k)) = Names(NotesOf(k).tags) \cup Names(tags)
  <2>1. CASE k \in DOMAIN notes
    <3>1. notes[k].tags \in Seq(Tag) /\ NotesOf(k) = notes[k]
      BY <2>1, RowFields DEF Layer, RowsTyped, NotesOf
    <3> DEFINE s == notes[k].tags
    <3> HIDE DEF s
    <3>2. s \o tags \in Seq(Tag) /\ Names(s \o tags) = Names(s) \cup Names(tags)
      BY <3>1, <1>0, NamesOfBoth DEF s
    <3>3. Deduped(s \o tags) \in Seq(Tag) /\ Names(Deduped(s \o tags)) = Names(s \o tags)
      BY <3>2, DedupedNames
    <3> QED
      BY <2>1, <3>1, <3>2, <3>3 DEF s
  <2>2. CASE k \notin DOMAIN notes
    BY <2>2, <1>0, EmptyRow DEF NotesOf
  <2> QED
    BY <2>1, <2>2
<1> HIDE DEF tagsOf
<1>2. ASSUME NEW k \in ks
      PROVE  f[k] \in Row /\ f[k].tags = tagsOf(k) /\ f[k].favorite = NotesOf(k).favorite
  <2>1. NotesOf(k) \in Row
    BY NotesOfRow DEF Layer
  <2> QED
    BY <2>1, <1>1 DEF Row
<1>3. DOMAIN f = ks
  OBVIOUS
<1>4. notes' = Over(f, notes) /\ heart' = heart
      /\ worn' = [k \in Key |-> IF k \in ks THEN worn[k] \cup Names(tags) ELSE worn[k]]
  BY DEF BulkTags, tagsOf
<1> HIDE DEF f
<1>5. /\ RowsTyped'
      /\ \A k \in ks : NotesOf(k)' = f[k]
      /\ \A k \in Key \ ks : NotesOf(k)' = NotesOf(k)
  BY <1>2, <1>3, <1>4, OverRows DEF Layer
<1>6. worn' \in [Key -> SUBSET Tag]
  BY <1>0, <1>4, NamesAreTags DEF Layer, GhostsTyped
<1>7. HeartKept'
  <2>1. \A k \in Key : NotesOf(k)'.favorite = NotesOf(k).favorite
    BY <1>2, <1>5
  <2> QED
    BY <2>1, <1>4 DEF Layer, HeartKept
<1>8. TagsKept'
  BY <1>1, <1>2, <1>4, <1>5 DEF Layer, TagsKept
<1> QED
  BY <1>4, <1>5, <1>6, <1>7, <1>8 DEF Layer, GhostsTyped

\* A row carries a tag when the name of the tag is among the names worn.
LEMMA CarriedNames ==
  ASSUME Layer, NEW k \in Key, NEW tag
  PROVE  Lower[tag] \in worn[k] <=> k \in DOMAIN notes /\ Carries(notes[k], tag)
<1>1. worn[k] = Names(NotesOf(k).tags)
  BY DEF Layer, TagsKept
<1>2. CASE k \in DOMAIN notes
  BY <1>1, <1>2 DEF NotesOf, Names, Carries
<1>3. CASE k \notin DOMAIN notes
  BY <1>1, <1>3, EmptyRow DEF NotesOf
<1> QED
  BY <1>2, <1>3

LEMMA RetaggedLayer ==
  ASSUME Layer, NEW u, NEW tag, NEW tagsOf, NEW names \in SUBSET Tag, Retagged(u, tag, tagsOf, names),
         \A k \in DOMAIN notes : Carries(notes[k], tag) =>
           tagsOf[k] \in Seq(Tag) /\ Names(tagsOf[k]) = (Names(notes[k].tags) \ {Lower[tag]}) \cup names
  PROVE  Layer'
<1> DEFINE hit(k) == k[1] = u /\ Carries(notes[k], tag)
<1>1. /\ notes' = [k \in DOMAIN notes |-> IF hit(k) THEN [notes[k] EXCEPT !.tags = tagsOf[k]] ELSE notes[k]]
      /\ worn' = [k \in Key |-> IF k[1] = u /\ Lower[tag] \in worn[k] THEN (worn[k] \ {Lower[tag]}) \cup names ELSE worn[k]]
      /\ heart' = heart
  BY DEF Retagged
<1>2. ASSUME NEW k \in DOMAIN notes
      PROVE  /\ notes'[k] \in Row /\ notes'[k].favorite = notes[k].favorite
             /\ notes'[k].tags = IF hit(k) THEN tagsOf[k] ELSE notes[k].tags
  <2>1. notes[k] \in Row
    BY DEF Layer, RowsTyped
  <2>2. CASE hit(k)
    <3>1. notes'[k] = [notes[k] EXCEPT !.tags = tagsOf[k]] /\ tagsOf[k] \in Seq(Tag)
      BY <1>1, <2>2
    <3> QED
      BY <2>1, <2>2, <3>1 DEF Row
  <2>3. CASE ~hit(k)
    <3>1. notes'[k] = notes[k]
      BY <1>1, <2>3
    <3> QED
      BY <2>1, <2>3, <3>1
  <2> QED
    BY <2>2, <2>3
<1>3. DOMAIN notes' = DOMAIN notes
  BY <1>1
<1>4. RowsTyped'
  BY <1>2, <1>3 DEF Layer, RowsTyped
<1>5. worn' \in [Key -> SUBSET Tag]
  BY <1>1 DEF Layer, GhostsTyped
<1>6. HeartKept'
  BY <1>1, <1>2, <1>3 DEF Layer, HeartKept, NotesOf
<1>7. TagsKept'
  <2> SUFFICES ASSUME NEW k \in Key PROVE Names(NotesOf(k)'.tags) = worn'[k]
    BY DEF TagsKept
  <2>1. worn[k] = Names(NotesOf(k).tags)
    BY DEF Layer, TagsKept
  <2>2. Lower[tag] \in worn[k] <=> k \in DOMAIN notes /\ Carries(notes[k], tag)
    BY CarriedNames
  <2>3. CASE k \in DOMAIN notes /\ hit(k)
    BY <1>1, <1>2, <1>3, <2>1, <2>2, <2>3, ZenonT(30) DEF NotesOf
  <2>4. CASE k \in DOMAIN notes /\ ~hit(k)
    BY <1>1, <1>2, <1>3, <2>1, <2>2, <2>4 DEF NotesOf
  <2>5. CASE k \notin DOMAIN notes
    BY <1>1, <1>3, <2>1, <2>2, <2>5 DEF NotesOf
  <2> QED
    BY <2>3, <2>4, <2>5
<1> QED
  BY <1>1, <1>4, <1>5, <1>6, <1>7 DEF Layer, GhostsTyped

LEMMA RenameTagLayer ==
  ASSUME Layer, NEW u, NEW old \in Tag, NEW new \in Tag, RenameTag(u, old, new)
  PROVE  Layer'
<1> DEFINE spelled(tags) == [i \in DOMAIN tags |-> IF Lower[tags[i]] = Lower[old] THEN new ELSE tags[i]]
           tagsOf == [k \in DOMAIN notes |-> Deduped(spelled(notes[k].tags))]
<1>1. Retagged(u, old, tagsOf, {Lower[new]})
  BY DEF RenameTag
<1>2. ASSUME NEW k \in DOMAIN notes, Carries(notes[k], old)
      PROVE  tagsOf[k] \in Seq(Tag) /\ Names(tagsOf[k]) = (Names(notes[k].tags) \ {Lower[old]}) \cup {Lower[new]}
  <2>1. notes[k].tags \in Seq(Tag) /\ Lower[old] \in Names(notes[k].tags)
    BY <1>2, RowFields DEF Layer, RowsTyped, Carries, Names
  <2> DEFINE s == spelled(notes[k].tags)
  <2>2. s \in Seq(Tag) /\ Names(s) = (Names(notes[k].tags) \ {Lower[old]}) \cup {Lower[new]}
    <3> DEFINE tags == notes[k].tags
    <3>0. \A i \in DOMAIN tags : tags[i] \in Tag
      <4> HIDE DEF tags
      <4>1. tags \in Seq(Tag)
        BY <2>1 DEF tags
      <4> QED
        BY <4>1, LenProperties, ElementOfSeq
    <3>1. /\ s \in [DOMAIN tags -> Tag]
          /\ \A i \in DOMAIN tags : Lower[tags[i]] = Lower[old] => s[i] = new
          /\ \A i \in DOMAIN tags : Lower[tags[i]] # Lower[old] => s[i] = tags[i]
      BY <3>0
    <3> HIDE DEF s, tags
    <3>2. tags \in Seq(Tag) /\ Lower[old] \in Names(tags)
      BY <2>1 DEF tags
    <3>3. s \in Seq(Tag) /\ Names(s) = (Names(tags) \ {Lower[old]}) \cup {Lower[new]}
      BY <3>1, <3>2, SpelledNames
    <3> QED
      BY <3>3 DEF tags
  <2>3. tagsOf[k] = Deduped(s)
    OBVIOUS
  <2> HIDE DEF s
  <2> QED
    BY <2>2, <2>3, DedupedNames
<1>3. {Lower[new]} \in SUBSET Tag
  BY LibraryAssumption
<1> HIDE DEF tagsOf
<1> QED
  BY <1>1, <1>2, <1>3, RetaggedLayer

LEMMA DeleteTagLayer ==
  ASSUME Layer, NEW u, NEW tag \in Tag, DeleteTag(u, tag)
  PROVE  Layer'
<1> DEFINE kept(tags) == Picked(tags, {i \in DOMAIN tags : Lower[tags[i]] # Lower[tag]})
           tagsOf == [k \in DOMAIN notes |-> kept(notes[k].tags)]
<1>1. Retagged(u, tag, tagsOf, {})
  BY DEF DeleteTag
<1>2. ASSUME NEW k \in DOMAIN notes, Carries(notes[k], tag)
      PROVE  tagsOf[k] \in Seq(Tag) /\ Names(tagsOf[k]) = (Names(notes[k].tags) \ {Lower[tag]}) \cup {}
  <2>1. notes[k].tags \in Seq(Tag)
    BY RowFields DEF Layer, RowsTyped
  <2>2. tagsOf[k] = Picked(notes[k].tags, {i \in DOMAIN notes[k].tags : Lower[notes[k].tags[i]] # Lower[tag]})
    OBVIOUS
  <2> HIDE DEF tagsOf
  <2>3. tagsOf[k] \in Seq(Tag) /\ Names(tagsOf[k]) = Names(notes[k].tags) \ {Lower[tag]}
    BY <2>1, <2>2, KeptNames, Zenon
  <2> QED
    BY <2>3
<1> HIDE DEF tagsOf
<1> QED
  BY <1>1, <1>2, RetaggedLayer

-----------------------------------------------------------------------------
(* Requests under way and the export.                                      *)

Item == Key \X Row
TasksTyped == \A task \in tasks : /\ task \in [op : {"reorder", "import"}, todo : Seq(Item)]
                                  /\ task.todo # <<>>
Held == TasksTyped /\ file \subseteq Item /\ IsFiniteSet(file)

LEMMA HeldWhenQuiet == ASSUME Held, UNCHANGED <<tasks, file>> PROVE Held'
BY DEF Held, TasksTyped

LEMMA ReorderHeld ==
  ASSUME Held, NEW u \in User, NEW order \in SetToSeqs(Title), Reorder(u, order)
  PROVE  Held'
<1> DEFINE todo == [i \in DOMAIN order |-> <<<<u, order[i]>>, [Empty EXCEPT !.priority = i]>>]
           n == Cardinality(Title)
<1>1. n \in Nat
  BY LibraryAssumption, FS_CardinalityType
<1>2. order \in [1..n -> Title] /\ order # <<>>
  BY DEF SetToSeqs, Reorder
<1>3. order \in Seq(Title)
  BY <1>1, <1>2, SeqDef
<1>4. n # 0
  <2>1. Len(order) \in Nat \ {0} /\ DOMAIN order = 1..Len(order)
    BY <1>2, <1>3, EmptySeq, LenProperties
  <2>2. 1 \in 1..Len(order) /\ DOMAIN order = 1..n
    BY <1>2, <2>1
  <2>3. 1 \in 1..n
    BY <2>1, <2>2
  <2> QED
    BY <2>3, <1>1
<1>5. \A i \in 1..n : [Empty EXCEPT !.priority = i] \in Row
  BY <1>1, EmptyRow DEF Row
<1>6. todo \in [1..n -> Item]
  BY <1>2, <1>5 DEF Item, Key
<1>7. todo \in Seq(Item)
  BY <1>1, <1>6, SeqDef
<1>8. todo # <<>>
  BY <1>1, <1>4, <1>6
<1>9. tasks' = tasks \cup {[op |-> "reorder", todo |-> todo]} /\ file' = file
  BY DEF Reorder
<1> HIDE DEF todo
<1> QED
  BY <1>7, <1>8, <1>9 DEF Held, TasksTyped

LEMMA DownloadHeld ==
  ASSUME Held, RowsTyped, DOMAIN entries \subseteq Key, NEW u, Download(u)
  PROVE  Held'
<1> DEFINE D == {j \in DOMAIN entries : j[1] = u}
           line == [k \in D |-> <<k, NotesOf(k)>>]
<1>1. DOMAIN Exported(u) = D /\ \A k \in D : Exported(u)[k].row = NotesOf(k)
  BY DEF Exported
<1>2. tasks' = tasks /\ file' = {<<k, Exported(u)[k].row>> : k \in DOMAIN Exported(u)}
  BY DEF Download
<1>3. file' = {<<k, NotesOf(k)>> : k \in D}
  BY <1>1, <1>2
<1>4. file' \subseteq Item
  BY <1>3, NotesOfRow DEF Item
<1>5. IsFiniteSet(D)
  <2>1. IsFiniteSet(Key)
    BY LibraryAssumption, FS_Product DEF Key
  <2> QED
    BY <2>1, FS_Subset
<1>6. line \in Surjection(D, file')
  BY <1>3 DEF Surjection
<1>7. IsFiniteSet(file')
  BY <1>5, <1>6, FS_Surjection
<1> QED
  BY <1>2, <1>4, <1>7 DEF Held, TasksTyped

\* A finite set can be put in a row.
LEMMA InARow ==
  ASSUME NEW S, IsFiniteSet(S), S # {}
  PROVE  SetToSeq(S) \in Seq(S) /\ SetToSeq(S) # <<>>
<1> DEFINE n == Cardinality(S)
<1>1. n \in Nat /\ n # 0
  BY FS_CardinalityType, FS_EmptySet
<1>2. ExistsBijection(1..n, S)
  BY FS_CardinalityType
<1>3. PICK f \in Bijection(1..n, S) : TRUE
  BY <1>2 DEF ExistsBijection
<1>4. f \in [1..n -> S] /\ IsInjective(f)
  BY <1>3 DEF Bijection, Injection, IsInjective
<1>5. SetToSeq(S) \in [1..n -> S]
  BY <1>4 DEF SetToSeq
<1>6. SetToSeq(S) \in Seq(S)
  BY <1>1, <1>5, SeqDef
<1>7. SetToSeq(S) # <<>>
  BY <1>1, <1>5
<1> QED
  BY <1>6, <1>7

LEMMA ImportHeld ==
  ASSUME Held, NEW confirm, Import(confirm)
  PROVE  Held'
<1>1. /\ Importable # {} /\ file' = file
      /\ tasks' = tasks \cup {[op |-> "import", todo |-> SetToSeq(Importable)]}
  BY DEF Import
<1>2. Importable \subseteq Item /\ IsFiniteSet(Importable)
  BY FS_Subset DEF Importable, Held
<1>3. SetToSeq(Importable) \in Seq(Importable) /\ SetToSeq(Importable) # <<>>
  BY <1>1, <1>2, InARow
<1>4. SetToSeq(Importable) \in Seq(Item)
  BY <1>2, <1>3, SeqMonotonic
<1> QED
  BY <1>1, <1>3, <1>4 DEF Held, TasksTyped

\* The next item is a row of some title.
LEMMA NextItemIs ==
  ASSUME Held, NEW task \in tasks
  PROVE  /\ task.op \in {"reorder", "import"} /\ task.todo \in Seq(Item) /\ task.todo # <<>>
         /\ Head(task.todo)[1] \in Key /\ Head(task.todo)[2] \in Row
         /\ Tail(task.todo) \in Seq(Item)
<1>1. task.op \in {"reorder", "import"} /\ task.todo \in Seq(Item) /\ task.todo # <<>>
  BY DEF Held, TasksTyped
<1>2. Head(task.todo) \in Item /\ Tail(task.todo) \in Seq(Item)
  BY <1>1, HeadTailProperties
<1> QED
  BY <1>1, <1>2 DEF Item

LEMMA NextItemHeld ==
  ASSUME Held, NEW task \in tasks, NextItem(task)
  PROVE  Held'
<1> DEFINE left == Tail(task.todo)
<1>1. task.todo \in Seq(Item) /\ task.op \in {"reorder", "import"} /\ left \in Seq(Item)
  BY NextItemIs, Zenon
<1>2. file' = file /\ tasks' = (tasks \ {task}) \cup (IF left = <<>> THEN {} ELSE {[task EXCEPT !.todo = left]})
  BY DEF NextItem
<1>3. /\ [task EXCEPT !.todo = left] \in [op : {"reorder", "import"}, todo : Seq(Item)]
      /\ [task EXCEPT !.todo = left].todo = left
  BY <1>1 DEF Held, TasksTyped
<1> HIDE DEF left
<1> QED
  BY <1>2, <1>3 DEF Held, TasksTyped

LEMMA NextItemLayer ==
  ASSUME Layer, Held, NEW task \in tasks, NextItem(task)
  PROVE  Layer'
<1> DEFINE k == Head(task.todo)[1]
           r == Head(task.todo)[2]
           line == IF task.op = "reorder" THEN [NotesOf(k) EXCEPT !.priority = r.priority] ELSE Written(NotesOf(k), r)
<1>1. k \in Key /\ r \in Row
  BY NextItemIs, Zenon
<1>2. /\ notes' = Saved(k, line) /\ heart' = heart
      /\ worn' = IF task.op = "reorder" THEN worn ELSE [worn EXCEPT ![k] = Names(r.tags)]
  BY DEF NextItem
<1> HIDE DEF k, r
<1>3. NotesOf(k) \in Row /\ r.text \in Text \cup {Blank} /\ r.tags \in Seq(Tag) /\ r.priority \in Nat
  BY <1>1, NotesOfRow, RowFields DEF Layer
<1>4. line \in Row /\ line.favorite = NotesOf(k).favorite
      /\ line.tags = IF task.op = "reorder" THEN NotesOf(k).tags ELSE r.tags
  <2>1. CASE task.op = "reorder"
    BY <1>3, <2>1 DEF Row
  <2>2. CASE task.op # "reorder"
    BY <1>3, <2>2, WrittenRow
  <2> QED
    BY <2>1, <2>2
<1> HIDE DEF line
<1>5. /\ RowsTyped' /\ NotesOf(k)' = line
      /\ \A j \in Key : j # k => NotesOf(j)' = NotesOf(j)
  BY <1>1, <1>2, <1>4, SavedRow DEF Layer
<1>6. Names(r.tags) \in SUBSET Tag
  BY <1>3, NamesAreTags
<1>7. /\ worn' \in [Key -> SUBSET Tag]
      /\ worn'[k] = IF task.op = "reorder" THEN worn[k] ELSE Names(r.tags)
      /\ \A j \in Key : j # k => worn'[j] = worn[j]
  BY <1>1, <1>2, <1>6 DEF Layer, GhostsTyped
<1>8. HeartKept'
  BY <1>2, <1>4, <1>5 DEF Layer, HeartKept
<1>9. TagsKept'
  BY <1>1, <1>4, <1>5, <1>7 DEF Layer, TagsKept
<1> QED
  BY <1>2, <1>5, <1>7, <1>8, <1>9 DEF Layer, GhostsTyped

LEMMA WipeLayer ==
  ASSUME NEW gone, Wipe(gone)
  PROVE  Layer'
<1>1. notes' = <<>> /\ heart' = {} /\ worn' = [k \in Key |-> {}]
  BY DEF Wipe
<1>2. DOMAIN notes' = {} /\ \A k \in Key : NotesOf(k)' = Empty
  BY <1>1 DEF NotesOf
<1> QED
  BY <1>1, <1>2, EmptyRow DEF Layer, RowsTyped, GhostsTyped, HeartKept, TagsKept

-----------------------------------------------------------------------------
(* Backups.                                                                *)

Content == UNION {[D -> [entry : Listing, row : Row]] : D \in SUBSET Key}
Snapshot == [content : Content, was : UNION {[D -> Row] : D \in SUBSET Key}]

\* A snapshot of an account has its own titles only, their worth as they were.
Own(u, s) == /\ \A k \in DOMAIN s.content : k[1] = u
             /\ DOMAIN s.was = DOMAIN s.content /\ \A k \in DOMAIN s.was : s.was[k] = s.content[k].row

BackupRow == {b \in UNION {[U -> Snapshot] : U \in SUBSET User} : \A u \in DOMAIN b : Own(u, b[u])}

EntriesTyped == DOMAIN entries \subseteq Key /\ \A k \in DOMAIN entries : entries[k] \in Listing
Stored == taken \in BackupRow /\ backups \in Seq(BackupRow)

LEMMA BackupHas ==
  ASSUME NEW b \in BackupRow, NEW u \in DOMAIN b
  PROVE  /\ u \in User /\ Own(u, b[u])
         /\ DOMAIN b[u].content \subseteq Key
         /\ \A k \in DOMAIN b[u].content : b[u].content[k].entry \in Listing /\ b[u].content[k].row \in Row
<1>1. PICK U \in SUBSET User : b \in [U -> Snapshot]
  BY DEF BackupRow
<1>2. u \in User /\ b[u] \in Snapshot /\ Own(u, b[u])
  BY <1>1 DEF BackupRow
<1>3. b[u].content \in Content
  BY <1>2 DEF Snapshot
<1>4. PICK D \in SUBSET Key : b[u].content \in [D -> [entry : Listing, row : Row]]
  BY <1>3 DEF Content
<1> QED
  BY <1>2, <1>4

LEMMA NoBackup == <<>> \in BackupRow
<1>1. DOMAIN <<>> = {} /\ <<>> \in [{} -> Snapshot]
  OBVIOUS
<1> QED
  BY <1>1 DEF BackupRow

LEMMA PutBackup ==
  ASSUME NEW b \in BackupRow, NEW u \in User, NEW s \in Snapshot, Own(u, s)
  PROVE  Put(u, s, b) \in BackupRow
<1>1. PICK U \in SUBSET User : b \in [U -> Snapshot]
  BY DEF BackupRow
<1> DEFINE c == Put(u, s, b)
<1>2. DOMAIN c = U \cup {u} /\ c[u] = s /\ \A v \in U : v # u => c[v] = b[v]
  BY <1>1 DEF Put, Over
<1>3. c = [v \in U \cup {u} |-> c[v]]
  BY <1>1 DEF Put, Over
<1> HIDE DEF c
<1>4. c \in [U \cup {u} -> Snapshot]
  BY <1>1, <1>2, <1>3
<1>5. \A v \in DOMAIN c : Own(v, c[v])
  BY <1>1, <1>2 DEF BackupRow
<1>6. U \cup {u} \in SUBSET User
  OBVIOUS
<1>7. c \in UNION {[W -> Snapshot] : W \in SUBSET User}
  BY <1>4, <1>6
<1> QED
  BY <1>5, <1>7 DEF BackupRow, c

LEMMA StoredWhenQuiet == ASSUME Stored, UNCHANGED <<taken, backups>> PROVE Stored'
BY DEF Stored

\* What an account's backup reads.
LEMMA SnapshotOf ==
  ASSUME RowsTyped, EntriesTyped, NEW u \in User,
         NEW s, s = [content |-> Exported(u), was |-> [k \in DOMAIN Exported(u) |-> NotesOf(k)]]
  PROVE  /\ s \in Snapshot /\ Own(u, s)
         /\ \A k \in DOMAIN s.content : k \in DOMAIN entries /\ s.content[k].entry = entries[k]
<1> DEFINE D == {j \in DOMAIN entries : j[1] = u}
<1>1. /\ Exported(u) = [k \in D |-> [entry |-> entries[k], row |-> NotesOf(k)]]
      /\ D \in SUBSET Key /\ \A k \in D : k[1] = u /\ k \in DOMAIN entries
  BY DEF Exported, EntriesTyped
<1>2. \A k \in D : entries[k] \in Listing /\ NotesOf(k) \in Row
  BY NotesOfRow DEF EntriesTyped
<1> DEFINE was == [k \in D |-> NotesOf(k)]
<1>3. s.content = Exported(u) /\ s.was = was /\ s = [content |-> Exported(u), was |-> was]
  BY <1>1
<1>5. was \in [D -> Row] /\ DOMAIN was = D /\ \A k \in D : was[k] = NotesOf(k)
  BY <1>2
<1> HIDE DEF D, was
<1>4. /\ Exported(u) \in [D -> [entry : Listing, row : Row]] /\ DOMAIN Exported(u) = D
      /\ \A k \in D : Exported(u)[k].entry = entries[k] /\ Exported(u)[k].row = NotesOf(k)
  BY <1>1, <1>2
<1>6. Exported(u) \in Content /\ was \in UNION {[E -> Row] : E \in SUBSET Key}
  BY <1>1, <1>4, <1>5 DEF Content
<1> QED
  BY <1>1, <1>3, <1>4, <1>5, <1>6 DEF Snapshot, Own

LEMMA BackUpUserStored ==
  ASSUME RowsTyped, EntriesTyped, Stored, NEW u \in User, BackUpUser(u)
  PROVE  Stored'
<1> DEFINE s == [content |-> Exported(u), was |-> [k \in DOMAIN Exported(u) |-> NotesOf(k)]]
<1>1. taken' = Put(u, s, taken) /\ backups' = backups
  BY DEF BackUpUser
<1>2. s \in Snapshot /\ Own(u, s)
  BY SnapshotOf
<1> HIDE DEF s
<1> QED
  BY <1>1, <1>2, PutBackup DEF Stored

LEMMA StoreBackupStored ==
  ASSUME Stored, StoreBackup
  PROVE  Stored'
BY NoBackup, AppendProperties DEF Stored, StoreBackup

LEMMA Pruned ==
  ASSUME Stored, PruneBackups
  PROVE  backups' \in Seq(BackupRow) /\ taken' = taken
<1>1. Len(backups) \in Nat /\ Keep \in Nat \ {0} /\ taken' = taken
  BY LibraryAssumption, LenProperties DEF Stored, PruneBackups
<1>2. CASE Len(backups) > Keep
  <2> DEFINE m == Len(backups) - Keep + 1
  <2>1. m \in Int /\ \A i \in m..Len(backups) : i \in 1..Len(backups)
    BY <1>1, <1>2
  <2>2. \A i \in m..Len(backups) : backups[i] \in BackupRow
    BY <2>1, ElementOfSeq DEF Stored
  <2>3. backups' = SubSeq(backups, m, Len(backups))
    BY <1>2 DEF PruneBackups
  <2> HIDE DEF m
  <2> QED
    BY <1>1, <2>1, <2>2, <2>3, SubSeqProperties
<1>3. CASE ~(Len(backups) > Keep)
  BY <1>1, <1>3 DEF PruneBackups, Stored
<1> QED
  BY <1>1, <1>2, <1>3

LEMMA PruneStored == ASSUME Stored, PruneBackups PROVE Stored'
BY Pruned DEF Stored

LEMMA FailsStored == ASSUME Stored, BackupFails PROVE Stored'
BY NoBackup DEF Stored, BackupFails

-----------------------------------------------------------------------------
(* What a restore writes.                                                  *)

Line == Key \X [entry : Listing, row : Row]

\* One line of a backup to a title, and every title of an account that is there.
LEMMA Lines ==
  ASSUME NEW b \in BackupRow
  PROVE  /\ Restorable(b) \subseteq Line
         /\ \A x, y \in Restorable(b) : x[1] = y[1] => x = y
         /\ \A x \in Restorable(b) : \E u \in DOMAIN b : \E k \in DOMAIN b[u].content :
              x = <<k, b[u].content[k]>>
         /\ \A u \in users \cap DOMAIN b : \A k \in DOMAIN b[u].content : <<k, b[u].content[k]>> \in Restorable(b)
<1>1. ASSUME NEW x \in Restorable(b)
      PROVE  \E u \in DOMAIN b : \E k \in DOMAIN b[u].content : x = <<k, b[u].content[k]>>
  BY DEF Restorable
<1>2. ASSUME NEW u \in DOMAIN b, NEW k \in DOMAIN b[u].content
      PROVE  k \in Key /\ k[1] = u /\ b[u].content[k] \in [entry : Listing, row : Row]
  <2>1. PICK U \in SUBSET User : b \in [U -> Snapshot]
    BY DEF BackupRow
  <2>2. b[u] \in Snapshot /\ Own(u, b[u])
    BY <2>1 DEF BackupRow
  <2>3. b[u].content \in Content
    BY <2>2 DEF Snapshot
  <2>4. PICK D \in SUBSET Key : b[u].content \in [D -> [entry : Listing, row : Row]]
    BY <2>3 DEF Content
  <2> QED
    BY <2>2, <2>4 DEF Own
<1>3. Restorable(b) \subseteq Line
  BY <1>1, <1>2 DEF Line
<1>4. ASSUME NEW x \in Restorable(b), NEW y \in Restorable(b), x[1] = y[1] PROVE x = y
  <2>1. PICK u \in DOMAIN b : \E k \in DOMAIN b[u].content : x = <<k, b[u].content[k]>>
    BY <1>1
  <2>2. PICK k \in DOMAIN b[u].content : x = <<k, b[u].content[k]>>
    BY <2>1
  <2>3. PICK v \in DOMAIN b : \E j \in DOMAIN b[v].content : y = <<j, b[v].content[j]>>
    BY <1>1
  <2>4. PICK j \in DOMAIN b[v].content : y = <<j, b[v].content[j]>>
    BY <2>3
  <2>5. k = j /\ u = v
    BY <1>2, <1>4, <2>2, <2>4
  <2> QED
    BY <2>2, <2>4, <2>5
<1>5. ASSUME NEW u \in users \cap DOMAIN b, NEW k \in DOMAIN b[u].content
      PROVE  <<k, b[u].content[k]>> \in Restorable(b)
  BY <1>2 DEF Restorable
<1> QED
  BY <1>1, <1>3, <1>4, <1>5

\* Looking a title up among lines with one line to a title.
LEMMA LineOf ==
  ASSUME NEW s, \A x, y \in s : x[1] = y[1] => x = y, NEW x \in s
  PROVE  (CHOOSE y \in s : y[1] = x[1])[2] = x[2]
<1>1. \E y \in s : y[1] = x[1]
  OBVIOUS
<1> DEFINE c == CHOOSE y \in s : y[1] = x[1]
<1>2. c \in s /\ c[1] = x[1]
  BY <1>1
<1> QED
  BY <1>2

NotedLines(b) == {x \in Restorable(b) : Noted(x[2].row)}
Titles(s) == {x[1] : x \in s}

\* What every table is after a restore that no statement of failed.
Rewritten(b) ==
  /\ DOMAIN entries' = Titles(Restorable(b)) \cup DOMAIN entries
  /\ \A x \in Restorable(b) : entries'[x[1]] = x[2].entry
  /\ \A k \in DOMAIN entries \ Titles(Restorable(b)) : entries'[k] = entries[k]
  /\ DOMAIN notes' = Titles(NotedLines(b)) \cup DOMAIN notes
  /\ \A x \in NotedLines(b) : notes'[x[1]] = x[2].row
  /\ \A k \in DOMAIN notes \ Titles(NotedLines(b)) : notes'[k] = notes[k]
  /\ \A x \in NotedLines(b) : worn'[x[1]] = Names(x[2].row.tags)
  /\ \A k \in Key \ Titles(NotedLines(b)) : worn'[k] = worn[k]
  /\ worn' = [k \in Key |-> worn'[k]]
  /\ heart' = (heart \ Titles(NotedLines(b))) \cup Titles({y \in NotedLines(b) : y[2].row.favorite})

LEMMA RestoreStep ==
  ASSUME NEW b \in BackupRow, NEW bad, Restore(b, bad)
  PROVE  /\ UNCHANGED <<dropping, tasks, file, noted, backup, writes, wipes>>
         /\ UNCHANGED <<entries, personal>> \/ Rewritten(b)
         /\ (\A x \in Restorable(b) : x[1] \notin bad) => Rewritten(b)
<1> DEFINE L == Restorable(b)
           worth == {x \in L : Noted(x[2].row)}
           Of(k, s) == (CHOOSE x \in s : x[1] = k)[2]
           restored == {x[1] : x \in worth}
           e == [k \in {x[1] : x \in L} |-> Of(k, L).entry]
           f == [k \in restored |-> Of(k, worth).row]
<1>1. /\ UNCHANGED <<dropping, tasks, file, noted, backup, writes, wipes>>
      /\ (\E x \in L : x[1] \in bad) => UNCHANGED <<entries, personal>>
      /\ ~(\E x \in L : x[1] \in bad) =>
           /\ entries' = Over(e, entries) /\ notes' = Over(f, notes)
           /\ worn' = [k \in Key |-> IF k \in restored THEN Names(Of(k, worth).row.tags) ELSE worn[k]]
           /\ heart' = (heart \ restored) \cup {x[1] : x \in {y \in worth : y[2].row.favorite}}
  BY DEF Restore
<1>2. /\ L \subseteq Line
      /\ \A x, y \in L : x[1] = y[1] => x = y
  BY Lines
<1>3. \A x \in L : Of(x[1], L) = x[2]
  <2> HIDE DEF L
  <2> QED
    BY <1>2, LineOf
<1>4. \A x \in worth : Of(x[1], worth) = x[2]
  <2>1. \A x, y \in worth : x[1] = y[1] => x = y
    BY <1>2
  <2> HIDE DEF worth
  <2> QED
    BY <2>1, LineOf
<1>5. ASSUME ~(\E x \in L : x[1] \in bad) PROVE Rewritten(b)
  <2>0. NotedLines(b) = worth /\ restored = Titles(worth) /\ Titles(L) = {x[1] : x \in L} /\ restored \subseteq Key
    BY <1>2 DEF NotedLines, Titles, Line
  <2>1. DOMAIN e = Titles(L) /\ \A x \in L : e[x[1]] = x[2].entry
    <3> HIDE DEF L
    <3>1. DOMAIN e = Titles(L) /\ \A x \in L : e[x[1]] = Of(x[1], L).entry
      BY DEF Titles
    <3> HIDE DEF e, Of
    <3> QED
      BY <1>3, <3>1
  <2>2. DOMAIN f = restored /\ \A x \in worth : f[x[1]] = x[2].row
    <3> HIDE DEF worth
    <3>1. DOMAIN f = restored /\ \A x \in worth : f[x[1]] = Of(x[1], worth).row
      OBVIOUS
    <3> HIDE DEF f, Of
    <3> QED
      BY <1>4, <3>1
  <2>3. /\ \A x \in worth : worn'[x[1]] = Names(x[2].row.tags)
        /\ \A k \in Key \ restored : worn'[k] = worn[k]
        /\ worn' = [k \in Key |-> worn'[k]]
    <3>1. worn' = [k \in Key |-> IF k \in restored THEN Names(Of(k, worth).row.tags) ELSE worn[k]]
      BY <1>1, <1>5
    <3>2. \A x \in worth : x[1] \in restored /\ x[1] \in Key
      BY <2>0
    <3> HIDE DEF worth, restored, Of
    <3> QED
      BY <1>4, <3>1, <3>2
  <2>4. entries' = Over(e, entries) /\ notes' = Over(f, notes)
        /\ heart' = (heart \ restored) \cup Titles({y \in worth : y[2].row.favorite})
    BY <1>1, <1>5 DEF Titles
  <2> HIDE DEF worth, restored, e, f, L, Of
  <2>5. /\ DOMAIN entries' = Titles(L) \cup DOMAIN entries
        /\ \A k \in Titles(L) : entries'[k] = e[k]
        /\ \A k \in DOMAIN entries \ Titles(L) : entries'[k] = entries[k]
    BY <2>1, <2>4 DEF Over
  <2>6. /\ DOMAIN notes' = restored \cup DOMAIN notes
        /\ \A k \in restored : notes'[k] = f[k]
        /\ \A k \in DOMAIN notes \ restored : notes'[k] = notes[k]
    BY <2>2, <2>4 DEF Over
  <2>7. (\A x \in L : x[1] \in Titles(L)) /\ (\A x \in worth : x[1] \in restored)
    BY <2>0 DEF Titles
  <2>8. \A x \in L : entries'[x[1]] = x[2].entry
    BY <2>1, <2>5, <2>7
  <2>9. \A x \in worth : notes'[x[1]] = x[2].row
    BY <2>2, <2>6, <2>7
  <2> QED
    BY <2>0, <2>3, <2>4, <2>5, <2>6, <2>8, <2>9 DEF Rewritten, L
<1> QED
  BY <1>1, <1>5

LEMMA RestoreLayer ==
  ASSUME Layer, NEW b \in BackupRow, NEW bad, Restore(b, bad)
  PROVE  Layer'
<1>1. CASE UNCHANGED <<entries, personal>>
  BY <1>1, LayerWhenQuiet
<1>2. CASE Rewritten(b)
  <2> DEFINE worth == NotedLines(b)
             at == Titles(worth)
  <2>1. /\ worth \subseteq Line /\ at \subseteq Key
        /\ \A x, y \in worth : x[1] = y[1] => x = y
        /\ \A k \in at : \E x \in worth : x[1] = k
        /\ \A x \in worth : x[1] \in at
    BY Lines DEF NotedLines, Titles, Line
  <2>2. /\ DOMAIN notes' = at \cup DOMAIN notes
        /\ \A x \in worth : notes'[x[1]] = x[2].row
        /\ \A k \in DOMAIN notes \ at : notes'[k] = notes[k]
        /\ \A x \in worth : worn'[x[1]] = Names(x[2].row.tags)
        /\ \A k \in Key \ at : worn'[k] = worn[k]
        /\ worn' = [k \in Key |-> worn'[k]]
        /\ heart' = (heart \ at) \cup Titles({y \in worth : y[2].row.favorite})
    BY <1>2 DEF Rewritten
  <2> HIDE DEF worth, at
  <2>3. \A x \in worth : x[1] \in Key /\ x[2].row \in Row
    BY <2>1 DEF Line
  <2>4. RowsTyped'
    BY <2>1, <2>2, <2>3 DEF Layer, RowsTyped
  <2>5. \A x \in worth : NotesOf(x[1])' = x[2].row
    BY <2>1, <2>2 DEF NotesOf
  <2>6. \A k \in Key \ at : NotesOf(k)' = NotesOf(k)
    BY <2>2 DEF NotesOf
  <2>7. \A x \in worth : x[1] \in heart' <=> x[2].row.favorite
    BY <2>1, <2>2 DEF Titles
  <2>8. heart' \subseteq Key /\ \A k \in Key \ at : k \in heart' <=> k \in heart
    BY <2>1, <2>2, <2>3 DEF Titles, Layer, GhostsTyped
  <2>9. worn' \in [Key -> SUBSET Tag]
    <3>1. \A x \in worth : Names(x[2].row.tags) \in SUBSET Tag
      BY <2>3, RowFields, NamesAreTags
    <3>2. \A k \in Key : worn'[k] \in SUBSET Tag
      BY <2>1, <2>2, <3>1 DEF Layer, GhostsTyped
    <3> QED
      BY <2>2, <3>2
  <2>10. HeartKept'
    <3> SUFFICES ASSUME NEW k \in Key PROVE NotesOf(k)'.favorite <=> k \in heart'
      BY DEF HeartKept
    <3>1. CASE k \in at
      BY <3>1, <2>1, <2>5, <2>7
    <3>2. CASE k \notin at
      BY <3>2, <2>6, <2>8 DEF Layer, HeartKept
    <3> QED
      BY <3>1, <3>2
  <2>11. TagsKept'
    <3> SUFFICES ASSUME NEW k \in Key PROVE Names(NotesOf(k)'.tags) = worn'[k]
      BY DEF TagsKept
    <3>1. CASE k \in at
      BY <3>1, <2>1, <2>2, <2>5
    <3>2. CASE k \notin at
      BY <3>2, <2>2, <2>6 DEF Layer, TagsKept
    <3> QED
      BY <3>1, <3>2
  <2> QED
    BY <2>4, <2>8, <2>9, <2>10, <2>11 DEF Layer, GhostsTyped
<1> QED
  BY <1>1, <1>2, RestoreStep

-----------------------------------------------------------------------------
(* How far a title got, and what is noted about it.                        *)

PeakTyped == peak \in [Key -> [Kind -> 0..MaxReach]]
NotingTyped == noting # NotNoting => noting.at \in Key \X Kind \X (1..MaxReach) /\ noting.parts \subseteq Part
MarksTyped == marks \subseteq Key \X Kind \X (1..MaxReach) \X Part

\* No record of a title, in the library or in a backup, is ahead of its peak.
Below(e, k) == \A x \in Kind : e.reached[x] <= peak[k][x]
BackupBelow(b) == \A u \in DOMAIN b : \A k \in DOMAIN b[u].content : Below(b[u].content[k].entry, k)
EntriesBelow == \A k \in DOMAIN entries : Below(entries[k], k)
StoredBelow == BackupBelow(taken) /\ \A i \in DOMAIN backups : BackupBelow(backups[i])
NotingBelow == noting # NotNoting => noting.at[3] <= peak[noting.at[1]][noting.at[2]]

TrailTyped == EntriesTyped /\ PeakTyped /\ NotingTyped /\ MarksTyped /\ Stored
Trail == TrailTyped /\ EntriesBelow /\ StoredBelow /\ NotingBelow /\ NotedWasReached

LEMMA TrailWhenQuiet == ASSUME Trail, UNCHANGED <<entries, noted, taken, backups>> PROVE Trail'
BY DEF Trail, TrailTyped, noted, EntriesTyped, PeakTyped, NotingTyped, MarksTyped, Stored, EntriesBelow, StoredBelow,
       BackupBelow, Below, NotingBelow, NotedWasReached

\* A title is added, removed or dropped: nothing gets further than it was.
LEMMA EntriesTrail ==
  ASSUME Trail, UNCHANGED <<noted, taken, backups>>, DOMAIN entries' \subseteq Key,
         \A k \in DOMAIN entries' : entries'[k] \in Listing /\ Below(entries'[k], k)
  PROVE  Trail'
<1>1. peak' = peak /\ marks' = marks /\ noting' = noting /\ taken' = taken /\ backups' = backups
  BY DEF noted
<1>2. EntriesTyped' /\ PeakTyped' /\ NotingTyped' /\ MarksTyped' /\ Stored'
  BY <1>1 DEF Trail, TrailTyped, EntriesTyped, PeakTyped, NotingTyped, MarksTyped, Stored
<1>3. EntriesBelow'
  BY <1>1 DEF EntriesBelow, Below
<1>4. StoredBelow' /\ NotingBelow' /\ NotedWasReached'
  BY <1>1 DEF Trail, StoredBelow, BackupBelow, Below, NotingBelow, NotedWasReached
<1> QED
  BY <1>2, <1>3, <1>4 DEF Trail, TrailTyped

LEMMA AddedBelow ==
  ASSUME PeakTyped, NEW k \in Key, NEW status \in {"PLANNING", "COMPLETED", "DROPPED"}
  PROVE  Added(status) \in Listing /\ Below(Added(status), k)
<1>1. MaxReach \in Nat
  BY LibraryAssumption
<1>2. Added(status) \in Listing /\ \A x \in Kind : Added(status).reached[x] = 0
  BY <1>1 DEF Added, Listing
<1>3. \A x \in Kind : peak[k][x] \in 0..MaxReach
  BY DEF PeakTyped
<1> QED
  BY <1>2, <1>3 DEF Below

LEMMA PutEntry ==
  ASSUME Trail, NEW k \in Key, NEW e \in Listing, Below(e, k), entries' = Put(k, e, entries),
         UNCHANGED <<noted, taken, backups>>
  PROVE  Trail'
<1>1. DOMAIN entries' = DOMAIN entries \cup {k} /\ entries'[k] = e /\ \A j \in DOMAIN entries : j # k => entries'[j] = entries[j]
  BY DEF Put, Over
<1>2. DOMAIN entries' \subseteq Key /\ \A j \in DOMAIN entries' : entries'[j] \in Listing /\ Below(entries'[j], j)
  BY <1>1 DEF Trail, TrailTyped, EntriesTyped, EntriesBelow
<1> QED
  BY <1>2, EntriesTrail

LEMMA DropAnsweredTrail ==
  ASSUME Trail, NEW k \in Key, DropAnswered(k)
  PROVE  Trail'
<1>1. UNCHANGED <<noted, taken, backups>>
  BY DEF DropAnswered, backup
<1>2. CASE UNCHANGED entries
  BY <1>1, <1>2, TrailWhenQuiet
<1> DEFINE e == IF k \in DOMAIN entries THEN [entries[k] EXCEPT !.status = "DROPPED"] ELSE Added("DROPPED")
<1>3. e \in Listing /\ Below(e, k)
  <2>1. CASE k \in DOMAIN entries
    <3>1. entries[k] \in Listing /\ Below(entries[k], k)
      BY <2>1 DEF Trail, TrailTyped, EntriesTyped, EntriesBelow
    <3>2. e = [entries[k] EXCEPT !.status = "DROPPED"]
      BY <2>1
    <3>3. e \in Listing /\ e.reached = entries[k].reached
      BY <3>1, <3>2 DEF Listing
    <3> HIDE DEF e
    <3> QED
      BY <3>1, <3>3 DEF Below
  <2>2. CASE k \notin DOMAIN entries
    BY <2>2, AddedBelow DEF Trail, TrailTyped
  <2> QED
    BY <2>1, <2>2
<1>4. CASE entries' = Put(k, e, entries)
  <2> HIDE DEF e
  <2> QED
    BY <1>1, <1>3, <1>4, PutEntry
<1> QED
  BY <1>2, <1>4 DEF DropAnswered

LEMMA DeleteAnimeTrail ==
  ASSUME Trail, NEW k, DeleteAnime(k)
  PROVE  Trail'
<1>1. UNCHANGED <<noted, taken, backups>> /\ entries' = [j \in DOMAIN entries \ {k} |-> entries[j]]
  BY DEF DeleteAnime, backup
<1>2. DOMAIN entries' \subseteq Key /\ \A j \in DOMAIN entries' : entries'[j] \in Listing /\ Below(entries'[j], j)
  BY <1>1 DEF Trail, TrailTyped, EntriesTyped, EntriesBelow
<1> QED
  BY <1>1, <1>2, EntriesTrail

LEMMA AddAnimeTrail ==
  ASSUME Trail, NEW k \in Key, AddAnime(k)
  PROVE  Trail'
<1>1. UNCHANGED <<noted, taken, backups>> /\ entries' = Put(k, Added("PLANNING"), entries)
  BY DEF AddAnime, backup
<1>2. Added("PLANNING") \in Listing /\ Below(Added("PLANNING"), k)
  BY AddedBelow DEF Trail, TrailTyped
<1> QED
  BY <1>1, <1>2, PutEntry

LEMMA WipeTrail ==
  ASSUME Trail, NEW gone, Wipe(gone)
  PROVE  Trail'
<1>1. peak' = peak /\ marks' = {} /\ noting' = noting /\ taken' = taken /\ backups' = backups /\ DOMAIN entries' = {}
  BY DEF Wipe
<1> QED
  BY <1>1 DEF Trail, TrailTyped, EntriesTyped, PeakTyped, NotingTyped, MarksTyped, Stored, EntriesBelow, StoredBelow,
              BackupBelow, Below, NotingBelow, NotedWasReached

LEMMA RestoreTrail ==
  ASSUME Trail, NEW i \in DOMAIN backups, NEW bad, Restore(backups[i], bad)
  PROVE  Trail'
<1> DEFINE b == backups[i]
<1>1. b \in BackupRow /\ BackupBelow(b)
  BY LenProperties, ElementOfSeq DEF Trail, TrailTyped, Stored, StoredBelow
<1> HIDE DEF b
<1>2. Restore(b, bad)
  BY DEF b
<1>3. UNCHANGED <<noted, taken, backups>>
  BY <1>1, <1>2, RestoreStep DEF backup
<1>4. CASE UNCHANGED entries
  BY <1>3, <1>4, TrailWhenQuiet
<1>5. CASE Rewritten(b)
  <2>1. /\ DOMAIN entries' = Titles(Restorable(b)) \cup DOMAIN entries
        /\ \A x \in Restorable(b) : entries'[x[1]] = x[2].entry
        /\ \A k \in DOMAIN entries \ Titles(Restorable(b)) : entries'[k] = entries[k]
    BY <1>5 DEF Rewritten
  <2>2. ASSUME NEW x \in Restorable(b)
        PROVE  x[1] \in Key /\ x[2].entry \in Listing /\ Below(x[2].entry, x[1])
    <3>1. x[1] \in Key /\ x[2].entry \in Listing
      BY <1>1, Lines DEF Line
    <3>2. PICK u \in DOMAIN b : \E k \in DOMAIN b[u].content : x = <<k, b[u].content[k]>>
      BY <1>1, Lines
    <3>3. PICK k \in DOMAIN b[u].content : x = <<k, b[u].content[k]>>
      BY <3>2
    <3>4. Below(b[u].content[k].entry, k)
      BY <1>1 DEF BackupBelow
    <3> QED
      BY <3>1, <3>3, <3>4
  <2>3. DOMAIN entries' \subseteq Key /\ \A k \in DOMAIN entries' : entries'[k] \in Listing /\ Below(entries'[k], k)
    BY <2>1, <2>2 DEF Titles, Trail, TrailTyped, EntriesTyped, EntriesBelow
  <2> QED
    BY <1>3, <2>3, EntriesTrail
<1> QED
  BY <1>1, <1>2, <1>4, <1>5, RestoreStep

LEMMA ReachesTrail ==
  ASSUME Trail, NEW k \in Key, NEW reached \in [Kind -> 0..MaxReach], Reaches(k, reached)
  PROVE  Trail'
<1>0. MaxReach \in Nat
  BY LibraryAssumption
<1>1. /\ k \in DOMAIN entries
      /\ entries' = [entries EXCEPT ![k].reached = reached]
      /\ peak' = [peak EXCEPT ![k] = [x \in Kind |-> IF reached[x] > peak[k][x] THEN reached[x] ELSE peak[k][x]]]
      /\ noting' = noting /\ marks' = marks /\ taken' = taken /\ backups' = backups
  BY DEF Reaches, backup
<1>2. peak \in [Key -> [Kind -> 0..MaxReach]]
  BY DEF Trail, TrailTyped, PeakTyped
<1>3. PeakTyped'
  <2>1. [x \in Kind |-> IF reached[x] > peak[k][x] THEN reached[x] ELSE peak[k][x]] \in [Kind -> 0..MaxReach]
    BY <1>2
  <2> QED
    BY <1>1, <1>2, <2>1 DEF PeakTyped
<1>4. /\ \A x \in Kind : peak'[k][x] = IF reached[x] > peak[k][x] THEN reached[x] ELSE peak[k][x]
      /\ \A j \in Key : j # k => peak'[j] = peak[j]
  BY <1>1, <1>2
<1>5. ASSUME NEW j \in Key, NEW x \in Kind
      PROVE  peak[j][x] \in 0..MaxReach /\ peak'[j][x] \in 0..MaxReach /\ peak[j][x] <= peak'[j][x]
  <2>1. peak[j][x] \in 0..MaxReach /\ peak[k][x] \in 0..MaxReach /\ reached[x] \in 0..MaxReach
    BY <1>2
  <2>2. peak'[j][x] \in 0..MaxReach
    BY <1>3 DEF PeakTyped
  <2>3. CASE j = k
    BY <1>0, <1>4, <2>1, <2>2, <2>3
  <2>4. CASE j # k
    BY <1>0, <1>4, <2>1, <2>2, <2>4
  <2> QED
    BY <2>3, <2>4
<1>6. ASSUME NEW j \in Key, NEW e \in Listing, Below(e, j) PROVE Below(e, j)'
  <2>1. \A x \in Kind : e.reached[x] \in 0..MaxReach /\ e.reached[x] <= peak[j][x]
    BY <1>6 DEF Listing, Below
  <2> QED
    BY <1>0, <1>5, <2>1 DEF Below
<1>7. /\ DOMAIN entries' = DOMAIN entries /\ entries'[k] \in Listing /\ entries'[k].reached = reached
      /\ \A j \in DOMAIN entries : j # k => entries'[j] = entries[j]
  <2>1. entries[k] \in Listing
    BY <1>1 DEF Trail, TrailTyped, EntriesTyped
  <2>2. entries'[k] = [entries[k] EXCEPT !.reached = reached]
    BY <1>1
  <2> QED
    BY <1>1, <2>1, <2>2 DEF Listing
<1>8. EntriesTyped'
  BY <1>7 DEF Trail, TrailTyped, EntriesTyped
<1>9. EntriesBelow'
  <2> SUFFICES ASSUME NEW j \in DOMAIN entries' PROVE \A x \in Kind : entries'[j].reached[x] <= peak'[j][x]
    BY DEF EntriesBelow, Below
  <2>1. CASE j = k
    <3>1. \A x \in Kind : reached[x] \in 0..MaxReach /\ peak[k][x] \in 0..MaxReach /\ reached[x] <= peak'[k][x]
      <4>1. \A x \in Kind : reached[x] \in 0..MaxReach /\ peak[k][x] \in 0..MaxReach
        BY <1>2
      <4> QED
        BY <1>0, <1>4, <4>1
    <3> QED
      BY <2>1, <3>1, <1>7
  <2>2. CASE j # k
    <3>1. j \in Key /\ entries[j] \in Listing /\ Below(entries[j], j) /\ entries'[j] = entries[j]
      BY <2>2, <1>7 DEF Trail, TrailTyped, EntriesTyped, EntriesBelow
    <3>2. \A x \in Kind : entries[j].reached[x] \in 0..MaxReach /\ entries[j].reached[x] <= peak[j][x]
      BY <3>1 DEF Below, Listing
    <3> QED
      BY <1>0, <1>5, <3>1, <3>2
  <2> QED
    BY <2>1, <2>2
<1>10. ASSUME NEW b \in BackupRow, BackupBelow(b) PROVE BackupBelow(b)'
  BY <1>6, <1>10, BackupHas DEF BackupBelow
<1>11. StoredBelow'
  <2>1. taken \in BackupRow /\ \A i \in DOMAIN backups : backups[i] \in BackupRow
    BY LenProperties, ElementOfSeq DEF Trail, TrailTyped, Stored
  <2> QED
    BY <1>1, <1>10, <2>1 DEF Trail, StoredBelow, BackupBelow, Below
<1>12. NotingBelow'
  <2> SUFFICES ASSUME noting # NotNoting PROVE noting.at[3] <= peak'[noting.at[1]][noting.at[2]]
    BY <1>1 DEF NotingBelow
  <2>1. noting.at[1] \in Key /\ noting.at[2] \in Kind /\ noting.at[3] \in 1..MaxReach
        /\ noting.at[3] <= peak[noting.at[1]][noting.at[2]]
    BY DEF Trail, TrailTyped, NotingTyped, NotingBelow
  <2> QED
    BY <1>0, <1>5, <2>1
<1>13. NotedWasReached'
  <2> SUFFICES ASSUME NEW m \in marks PROVE m[3] <= peak'[m[1]][m[2]]
    BY <1>1 DEF NotedWasReached
  <2>1. m[1] \in Key /\ m[2] \in Kind /\ m[3] \in 1..MaxReach /\ m[3] <= peak[m[1]][m[2]]
    BY DEF Trail, TrailTyped, MarksTyped, NotedWasReached
  <2> QED
    BY <1>0, <1>5, <2>1
<1>14. NotingTyped' /\ MarksTyped' /\ Stored'
  BY <1>1 DEF Trail, TrailTyped, NotingTyped, MarksTyped, Stored
<1> QED
  BY <1>3, <1>8, <1>9, <1>11, <1>12, <1>13, <1>14 DEF Trail, TrailTyped

LEMMA NoteAskedTrail ==
  ASSUME Trail, NEW k \in Key, NEW kind \in Kind, NEW n \in 0..(MaxReach + 1), NEW parts \in SUBSET Part,
         NoteAsked(k, kind, n, parts)
  PROVE  Trail'
<1>0. MaxReach \in Nat
  BY LibraryAssumption
<1>1. /\ n >= 1 /\ k \in DOMAIN entries /\ n <= entries[k].reached[kind]
      /\ noting' = [op |-> "note", at |-> <<k, kind, n>>, parts |-> parts]
      /\ entries' = entries /\ marks' = marks /\ peak' = peak /\ taken' = taken /\ backups' = backups
  BY DEF NoteAsked, backup
<1>2. entries[k] \in Listing /\ entries[k].reached[kind] <= peak[k][kind] /\ peak[k][kind] \in 0..MaxReach
  BY <1>1 DEF Trail, TrailTyped, EntriesTyped, EntriesBelow, Below, PeakTyped
<1>3. entries[k].reached[kind] \in 0..MaxReach
  BY <1>2 DEF Listing
<1>4. n \in 1..MaxReach /\ n <= peak[k][kind]
  BY <1>0, <1>1, <1>2, <1>3
<1>5. NotingTyped' /\ NotingBelow'
  BY <1>1, <1>4 DEF NotingTyped, NotingBelow
<1>6. EntriesTyped' /\ PeakTyped' /\ MarksTyped' /\ Stored' /\ EntriesBelow' /\ StoredBelow' /\ NotedWasReached'
  BY <1>1 DEF Trail, TrailTyped, EntriesTyped, PeakTyped, MarksTyped, Stored, EntriesBelow, StoredBelow,
              BackupBelow, Below, NotedWasReached
<1> QED
  BY <1>5, <1>6 DEF Trail, TrailTyped

LEMMA NoteWrittenTrail ==
  ASSUME Trail, NoteWritten
  PROVE  Trail'
<1>1. /\ noting # NotNoting /\ noting' = NotNoting
      /\ marks' = {m \in marks : <<m[1], m[2], m[3]>> # noting.at}
                    \cup {<<noting.at[1], noting.at[2], noting.at[3], p>> : p \in noting.parts}
      /\ entries' = entries /\ peak' = peak /\ taken' = taken /\ backups' = backups
  BY DEF NoteWritten, backup
<1>2. /\ noting.at[1] \in Key /\ noting.at[2] \in Kind /\ noting.at[3] \in 1..MaxReach /\ noting.parts \subseteq Part
      /\ noting.at[3] <= peak[noting.at[1]][noting.at[2]]
  BY <1>1 DEF Trail, TrailTyped, NotingTyped, NotingBelow
<1>3. ASSUME NEW m \in marks'
      PROVE  m \in Key \X Kind \X (1..MaxReach) \X Part /\ m[3] <= peak[m[1]][m[2]]
  <2>1. CASE m \in marks
    BY <2>1 DEF Trail, TrailTyped, MarksTyped, NotedWasReached
  <2>2. CASE m \notin marks
    <3>1. PICK p \in noting.parts : m = <<noting.at[1], noting.at[2], noting.at[3], p>>
      BY <1>1, <2>2
    <3> QED
      BY <1>2, <3>1
  <2> QED
    BY <2>1, <2>2
<1>4. MarksTyped' /\ NotedWasReached'
  BY <1>1, <1>3 DEF MarksTyped, NotedWasReached
<1>5. NotingTyped' /\ NotingBelow'
  BY <1>1 DEF NotingTyped, NotingBelow
<1>6. EntriesTyped' /\ PeakTyped' /\ Stored' /\ EntriesBelow' /\ StoredBelow'
  BY <1>1 DEF Trail, TrailTyped, EntriesTyped, PeakTyped, Stored, EntriesBelow, StoredBelow, BackupBelow, Below
<1> QED
  BY <1>4, <1>5, <1>6 DEF Trail, TrailTyped

\* What a step of the backup leaves of the trail.
LEMMA BackupTrail ==
  ASSUME Trail, UNCHANGED <<entries, noted>>, Stored',
         StoredBelow'
  PROVE  Trail'
<1>1. peak' = peak /\ marks' = marks /\ noting' = noting /\ entries' = entries
  BY DEF noted
<1> QED
  BY <1>1 DEF Trail, TrailTyped, EntriesTyped, PeakTyped, NotingTyped, MarksTyped, EntriesBelow,
              Below, NotingBelow, NotedWasReached

LEMMA BackUpUserTrail ==
  ASSUME Trail, RowsTyped, NEW u \in User, BackUpUser(u)
  PROVE  Trail'
<1> DEFINE s == [content |-> Exported(u), was |-> [k \in DOMAIN Exported(u) |-> NotesOf(k)]]
<1>1. taken' = Put(u, s, taken) /\ backups' = backups /\ entries' = entries /\ noted' = noted
  BY DEF BackUpUser
<1>2. \A k \in DOMAIN s.content : k \in DOMAIN entries /\ s.content[k].entry = entries[k]
  BY SnapshotOf DEF Trail, TrailTyped
<1>3. Stored'
  BY BackUpUserStored DEF Trail, TrailTyped
<1> HIDE DEF s
<1>4. DOMAIN taken' = DOMAIN taken \cup {u} /\ taken'[u] = s /\ \A v \in DOMAIN taken : v # u => taken'[v] = taken[v]
  BY <1>1 DEF Put, Over
<1>5. peak' = peak
  BY <1>1 DEF noted
<1>6. ASSUME NEW v \in DOMAIN taken', NEW k \in DOMAIN taken'[v].content
      PROVE  \A x \in Kind : taken'[v].content[k].entry.reached[x] <= peak'[k][x]
  <2>1. CASE v = u
    BY <2>1, <1>2, <1>4, <1>5 DEF Trail, EntriesBelow, Below
  <2>2. CASE v # u
    BY <2>2, <1>4, <1>5 DEF Trail, StoredBelow, BackupBelow, Below
  <2> QED
    BY <2>1, <2>2
<1>7. StoredBelow'
  BY <1>1, <1>5, <1>6 DEF Trail, StoredBelow, BackupBelow, Below
<1> QED
  BY <1>1, <1>3, <1>7, BackupTrail

LEMMA StoreBackupTrail ==
  ASSUME Trail, StoreBackup
  PROVE  Trail'
<1>1. backups' = Append(backups, taken) /\ taken' = <<>> /\ entries' = entries /\ noted' = noted
  BY DEF StoreBackup
<1>2. Stored'
  BY StoreBackupStored DEF Trail, TrailTyped
<1>3. peak' = peak
  BY <1>1 DEF noted
<1>4. \A i \in DOMAIN backups' : backups'[i] = taken \/ (i \in DOMAIN backups /\ backups'[i] = backups[i])
  <2>1. /\ DOMAIN backups = 1..Len(backups) /\ Len(backups) \in Nat /\ DOMAIN backups' = 1..(Len(backups) + 1)
        /\ backups'[Len(backups) + 1] = taken /\ \A i \in 1..Len(backups) : backups'[i] = backups[i]
    BY <1>1, LenProperties, AppendProperties DEF Trail, TrailTyped, Stored
  <2>2. \A i \in DOMAIN backups' : i = Len(backups) + 1 \/ i \in 1..Len(backups)
    BY <2>1
  <2> QED
    BY <2>1, <2>2
<1>5. DOMAIN taken' = {}
  BY <1>1
<1>6. StoredBelow'
  <2>1. \A i \in DOMAIN backups' : BackupBelow(backups'[i])
    BY <1>4 DEF Trail, StoredBelow
  <2> QED
    BY <1>3, <1>5, <2>1 DEF StoredBelow, BackupBelow, Below
<1> QED
  BY <1>1, <1>2, <1>6, BackupTrail

LEMMA PruneTrail ==
  ASSUME Trail, PruneBackups
  PROVE  Trail'
<1>1. entries' = entries /\ noted' = noted /\ taken' = taken
  BY DEF PruneBackups
<1>2. Stored'
  BY PruneStored DEF Trail, TrailTyped
<1>3. peak' = peak
  BY <1>1 DEF noted
<1>4. \A i \in DOMAIN backups' : \E j \in DOMAIN backups : backups'[i] = backups[j]
  <2>1. Len(backups) \in Nat /\ Keep \in Nat \ {0} /\ DOMAIN backups = 1..Len(backups)
    BY LibraryAssumption, LenProperties DEF Trail, TrailTyped, Stored
  <2>2. CASE Len(backups) > Keep
    <3> DEFINE m == Len(backups) - Keep + 1
    <3>1. m \in Int /\ m >= 1 /\ Len(backups) - m + 1 = Keep /\ m <= Len(backups)
      BY <2>1, <2>2
    <3>2. \A i \in m..Len(backups) : backups[i] \in BackupRow
      <4>1. \A i \in m..Len(backups) : i \in 1..Len(backups)
        BY <2>1, <3>1
      <4> QED
        BY <4>1, ElementOfSeq DEF Trail, TrailTyped, Stored
    <3>3. backups' = SubSeq(backups, m, Len(backups))
      BY <2>2 DEF PruneBackups
    <3> HIDE DEF m
    <3>4. /\ backups' \in Seq(BackupRow) /\ Len(backups') = Keep
          /\ \A i \in 1..Keep : backups'[i] = backups[m + i - 1]
      <4>1. /\ SubSeq(backups, m, Len(backups)) \in Seq(BackupRow)
            /\ Len(SubSeq(backups, m, Len(backups))) = IF m <= Len(backups) THEN Len(backups) - m + 1 ELSE 0
            /\ \A i \in 1..(Len(backups) - m + 1) : SubSeq(backups, m, Len(backups))[i] = backups[m + i - 1]
        BY <2>1, <3>1, <3>2, SubSeqProperties
      <4> QED
        BY <3>1, <3>3, <4>1
    <3>5. DOMAIN backups' = 1..Keep
      BY <3>4, LenProperties
    <3>6. \A i \in 1..Keep : m + i - 1 \in 1..Len(backups)
      BY <2>1, <3>1
    <3> QED
      BY <2>1, <3>4, <3>5, <3>6
  <2>3. CASE ~(Len(backups) > Keep)
    BY <2>3 DEF PruneBackups
  <2> QED
    BY <2>2, <2>3
<1>5. StoredBelow'
  BY <1>1, <1>3, <1>4 DEF Trail, StoredBelow, BackupBelow, Below
<1> QED
  BY <1>1, <1>2, <1>5, BackupTrail

LEMMA FailsTrail ==
  ASSUME Trail, BackupFails
  PROVE  Trail'
<1>1. entries' = entries /\ noted' = noted /\ taken' = <<>> /\ backups' = backups
  BY DEF BackupFails
<1>2. Stored'
  BY FailsStored DEF Trail, TrailTyped
<1>3. peak' = peak /\ DOMAIN taken' = {}
  BY <1>1 DEF noted
<1>4. StoredBelow'
  BY <1>1, <1>3 DEF Trail, StoredBelow, BackupBelow, Below
<1> QED
  BY <1>1, <1>2, <1>4, BackupTrail

-----------------------------------------------------------------------------
(* The invariant of the library and its steps.                             *)

Bystanders == dropping \subseteq Key /\ users \subseteq User /\ stage \in {"idle", "export", "prune"}

LibraryInv == Layer /\ Held /\ Trail /\ Bystanders

LEMMA LibraryInitInv == LibraryInit => LibraryInv
<1> SUFFICES ASSUME LibraryInit PROVE LibraryInv
  OBVIOUS
<1> USE DEF LibraryInit
<1>0. MaxReach \in Nat
  BY LibraryAssumption
<1>1. DOMAIN notes = {} /\ \A k \in Key : NotesOf(k) = Empty
  BY DEF NotesOf
<1>2. Layer
  BY <1>1, EmptyRow DEF Layer, RowsTyped, GhostsTyped, HeartKept, TagsKept
<1>3. Held
  BY FS_EmptySet DEF Held, TasksTyped, NoFile
<1>4. peak \in [Key -> [Kind -> 0..MaxReach]] /\ \A k \in Key, x \in Kind : peak[k][x] = 0
  BY <1>0
<1>5. PeakTyped
  BY <1>4 DEF PeakTyped
<1>6. \A k \in Key : Added("PLANNING") \in Listing /\ Below(Added("PLANNING"), k)
  BY <1>5, AddedBelow
<1>7. EntriesTyped /\ EntriesBelow
  BY <1>6 DEF EntriesTyped, EntriesBelow
<1>8. Stored
  BY NoBackup, EmptySeq DEF Stored
<1>9. StoredBelow
  <2>1. DOMAIN taken = {} /\ DOMAIN backups = {}
    OBVIOUS
  <2> QED
    BY <2>1 DEF StoredBelow, BackupBelow
<1>10. NotingTyped /\ NotingBelow /\ MarksTyped /\ NotedWasReached
  BY DEF NotingTyped, NotingBelow, MarksTyped, NotedWasReached
<1>11. Bystanders
  BY DEF Bystanders
<1> QED
  BY <1>2, <1>3, <1>5, <1>7, <1>8, <1>9, <1>10, <1>11 DEF LibraryInv, Trail, TrailTyped

\* The actions that write worth, those that move entries or what is noted, the others.
RowWrites ==
  \/ \E k \in Key, r \in Forms : SaveNotes(k, r)
  \/ \E k \in Key, on \in BOOLEAN : SetFavorite(k, on)
  \/ \E ks \in SUBSET Key, tags \in TagLists : BulkTags(ks, tags)
  \/ \E u \in User, old, new \in Tag : RenameTag(u, old, new)
  \/ \E u \in User, tag \in Tag : DeleteTag(u, tag)
  \/ \E task \in tasks : NextItem(task)

Requests ==
  \/ \E u \in User, order \in SetToSeqs(Title) : Reorder(u, order)
  \/ \E u \in User : Download(u)
  \/ \E confirm \in BOOLEAN : Import(confirm)

EntryMoves ==
  \/ \E k \in Key : DropAnswered(k) \/ DeleteAnime(k) \/ AddAnime(k)
  \/ \E k \in Key, reached \in [Kind -> 0..MaxReach] : Reaches(k, reached)
  \/ \E k \in Key, kind \in Kind, n \in 0..(MaxReach + 1), parts \in SUBSET Part : NoteAsked(k, kind, n, parts)
  \/ NoteWritten

Copies == (\E u \in User : BackUpUser(u)) \/ StoreBackup \/ PruneBackups \/ BackupFails

Losses ==
  \/ \E gone \in SUBSET User : Wipe(gone)
  \/ \E i \in DOMAIN backups, bad \in SUBSET Key : Restore(backups[i], bad)

LEMMA Actions == ASSUME LibraryNext PROVE RowWrites \/ Requests \/ EntryMoves \/ Copies \/ Losses
<1>0. Mine \subseteq Key /\ Editor \subseteq User
  BY LibraryAssumption DEF Mine, Key
<1>1. CASE PersonalNext
  BY <1>0, <1>1 DEF PersonalNext, Edits, RowWrites, Requests, EntryMoves
<1>2. CASE NotingNext
  BY <1>0, <1>2 DEF NotingNext, EntryMoves
<1>3. CASE BackupNext
  BY <1>0, <1>3 DEF BackupNext, Edits, RowWrites, EntryMoves, Copies, Losses
<1> QED
  BY <1>1, <1>2, <1>3 DEF LibraryNext

LEMMA RowWritesQuiet ==
  ASSUME RowWrites
  PROVE  UNCHANGED <<entries, noted, backup, file>> /\ (UNCHANGED tasks \/ \E task \in tasks : NextItem(task))
         /\ (dropping' = dropping \/ \E k \in Key : dropping' = dropping \cup {k})
<1>1. CASE \E k \in Key, r \in Forms : SaveNotes(k, r)
  BY <1>1 DEF SaveNotes
<1>2. CASE \E k \in Key, on \in BOOLEAN : SetFavorite(k, on)
  BY <1>2 DEF SetFavorite
<1>3. CASE \E ks \in SUBSET Key, tags \in TagLists : BulkTags(ks, tags)
  BY <1>3 DEF BulkTags
<1>4. CASE \E u \in User, old, new \in Tag : RenameTag(u, old, new)
  BY <1>4 DEF RenameTag, Retagged
<1>5. CASE \E u \in User, tag \in Tag : DeleteTag(u, tag)
  BY <1>5 DEF DeleteTag, Retagged
<1>6. CASE \E task \in tasks : NextItem(task)
  BY <1>6 DEF NextItem
<1> QED
  BY <1>1, <1>2, <1>3, <1>4, <1>5, <1>6 DEF RowWrites

LEMMA RequestsQuiet ==
  ASSUME Requests
  PROVE  UNCHANGED <<entries, personal, noted, backup, dropping>>
BY DEF Requests, Reorder, Download, Import

LEMMA EntryMovesQuiet ==
  ASSUME EntryMoves
  PROVE  UNCHANGED <<personal, backup, tasks, file>> /\ dropping' \subseteq dropping
BY DEF EntryMoves, DropAnswered, DeleteAnime, AddAnime, Reaches, NoteAsked, NoteWritten, noted, personal

LEMMA CopiesQuiet ==
  ASSUME Copies
  PROVE  UNCHANGED <<entries, personal, noted, dropping, tasks, file, users>> /\ stage' \in {"idle", "export", "prune"}
BY DEF Copies, BackUpUser, StoreBackup, PruneBackups, BackupFails

LEMMA LossesQuiet ==
  ASSUME LibraryInv, Losses
  PROVE  UNCHANGED <<dropping, tasks, file, stage, taken, backups>> /\ users' \subseteq users
<1>1. CASE \E gone \in SUBSET User : Wipe(gone)
  BY <1>1 DEF Wipe
<1>2. CASE \E i \in DOMAIN backups, bad \in SUBSET Key : Restore(backups[i], bad)
  BY <1>2 DEF Restore, backup
<1> QED
  BY <1>1, <1>2 DEF Losses

LEMMA BackupsAreBackups == ASSUME Stored, NEW i \in DOMAIN backups PROVE backups[i] \in BackupRow
BY LenProperties, ElementOfSeq DEF Stored

LEMMA LayerStep == ASSUME LibraryInv, LibraryNext PROVE Layer'
<1>0. Layer /\ Held /\ Trail /\ Stored
  BY DEF LibraryInv, Trail, TrailTyped
<1>1. CASE RowWrites
  BY <1>0, <1>1, SaveNotesLayer, SetFavoriteLayer, BulkTagsLayer, RenameTagLayer, DeleteTagLayer, NextItemLayer DEF RowWrites
<1>2. CASE Requests \/ EntryMoves \/ Copies
  BY <1>0, <1>2, RequestsQuiet, EntryMovesQuiet, CopiesQuiet, LayerWhenQuiet
<1>3. CASE Losses
  BY <1>0, <1>3, WipeLayer, RestoreLayer, BackupsAreBackups DEF Losses
<1> QED
  BY <1>1, <1>2, <1>3, Actions

LEMMA HeldStep == ASSUME LibraryInv, LibraryNext PROVE Held'
<1>0. Held /\ RowsTyped /\ DOMAIN entries \subseteq Key
  BY DEF LibraryInv, Layer, Trail, TrailTyped, EntriesTyped
<1>1. CASE RowWrites
  BY <1>0, <1>1, RowWritesQuiet, HeldWhenQuiet, NextItemHeld
<1>2. CASE Requests
  BY <1>0, <1>2, ReorderHeld, DownloadHeld, ImportHeld DEF Requests
<1>3. CASE EntryMoves \/ Copies \/ Losses
  BY <1>0, <1>3, EntryMovesQuiet, CopiesQuiet, LossesQuiet, HeldWhenQuiet
<1> QED
  BY <1>1, <1>2, <1>3, Actions

LEMMA TrailStep == ASSUME LibraryInv, LibraryNext PROVE Trail'
<1>0. Trail /\ RowsTyped
  BY DEF LibraryInv, Layer
<1>1. CASE RowWrites \/ Requests
  <2>1. UNCHANGED <<entries, noted, taken, backups>>
    BY <1>1, RowWritesQuiet, RequestsQuiet DEF backup
  <2> QED
    BY <1>0, <2>1, TrailWhenQuiet
<1>2. CASE EntryMoves
  BY <1>0, <1>2, DropAnsweredTrail, DeleteAnimeTrail, AddAnimeTrail, ReachesTrail, NoteAskedTrail, NoteWrittenTrail DEF EntryMoves
<1>3. CASE Copies
  BY <1>0, <1>3, BackUpUserTrail, StoreBackupTrail, PruneTrail, FailsTrail DEF Copies
<1>4. CASE Losses
  BY <1>0, <1>4, WipeTrail, RestoreTrail DEF Losses
<1> QED
  BY <1>1, <1>2, <1>3, <1>4, Actions

LEMMA BystandersStep == ASSUME LibraryInv, LibraryNext PROVE Bystanders'
<1>0. Bystanders
  BY DEF LibraryInv
<1>1. CASE RowWrites
  BY <1>0, <1>1, RowWritesQuiet DEF Bystanders, backup
<1>2. CASE Requests
  BY <1>0, <1>2, RequestsQuiet DEF Bystanders, backup
<1>3. CASE EntryMoves
  BY <1>0, <1>3, EntryMovesQuiet DEF Bystanders, backup
<1>4. CASE Copies
  BY <1>0, <1>4, CopiesQuiet DEF Bystanders
<1>5. CASE Losses
  BY <1>0, <1>5, LossesQuiet DEF Bystanders
<1> QED
  BY <1>1, <1>2, <1>3, <1>4, <1>5, Actions

LEMMA LibraryStepInv == LibraryInv /\ [LibraryNext]_library => LibraryInv'
<1> SUFFICES ASSUME LibraryInv, [LibraryNext]_library PROVE LibraryInv'
  OBVIOUS
<1>1. CASE LibraryNext
  BY <1>1, LayerStep, HeldStep, TrailStep, BystandersStep DEF LibraryInv
<1>2. CASE UNCHANGED library
  <2>1. UNCHANGED <<entries, personal, noted, taken, backups, tasks, file, dropping, users, stage>>
    BY <1>2 DEF library, personal, noted
  <2> QED
    BY <2>1, LayerWhenQuiet, HeldWhenQuiet, TrailWhenQuiet DEF LibraryInv, Bystanders
<1> QED
  BY <1>1, <1>2

\* The invariant of the personal layer over every interleaving of edits, item-by-item
\* requests, imports, notes, backups, losses and restores (app/main.py,
\* restore_backup.py).
THEOREM LibraryInvariance == LibrarySpec => []LibraryInv
BY LibraryInitInv, LibraryStepInv, PTL DEF LibrarySpec

\* The variables of the library, its requests and its backups keep their types.
THEOREM LibraryTypes == LibrarySpec => []LibraryTypeOK
<1>1. LibraryInv => LibraryTypeOK
  <2> SUFFICES ASSUME LibraryInv PROVE LibraryTypeOK
    OBVIOUS
  <2>1. DOMAIN taken \subseteq User
    BY BackupHas DEF LibraryInv, Trail, TrailTyped, Stored
  <2> QED
    BY <2>1 DEF LibraryInv, Layer, RowsTyped, GhostsTyped, Trail, TrailTyped, EntriesTyped, PeakTyped, MarksTyped,
                Bystanders, LibraryTypeOK
<1> QED
  BY <1>1, LibraryInvariance, PTL

\* Hearts, tags and notes stay what their owners made them, for every set of
\* accounts, titles, tags and lower-case spelling (_set_favorite,
\* _upsert_personal_notes, _bulk_apply_tags, _rename_or_merge_tag, _delete_tag,
\* _save_rewatch_note, _save_episode_note).
THEOREM PersonalLayerKept == LibrarySpec => []PersonalLayer
<1>1. LibraryInv => PersonalLayer
  BY DEF LibraryInv, Layer, Trail, PersonalLayer
<1> QED
  BY <1>1, LibraryInvariance, PTL

\* Every backup that is kept restores the accounts that exist as they were, their
\* hearts and tags included (_export_user_library, restore).
THEOREM BackupsRestoreWhole == LibrarySpec => RestoredWhole
<1>1. LibraryInv /\ [LibraryNext]_library =>
        [\A i \in DOMAIN backups : Restore(backups[i], {}) =>
           \A u \in users \cap DOMAIN backups[i], k \in Key :
             k \in DOMAIN backups[i][u].was =>
               /\ k \in DOMAIN entries' /\ entries'[k] = backups[i][u].content[k].entry
               /\ backups[i][u].was[k] # Empty => k \in DOMAIN notes' /\ notes'[k] = backups[i][u].was[k]]_library
  <2> SUFFICES ASSUME LibraryInv, NEW i \in DOMAIN backups, Restore(backups[i], {}),
                      NEW u \in users \cap DOMAIN backups[i], NEW k \in Key, k \in DOMAIN backups[i][u].was
               PROVE  /\ k \in DOMAIN entries' /\ entries'[k] = backups[i][u].content[k].entry
                      /\ backups[i][u].was[k] # Empty => k \in DOMAIN notes' /\ notes'[k] = backups[i][u].was[k]
    OBVIOUS
  <2> DEFINE b == backups[i]
             x == <<k, b[u].content[k]>>
  <2>1. b \in BackupRow
    BY BackupsAreBackups DEF LibraryInv, Trail, TrailTyped
  <2>2. Rewritten(b)
    BY <2>1, RestoreStep
  <2>3. Own(u, b[u]) /\ k \in DOMAIN b[u].content /\ b[u].was[k] = b[u].content[k].row /\ b[u].content[k].row \in Row
    BY <2>1, BackupHas DEF Own
  <2>4. x \in Restorable(b)
    BY <2>1, <2>3, Lines
  <2>5. ASSUME b[u].was[k] # Empty PROVE x \in NotedLines(b)
    <3>1. Noted(b[u].content[k].row)
      <4> DEFINE r == b[u].content[k].row
      <4>1. r \in Row /\ r # Empty
        BY <2>3, <2>5
      <4>2. r = [text |-> r.text, tags |-> r.tags, priority |-> r.priority, favorite |-> r.favorite]
            /\ r.favorite \in BOOLEAN
        BY <4>1 DEF Row
      <4> HIDE DEF r
      <4>3. r.text # Blank \/ r.tags # <<>> \/ r.priority # Unset \/ r.favorite
        BY <4>1, <4>2 DEF Empty
      <4>4. Noted(r)
        BY <4>3 DEF Noted, Carrying
      <4> QED
        BY <4>4 DEF r
    <3> QED
      BY <2>4, <3>1 DEF NotedLines
  <2> HIDE DEF b, x
  <2>6. x[1] = k /\ x[2] = b[u].content[k]
    BY DEF x
  <2>7. k \in DOMAIN entries' /\ entries'[k] = b[u].content[k].entry
    BY <2>2, <2>4, <2>6 DEF Rewritten, Titles
  <2>8. ASSUME b[u].was[k] # Empty PROVE k \in DOMAIN notes' /\ notes'[k] = b[u].was[k]
    BY <2>2, <2>3, <2>5, <2>6, <2>8 DEF Rewritten, Titles
  <2> QED
    BY <2>7, <2>8 DEF b
<1> QED
  BY <1>1, LibraryInvariance, PTL DEF LibrarySpec, RestoredWhole

-----------------------------------------------------------------------------
(* Recommender.                                                            *)

RecsTyped == DOMAIN recs \subseteq Anime /\ \A a \in DOMAIN recs : recs[a] \in Rec
Live == {a \in DOMAIN recs : ~recs[a].dismissed}

JobTyped ==
  /\ job.pc \in {"idle", "fetch", "score", "rank", "store"}
  /\ job.pc \in {"fetch", "score", "rank"} => job.candidates \subseteq Anime
  /\ job.pc \in {"rank", "store"} => DOMAIN job.scores \subseteq Anime /\ \A a \in DOMAIN job.scores : job.scores[a] \in 0..100

\* A run about to store has a rank, and no rank twice, for every row that is not
\* dismissed by now and for every title it found.
RanksReady ==
  job.pc = "store" =>
    /\ job.carried \subseteq DOMAIN recs
    /\ \A a \in job.carried \cup DOMAIN job.scores : job.ranks[a] \in Nat \ {0}
    /\ \A a, b \in job.carried \cup DOMAIN job.scores : a # b => job.ranks[a] # job.ranks[b]
    /\ Live \subseteq job.carried \cup DOMAIN job.scores

RecommenderInv ==
  /\ standing \in [Anime -> Standing] /\ RecsTyped /\ JobTyped /\ RanksReady /\ RankedOnce

LEMMA RecommenderInitInv == RecommenderInit => RecommenderInv
<1> SUFFICES ASSUME RecommenderInit PROVE RecommenderInv
  OBVIOUS
<1>1. standing \in [Anime -> Standing] /\ job = NotRunning /\ ranked = FALSE
  BY RecommenderAssumption DEF RecommenderInit
<1>2. PICK old \in {{}} \cup {{a} : a \in Anime} :
        recs = [a \in old |-> [score |-> 100, source |-> "similarity", rank |-> NoRank, dismissed |-> FALSE, snoozed |-> FALSE]]
  BY DEF RecommenderInit
<1>3. RecsTyped
  BY <1>2 DEF RecsTyped, Rec, NoRank
<1>4. JobTyped /\ RanksReady /\ RankedOnce
  BY <1>1, Zenon DEF JobTyped, RanksReady, RankedOnce, NotRunning
<1> QED
  BY <1>1, <1>3, <1>4 DEF RecommenderInv

\* What the user does to a row, and what he moves, leaves the rest to the run.
LEMMA RowStep ==
  ASSUME RecommenderInv, UNCHANGED <<job, ranked>>, standing' \in [Anime -> Standing], RecsTyped',
         DOMAIN recs' = DOMAIN recs, \A a \in DOMAIN recs : recs'[a].rank = recs[a].rank,
         \A a \in DOMAIN recs : recs[a].dismissed => recs'[a].dismissed
  PROVE  RecommenderInv'
<1>1. \A a \in DOMAIN recs' : ~recs'[a].dismissed => a \in DOMAIN recs /\ ~recs[a].dismissed
  OBVIOUS
<1>2. Live' \subseteq Live
  BY <1>1 DEF Live
<1>3. JobTyped'
  BY DEF RecommenderInv, JobTyped
<1>4. RanksReady'
  BY <1>2 DEF RecommenderInv, RanksReady
<1>5. RankedOnce'
  BY <1>1 DEF RecommenderInv, RankedOnce
<1> QED
  BY <1>3, <1>4, <1>5 DEF RecommenderInv

LEMMA MovedInv == ASSUME RecommenderInv, NEW a \in Anime, NEW status \in Moves, Moved(a, status) PROVE RecommenderInv'
<1>1. standing' = [standing EXCEPT ![a] = status] /\ recs' = recs /\ job' = job /\ ranked' = ranked
  BY DEF Moved
<1>2. standing' \in [Anime -> Standing] /\ RecsTyped'
  BY <1>1, RecommenderAssumption DEF RecommenderInv, RecsTyped
<1> QED
  BY <1>1, <1>2, RowStep

LEMMA DismissInv == ASSUME RecommenderInv, NEW a \in Anime, Dismiss(a) PROVE RecommenderInv'
<1>1. /\ a \in DOMAIN recs /\ recs' = [recs EXCEPT ![a].dismissed = TRUE]
      /\ standing' = standing /\ job' = job /\ ranked' = ranked
  BY DEF Dismiss
<1>2. RecsTyped
  BY DEF RecommenderInv
<1>3. recs'[a] \in Rec /\ recs'[a].rank = recs[a].rank /\ recs'[a].dismissed
  <2>1. recs[a] \in Rec /\ recs'[a] = [recs[a] EXCEPT !.dismissed = TRUE]
    BY <1>1, <1>2 DEF RecsTyped
  <2> QED
    BY <2>1 DEF Rec
<1>4. DOMAIN recs' = DOMAIN recs /\ \A b \in DOMAIN recs : b # a => recs'[b] = recs[b]
  BY <1>1
<1>5. RecsTyped'
  BY <1>2, <1>3, <1>4 DEF RecsTyped
<1> QED
  BY <1>1, <1>3, <1>4, <1>5, RowStep DEF RecommenderInv

LEMMA SnoozedInv == ASSUME RecommenderInv, NEW a \in Anime, Snooze(a) \/ SnoozeEnds(a) PROVE RecommenderInv'
<1>1. PICK on \in BOOLEAN : /\ a \in DOMAIN recs /\ recs' = [recs EXCEPT ![a].snoozed = on]
                            /\ standing' = standing /\ job' = job /\ ranked' = ranked
  BY DEF Snooze, SnoozeEnds
<1>2. RecsTyped
  BY DEF RecommenderInv
<1>3. /\ RecsTyped' /\ DOMAIN recs' = DOMAIN recs /\ \A b \in DOMAIN recs : recs'[b].rank = recs[b].rank
      /\ \A b \in DOMAIN recs : recs[b].dismissed => recs'[b].dismissed
  BY <1>1, <1>2 DEF RecsTyped, Rec
<1> QED
  BY <1>1, <1>3, RowStep DEF RecommenderInv

\* A run's own step up to the ranking: the tables stay.
LEMMA JobStep ==
  ASSUME RecommenderInv, UNCHANGED <<standing, recs, ranked>>, JobTyped', RanksReady'
  PROVE  RecommenderInv'
BY DEF RecommenderInv, RecsTyped, RankedOnce

LEMMA DiscoverInv ==
  ASSUME RecommenderInv, NEW similar \in SUBSET Similar, NEW seasonal \in SUBSET Seasonal, Discover(similar, seasonal)
  PROVE  RecommenderInv'
<1>1. /\ job' = [pc |-> "fetch", candidates |-> similar \cup Planned \cup seasonal, seasonal |-> seasonal]
      /\ standing' = standing /\ recs' = recs /\ ranked' = ranked
  BY DEF Discover
<1>2. similar \cup Planned \cup seasonal \subseteq Anime
  BY RecommenderAssumption DEF Similar, Seasonal, Planned
<1>3. JobTyped' /\ RanksReady'
  BY <1>1, <1>2 DEF JobTyped, RanksReady
<1> QED
  BY <1>1, <1>3, JobStep

LEMMA FetchInv == ASSUME RecommenderInv, NEW known, Fetch(known) PROVE RecommenderInv'
<1>1. /\ job.pc = "fetch" /\ standing' = standing /\ recs' = recs /\ ranked' = ranked
      /\ job' = [pc |-> "score", candidates |-> job.candidates, seasonal |-> job.seasonal, known |-> known]
  BY DEF Fetch
<1>2. JobTyped' /\ RanksReady'
  BY <1>1 DEF RecommenderInv, JobTyped, RanksReady
<1> QED
  BY <1>1, <1>2, JobStep

LEMMA ScoreCandidatesInv == ASSUME RecommenderInv, ScoreCandidates PROVE RecommenderInv'
<1> DEFINE shown == {a \in job.candidates : ~HasUnwatchedPrequel(a, job.known)}
<1>1. /\ job.pc = "score" /\ standing' = standing /\ recs' = recs /\ ranked' = ranked
      /\ \E scores \in Scored(shown) : job' = [pc |-> "rank", scores |-> scores, seasonal |-> job.seasonal,
               candidates |-> job.candidates, known |-> job.known, saw |-> standing]
  BY DEF ScoreCandidates
<1>2. job.candidates \subseteq Anime
  BY <1>1 DEF RecommenderInv, JobTyped
<1>3. shown \subseteq Anime
  BY <1>2
<1> HIDE DEF shown
<1>4. PICK scores \in [shown -> Score] :
        job' = [pc |-> "rank", scores |-> scores, seasonal |-> job.seasonal,
                candidates |-> job.candidates, known |-> job.known, saw |-> standing]
  BY <1>1 DEF Scored
<1>5. DOMAIN scores \subseteq Anime /\ \A a \in DOMAIN scores : scores[a] \in 0..100
  BY <1>3, RecommenderAssumption
<1>6. JobTyped' /\ RanksReady'
  BY <1>2, <1>4, <1>5 DEF JobTyped, RanksReady
<1> QED
  BY <1>1, <1>6, JobStep

\* A ranking of finitely many titles numbers them without repetition.
LEMMA RankingIs ==
  ASSUME NEW scores, IsFiniteSet(DOMAIN scores), NEW r \in Rankings(scores)
  PROVE  /\ \A a \in DOMAIN scores : r[a] \in Nat \ {0}
         /\ \A a, b \in DOMAIN scores : a # b => r[a] # r[b]
<1> DEFINE n == Cardinality(DOMAIN scores)
<1>1. n \in Nat
  BY FS_CardinalityType
<1>2. r \in [DOMAIN scores -> 1..n] /\ \A a, b \in DOMAIN scores : a # b => r[a] # r[b]
  BY DEF Rankings
<1> HIDE DEF n
<1>3. \A a \in DOMAIN scores : r[a] \in 1..n
  BY <1>2
<1> QED
  BY <1>1, <1>2, <1>3

LEMMA RankInv == ASSUME RecommenderInv, Rank PROVE RecommenderInv'
<1> DEFINE all == [a \in Carried \cup DOMAIN job.scores |-> IF a \in Carried THEN recs[a].score ELSE job.scores[a]]
<1>1. /\ job.pc = "rank" /\ standing' = standing /\ recs' = recs /\ ranked' = ranked
      /\ \E r \in Rankings(all) :
           job' = [pc |-> "store", scores |-> job.scores, seasonal |-> job.seasonal, carried |-> Carried, ranks |-> r]
  BY DEF Rank
<1>2. /\ DOMAIN all = Carried \cup DOMAIN job.scores /\ Carried \subseteq DOMAIN recs /\ DOMAIN recs \subseteq Anime
      /\ DOMAIN job.scores \subseteq Anime /\ \A a \in DOMAIN job.scores : job.scores[a] \in 0..100
      /\ Live \subseteq Carried \cup DOMAIN job.scores
  BY <1>1 DEF RecommenderInv, RecsTyped, JobTyped, Carried, Live
<1>3. IsFiniteSet(DOMAIN all)
  BY <1>2, RecommenderAssumption, FS_Subset
<1> HIDE DEF all
<1>4. PICK r \in Rankings(all) :
        job' = [pc |-> "store", scores |-> job.scores, seasonal |-> job.seasonal, carried |-> Carried, ranks |-> r]
  BY <1>1
<1>5. /\ \A a \in DOMAIN all : r[a] \in Nat \ {0}
      /\ \A a, b \in DOMAIN all : a # b => r[a] # r[b]
  BY <1>3, RankingIs, Zenon
<1>6. Live' = Live /\ Carried \subseteq DOMAIN recs'
  BY <1>1, <1>2 DEF Live
<1>7. /\ job'.pc = "store" /\ job'.scores = job.scores /\ job'.carried = Carried /\ job'.ranks = r
  BY <1>4
<1>8. JobTyped'
  BY <1>2, <1>7 DEF JobTyped
<1>9. RanksReady'
  BY <1>2, <1>5, <1>6, <1>7 DEF RanksReady
<1> QED
  BY <1>1, <1>8, <1>9, JobStep

\* Who is dismissed or put off stays so through a store, and every live row is ranked.
LEMMA StoreStep ==
  ASSUME RecommenderInv, Store
  PROVE  /\ DOMAIN recs' = DOMAIN job.scores \cup DOMAIN recs /\ RecsTyped'
         /\ \A a \in DOMAIN recs : recs'[a].dismissed = recs[a].dismissed /\ recs'[a].snoozed = recs[a].snoozed
         /\ \A a \in job.carried \cup DOMAIN job.scores : recs'[a].rank = job.ranks[a]
<1>1. /\ job.pc = "store"
      /\ recs' = [a \in DOMAIN job.scores \cup DOMAIN recs |->
                    IF a \in DOMAIN job.scores THEN Upserted(a)
                    ELSE IF a \in job.carried THEN [recs[a] EXCEPT !.rank = job.ranks[a]]
                    ELSE recs[a]]
  BY DEF Store
<1>2. /\ job.carried \subseteq DOMAIN recs
      /\ \A a \in job.carried \cup DOMAIN job.scores : job.ranks[a] \in Nat \ {0}
      /\ DOMAIN job.scores \subseteq Anime /\ \A a \in DOMAIN job.scores : job.scores[a] \in 0..100
      /\ DOMAIN recs \subseteq Anime /\ \A a \in DOMAIN recs : recs[a] \in Rec
  BY <1>1 DEF RecommenderInv, RanksReady, JobTyped, RecsTyped
<1>3. ASSUME NEW a \in DOMAIN job.scores
      PROVE  /\ Upserted(a) \in Rec /\ Upserted(a).rank = job.ranks[a]
             /\ a \in DOMAIN recs => /\ Upserted(a).dismissed = recs[a].dismissed
                                     /\ Upserted(a).snoozed = recs[a].snoozed
  <2> DEFINE new == [score |-> job.scores[a], source |-> IF a \in job.seasonal THEN "seasonal" ELSE "similarity",
                     rank |-> job.ranks[a], dismissed |-> FALSE, snoozed |-> FALSE]
  <2>1. new \in Rec /\ new.rank = job.ranks[a]
    BY <1>2 DEF Rec
  <2>2. Upserted(a) = IF a \in DOMAIN recs
                      THEN [new EXCEPT !.dismissed = recs[a].dismissed, !.snoozed = recs[a].snoozed] ELSE new
    BY DEF Upserted
  <2> HIDE DEF new
  <2>3. CASE a \in DOMAIN recs
    <3>1. recs[a] \in Rec /\ Upserted(a) = [new EXCEPT !.dismissed = recs[a].dismissed, !.snoozed = recs[a].snoozed]
      BY <1>2, <2>2, <2>3
    <3> QED
      BY <2>1, <3>1 DEF Rec
  <2>4. CASE a \notin DOMAIN recs
    BY <2>1, <2>2, <2>4
  <2> QED
    BY <2>3, <2>4
<1>4. ASSUME NEW a \in DOMAIN recs, a \notin DOMAIN job.scores
      PROVE  /\ recs'[a] \in Rec
             /\ recs'[a].dismissed = recs[a].dismissed /\ recs'[a].snoozed = recs[a].snoozed
             /\ a \in job.carried => recs'[a].rank = job.ranks[a]
  <2>1. recs[a] \in Rec
    BY <1>2
  <2>2. CASE a \in job.carried
    <3>1. recs'[a] = [recs[a] EXCEPT !.rank = job.ranks[a]] /\ job.ranks[a] \in Nat
      BY <1>1, <1>2, <1>4, <2>2
    <3> QED
      BY <2>1, <3>1 DEF Rec
  <2>3. CASE a \notin job.carried
    <3>1. recs'[a] = recs[a]
      BY <1>1, <1>4, <2>3
    <3> QED
      BY <2>1, <2>3, <3>1
  <2> QED
    BY <2>2, <2>3
<1>5. DOMAIN recs' = DOMAIN job.scores \cup DOMAIN recs /\ \A a \in DOMAIN job.scores : recs'[a] = Upserted(a)
  BY <1>1
<1>6. \A a \in DOMAIN recs' : recs'[a] \in Rec
  BY <1>3, <1>4, <1>5
<1>7. RecsTyped'
  BY <1>2, <1>5, <1>6 DEF RecsTyped
<1> QED
  BY <1>2, <1>3, <1>4, <1>5, <1>7

LEMMA StoreInv == ASSUME RecommenderInv, Store PROVE RecommenderInv'
<1>1. job.pc = "store" /\ job' = NotRunning /\ ranked' = TRUE /\ standing' = standing
  BY DEF Store
<1>2. /\ DOMAIN recs' = DOMAIN job.scores \cup DOMAIN recs /\ RecsTyped'
      /\ \A a \in DOMAIN recs : recs'[a].dismissed = recs[a].dismissed
      /\ \A a \in job.carried \cup DOMAIN job.scores : recs'[a].rank = job.ranks[a]
  BY StoreStep
<1>3. /\ \A a \in job.carried \cup DOMAIN job.scores : job.ranks[a] \in Nat \ {0}
      /\ \A a, b \in job.carried \cup DOMAIN job.scores : a # b => job.ranks[a] # job.ranks[b]
      /\ Live \subseteq job.carried \cup DOMAIN job.scores
  BY <1>1 DEF RecommenderInv, RanksReady
<1>4. \A a \in DOMAIN recs' : ~recs'[a].dismissed => a \in job.carried \cup DOMAIN job.scores
  BY <1>2, <1>3 DEF Live
<1>5. RankedOnce'
  BY <1>2, <1>3, <1>4 DEF RankedOnce, NoRank
<1>6. JobTyped' /\ RanksReady'
  BY <1>1 DEF JobTyped, RanksReady, NotRunning
<1> QED
  BY <1>1, <1>2, <1>5, <1>6 DEF RecommenderInv

LEMMA RunFailsInv == ASSUME RecommenderInv, RunFails PROVE RecommenderInv'
<1>1. job' = NotRunning /\ standing' = standing /\ recs' = recs /\ ranked' = ranked
  BY DEF RunFails
<1>2. JobTyped' /\ RanksReady'
  BY <1>1 DEF JobTyped, RanksReady, NotRunning
<1> QED
  BY <1>1, <1>2, JobStep

LEMMA RecommenderStepInv == RecommenderInv /\ [RecommenderNext]_recommender => RecommenderInv'
<1> SUFFICES ASSUME RecommenderInv, [RecommenderNext]_recommender PROVE RecommenderInv'
  OBVIOUS
<1>1. CASE RecommenderNext
  BY <1>1, DiscoverInv, FetchInv, ScoreCandidatesInv, RankInv, StoreInv, RunFailsInv, MovedInv, DismissInv, SnoozedInv
     DEF RecommenderNext
<1>2. CASE UNCHANGED recommender
  BY <1>2 DEF recommender, RecommenderInv, RecsTyped, JobTyped, RanksReady, Live, RankedOnce
<1> QED
  BY <1>1, <1>2

\* The invariant of the recommender over any runs, failures and decisions of the user
\* (run_recommender.py, dismiss, snooze).
THEOREM RecommenderInvariance == RecommenderSpec => []RecommenderInv
BY RecommenderInitInv, RecommenderStepInv, PTL DEF RecommenderSpec

\* The variables of the recommender keep their types.
THEOREM RecommenderTypes == RecommenderSpec => []RecommenderTypeOK
<1>1. RecommenderInv => RecommenderTypeOK
  BY DEF RecommenderInv, RecsTyped, JobTyped, RecommenderTypeOK
<1> QED
  BY <1>1, RecommenderInvariance, PTL

\* After a run that ended well every row that is not dismissed has a rank of its own,
\* whatever the user dismissed or put off while it ran (score_and_store).
THEOREM RanksAreDistinct == RecommenderSpec => []RankedOnce
<1>1. RecommenderInv => RankedOnce
  BY DEF RecommenderInv
<1> QED
  BY <1>1, RecommenderInvariance, PTL

\* No run brings back what was dismissed, or put off before its time (score_and_store).
THEOREM DecisionsStand == RecommenderSpec => DecisionsKept
<1>1. RecommenderInv /\ [RecommenderNext]_recommender =>
        [\A a \in DOMAIN recs : a \in DOMAIN recs' /\ a \notin Visible =>
           \/ a \notin Visible'
           \/ ~recs[a].dismissed /\ SnoozeEnds(a)]_recommender
  <2> SUFFICES ASSUME RecommenderInv, RecommenderNext, NEW a \in DOMAIN recs, a \in DOMAIN recs', a \notin Visible,
                      a \in Visible'
               PROVE  ~recs[a].dismissed /\ SnoozeEnds(a)
    OBVIOUS
  <2>0. recs[a].dismissed \/ recs[a].snoozed
    BY DEF Visible
  <2>1. ~recs'[a].dismissed /\ ~recs'[a].snoozed
    BY DEF Visible
  <2>2. CASE recs' = recs
    BY <2>0, <2>1, <2>2
  <2>3. CASE Store
    BY <2>0, <2>1, <2>3, StoreStep
  <2>4. ASSUME NEW b \in Anime, Dismiss(b) \/ Snooze(b) \/ SnoozeEnds(b)
        PROVE  ~recs[a].dismissed /\ SnoozeEnds(a)
    <3>1. \A c \in DOMAIN recs : recs[c] \in Rec
      BY DEF RecommenderInv, RecsTyped
    <3>2. CASE b # a
      <4>1. recs'[a] = recs[a]
        BY <2>4, <3>2 DEF Dismiss, Snooze, SnoozeEnds
      <4> QED
        BY <2>0, <2>1, <4>1
    <3>3. CASE b = a /\ Dismiss(b)
      <4>1. recs'[a] = [recs[a] EXCEPT !.dismissed = TRUE] /\ recs[a] \in Rec
        BY <3>1, <3>3 DEF Dismiss
      <4>2. recs'[a].dismissed = TRUE
        BY <4>1 DEF Rec
      <4> QED
        BY <2>1, <4>2
    <3>4. CASE b = a /\ Snooze(b)
      <4>1. recs'[a] = [recs[a] EXCEPT !.snoozed = TRUE] /\ recs[a] \in Rec
        BY <3>1, <3>4 DEF Snooze
      <4>2. recs'[a].snoozed = TRUE
        BY <4>1 DEF Rec
      <4> QED
        BY <2>1, <4>2
    <3>5. CASE b = a /\ SnoozeEnds(b)
      <4>1. recs'[a] = [recs[a] EXCEPT !.snoozed = FALSE] /\ recs[a] \in Rec
        BY <3>1, <3>5 DEF SnoozeEnds
      <4>2. recs'[a].dismissed = recs[a].dismissed
        BY <4>1 DEF Rec
      <4> QED
        BY <2>1, <3>5, <4>2
    <3> QED
      BY <2>4, <3>2, <3>3, <3>4, <3>5
  <2> QED
    BY <2>2, <2>3, <2>4 DEF RecommenderNext, Discover, Fetch, ScoreCandidates, Rank, RunFails, Moved
<1> QED
  BY <1>1, RecommenderInvariance, PTL DEF RecommenderSpec, DecisionsKept

-----------------------------------------------------------------------------
(* The walk over prequels: what its recursion returns.                     *)

\* A recursion that only ever goes on from one argument to the next has a solution:
\* the one that looks for a hit along the way.
LEMMA WalkSolved ==
  ASSUME NEW D, NEW stop \in [D -> BOOLEAN], NEW hit \in [D -> BOOLEAN], NEW next,
         \A x \in D : ~stop[x] => next[x] \in D
  PROVE  \E f : /\ f = [x \in D |-> f[x]]
               /\ \A x \in D : f[x] = IF stop[x] THEN FALSE ELSE hit[x] \/ f[next[x]]
<1> DEFINE Way(x, n, c) ==
             /\ c \in [0..n -> D] /\ c[0] = x /\ hit[c[n]] /\ \A i \in 0..n : ~stop[c[i]]
             /\ \A i \in 0..(n - 1) : c[i + 1] = next[c[i]]
           Ends(x) == \E n \in Nat : \E c : Way(x, n, c)
           f == [x \in D |-> Ends(x)]
<1>0. \A x \in D : f[x] = Ends(x)
  BY Zenon
<1> HIDE DEF f
<1>1. ASSUME NEW x \in D PROVE f[x] = IF stop[x] THEN FALSE ELSE hit[x] \/ f[next[x]]
  <2>1. CASE stop[x]
    <3>1. \A n \in Nat : \A c : ~Way(x, n, c)
      BY <2>1
    <3> HIDE DEF Way
    <3>2. f[x] = FALSE
      BY <1>0, <3>1, Zenon
    <3> QED
      BY <2>1, <3>2
  <2>2. CASE ~stop[x]
    <3>0. next[x] \in D
      BY <2>2
    <3>1. ASSUME hit[x] PROVE f[x]
      <4>1. Way(x, 0, [i \in 0..0 |-> x])
        BY <2>2, <3>1
      <4> HIDE DEF Way
      <4>2. Ends(x)
        BY <4>1
      <4> QED
        BY <1>0, <4>2
    <3>2. ASSUME f[next[x]] PROVE f[x]
      <4>0. PICK n \in Nat : \E c : Way(next[x], n, c)
        BY <1>0, <3>0, <3>2, Zenon
      <4>1. PICK c : Way(next[x], n, c)
        BY <4>0
      <4> DEFINE d == [i \in 0..(n + 1) |-> IF i = 0 THEN x ELSE c[i - 1]]
      <4>2. d \in [0..(n + 1) -> D] /\ d[0] = x /\ d[n + 1] = c[n]
        BY <4>1
      <4>3. \A i \in 0..(n + 1) : ~stop[d[i]]
        BY <2>2, <4>1
      <4>4. \A i \in 0..n : d[i + 1] = next[d[i]]
        BY <4>1
      <4>5. Way(x, n + 1, d)
        BY <4>1, <4>2, <4>3, <4>4
      <4>6. n + 1 \in Nat
        BY <4>1
      <4> HIDE DEF Way, d
      <4>7. Ends(x)
        BY <4>5, <4>6
      <4> QED
        BY <1>0, <4>7
    <3>3. ASSUME f[x], ~hit[x] PROVE f[next[x]]
      <4>0. PICK n \in Nat : \E c : Way(x, n, c)
        BY <1>0, <3>3, Zenon
      <4>1. PICK c : Way(x, n, c)
        BY <4>0
      <4>2. n # 0
        BY <3>3, <4>1
      <4> DEFINE d == [i \in 0..(n - 1) |-> c[i + 1]]
      <4>3. d \in [0..(n - 1) -> D] /\ d[0] = next[x] /\ d[n - 1] = c[n]
        BY <4>1, <4>2
      <4>4. \A i \in 0..(n - 1) : ~stop[d[i]]
        BY <4>1
      <4>5. \A i \in 0..(n - 2) : d[i + 1] = next[d[i]]
        BY <4>1, <4>2
      <4>6. n - 1 \in Nat /\ Way(next[x], n - 1, d)
        BY <4>1, <4>2, <4>3, <4>4, <4>5
      <4> HIDE DEF Way, d
      <4>7. Ends(next[x])
        BY <4>6
      <4> QED
        BY <1>0, <3>0, <4>7
    <3>4. f[x] \in BOOLEAN /\ f[next[x]] \in BOOLEAN /\ hit[x] \in BOOLEAN
      BY <1>0, <3>0
    <3>5. f[x] = (hit[x] \/ f[next[x]])
      BY <3>1, <3>2, <3>3, <3>4, Zenon
    <3> QED
      BY <2>2, <3>5
  <2> QED
    BY <2>1, <2>2
<1>2. f = [x \in D |-> f[x]]
  BY DEF f
<1> QED
  BY <1>1, <1>2

\* What the walk is: the equation it is defined by.
LEMMA WalkIs ==
  ASSUME \A w \in Walks : w.queue # <<>> => Onward(w) \in Walks
  PROVE  \A w \in Walks : Walk[w] = IF w.queue = <<>> THEN FALSE
                                    ELSE (\E p \in Found(w) : standing[p] \in Hide) \/ Walk[Onward(w)]
<1> DEFINE stop == [w \in Walks |-> w.queue = <<>>]
           hit == [w \in Walks |-> \E p \in Found(w) : standing[p] \in Hide]
           next == [w \in Walks |-> Onward(w)]
           Solves(f) == f = [w \in Walks |-> IF w.queue = <<>> THEN FALSE
                                             ELSE (\E p \in Found(w) : standing[p] \in Hide) \/ f[Onward(w)]]
<1>1. PICK f : /\ f = [w \in Walks |-> f[w]]
               /\ \A w \in Walks : f[w] = IF stop[w] THEN FALSE ELSE hit[w] \/ f[next[w]]
  <2>1. stop \in [Walks -> BOOLEAN] /\ hit \in [Walks -> BOOLEAN] /\ \A w \in Walks : ~stop[w] => next[w] \in Walks
    OBVIOUS
  <2> HIDE DEF stop, hit, next
  <2>2. \A D : \A s \in [D -> BOOLEAN], h \in [D -> BOOLEAN] : \A n :
          (\A x \in D : ~s[x] => n[x] \in D)
          => \E f : /\ f = [x \in D |-> f[x]]
                     /\ \A x \in D : f[x] = IF s[x] THEN FALSE ELSE h[x] \/ f[n[x]]
    BY WalkSolved, Zenon
  <2>3. \A n :
          (\A x \in Walks : ~stop[x] => n[x] \in Walks)
          => \E f : /\ f = [x \in Walks |-> f[x]]
                     /\ \A x \in Walks : f[x] = IF stop[x] THEN FALSE ELSE hit[x] \/ f[n[x]]
    BY <2>1, <2>2, ZenonT(30)
  <2>4. \E f : /\ f = [x \in Walks |-> f[x]]
                /\ \A x \in Walks : f[x] = IF stop[x] THEN FALSE ELSE hit[x] \/ f[next[x]]
    BY <2>1, <2>3, Zenon
  <2> QED
    BY <2>4
<1>2. \A w \in Walks : stop[w] = (w.queue = <<>>) /\ hit[w] = (\E p \in Found(w) : standing[p] \in Hide) /\ next[w] = Onward(w)
  OBVIOUS
<1> HIDE DEF stop, hit, next
<1>3. \A w \in Walks : f[w] = IF w.queue = <<>> THEN FALSE
                              ELSE (\E p \in Found(w) : standing[p] \in Hide) \/ f[Onward(w)]
  <2> SUFFICES ASSUME NEW w \in Walks
               PROVE  f[w] = IF w.queue = <<>> THEN FALSE
                             ELSE (\E p \in Found(w) : standing[p] \in Hide) \/ f[Onward(w)]
    OBVIOUS
  <2>1. /\ f[w] = IF stop[w] THEN FALSE ELSE hit[w] \/ f[next[w]]
        /\ stop[w] = (w.queue = <<>>) /\ hit[w] = (\E p \in Found(w) : standing[p] \in Hide) /\ next[w] = Onward(w)
    BY <1>1, <1>2, Zenon
  <2> QED
    BY <2>1
<1>4. f = [w \in Walks |-> f[w]]
  BY <1>1, Zenon
<1>5. Solves(f)
  BY <1>3, <1>4, Zenon
<1>6. Walk = CHOOSE g : Solves(g)
  BY Zenon DEF Walk
<1>7. Solves(Walk)
  BY <1>5, <1>6, Zenon
<1> QED
  BY <1>7, Zenon

\* A finite set put in a row: each of its members has a place in it, and it has no more places.
LEMMA RowOf ==
  ASSUME NEW S, IsFiniteSet(S)
  PROVE  /\ SetToSeq(S) \in Seq(S) /\ Len(SetToSeq(S)) = Cardinality(S) /\ Cardinality(S) \in Nat
         /\ \A x \in S : \E i \in 1..Cardinality(S) : SetToSeq(S)[i] = x
<1> DEFINE n == Cardinality(S)
           ordered == SetToSeq(S)
<1>1. n \in Nat /\ ExistsBijection(1..n, S)
  BY FS_CardinalityType
<1>2. PICK f \in Bijection(1..n, S) : TRUE
  BY <1>1 DEF ExistsBijection
<1>3. f \in [1..n -> S] /\ IsInjective(f)
  BY <1>2 DEF Bijection, Injection, IsInjective
<1>4. ordered \in [1..n -> S] /\ IsInjective(ordered)
  BY <1>3 DEF SetToSeq
<1> HIDE DEF ordered
<1>5. ordered \in Injection(1..n, S)
  BY <1>4 DEF Injection, IsInjective
<1>6. IsFiniteSet(1..n) /\ Cardinality(1..n) = n
  BY <1>1, FS_Interval
<1> HIDE DEF n
<1>7. ordered \in Surjection(1..n, S)
  BY <1>5, <1>6, FS_Injection DEF n
<1>8. ordered \in Seq(S) /\ Len(ordered) = n
  BY <1>1, <1>4, SeqDef
<1> QED
  BY <1>1, <1>7, <1>8 DEF Surjection, n, ordered

-----------------------------------------------------------------------------
(* The walk against the chains of prequels it looks for.                   *)

\* A chain of n known relations from a; what it passes is neither finished nor given up.
Chain(path, n, a, known) ==
  /\ path \in [0..n -> Anime] /\ path[0] = a
  /\ \A i \in 0..(n - 1) : path[i] \in known /\ path[i + 1] \in prequels[path[i]]
  /\ \A i \in 1..(n - 1) : standing[path[i]] \notin Hide \cup {"COMPLETED"}

Leads(a, known) ==
  \E n \in 1..MaxHops : \E path : Chain(path, n, a, known) /\ path[n] # a /\ standing[path[n]] \in Hide

Shelf == prequels \in [Anime -> SUBSET Anime] /\ standing \in [Anime -> Standing]

\* The step of the walk, told of the places of its queue.
Grown(w, next) ==
  LET q == w.queue
      at == w.queue[1]
  IN /\ next \in Walks /\ next.visited = w.visited \cup Found(w) /\ next.known = w.known
     /\ Len(q) >= 1 /\ Len(next.queue) \in Nat /\ Len(next.queue) >= Len(q) - 1
     /\ \A k \in 1..(Len(q) - 1) : next.queue[k] = q[k + 1]
     /\ \A k \in Len(q)..Len(next.queue) :
          next.queue[k].hops = at.hops + 1 /\ next.queue[k].id \in Found(w) /\ standing[next.queue[k].id] # "COMPLETED"
     /\ \A p \in Found(w) : standing[p] # "COMPLETED" => \E k \in Len(q)..Len(next.queue) : next.queue[k].id = p

LEMMA FoundIs ==
  ASSUME Shelf, NEW w \in Walks, w.queue # <<>>
  PROVE  /\ Len(w.queue) \in Nat /\ Len(w.queue) >= 1 /\ w.queue[1] \in Visit
         /\ Found(w) = IF w.queue[1].hops < MaxHops /\ w.queue[1].id \in w.known
                       THEN prequels[w.queue[1].id] \ w.visited ELSE {}
         /\ Found(w) \subseteq Anime \ w.visited
<1>1. w.queue \in Seq(Visit)
  BY DEF Walks
<1>2. Len(w.queue) \in Nat /\ Len(w.queue) >= 1 /\ w.queue[1] \in Visit /\ Head(w.queue) = w.queue[1]
  <2>1. Len(w.queue) \in Nat \ {0}
    BY <1>1, EmptySeq
  <2>2. w.queue[1] \in Visit
    BY <1>1, <2>1, ElementOfSeq
  <2>3. Head(w.queue) = w.queue[1]
    BY <1>1
  <2> QED
    BY <2>1, <2>2, <2>3
<1>3. MaxHops \in Nat /\ w.queue[1].hops \in Int
  BY <1>2, RecommenderAssumption DEF Visit
<1>4. Found(w) = IF w.queue[1].hops < MaxHops /\ w.queue[1].id \in w.known
                 THEN prequels[w.queue[1].id] \ w.visited ELSE {}
  <2>1. Found(w) = IF w.queue[1].hops >= MaxHops THEN {} ELSE Prequels(w.queue[1].id, w.known) \ w.visited
    BY <1>2 DEF Found
  <2>2. CASE w.queue[1].id \in w.known
    BY <1>3, <2>1, <2>2 DEF Prequels
  <2>3. CASE w.queue[1].id \notin w.known
    BY <1>3, <2>1, <2>3 DEF Prequels
  <2> QED
    BY <2>2, <2>3
<1>5. Found(w) \subseteq Anime \ w.visited
  BY <1>2, <1>4 DEF Shelf, Visit
<1> QED
  BY <1>2, <1>4, <1>5

LEMMA OnwardGrows ==
  ASSUME Shelf, NEW w \in Walks, w.queue # <<>>
  PROVE  /\ Grown(w, Onward(w))
         /\ Len(Onward(w).queue) = Len(w.queue) - 1 + Cardinality({p \in Found(w) : standing[p] # "COMPLETED"})
<1> DEFINE q == w.queue
           at == q[1]
           open == {p \in Found(w) : standing[p] # "COMPLETED"}
           on == SetToSeq(open)
           c == Cardinality(open)
           more == [i \in DOMAIN on |-> [id |-> on[i], hops |-> at.hops + 1]]
<1>1. /\ q \in Seq(Visit) /\ Len(q) \in Nat /\ Len(q) >= 1 /\ at \in Visit /\ Head(q) = at
      /\ w.visited \subseteq Anime /\ w.known \subseteq Anime
  <2>1. q \in Seq(Visit) /\ w.visited \subseteq Anime /\ w.known \subseteq Anime
    BY DEF Walks
  <2>2. Head(q) = at
    BY <2>1
  <2> QED
    BY <2>1, <2>2, FoundIs
<1>2. Found(w) \subseteq Anime /\ (Found(w) # {} => at.hops < MaxHops)
  BY FoundIs
<1>3. IsFiniteSet(open)
  BY <1>2, RecommenderAssumption, FS_Subset
<1>4. on \in Seq(open) /\ Len(on) = c /\ c \in Nat /\ \A x \in open : \E i \in 1..c : on[i] = x
  BY <1>3, RowOf
<1>5. Onward(w) = [queue |-> Tail(q) \o more, visited |-> w.visited \cup Found(w), known |-> w.known]
  BY <1>1 DEF Onward
<1> HIDE DEF on, c
<1>6. DOMAIN on = 1..c /\ \A i \in 1..c : on[i] \in open
  BY <1>4
<1>7. MaxHops \in Nat
  BY RecommenderAssumption
<1>8. more \in Seq(Visit) /\ Len(more) = c /\ \A i \in 1..c : more[i] = [id |-> on[i], hops |-> at.hops + 1]
  <2>1. \A i \in 1..c : [id |-> on[i], hops |-> at.hops + 1] \in Visit
    BY <1>1, <1>2, <1>6, <1>7 DEF Visit
  <2>2. more \in [1..c -> Visit]
    BY <1>6, <2>1
  <2> QED
    BY <1>4, <1>6, <2>2, SeqDef
<1> HIDE DEF more
<1>9. Tail(q) \in Seq(Visit) /\ Len(Tail(q)) = Len(q) - 1 /\ \A k \in 1..(Len(q) - 1) : Tail(q)[k] = q[k + 1]
  BY <1>1
<1> DEFINE r == Tail(q) \o more
<1>10. /\ r \in Seq(Visit) /\ Len(r) = Len(q) - 1 + c
       /\ \A k \in 1..(Len(q) - 1) : r[k] = q[k + 1]
       /\ \A k \in Len(q)..Len(r) : r[k] = more[k - (Len(q) - 1)]
  <2>1. /\ r \in Seq(Visit) /\ Len(r) = Len(Tail(q)) + Len(more)
        /\ \A k \in 1..(Len(Tail(q)) + Len(more)) :
             r[k] = IF k <= Len(Tail(q)) THEN Tail(q)[k] ELSE more[k - Len(Tail(q))]
    BY <1>8, <1>9, ConcatProperties
  <2> HIDE DEF r
  <2>2. \A k \in 1..(Len(q) - 1 + c) :
          r[k] = IF k <= Len(q) - 1 THEN Tail(q)[k] ELSE more[k - (Len(q) - 1)]
    BY <1>8, <1>9, <2>1
  <2>3. Len(r) = Len(q) - 1 + c
    BY <1>8, <1>9, <2>1
  <2> HIDE DEF q
  <2>4. ASSUME NEW k \in 1..(Len(q) - 1) PROVE r[k] = q[k + 1]
    BY <1>1, <1>4, <1>9, <2>2
  <2>5. ASSUME NEW k \in Len(q)..Len(r) PROVE r[k] = more[k - (Len(q) - 1)]
    BY <1>1, <1>4, <2>2, <2>3
  <2> QED
    BY <2>1, <2>3, <2>4, <2>5
<1> HIDE DEF r, q
<1>11. Onward(w).queue = r /\ Onward(w).visited = w.visited \cup Found(w) /\ Onward(w).known = w.known /\ Onward(w) \in Walks
  BY <1>1, <1>2, <1>5, <1>10 DEF r, Walks
<1>12. ASSUME NEW k \in Len(q)..Len(r) PROVE r[k].hops = at.hops + 1 /\ r[k].id \in open
  <2>1. k - (Len(q) - 1) \in 1..c
    BY <1>1, <1>4, <1>10
  <2> DEFINE i == k - (Len(q) - 1)
  <2>2. r[k] = more[i]
    BY <1>10
  <2> HIDE DEF i
  <2>3. i \in 1..c
    BY <2>1 DEF i
  <2> QED
    BY <1>6, <1>8, <2>2, <2>3
<1>13. ASSUME NEW p \in open PROVE \E k \in Len(q)..Len(r) : r[k].id = p
  <2>1. PICK i \in 1..c : on[i] = p
    BY <1>4
  <2> DEFINE k == i + (Len(q) - 1)
  <2>2. k \in Len(q)..Len(r) /\ k - (Len(q) - 1) = i
    BY <1>1, <1>4, <1>10
  <2> HIDE DEF k
  <2>3. r[k] = more[i]
    BY <1>10, <2>2
  <2>4. r[k].id = p
    BY <1>8, <2>1, <2>3
  <2> QED
    BY <2>2, <2>4
<1>14. Len(r) \in Nat /\ Len(r) >= Len(q) - 1
  BY <1>1, <1>4, <1>10
<1> QED
  BY <1>1, <1>10, <1>11, <1>12, <1>13, <1>14 DEF Grown, c, q

\* Each step leaves less to look at: what is found was not seen before.
Size(w) == Len(w.queue) + Cardinality(Anime \ w.visited)

LEMMA OnwardShrinks ==
  ASSUME Shelf, NEW w \in Walks, w.queue # <<>>
  PROVE  Onward(w) \in Walks /\ Size(w) \in Nat /\ Size(Onward(w)) \in Nat /\ Size(Onward(w)) < Size(w)
<1> DEFINE open == {p \in Found(w) : standing[p] # "COMPLETED"}
           unseen == Anime \ w.visited
<1>1. Found(w) \subseteq unseen /\ Len(w.queue) \in Nat /\ Len(w.queue) >= 1
  BY FoundIs
<1>2. /\ Onward(w) \in Walks /\ Onward(w).visited = w.visited \cup Found(w)
      /\ Len(Onward(w).queue) = Len(w.queue) - 1 + Cardinality(open)
  BY OnwardGrows DEF Grown
<1>3. IsFiniteSet(unseen) /\ Cardinality(unseen) \in Nat
  BY RecommenderAssumption, FS_Subset, FS_CardinalityType
<1>4. IsFiniteSet(Found(w)) /\ Cardinality(Found(w)) \in Nat /\ Cardinality(open) \in Nat /\ Cardinality(open) <= Cardinality(Found(w))
  BY <1>1, <1>3, FS_Subset, FS_CardinalityType
<1>5. Cardinality(unseen \ Found(w)) = Cardinality(unseen) - Cardinality(Found(w)) /\ Cardinality(unseen \ Found(w)) \in Nat
  <2>1. unseen \cap Found(w) = Found(w)
    BY <1>1
  <2>2. Cardinality(unseen \ Found(w)) = Cardinality(unseen) - Cardinality(unseen \cap Found(w))
    BY <1>3, FS_Difference
  <2>3. IsFiniteSet(unseen \ Found(w))
    BY <1>3, FS_Subset
  <2> QED
    BY <2>1, <2>2, <2>3, FS_CardinalityType
<1>6. Anime \ Onward(w).visited = unseen \ Found(w)
  BY <1>2
<1>7. Size(w) = Len(w.queue) + Cardinality(unseen) /\ Size(Onward(w)) = Len(Onward(w).queue) + Cardinality(unseen \ Found(w))
  BY <1>6 DEF Size
<1> HIDE DEF unseen, open
<1> DEFINE l == Len(w.queue)
           u == Cardinality(unseen)
           f == Cardinality(Found(w))
           o == Cardinality(open)
<1>8. l \in Nat /\ l >= 1 /\ u \in Nat /\ f \in Nat /\ o \in Nat /\ o <= f /\ u - f \in Nat
  BY <1>1, <1>3, <1>4, <1>5
<1>9. Size(w) = l + u /\ Size(Onward(w)) = (l - 1 + o) + (u - f)
  BY <1>2, <1>5, <1>7
<1> HIDE DEF l, u, f, o
<1> QED
  BY <1>2, <1>8, <1>9

\* Chains from a, cut and drawn out.
LEMMA ChainCut ==
  ASSUME NEW n \in Nat, NEW path, NEW a, NEW known, Chain(path, n, a, known), NEW m \in 0..n
  PROVE  \E cut : Chain(cut, m, a, known) /\ \A i \in 0..m : cut[i] = path[i]
<1> DEFINE cut == [i \in 0..m |-> path[i]]
<1>1. cut \in [0..m -> Anime] /\ \A i \in 0..m : cut[i] = path[i]
  BY DEF Chain
<1> HIDE DEF cut
<1>2. Chain(cut, m, a, known)
  BY <1>1 DEF Chain
<1> QED
  BY <1>1, <1>2

LEMMA ChainOn ==
  ASSUME NEW n \in Nat, NEW path, NEW a, NEW known, Chain(path, n, a, known), NEW p \in Anime,
         path[n] \in known, p \in prequels[path[n]], n # 0 => standing[path[n]] \notin Hide \cup {"COMPLETED"}
  PROVE  \E on : Chain(on, n + 1, a, known) /\ on[n + 1] = p
<1> DEFINE on == [i \in 0..(n + 1) |-> IF i = n + 1 THEN p ELSE path[i]]
<1>1. on \in [0..(n + 1) -> Anime] /\ on[n + 1] = p /\ \A i \in 0..n : on[i] = path[i]
  BY DEF Chain
<1> HIDE DEF on
<1>2. \A i \in 0..n : on[i] \in known /\ on[i + 1] \in prequels[on[i]]
  <2> SUFFICES ASSUME NEW i \in 0..n PROVE on[i] \in known /\ on[i + 1] \in prequels[on[i]]
    OBVIOUS
  <2>1. CASE i = n
    BY <1>1, <2>1
  <2>2. CASE i # n
    BY <1>1, <2>2 DEF Chain
  <2> QED
    BY <2>1, <2>2
<1>3. \A i \in 1..n : standing[on[i]] \notin Hide \cup {"COMPLETED"}
  <2> SUFFICES ASSUME NEW i \in 1..n PROVE standing[on[i]] \notin Hide \cup {"COMPLETED"}
    OBVIOUS
  <2>1. CASE i = n
    BY <1>1, <2>1
  <2>2. CASE i # n
    BY <1>1, <2>2 DEF Chain
  <2> QED
    BY <2>1, <2>2
<1>4. on[0] = a
  BY <1>1 DEF Chain
<1>5. Chain(on, n + 1, a, known)
  BY <1>1, <1>2, <1>3, <1>4 DEF Chain
<1> QED
  BY <1>1, <1>5

\* What holds of a walk from a that has found nothing yet.  The queue holds open ends of
\* chains (Fronts), nearest first (Levels); no chain reaches them sooner (Nearest), all
\* that is nearer is seen (Nearer), and a chain that leaves what is seen leaves it at
\* the queue (Pending).
Fronts(w, a) ==
  \A k \in 1..Len(w.queue) :
    /\ \E path : Chain(path, w.queue[k].hops, a, w.known) /\ path[w.queue[k].hops] = w.queue[k].id
    /\ w.queue[k].hops # 0 => standing[w.queue[k].id] \notin Hide \cup {"COMPLETED"}

Levels(w) ==
  /\ \A k \in 1..Len(w.queue) : w.queue[1].hops <= w.queue[k].hops /\ w.queue[k].hops <= w.queue[1].hops + 1
  /\ \A j, k \in 1..Len(w.queue) : j <= k => w.queue[j].hops <= w.queue[k].hops

Seen(w, a) == a \in w.visited /\ \A v \in w.visited : v = a \/ standing[v] \notin Hide

Pending(w, a) ==
  \A n \in 1..MaxHops : \A path : Chain(path, n, a, w.known) /\ path[n] \notin w.visited /\ path[n - 1] \in w.visited
    => \E k \in 1..Len(w.queue) : w.queue[k].id = path[n - 1]

Nearer(w, a) ==
  w.queue # <<>> => \A n \in 0..w.queue[1].hops : \A path : Chain(path, n, a, w.known) => path[n] \in w.visited

Nearest(w, a) ==
  \A k \in 1..Len(w.queue) : \A n \in Nat : \A path : Chain(path, n, a, w.known) /\ path[n] = w.queue[k].id
    => w.queue[k].hops <= n

Searching(w, a) == Fronts(w, a) /\ Levels(w) /\ Seen(w, a) /\ Pending(w, a) /\ Nearer(w, a) /\ Nearest(w, a)

\* The walk begins at a itself.
LEMMA WalkBegins ==
  ASSUME Shelf, NEW a \in Anime, NEW known \in SUBSET Anime, NEW w,
         w = [queue |-> <<[id |-> a, hops |-> 0]>>, visited |-> {a}, known |-> known]
  PROVE  w \in Walks /\ Searching(w, a)
<1>1. MaxHops \in Nat
  BY RecommenderAssumption
<1>2. [id |-> a, hops |-> 0] \in Visit
  BY <1>1 DEF Visit
<1>3. w \in Walks
  BY <1>2 DEF Walks
<1>4. /\ Len(w.queue) = 1 /\ w.queue[1].id = a /\ w.queue[1].hops = 0 /\ w.visited = {a} /\ w.known = known
      /\ \A k \in 1..Len(w.queue) : k = 1
  OBVIOUS
<1>5. Fronts(w, a)
  <2>1. Chain([i \in 0..0 |-> a], 0, a, known)
    BY DEF Chain
  <2>2. [i \in 0..0 |-> a][0] = a
    OBVIOUS
  <2> QED
    BY <1>4, <2>1, <2>2 DEF Fronts
<1>6. Levels(w) /\ Seen(w, a)
  BY <1>4 DEF Levels, Seen
<1>7. Pending(w, a)
  BY <1>4 DEF Pending
<1>8. Nearer(w, a)
  BY <1>4 DEF Nearer, Chain
<1>9. Nearest(w, a)
  BY <1>4 DEF Nearest
<1> QED
  BY <1>3, <1>5, <1>6, <1>7, <1>8, <1>9 DEF Searching

\* A place in the queue after a step: one that moved up, or one of what was found.
LEMMA Places ==
  ASSUME Shelf, NEW w \in Walks, w.queue # <<>>, NEW next, Grown(w, next)
  PROVE  /\ \A k \in 1..Len(w.queue) : w.queue[k] \in Visit /\ w.queue[k].hops \in Nat /\ w.queue[k].id \in Anime
         /\ \A k \in 1..Len(next.queue) : next.queue[k] \in Visit /\ next.queue[k].hops \in 0..MaxHops
         /\ \A k \in 1..Len(next.queue) :
              \/ k + 1 \in 1..Len(w.queue) /\ next.queue[k] = w.queue[k + 1]
              \/ k \in Len(w.queue)..Len(next.queue)
         /\ \A k \in 2..Len(w.queue) : k - 1 \in 1..Len(next.queue) /\ next.queue[k - 1] = w.queue[k]
         /\ Len(w.queue) \in Nat /\ Len(next.queue) \in Nat /\ Len(w.queue) >= 1
<1>1. /\ w.queue \in Seq(Visit) /\ next.queue \in Seq(Visit)
      /\ Len(w.queue) \in Nat /\ Len(next.queue) \in Nat /\ Len(w.queue) >= 1
      /\ \A k \in 1..(Len(w.queue) - 1) : next.queue[k] = w.queue[k + 1]
      /\ Len(next.queue) >= Len(w.queue) - 1
  BY LenProperties DEF Grown, Walks
<1>2. MaxHops \in Nat
  BY RecommenderAssumption
<1>3. /\ \A k \in 1..Len(w.queue) : w.queue[k] \in Visit
      /\ \A k \in 1..Len(next.queue) : next.queue[k] \in Visit
  BY <1>1, ElementOfSeq
<1>4. \A v \in Visit : v.hops \in Nat /\ v.hops \in 0..MaxHops /\ v.id \in Anime
  BY <1>2 DEF Visit
<1> DEFINE l == Len(w.queue)
           m == Len(next.queue)
<1>5. \A k \in 1..l : w.queue[k] \in Visit /\ w.queue[k].hops \in Nat /\ w.queue[k].id \in Anime
  BY <1>3, <1>4
<1>6. \A k \in 1..m : next.queue[k] \in Visit /\ next.queue[k].hops \in 0..MaxHops
  BY <1>3, <1>4
<1>7. l \in Nat /\ m \in Nat /\ l >= 1 /\ m >= l - 1 /\ \A k \in 1..(l - 1) : next.queue[k] = w.queue[k + 1]
  BY <1>1
<1> HIDE DEF l, m
<1>8. \A k \in 1..m : \/ k + 1 \in 1..l /\ next.queue[k] = w.queue[k + 1]
                      \/ k \in l..m
  BY <1>7
<1>9. \A k \in 2..l : k - 1 \in 1..m /\ next.queue[k - 1] = w.queue[k]
  <2> SUFFICES ASSUME NEW k \in 2..l PROVE k - 1 \in 1..m /\ next.queue[k - 1] = w.queue[k]
    OBVIOUS
  <2>1. k - 1 \in 1..(l - 1) /\ (k - 1) + 1 = k
    BY <1>7
  <2> QED
    BY <1>7, <2>1
<1> QED
  BY <1>5, <1>6, <1>7, <1>8, <1>9 DEF l, m

LEMMA FrontsStay ==
  ASSUME Shelf, NEW a \in Anime, NEW w \in Walks, w.queue # <<>>, Searching(w, a), NEW next, Grown(w, next),
         \A p \in Found(w) : standing[p] \notin Hide
  PROVE  Fronts(next, a)
<1> DEFINE h == w.queue[1].hops
           q == next.queue
<1>1. next.known = w.known /\ h \in Nat /\ 1 \in 1..Len(w.queue)
  BY Places DEF Grown
<1> SUFFICES ASSUME NEW k \in 1..Len(q)
             PROVE  /\ \E path : Chain(path, q[k].hops, a, w.known) /\ path[q[k].hops] = q[k].id
                    /\ q[k].hops # 0 => standing[q[k].id] \notin Hide \cup {"COMPLETED"}
  BY <1>1 DEF Fronts
<1>2. CASE k + 1 \in 1..Len(w.queue) /\ q[k] = w.queue[k + 1]
  BY <1>2 DEF Searching, Fronts
<1>3. CASE k \in Len(w.queue)..Len(q)
  <2>1. q[k].hops = h + 1 /\ q[k].id \in Found(w) /\ standing[q[k].id] # "COMPLETED"
    BY <1>3 DEF Grown
  <2>2. PICK path : Chain(path, h, a, w.known) /\ path[h] = w.queue[1].id
    BY <1>1 DEF Searching, Fronts
  <2>3. h # 0 => standing[w.queue[1].id] \notin Hide \cup {"COMPLETED"}
    BY <1>1 DEF Searching, Fronts
  <2>4. q[k].id \in Anime /\ w.queue[1].id \in w.known /\ q[k].id \in prequels[w.queue[1].id]
    BY <2>1, FoundIs
  <2>5. \E on : Chain(on, h + 1, a, w.known) /\ on[h + 1] = q[k].id
    BY <1>1, <2>2, <2>3, <2>4, ChainOn, SMTT(30)
  <2> QED
    BY <2>1, <2>5
<1> QED
  BY <1>2, <1>3, Places

LEMMA LevelsStay ==
  ASSUME Shelf, NEW w \in Walks, w.queue # <<>>, Levels(w), NEW next, Grown(w, next)
  PROVE  /\ Levels(next)
         /\ next.queue # <<>> => /\ 1 \in 1..Len(next.queue)
                                 /\ next.queue[1].hops \in {w.queue[1].hops, w.queue[1].hops + 1}
<1> DEFINE h == w.queue[1].hops
           q == next.queue
           l == Len(w.queue)
           m == Len(q)
<1>1. h \in Nat /\ l \in Nat /\ l >= 1 /\ m \in Nat
  BY Places
<1>2. \A k \in 1..m : q[k].hops \in Nat
  BY Places, RecommenderAssumption
<1>3. \A k \in l..m : q[k].hops = h + 1
  BY DEF Grown
<1>4. \A k \in 1..m : k < l => k + 1 \in 1..l /\ q[k].hops = w.queue[k + 1].hops
  BY <1>1, Places
<1>5. /\ \A k \in 1..l : w.queue[k].hops \in Nat /\ h <= w.queue[k].hops /\ w.queue[k].hops <= h + 1
      /\ \A j, k \in 1..l : j <= k => w.queue[j].hops <= w.queue[k].hops
  BY Places DEF Levels
<1> HIDE DEF h, q, l, m
<1>6. ASSUME NEW k \in 1..m PROVE h <= q[k].hops /\ q[k].hops <= h + 1
  <2>1. CASE k < l
    BY <1>4, <1>5, <2>1
  <2>2. CASE k >= l
    <3>1. k \in l..m
      BY <1>1, <2>2
    <3> QED
      BY <1>1, <1>3, <3>1
  <2> QED
    BY <1>1, <2>1, <2>2
<1>7. \A j, k \in 1..m : j <= k => q[j].hops <= q[k].hops
  <2> SUFFICES ASSUME NEW j \in 1..m, NEW k \in 1..m, j <= k PROVE q[j].hops <= q[k].hops
    OBVIOUS
  <2>1. CASE k >= l
    BY <1>1, <1>2, <1>3, <1>6, <2>1
  <2>2. CASE k < l
    BY <1>1, <1>4, <1>5, <2>2
  <2> QED
    BY <1>1, <2>1, <2>2
<1>8. \A k \in 1..m : q[1].hops <= q[k].hops /\ q[k].hops <= q[1].hops + 1
  BY <1>1, <1>2, <1>6, <1>7
<1>9. q # <<>> => 1 \in 1..m /\ q[1].hops \in {h, h + 1}
  <2> SUFFICES ASSUME q # <<>> PROVE 1 \in 1..m /\ q[1].hops \in {h, h + 1}
    OBVIOUS
  <2>1. q \in Seq(Visit)
    BY DEF Grown, Walks, q
  <2>2. m \in Nat \ {0}
    BY <2>1, EmptySeq DEF m
  <2> QED
    BY <1>1, <1>2, <1>6, <2>2
<1> QED
  BY <1>7, <1>8, <1>9 DEF Levels, h, q, m

LEMMA SeenStays ==
  ASSUME NEW a, NEW w, NEW next, Seen(w, a), Grown(w, next), \A p \in Found(w) : standing[p] \notin Hide
  PROVE  Seen(next, a)
BY DEF Seen, Grown

LEMMA PendingStays ==
  ASSUME Shelf, NEW a \in Anime, NEW w \in Walks, w.queue # <<>>, Searching(w, a), NEW next, Grown(w, next)
  PROVE  Pending(next, a)
<1> DEFINE at == w.queue[1]
<1>0. /\ next.known = w.known /\ next.visited = w.visited \cup Found(w) /\ MaxHops \in Nat
      /\ at \in Visit /\ at.hops \in Nat
  <2>1. 1 \in 1..Len(w.queue)
    BY Places
  <2>2. next.known = w.known /\ next.visited = w.visited \cup Found(w)
    BY DEF Grown
  <2>3. at \in Visit /\ at.hops \in Nat
    BY <2>1, Places
  <2> QED
    BY <2>2, <2>3, RecommenderAssumption
<1> SUFFICES ASSUME NEW n \in 1..MaxHops, NEW path, Chain(path, n, a, w.known),
                    path[n] \notin next.visited, path[n - 1] \in next.visited
             PROVE  \E k \in 1..Len(next.queue) : next.queue[k].id = path[n - 1]
  BY <1>0 DEF Pending
<1>1. path[n] \notin w.visited /\ path[n] \notin Found(w)
  BY <1>0
<1>2. path[n - 1] \in w.known /\ path[n] \in prequels[path[n - 1]]
  <2>1. n - 1 \in 0..(n - 1) /\ (n - 1) + 1 = n
    BY <1>0
  <2> QED
    BY <2>1 DEF Chain
<1>3. CASE path[n - 1] \in w.visited
  <2>1. PICK k \in 1..Len(w.queue) : w.queue[k].id = path[n - 1]
    BY <1>1, <1>3 DEF Searching, Pending
  <2>2. k # 1
    <3> SUFFICES ASSUME at.id = path[n - 1] PROVE FALSE
      BY <2>1
    <3>1. CASE at.hops < MaxHops
      <4>1. path[n] \in Found(w)
        BY <1>1, <1>2, <3>1, FoundIs
      <4> QED
        BY <1>1, <4>1
    <3>2. CASE at.hops >= MaxHops
      <4>1. n \in 0..at.hops
        BY <1>0, <3>2
      <4> QED
        BY <1>1, <4>1 DEF Searching, Nearer
    <3> QED
      BY <1>0, <3>1, <3>2
  <2>3. k \in 2..Len(w.queue)
    BY <2>2, Places
  <2>4. k - 1 \in 1..Len(next.queue) /\ next.queue[k - 1] = w.queue[k]
    BY <2>3, Places
  <2> QED
    BY <2>1, <2>4
<1>4. CASE path[n - 1] \notin w.visited
  <2>1. path[n - 1] \in Found(w)
    BY <1>0, <1>4
  <2>2. n - 1 # 0
    BY <1>4 DEF Chain, Searching, Seen
  <2>3. standing[path[n - 1]] # "COMPLETED"
    BY <2>2 DEF Chain
  <2>4. PICK k \in Len(w.queue)..Len(next.queue) : next.queue[k].id = path[n - 1]
    BY <2>1, <2>3 DEF Grown
  <2>5. k \in 1..Len(next.queue)
    BY Places
  <2> QED
    BY <2>4, <2>5
<1> QED
  BY <1>3, <1>4

LEMMA NearestStays ==
  ASSUME Shelf, NEW a \in Anime, NEW w \in Walks, w.queue # <<>>, Searching(w, a), NEW next, Grown(w, next)
  PROVE  Nearest(next, a)
<1> DEFINE h == w.queue[1].hops
           q == next.queue
<1>0. next.known = w.known /\ h \in Nat
  <2>1. 1 \in 1..Len(w.queue)
    BY Places
  <2>2. next.known = w.known
    BY DEF Grown
  <2>3. h \in Nat
    BY <2>1, Places
  <2> QED
    BY <2>2, <2>3
<1> SUFFICES ASSUME NEW k \in 1..Len(q), NEW n \in Nat, NEW path, Chain(path, n, a, w.known), path[n] = q[k].id
             PROVE  q[k].hops <= n
  BY <1>0 DEF Nearest
<1>1. CASE k + 1 \in 1..Len(w.queue) /\ q[k] = w.queue[k + 1]
  BY <1>1 DEF Searching, Nearest
<1>2. CASE k \in Len(w.queue)..Len(q)
  <2>1. q[k].hops = h + 1 /\ q[k].id \in Found(w)
    BY <1>2 DEF Grown
  <2>2. path[n] \notin w.visited
    BY <2>1, FoundIs
  <2>3. n \notin 0..h
    BY <2>2 DEF Searching, Nearer
  <2> QED
    BY <1>0, <2>1, <2>3
<1> QED
  BY <1>1, <1>2, Places

LEMMA NearerStays ==
  ASSUME Shelf, NEW a \in Anime, NEW w \in Walks, w.queue # <<>>, Searching(w, a), NEW next, Grown(w, next),
         Levels(next), Pending(next, a), Nearest(next, a)
  PROVE  Nearer(next, a)
<1> DEFINE h == w.queue[1].hops
           q == next.queue
<1> SUFFICES ASSUME q # <<>>, NEW n \in 0..q[1].hops, NEW path, Chain(path, n, a, next.known), path[n] \notin next.visited
             PROVE  FALSE
  BY DEF Nearer
<1>0. /\ next.known = w.known /\ next.visited = w.visited \cup Found(w) /\ h \in Nat
      /\ 1 \in 1..Len(q) /\ q[1].hops \in 0..MaxHops /\ q[1].hops \in {h, h + 1} /\ MaxHops \in Nat
  <2>1. 1 \in 1..Len(w.queue) /\ MaxHops \in Nat
    BY Places, RecommenderAssumption
  <2>2. 1 \in 1..Len(q) /\ q[1].hops \in {h, h + 1}
    BY LevelsStay DEF Searching
  <2>3. next.known = w.known /\ next.visited = w.visited \cup Found(w)
    BY DEF Grown
  <2>4. h \in Nat /\ q[1].hops \in 0..MaxHops
    BY <2>1, <2>2, Places
  <2> QED
    BY <2>1, <2>2, <2>3, <2>4
<1>1. \A i \in 0..h : \A chain : Chain(chain, i, a, w.known) => chain[i] \in w.visited
  BY DEF Searching, Nearer
<1>2. n = h + 1 /\ q[1].hops = h + 1
  BY <1>0, <1>1, SMTT(30)
<1>3. PICK cut : Chain(cut, h, a, w.known) /\ \A i \in 0..h : cut[i] = path[i]
  <2>1. n \in Nat /\ h \in 0..n
    BY <1>0, <1>2
  <2> QED
    BY <1>0, <2>1, ChainCut
<1>4. cut[h] = path[n - 1] /\ path[n - 1] \in next.visited
  BY <1>0, <1>1, <1>2, <1>3, SMTT(30)
<1>5. n \in 1..MaxHops
  BY <1>0, <1>2
<1>6. PICK k \in 1..Len(q) : q[k].id = cut[h]
  BY <1>0, <1>4, <1>5 DEF Pending
<1>7. q[k].hops <= h
  BY <1>0, <1>3, <1>6 DEF Nearest
<1>8. q[1].hops <= q[k].hops /\ q[k].hops \in Nat
  BY Places, RecommenderAssumption DEF Levels
<1> QED
  BY <1>0, <1>2, <1>7, <1>8

LEMMA SearchGoesOn ==
  ASSUME Shelf, NEW a \in Anime, NEW w \in Walks, w.queue # <<>>, Searching(w, a),
         \A p \in Found(w) : standing[p] \notin Hide
  PROVE  Searching(Onward(w), a)
<1>1. Grown(w, Onward(w))
  BY OnwardGrows
<1>2. Fronts(Onward(w), a)
  BY <1>1, FrontsStay
<1>3. Levels(Onward(w))
  BY <1>1, LevelsStay DEF Searching
<1>4. Seen(Onward(w), a)
  BY <1>1, SeenStays DEF Searching
<1>5. Pending(Onward(w), a)
  BY <1>1, PendingStays
<1>6. Nearest(Onward(w), a)
  BY <1>1, NearestStays
<1>7. Nearer(Onward(w), a)
  BY <1>1, <1>3, <1>5, <1>6, NearerStays
<1> QED
  BY <1>2, <1>3, <1>4, <1>5, <1>6, <1>7 DEF Searching

\* A hit is the end of a chain.
LEMMA HitLeads ==
  ASSUME Shelf, NEW a \in Anime, NEW w \in Walks, w.queue # <<>>, Searching(w, a),
         NEW p \in Found(w), standing[p] \in Hide
  PROVE  Leads(a, w.known)
<1> DEFINE at == w.queue[1]
<1>1. /\ at \in Visit /\ 1 \in 1..Len(w.queue) /\ at.id \in w.known /\ p \in prequels[at.id] /\ p \in Anime \ w.visited
      /\ at.hops < MaxHops
  BY FoundIs
<1>2. at.hops \in Nat /\ MaxHops \in Nat
  BY <1>1, RecommenderAssumption DEF Visit
<1>3. PICK path : Chain(path, at.hops, a, w.known) /\ path[at.hops] = at.id
  BY <1>1 DEF Searching, Fronts
<1>4. at.hops # 0 => standing[at.id] \notin Hide \cup {"COMPLETED"}
  BY <1>1 DEF Searching, Fronts
<1>5. PICK on : Chain(on, at.hops + 1, a, w.known) /\ on[at.hops + 1] = p
  BY <1>1, <1>2, <1>3, <1>4, ChainOn
<1>6. p # a
  BY <1>1 DEF Searching, Seen
<1>7. at.hops + 1 \in 1..MaxHops
  BY <1>1, <1>2
<1> QED
  BY <1>5, <1>6, <1>7 DEF Leads

\* When nothing is left to look at, every chain has been walked to its end.
LEMMA AllSeen ==
  ASSUME Shelf, NEW a \in Anime, NEW w \in Walks, w.queue = <<>>, Searching(w, a),
         NEW n \in 0..MaxHops, NEW path, Chain(path, n, a, w.known)
  PROVE  path[n] \in w.visited
<1> SUFFICES ASSUME path[n] \notin w.visited PROVE FALSE
  OBVIOUS
<1> DEFINE left == {i \in 0..n : path[i] \notin w.visited}
<1>1. MaxHops \in Nat /\ n \in Nat
  BY RecommenderAssumption
<1>2. left \in SUBSET Nat /\ left # {}
  BY <1>1
<1>3. PICK m \in left : \A j \in left : m <= j
  BY <1>2, LeastOf
<1>4. m # 0
  BY <1>3 DEF Searching, Seen, Chain
<1>5. m \in 1..MaxHops /\ m \in 0..n /\ m - 1 \in 0..n /\ m - 1 \notin left /\ path[m] \notin w.visited
  BY <1>1, <1>3, <1>4
<1>6. PICK cut : Chain(cut, m, a, w.known) /\ \A i \in 0..m : cut[i] = path[i]
  BY <1>1, <1>5, ChainCut
<1>7. cut[m] \notin w.visited /\ cut[m - 1] \in w.visited
  BY <1>1, <1>5, <1>6
<1>8. Len(w.queue) = 0
  OBVIOUS
<1> QED
  BY <1>5, <1>6, <1>7, <1>8 DEF Searching, Pending

\* A walk that has found nothing yet ends as the chains from its start say.
LEMMA WalkDecides ==
  ASSUME Shelf, NEW a \in Anime
  PROVE  \A w \in Walks : Searching(w, a) => Walk[w] = Leads(a, w.known)
<1> DEFINE Wrong == {w \in Walks : Searching(w, a) /\ Walk[w] # Leads(a, w.known)}
<1>1. \A w \in Walks : w.queue # <<>> => Onward(w) \in Walks
  BY OnwardShrinks
<1>2. \A w \in Walks : Walk[w] = IF w.queue = <<>> THEN FALSE
                                  ELSE (\E p \in Found(w) : standing[p] \in Hide) \/ Walk[Onward(w)]
  BY <1>1, WalkIs
<1>3. ASSUME NEW w \in Walks, Searching(w, a), w.queue = <<>> PROVE Walk[w] = Leads(a, w.known)
  <2>1. Walk[w] = FALSE
    BY <1>2, <1>3
  <2>2. ~Leads(a, w.known)
    <3> SUFFICES ASSUME NEW n \in 1..MaxHops, NEW path, Chain(path, n, a, w.known), path[n] # a, standing[path[n]] \in Hide
                 PROVE  FALSE
      BY DEF Leads
    <3>1. n \in 0..MaxHops
      BY RecommenderAssumption
    <3>2. path[n] \in w.visited
      BY <1>3, <3>1, AllSeen
    <3> QED
      BY <1>3, <3>2 DEF Searching, Seen
  <2> QED
    BY <2>1, <2>2 DEF Leads
<1>4. ASSUME NEW w \in Walks, Searching(w, a), w.queue # <<>>, NEW p \in Found(w), standing[p] \in Hide
      PROVE  Walk[w] = Leads(a, w.known)
  <2>1. Leads(a, w.known)
    BY <1>4, HitLeads
  <2>2. Walk[w] = TRUE
    BY <1>2, <1>4
  <2> QED
    BY <2>1, <2>2 DEF Leads
<1>5. ASSUME NEW w \in Walks, Searching(w, a), w.queue # <<>>, \A p \in Found(w) : standing[p] \notin Hide,
             Walk[Onward(w)] = Leads(a, w.known)
      PROVE  Walk[w] = Leads(a, w.known)
  <2>1. Walk[Onward(w)] \in BOOLEAN
    BY <1>5 DEF Leads
  <2>2. Walk[w] = ((\E p \in Found(w) : standing[p] \in Hide) \/ Walk[Onward(w)])
    BY <1>2, <1>5
  <2> QED
    BY <1>5, <2>1, <2>2
<1>6. ASSUME NEW w \in Wrong
      PROVE  w.queue # <<>> /\ Onward(w) \in Wrong /\ Size(w) \in Nat /\ Size(Onward(w)) < Size(w)
  <2>1. w.queue # <<>>
    BY <1>3
  <2>2. \A p \in Found(w) : standing[p] \notin Hide
    BY <1>4, <2>1
  <2>3. Searching(Onward(w), a)
    BY <2>1, <2>2, SearchGoesOn
  <2>4. Onward(w).known = w.known
    BY <2>1, OnwardGrows DEF Grown
  <2>5. Walk[Onward(w)] # Leads(a, w.known)
    BY <1>5, <2>1, <2>2
  <2> QED
    BY <2>1, <2>3, <2>4, <2>5, OnwardShrinks
<1> HIDE DEF Wrong
<1>7. Wrong = {}
  <2> SUFFICES ASSUME Wrong # {} PROVE FALSE
    OBVIOUS
  <2> DEFINE sizes == {Size(w) : w \in Wrong}
  <2>1. sizes \in SUBSET Nat /\ sizes # {}
    BY <1>6
  <2>2. PICK s \in sizes : \A t \in sizes : s <= t
    BY <2>1, LeastOf
  <2>3. PICK w \in Wrong : Size(w) = s
    BY <2>2
  <2>4. Onward(w) \in Wrong /\ Size(w) \in Nat /\ Size(Onward(w)) \in Nat /\ Size(Onward(w)) < Size(w)
    BY <1>6
  <2>5. Size(w) <= Size(Onward(w))
    BY <2>2, <2>3, <2>4
  <2> QED
    BY <2>4, <2>5
<1> QED
  BY <1>7 DEF Wrong

\* _has_unwatched_prequel says whether a chain of prequels leads to something unfinished.
THEOREM PrequelWalkIsRight ==
  ASSUME Shelf, NEW a \in Anime, NEW known \in SUBSET Anime
  PROVE  HasUnwatchedPrequel(a, known) <=> Leads(a, known)
<1> DEFINE w == [queue |-> <<[id |-> a, hops |-> 0]>>, visited |-> {a}, known |-> known]
<1>1. w \in Walks /\ Searching(w, a) /\ w.known = known
  BY WalkBegins
<1>2. HasUnwatchedPrequel(a, known) = Walk[w]
  BY DEF HasUnwatchedPrequel
<1> HIDE DEF w
<1>3. Walk[w] = Leads(a, known)
  BY <1>1, WalkDecides
<1> QED
  BY <1>2, <1>3

\* What a run knows are titles, and what it held back it held back rightly.
HeldBackInv ==
  /\ prequels \in [Anime -> SUBSET Anime]
  /\ job.pc = "score" => job.known \in SUBSET Anime
  /\ SequelsHeldBack

LEMMA HeldBackInitially == RecommenderInit => HeldBackInv
BY RecommenderAssumption DEF RecommenderInit, HeldBackInv, SequelsHeldBack, NotRunning

LEMMA ScoreCandidatesHolds == ASSUME RecommenderInv, HeldBackInv, ScoreCandidates PROVE HeldBackInv'
<1> DEFINE shown == {a \in job.candidates : ~HasUnwatchedPrequel(a, job.known)}
<1>1. /\ job.pc = "score" /\ standing' = standing /\ prequels' = prequels
      /\ \E scores \in Scored(shown) : job' = [pc |-> "rank", scores |-> scores, seasonal |-> job.seasonal,
               candidates |-> job.candidates, known |-> job.known, saw |-> standing]
  BY DEF ScoreCandidates
<1>2. PICK scores \in Scored(shown) : job' = [pc |-> "rank", scores |-> scores, seasonal |-> job.seasonal,
               candidates |-> job.candidates, known |-> job.known, saw |-> standing]
  BY <1>1
<1>3. DOMAIN scores = shown
  BY DEF Scored
<1>4. job.candidates \subseteq Anime /\ job.known \in SUBSET Anime /\ Shelf
  BY <1>1 DEF RecommenderInv, JobTyped, HeldBackInv, Shelf
<1>5. /\ job'.pc = "rank" /\ job'.scores = scores /\ job'.candidates = job.candidates /\ job'.known = job.known
      /\ job'.saw = standing
  BY <1>2
<1>6. ASSUME NEW a \in job.candidates PROVE Leads(a, job.known) <=> Unfinished(a)'
  BY <1>1, <1>5 DEF Leads, Chain, Unfinished
<1>7. ASSUME NEW a \in job.candidates PROVE HasUnwatchedPrequel(a, job.known) <=> Leads(a, job.known)
  BY <1>4, PrequelWalkIsRight
<1>8. \A a \in job.candidates : a \in DOMAIN scores <=> ~Unfinished(a)'
  BY <1>3, <1>6, <1>7
<1> HIDE DEF shown
<1>9. SequelsHeldBack'
  BY <1>5, <1>8 DEF SequelsHeldBack
<1> QED
  BY <1>1, <1>5, <1>9 DEF HeldBackInv

LEMMA HeldBackStep == RecommenderInv /\ HeldBackInv /\ [RecommenderNext]_recommender => HeldBackInv'
<1> SUFFICES ASSUME RecommenderInv, HeldBackInv, [RecommenderNext]_recommender PROVE HeldBackInv'
  OBVIOUS
<1>1. ASSUME job' = job, prequels' = prequels PROVE HeldBackInv'
  BY <1>1, SMTT(30) DEF HeldBackInv, SequelsHeldBack, Unfinished
<1>2. ASSUME job'.pc \notin {"score", "rank"}, prequels' = prequels PROVE HeldBackInv'
  BY <1>2 DEF HeldBackInv, SequelsHeldBack
<1>3. ASSUME NEW similar \in SUBSET Similar, NEW seasonal \in SUBSET Seasonal, Discover(similar, seasonal) PROVE HeldBackInv'
  BY <1>2, <1>3 DEF Discover
<1>4. ASSUME NEW known \in Lookups, Fetch(known) PROVE HeldBackInv'
  <2>1. job'.pc = "score" /\ job'.known = known /\ prequels' = prequels
    BY <1>4 DEF Fetch
  <2>2. known \in SUBSET Anime
    BY RecommenderAssumption
  <2> QED
    BY <2>1, <2>2 DEF HeldBackInv, SequelsHeldBack
<1>5. CASE Rank
  <2>1. job'.pc = "store" /\ prequels' = prequels
    BY <1>5 DEF Rank
  <2> QED
    BY <1>2, <2>1
<1>6. CASE Store \/ RunFails
  <2>1. job'.pc = "idle" /\ prequels' = prequels
    BY <1>6 DEF Store, RunFails, NotRunning
  <2> QED
    BY <1>2, <2>1
<1>7. ASSUME NEW a \in Anime, (\E status \in Moves : Moved(a, status)) \/ Dismiss(a) \/ Snooze(a) \/ SnoozeEnds(a)
      PROVE  HeldBackInv'
  BY <1>1, <1>7 DEF Moved, Dismiss, Snooze, SnoozeEnds
<1>8. CASE UNCHANGED recommender
  BY <1>1, <1>8 DEF recommender
<1> QED
  BY <1>3, <1>4, <1>5, <1>6, <1>7, <1>8, ScoreCandidatesHolds DEF RecommenderNext

\* A run shows a candidate exactly if no chain of prequels it knows of leads to one the
\* user has not finished, whatever the relations, cycles and forks among them
\* (_has_unwatched_prequel, score_and_store).
THEOREM SequelsAreHeldBack == RecommenderSpec => []SequelsHeldBack
<1>1. HeldBackInv => SequelsHeldBack
  BY DEF HeldBackInv
<1>2. RecommenderInv /\ HeldBackInv /\ [RecommenderNext]_recommender => HeldBackInv'
  BY HeldBackStep
<1> QED
  BY <1>1, <1>2, HeldBackInitially, RecommenderInvariance, PTL DEF RecommenderSpec

=============================================================================
