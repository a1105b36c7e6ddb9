------------------------- MODULE ProviderSyncProofs -------------------------
(***************************************************************************)
(* Proofs about ProviderSync: what a watermark stands for, which episodes  *)
(* are counted again, and that nothing behind the fetch watermark is lost. *)
(***************************************************************************)
EXTENDS ProviderSync, WellFoundedInduction, TLAPS

-----------------------------------------------------------------------------
(* The inductive invariant.                                                *)

\* What a run in progress knows about itself.  A run is in the middle of a title
\* only under the scripts with two commits, and has then made the first.
RunOK(p, q) ==
  /\ q.byDay <=> (p \in Importer /\ q.pc # "idle")
  /\ (p \in Importer /\ q.pc # "idle") => (script = "netflix" /\ imports = 1)
  /\ q.pc \in {"loop", "half"} => q.asOf <= Len(history)
  /\ q.pc = "half" =>
       /\ p \in Runner /\ script # "netflix"
       /\ q.cur \in Title /\ mediaOf[q.cur] # NoMatch /\ Fetched(q, q.cur) # {}
       /\ (script = "plex" => Fetched(q, q.cur) \subseteq applied \cap done)

RunsOK == \A p \in Process : \A q \in {run[p]} : RunOK(p, q)

\* Updates are about events that happened, and days are drawn once, before any
\* watermark is made from them.
DaysOK ==
  /\ applied \subseteq 1..Len(history) /\ lastDay \subseteq 1..Len(history)
  /\ imports = 0 => lastDay = {}
  /\ \A c \in Importer : run[c].pc = "fetch" => lastDay = {}
  /\ \A c, d \in Importer : (run[c].pc # "idle" /\ run[d].pc # "idle") => c = d

Base == TypeOK /\ RunsOK /\ DaysOK

-----------------------------------------------------------------------------
(* Greatest elements, stamps and what a run fetched.                       *)

\* A non-empty set of bounded numbers has a greatest element, and Newest is it.
LEMMA NewestIs ==
  ASSUME NEW N \in Nat, NEW S \in SUBSET (0..N), S # {}
  PROVE  Newest(S) \in S /\ \A j \in S : j <= Newest(S)
<1>1. \E i \in S : \A j \in S : j <= i
  <2> DEFINE T == {N - s : s \in S}
  <2>a. \A s \in S : s \in Nat /\ N - s \in Nat
    OBVIOUS
  <2>1. T \subseteq Nat /\ T # {}
    BY <2>a
  <2>2. PICK x \in T : \A y \in T : ~(<<y, x>> \in OpToRel(<, Nat))
    BY <2>1, WFMin, NatLessThanWellFounded
  <2>3. \A y \in T : ~(y < x)
    BY <2>1, <2>2 DEF OpToRel
  <2>4. PICK i \in S : x = N - i
    OBVIOUS
  <2>5. \A j \in S : N - j \in T
    OBVIOUS
  <2>6. \A j \in S : ~(N - j < N - i)
    BY <2>3, <2>4, <2>5
  <2>7. \A j \in S : j <= i
    BY <2>6
  <2> QED BY <2>7
<1> QED BY <1>1 DEF Newest

\* The midnight before an event is earlier than the event.
LEMMA MidnightIs ==
  ASSUME TypeOK, NEW i \in Time
  PROVE  Midnight(i) \in 1..(2 * i - 1)
<1> DEFINE S == {j \in dawn \cup {1} : j <= i}
<1>1. i \in Nat /\ MaxTime \in Nat /\ dawn \subseteq Time
  BY BoundAssumption DEF TypeOK, Time
<1>2. 1 <= i /\ i <= MaxTime /\ dawn \cup {1} \subseteq 1..MaxTime
  BY <1>1 DEF Time
<1>3. \A j \in S : j \in 0..MaxTime /\ j \in 1..i
  BY <1>1, <1>2
<1>4. S \in SUBSET (0..MaxTime) /\ S # {}
  BY <1>1, <1>2, <1>3
<1> HIDE DEF S
<1>5. Newest(S) \in 1..i
  BY <1>1, <1>3, <1>4, NewestIs
<1> QED BY <1>1, <1>5 DEF Midnight, S

LEMMA StampIs ==
  ASSUME TypeOK, NEW q \in Run, NEW i \in Time
  PROVE  /\ Stamp(q, i) \in 1..(2 * i) /\ Stamp(q, i) \in Mark
         /\ ~q.byDay => Stamp(q, i) = 2 * i
         /\ q.byDay => Stamp(q, i) = Midnight(i)
<1>1. i \in Nat /\ i <= MaxTime /\ i >= 1 /\ MaxTime \in Nat
  BY BoundAssumption DEF Time
<1>2. Midnight(i) \in 1..(2 * i - 1)
  BY MidnightIs
<1> QED BY <1>1, <1>2 DEF Stamp, Mark

\* What a run has fetched of a title happened, and what it reviews of it are events
\* it fetched: all of them, unless it works by days.
LEMMA FetchedIs ==
  ASSUME TypeOK, NEW q \in Run, q.asOf <= Len(history), NEW t \in Title
  PROVE  /\ Fetched(q, t) \subseteq Time /\ Fetched(q, t) \subseteq 1..Len(history)
         /\ \A i \in Fetched(q, t) : history[i] = t /\ i > q.from /\ i <= q.asOf
         /\ Fresh(q, t) \subseteq Reviewed(q, t) /\ Reviewed(q, t) \subseteq Fetched(q, t)
         /\ script # "netflix" => Fresh(q, t) = Fetched(q, t)
         /\ ~q.byDay => Reviewed(q, t) = Fetched(q, t)
<1>1. q.from \in Nat /\ q.asOf \in Nat /\ Len(history) \in Nat /\ Len(history) <= MaxTime /\ MaxTime \in Nat
  BY BoundAssumption DEF TypeOK, Run
<1>2. /\ Fetched(q, t) \subseteq Time /\ Fetched(q, t) \subseteq 1..Len(history)
      /\ \A i \in Fetched(q, t) : history[i] = t /\ i > q.from /\ i <= q.asOf
  BY <1>1 DEF Fetched, Time
<1>3. Fresh(q, t) \subseteq Reviewed(q, t) /\ Reviewed(q, t) \subseteq Fetched(q, t)
  BY DEF Fresh, Reviewed
<1>4. script # "netflix" => Fresh(q, t) = Fetched(q, t)
  BY DEF Fresh
<1>5. ASSUME ~q.byDay PROVE Fetched(q, t) \subseteq Reviewed(q, t)
  <2> SUFFICES ASSUME NEW i \in Fetched(q, t) PROVE i \in Reviewed(q, t)
    OBVIOUS
  <2>1. CASE script = "netflix" /\ mediaOf[t] # NoMatch
    <3>1. mediaOf[t] \in Media /\ q.marks[mediaOf[t]] \in Mark
      BY <2>1 DEF TypeOK, Run
    <3>2. q.marks[mediaOf[t]] \in Int /\ 2 * i \in Int
      BY <1>1, <1>2, <3>1 DEF Mark, Time
    <3>3. 2 * i <= q.marks[mediaOf[t]] \/ 2 * i > q.marks[mediaOf[t]]
      BY <3>2
    <3> QED BY <1>5, <2>1, <3>3 DEF Reviewed, Fresh, Stamp
  <2>2. CASE ~(script = "netflix" /\ mediaOf[t] # NoMatch)
    BY <2>2 DEF Reviewed, Fresh
  <2> QED BY <2>1, <2>2
<1> QED BY <1>2, <1>3, <1>4, <1>5

\* The watermark a run computes for a title is the stamp of an event new to it, and
\* none of the others is newer.
LEMMA NewMarkIs ==
  ASSUME TypeOK, NEW q \in Run, q.asOf <= Len(history), NEW t \in Title, Fresh(q, t) # {}
  PROVE  /\ NewMark(q, t) \in Mark /\ NewMark(q, t) # NoMark
         /\ \E i \in Fresh(q, t) : NewMark(q, t) = Stamp(q, i)
         /\ \A i \in Fresh(q, t) : Stamp(q, i) <= NewMark(q, t)
<1> DEFINE S == {Stamp(q, i) : i \in Fresh(q, t)}
<1>1. Fresh(q, t) \subseteq Time /\ 2 * MaxTime \in Nat
  BY FetchedIs, BoundAssumption
<1>2. \A i \in Fresh(q, t) : Stamp(q, i) \in Mark /\ Stamp(q, i) \in 1..(2 * i)
  BY <1>1, StampIs
<1>3. S \in SUBSET (0..(2 * MaxTime)) /\ S # {}
  BY <1>2 DEF Mark
<1> HIDE DEF S
<1>4. Newest(S) \in S /\ \A j \in S : j <= Newest(S)
  BY <1>1, <1>3, NewestIs
<1>5. NewMark(q, t) = Newest(S)
  BY DEF NewMark, S
<1>6. PICK i \in Fresh(q, t) : NewMark(q, t) = Stamp(q, i)
  BY <1>4, <1>5 DEF S
<1>7. NewMark(q, t) # NoMark
  BY <1>1, <1>2, <1>6 DEF NoMark, Time
<1> QED BY <1>2, <1>4, <1>5, <1>6, <1>7 DEF S

\* The fetch watermark is the greatest of the marks.
LEMMA WatermarkIs ==
  ASSUME TypeOK
  PROVE  /\ Watermark(lastSeen) \in Mark
         /\ \A m \in Media : lastSeen[m] <= Watermark(lastSeen)
         /\ Watermark(lastSeen) = NoMark \/ \E m \in Media : lastSeen[m] = Watermark(lastSeen)
<1> DEFINE S == {NoMark} \cup {lastSeen[m] : m \in Media}
<1>1. S \in SUBSET (0..(2 * MaxTime)) /\ S # {} /\ 2 * MaxTime \in Nat
  BY BoundAssumption DEF TypeOK, Mark, NoMark
<1>2. NoMark \in S /\ \A m \in Media : lastSeen[m] \in S
  OBVIOUS
<1>3. \A x \in S : x = NoMark \/ \E m \in Media : lastSeen[m] = x
  OBVIOUS
<1>4. Watermark(lastSeen) = CHOOSE w \in S : \A m \in Media : lastSeen[m] <= w
  BY DEF Watermark
<1> HIDE DEF S
<1>5. Newest(S) \in S /\ \A j \in S : j <= Newest(S)
  BY <1>1, NewestIs
<1>6. Watermark(lastSeen) \in S /\ \A m \in Media : lastSeen[m] <= Watermark(lastSeen)
  BY <1>2, <1>4, <1>5
<1> QED BY <1>1, <1>3, <1>6 DEF Mark

-----------------------------------------------------------------------------
(* What each step does to its run.                                         *)

\* Only run p changes: it is x now.
Becomes(p, x) ==
  /\ x \in Run /\ run' \in [Process -> Run] /\ run'[p] = x
  /\ \A o \in Process : o # p => run'[o] = run[o]

LEMMA RunChange ==
  ASSUME TypeOK, NEW p \in Process, NEW x \in Run, run' = [run EXCEPT ![p] = x]
  PROVE  Becomes(p, x)
BY DEF Becomes, TypeOK

LEMMA NoRunIs ==
  /\ NoRun \in Run /\ NoRun.pc = "idle" /\ ~NoRun.byDay /\ NoRun.asOf = 0 /\ NoRun.from = 0
  /\ ~NoRun.redo /\ NoRun.todo = {} /\ ~NoRun.end
<1>1. MaxTime \in Nat
  BY BoundAssumption
<1>2. [m \in Media |-> NoMark] \in [Media -> Mark]
  BY <1>1 DEF NoMark, Mark
<1> QED BY <1>1, <1>2 DEF NoRun, Run

\* The record of a run that begins.
LEMMA NewRunIs ==
  ASSUME TypeOK, NEW w \in Mark, NEW redo \in BOOLEAN, NEW x, x = NewRun(w, redo)
  PROVE  /\ x \in Run /\ x.pc = "fetch" /\ x.redo = redo /\ x.full = (w = NoMark) /\ ~x.end
         /\ x.from = w \div 2 /\ x.asOf = 0 /\ ~x.byDay /\ x.marks = lastSeen
         /\ x.todo = {}
<1>1. MaxTime \in Nat /\ w \in Nat /\ w <= 2 * MaxTime
  BY BoundAssumption DEF Mark
<1>2. w \div 2 \in 0..MaxTime /\ lastSeen \in [Media -> Mark]
  BY <1>1 DEF TypeOK
<1>3. PICK q \in Run : q = NoRun /\ q.asOf = 0 /\ q.todo = {} /\ ~q.end /\ ~q.byDay
  BY NoRunIs
<1>4. PICK full \in BOOLEAN : full = (w = NoMark)
  OBVIOUS
<1>5. x = [q EXCEPT !.pc = "fetch", !.redo = redo, !.from = w \div 2, !.full = full,
                    !.marks = lastSeen]
  BY <1>3, <1>4 DEF NewRun
<1>6. /\ x \in Run /\ x.pc = "fetch" /\ x.redo = redo /\ x.full = full /\ x.end = q.end
      /\ x.from = w \div 2 /\ x.asOf = q.asOf /\ x.byDay = q.byDay /\ x.marks = lastSeen /\ x.todo = q.todo
  BY <1>2, <1>5 DEF Run
<1> QED BY <1>3, <1>4, <1>6

\* The fetch of a sync.
LEMMA FetchIs ==
  ASSUME TypeOK, NEW r, Fetch(r), NEW q, q = run[r]
  PROVE  /\ r \in Runner /\ q \in Run /\ q.pc = "fetch"
         /\ UNCHANGED <<fixed, history, tracked, lastSeen, walkComplete, ghosts, importing, interrupts>>
         /\ \E x \in Run :
              /\ Becomes(r, x)
              /\ x.pc = "loop" /\ x.from = Larger(q.from, Len(history) - FetchCap) /\ x.asOf = Len(history)
              /\ \A i \in (x.from + 1)..x.asOf : history[i] \in x.todo
              /\ x.redo = q.redo /\ x.full = q.full /\ x.byDay = q.byDay /\ x.marks = q.marks
              /\ x.end => (x.from = q.from)
              /\ clean' = (clean /\ (q.redo \/ x.from = q.from))
<1> DEFINE n == Len(history)
           f == Larger(q.from, n - FetchCap)
<1>1. r \in Runner /\ r \in Process /\ q \in Run /\ q.pc = "fetch" /\ n \in Nat /\ n <= MaxTime
      /\ MaxTime \in Nat /\ FetchCap \in Nat
  BY BoundAssumption DEF Fetch, TypeOK, Process
<1>2. PICK end \in IF n < FetchCap THEN (IF q.full THEN {TRUE} ELSE BOOLEAN) ELSE {FALSE} :
        run' = [run EXCEPT ![r] = [q EXCEPT !.pc = "loop", !.from = f, !.asOf = n, !.end = end,
                  !.todo = {history[i] : i \in (f + 1)..n}, !.list = tracked]]
  BY DEF Fetch
<1>3. PICK todo : todo = {history[i] : i \in (f + 1)..n}
  OBVIOUS
<1>4. PICK x : x = [q EXCEPT !.pc = "loop", !.from = f, !.asOf = n, !.end = end, !.todo = todo, !.list = tracked]
  OBVIOUS
<1>a. end \in BOOLEAN
  BY <1>2, Zenon
<1>5. end \in BOOLEAN /\ q.from \in 0..MaxTime /\ q.from \in Nat
  BY <1>1, <1>a DEF Run
<1>6. f \in Int /\ 0 <= f /\ f <= MaxTime /\ (n < FetchCap => f = q.from)
  BY <1>1, <1>5 DEF Larger
<1>7. todo \in SUBSET Title /\ tracked \in SUBSET Media
  BY <1>1, <1>3, <1>6 DEF TypeOK
<1>8. /\ x \in Run /\ x.pc = "loop" /\ x.from = f /\ x.asOf = n /\ x.end = end /\ x.todo = todo
      /\ x.redo = q.redo /\ x.full = q.full /\ x.byDay = q.byDay /\ x.marks = q.marks
  <2> HIDE DEF f
  <2>1. f \in 0..MaxTime /\ n \in 0..MaxTime
    BY <1>1, <1>6
  <2> QED BY <1>1, <1>4, <1>5, <1>7, <2>1 DEF Run
<1>9. Becomes(r, x)
  BY <1>1, <1>2, <1>3, <1>4, <1>8, RunChange
<1>10. clean' = (clean /\ (q.redo \/ f = q.from))
  BY DEF Fetch
<1>11. UNCHANGED <<fixed, history, tracked, lastSeen, walkComplete, ghosts, importing, interrupts>>
  BY DEF Fetch
<1>12. x.end => f = q.from
  BY <1>2, <1>6, <1>8
<1>13. \A i \in (x.from + 1)..x.asOf : history[i] \in x.todo
  BY <1>3, <1>8
<1> QED BY <1>1, <1>8, <1>9, <1>10, <1>11, <1>12, <1>13

\* An import has read its export.
LEMMA ExportIs ==
  ASSUME TypeOK, NEW c, ReadExport(c), NEW q, q = run[c]
  PROVE  /\ c \in Importer /\ q \in Run /\ q.pc = "fetch"
         /\ UNCHANGED <<fixed, history, tracked, lastSeen, walkComplete, ghosts, overlapped, imports, clean, interrupts>>
         /\ dawn' \subseteq Time
         /\ \E x \in Run :
              /\ Becomes(c, x)
              /\ x.pc = "loop" /\ x.asOf \in 1..Len(history)
              /\ x.todo \subseteq Title /\ x.byDay = q.byDay /\ x.marks = q.marks
<1>1. c \in Importer /\ c \in Process /\ q \in Run /\ q.pc = "fetch" /\ Len(history) \in Nat
      /\ DOMAIN history = 1..Len(history) /\ Len(history) <= MaxTime /\ MaxTime \in Nat
  BY BoundAssumption DEF ReadExport, TypeOK, Process
<1>2. PICK n \in DOMAIN history :
        /\ \E days \in SUBSET (2..n) : dawn' = days
        /\ run' = [run EXCEPT ![c] = [@ EXCEPT !.pc = "loop", !.asOf = n, !.end = TRUE, !.list = tracked,
                                               !.todo = {history[i] : i \in 1..n}]]
  BY DEF ReadExport
<1>3. PICK todo : todo = {history[i] : i \in 1..n}
  OBVIOUS
<1>4. PICK x : x = [q EXCEPT !.pc = "loop", !.from = q.from, !.asOf = n, !.end = TRUE, !.todo = todo, !.list = tracked]
  OBVIOUS
<1>5. n \in 1..Len(history) /\ n \in 0..MaxTime /\ dawn' \subseteq Time
  BY <1>1, <1>2 DEF Time
<1>6. todo \in SUBSET Title /\ tracked \in SUBSET Media /\ q.from \in 0..MaxTime
  BY <1>1, <1>3, <1>5 DEF TypeOK, Run
<1>7. /\ x \in Run /\ x.pc = "loop" /\ x.asOf = n /\ x.todo = todo /\ x.byDay = q.byDay /\ x.marks = q.marks
  BY <1>1, <1>4, <1>5, <1>6 DEF Run
<1>8. x = [q EXCEPT !.pc = "loop", !.asOf = n, !.end = TRUE, !.list = tracked, !.todo = todo]
  BY <1>1, <1>4 DEF Run
<1>9. run' = [run EXCEPT ![c] = x]
  BY <1>1, <1>2, <1>3, <1>8
<1>10. Becomes(c, x)
  BY <1>1, <1>7, <1>9, RunChange
<1>11. UNCHANGED <<fixed, history, tracked, lastSeen, walkComplete, ghosts, overlapped, imports, clean, interrupts>>
  BY DEF ReadExport
<1> QED BY <1>1, <1>5, <1>6, <1>7, <1>10, <1>11

\* A title is done with.
LEMMA DropIs ==
  ASSUME NEW q \in Run, NEW t, NEW x, x = Drop(q, t)
  PROVE  /\ x \in Run /\ x.todo = q.todo \ {t} /\ x.pc = q.pc /\ x.redo = q.redo /\ x.full = q.full
         /\ x.end = q.end /\ x.from = q.from /\ x.asOf = q.asOf /\ x.byDay = q.byDay /\ x.marks = q.marks
         /\ x.list = q.list /\ x.cur = q.cur
BY DEF Drop, Run

\* The run after the only or the second commit for a title.
LEMMA CompleteIs ==
  ASSUME TypeOK, NEW p \in Process, NEW t \in Title, mediaOf[t] \in Media, Complete(p, t), NEW q, q = run[p]
  PROVE  \E x \in Run :
           /\ Becomes(p, x) /\ x.pc = "loop" /\ x.todo = q.todo \ {t}
           /\ x.redo = q.redo /\ x.full = q.full /\ x.end = q.end /\ x.from = q.from /\ x.asOf = q.asOf
           /\ x.byDay = q.byDay /\ x.marks = q.marks
<1>1. q \in Run
  BY DEF TypeOK
<1>2. PICK d : d = Drop(q, t)
  OBVIOUS
<1>3. PICK x : x = [d EXCEPT !.pc = "loop", !.cur = NoMatch, !.list = @ \cup {mediaOf[t]}]
  OBVIOUS
<1>4. /\ d \in Run /\ d.todo = q.todo \ {t} /\ d.redo = q.redo /\ d.full = q.full
      /\ d.end = q.end /\ d.from = q.from /\ d.asOf = q.asOf /\ d.byDay = q.byDay /\ d.marks = q.marks
  BY <1>1, <1>2, DropIs
<1>5. /\ x \in Run /\ x.pc = "loop" /\ x.todo = d.todo /\ x.redo = d.redo /\ x.full = d.full
      /\ x.end = d.end /\ x.from = d.from /\ x.asOf = d.asOf /\ x.byDay = d.byDay /\ x.marks = d.marks
  BY <1>3, <1>4 DEF Run
<1>6. run' = [run EXCEPT ![p] = x]
  BY <1>2, <1>3 DEF Complete
<1>7. Becomes(p, x)
  BY <1>5, <1>6, RunChange
<1> QED BY <1>4, <1>5, <1>7

\* The run between its two commits for a title.
LEMMA HalfIs ==
  ASSUME TypeOK, NEW p \in Process, NEW t \in Title, mediaOf[t] \in Media, Half(p, t), NEW q, q = run[p]
  PROVE  \E x \in Run :
           /\ Becomes(p, x) /\ x.pc = "half" /\ x.cur = t /\ x.todo = q.todo
           /\ x.redo = q.redo /\ x.full = q.full /\ x.end = q.end /\ x.from = q.from /\ x.asOf = q.asOf
           /\ x.byDay = q.byDay /\ x.marks = q.marks
<1>1. q \in Run /\ run \in [Process -> Run]
  BY DEF TypeOK
<1>2. PICK x : x = [q EXCEPT !.pc = "half", !.cur = t, !.list = @ \cup {mediaOf[t]}]
  OBVIOUS
<1>3. /\ x \in Run /\ x.pc = "half" /\ x.cur = t /\ x.todo = q.todo
      /\ x.redo = q.redo /\ x.full = q.full /\ x.end = q.end /\ x.from = q.from /\ x.asOf = q.asOf
      /\ x.byDay = q.byDay /\ x.marks = q.marks
  BY <1>1, <1>2 DEF Run
<1>4. run' = [run EXCEPT ![p].pc = "half", ![p].cur = t, ![p].list = @ \cup {mediaOf[t]}]
  BY DEF Half
<1>5. run' = [run EXCEPT ![p] = x]
  BY <1>1, <1>2, <1>4
<1>6. Becomes(p, x)
  BY <1>3, <1>5, RunChange
<1> QED BY <1>3, <1>6

\* A title is passed over or skipped.
LEMMA PassedIs ==
  ASSUME TypeOK, NEW p \in Process, PassOver(p) \/ Skip(p), NEW q, q = run[p]
  PROVE  /\ q \in Run /\ q.pc = "loop"
         /\ UNCHANGED <<fixed, history, tracked, lastSeen, walkComplete, applied, twice, lastDay, importing, clean, interrupts>>
         /\ \E t \in q.todo, x \in Run :
              /\ Becomes(p, x) /\ x.pc = "loop" /\ x.todo = q.todo \ {t}
              /\ x.redo = q.redo /\ x.full = q.full /\ x.end = q.end /\ x.from = q.from /\ x.asOf = q.asOf
              /\ x.byDay = q.byDay /\ x.marks = q.marks
              /\ done' = done \cup Reviewed(q, t)
<1>1. q \in Run
  BY DEF TypeOK
<1>2. PICK t \in Title : Next1(p, t) /\ run' = [run EXCEPT ![p] = Drop(q, t)] /\ done' = done \cup Reviewed(q, t)
  BY DEF PassOver, Skip
<1>3. q.pc = "loop" /\ t \in q.todo
  BY <1>2 DEF Next1
<1>4. PICK x : x = Drop(q, t)
  OBVIOUS
<1>5. /\ x \in Run /\ x.todo = q.todo \ {t} /\ x.pc = q.pc /\ x.redo = q.redo /\ x.full = q.full
      /\ x.end = q.end /\ x.from = q.from /\ x.asOf = q.asOf /\ x.byDay = q.byDay /\ x.marks = q.marks
  BY <1>1, <1>4, DropIs
<1>6. Becomes(p, x)
  BY <1>2, <1>4, <1>5, RunChange
<1>7. UNCHANGED <<fixed, history, tracked, lastSeen, walkComplete, applied, twice, lastDay, importing, clean, interrupts>>
  BY DEF PassOver, Skip
<1> QED BY <1>1, <1>2, <1>3, <1>5, <1>6, <1>7

\* Netflix's one commit for a title.
LEMMA AtomicIs ==
  ASSUME TypeOK, NEW p \in Process, ProcessAtomic(p), NEW q, q = run[p]
  PROVE  /\ q \in Run /\ q.pc = "loop" /\ script = "netflix"
         /\ UNCHANGED <<fixed, history, walkComplete, importing, clean, interrupts>>
         /\ \E t \in q.todo, x \in Run :
              /\ mediaOf[t] \in Media /\ Fresh(q, t) # {}
              /\ Reflect(q, t) /\ SaveWatermark(q, t)
              /\ Becomes(p, x) /\ x.pc = "loop" /\ x.todo = q.todo \ {t}
              /\ x.redo = q.redo /\ x.full = q.full /\ x.end = q.end /\ x.from = q.from /\ x.asOf = q.asOf
              /\ x.byDay = q.byDay /\ x.marks = q.marks
<1>1. q \in Run
  BY DEF TypeOK
<1>2. PICK t \in Title : Wanted(p, t) /\ Reflect(q, t) /\ SaveWatermark(q, t) /\ Complete(p, t)
  BY DEF ProcessAtomic
<1>3. q.pc = "loop" /\ t \in q.todo /\ mediaOf[t] \in Media /\ Fresh(q, t) # {}
  BY <1>2 DEF Wanted, Next1, TypeOK
<1>4. PICK x \in Run :
           /\ Becomes(p, x) /\ x.pc = "loop" /\ x.todo = q.todo \ {t}
           /\ x.redo = q.redo /\ x.full = q.full /\ x.end = q.end /\ x.from = q.from /\ x.asOf = q.asOf
           /\ x.byDay = q.byDay /\ x.marks = q.marks
  BY <1>2, <1>3, CompleteIs
<1>5. script = "netflix" /\ UNCHANGED <<fixed, history, walkComplete, importing, clean, interrupts>>
  BY DEF ProcessAtomic
<1> QED BY <1>1, <1>2, <1>3, <1>4, <1>5

\* The first of two commits for a title.
LEMMA FirstIs ==
  ASSUME TypeOK, NEW p \in Process, ProcessFirst(p), NEW q, q = run[p]
  PROVE  /\ q \in Run /\ q.pc = "loop" /\ script # "netflix"
         /\ UNCHANGED <<fixed, history, walkComplete, importing, clean, interrupts>>
         /\ \E t \in q.todo, x \in Run :
              /\ mediaOf[t] \in Media /\ Fresh(q, t) # {}
              /\ \/ script = "crunchyroll" /\ SaveWatermark(q, t) /\ UNCHANGED <<tracked, ghosts>>
                 \/ script = "plex" /\ Reflect(q, t) /\ UNCHANGED lastSeen
              /\ Becomes(p, x) /\ x.pc = "half" /\ x.cur = t /\ x.todo = q.todo
              /\ x.redo = q.redo /\ x.full = q.full /\ x.end = q.end /\ x.from = q.from /\ x.asOf = q.asOf
              /\ x.byDay = q.byDay /\ x.marks = q.marks
<1>1. q \in Run
  BY DEF TypeOK
<1>2. PICK t \in Title :
           /\ Wanted(p, t) /\ Half(p, t)
           /\ \/ script = "crunchyroll" /\ SaveWatermark(q, t) /\ UNCHANGED <<tracked, ghosts>>
              \/ script = "plex" /\ Reflect(q, t) /\ UNCHANGED lastSeen
  BY DEF ProcessFirst
<1>3. q.pc = "loop" /\ t \in q.todo /\ mediaOf[t] \in Media /\ Fresh(q, t) # {}
  BY <1>2 DEF Wanted, Next1, TypeOK
<1>4. PICK x \in Run :
           /\ Becomes(p, x) /\ x.pc = "half" /\ x.cur = t /\ x.todo = q.todo
           /\ x.redo = q.redo /\ x.full = q.full /\ x.end = q.end /\ x.from = q.from /\ x.asOf = q.asOf
           /\ x.byDay = q.byDay /\ x.marks = q.marks
  BY <1>2, <1>3, HalfIs
<1>5. script # "netflix" /\ UNCHANGED <<fixed, history, walkComplete, importing, clean, interrupts>>
  BY DEF ProcessFirst
<1> QED BY <1>1, <1>2, <1>3, <1>4, <1>5

\* The second.
LEMMA SecondIs ==
  ASSUME TypeOK, RunsOK, NEW p \in Process, ProcessSecond(p), NEW q, q = run[p]
  PROVE  /\ q \in Run /\ q.pc = "half" /\ script # "netflix" /\ p \in Runner
         /\ UNCHANGED <<fixed, history, walkComplete, importing, clean, interrupts>>
         /\ \E t \in Title, x \in Run :
              /\ t = q.cur /\ mediaOf[t] \in Media /\ Fetched(q, t) # {}
              /\ \/ script = "crunchyroll" /\ Reflect(q, t) /\ UNCHANGED lastSeen
                 \/ script = "plex" /\ SaveWatermark(q, t) /\ UNCHANGED <<tracked, ghosts>>
              /\ Becomes(p, x) /\ x.pc = "loop" /\ x.todo = q.todo \ {t}
              /\ x.redo = q.redo /\ x.full = q.full /\ x.end = q.end /\ x.from = q.from /\ x.asOf = q.asOf
              /\ x.byDay = q.byDay /\ x.marks = q.marks
<1>1. q \in Run /\ q.pc = "half" /\ RunOK(p, q)
  BY DEF TypeOK, RunsOK, ProcessSecond
<1>2. PICK t : t = q.cur
  OBVIOUS
<1>3. /\ Complete(p, t)
      /\ \/ script = "crunchyroll" /\ Reflect(q, t) /\ UNCHANGED lastSeen
         \/ script = "plex" /\ SaveWatermark(q, t) /\ UNCHANGED <<tracked, ghosts>>
  BY <1>2 DEF ProcessSecond
<1>4. p \in Runner /\ script # "netflix" /\ t \in Title /\ mediaOf[t] \in Media /\ Fetched(q, t) # {}
  BY <1>1, <1>2 DEF RunOK, TypeOK
<1>5. PICK x \in Run :
           /\ Becomes(p, x) /\ x.pc = "loop" /\ x.todo = q.todo \ {t}
           /\ x.redo = q.redo /\ x.full = q.full /\ x.end = q.end /\ x.from = q.from /\ x.asOf = q.asOf
           /\ x.byDay = q.byDay /\ x.marks = q.marks
  BY <1>3, <1>4, CompleteIs
<1>6. UNCHANGED <<fixed, history, walkComplete, importing, clean, interrupts>>
  BY DEF ProcessSecond
<1> QED BY <1>1, <1>2, <1>3, <1>4, <1>5, <1>6

\* A watermark is stored: Netflix's as it is, the others' only if it is newer.
LEMMA SavedIs ==
  ASSUME TypeOK, NEW q \in Run, q.asOf <= Len(history), NEW t \in Title, mediaOf[t] \in Media,
         Fresh(q, t) # {}, SaveWatermark(q, t)
  PROVE  /\ lastSeen' \in [Media -> Mark]
         /\ \A m \in Media : m # mediaOf[t] => lastSeen'[m] = lastSeen[m]
         /\ \/ lastSeen'[mediaOf[t]] = NewMark(q, t)
            \/ /\ lastSeen'[mediaOf[t]] = lastSeen[mediaOf[t]] /\ script # "netflix"
               /\ NewMark(q, t) < lastSeen[mediaOf[t]]
<1>1. NewMark(q, t) \in Mark /\ lastSeen \in [Media -> Mark] /\ lastSeen[mediaOf[t]] \in Mark
  BY NewMarkIs DEF TypeOK
<1>2. PICK n : n = NewMark(q, t)
  OBVIOUS
<1>3. PICK k : k = IF script = "netflix" THEN n ELSE Larger(lastSeen[mediaOf[t]], n)
  OBVIOUS
<1>4. lastSeen' = [lastSeen EXCEPT ![mediaOf[t]] = k]
  BY <1>2, <1>3 DEF SaveWatermark
<1>5. \/ k = n
      \/ k = lastSeen[mediaOf[t]] /\ script # "netflix" /\ n < lastSeen[mediaOf[t]]
  BY <1>1, <1>2, <1>3 DEF Larger, Mark
<1> QED BY <1>1, <1>2, <1>4, <1>5

\* An update is committed.
LEMMA ReflectedIs ==
  ASSUME TypeOK, NEW q \in Run, q.asOf <= Len(history), NEW t \in Title, mediaOf[t] \in Media, Reflect(q, t)
  PROVE  /\ tracked' \subseteq Media
         /\ applied' = applied \cup Fresh(q, t) /\ applied' \subseteq Time
         /\ done' = done \cup Reviewed(q, t) /\ done' \subseteq Time
         /\ lastDay \subseteq lastDay' /\ lastDay' \subseteq lastDay \cup Fetched(q, t) /\ lastDay' \subseteq Time
         /\ ~q.byDay => lastDay' = lastDay
         /\ twice' \subseteq twice \cup (Fresh(q, t) \cap applied) /\ twice' \subseteq Time
<1>1. Fetched(q, t) \subseteq Time /\ Fresh(q, t) \subseteq Fetched(q, t) /\ Reviewed(q, t) \subseteq Fetched(q, t)
  BY FetchedIs
<1>2. tracked \subseteq Media /\ applied \subseteq Time /\ done \subseteq Time /\ lastDay \subseteq Time /\ twice \subseteq Time
  BY DEF TypeOK
<1> QED BY <1>1, <1>2 DEF Reflect

-----------------------------------------------------------------------------
(* The base of the invariant.                                              *)

\* What no step takes back.
Grows ==
  /\ script' = script /\ mediaOf' = mediaOf
  /\ Len(history) <= Len(history')
  /\ \A i \in 1..Len(history) : history'[i] = history[i]
  /\ applied \subseteq applied' /\ done \subseteq done'
  /\ imports = 1 => imports' = 1

LEMMA FetchedKept ==
  ASSUME TypeOK, Grows, NEW q \in Run, q.asOf <= Len(history), NEW t
  PROVE  Fetched(q, t)' = Fetched(q, t)
<1>1. q.from \in Nat /\ q.asOf \in Nat /\ Len(history) \in Nat
  BY DEF TypeOK, Run
<1>2. \A i \in (q.from + 1)..q.asOf : history'[i] = history[i]
  BY <1>1 DEF Grows
<1> QED BY <1>2 DEF Fetched

LEMMA RunKept ==
  ASSUME TypeOK, Grows, NEW p, NEW q \in Run, RunOK(p, q)
  PROVE  RunOK(p, q)'
<1>1. q.pc \in {"loop", "half"} => q.asOf <= Len(history')
  <2>1. q.asOf \in Nat /\ Len(history) \in Nat /\ (q.pc \in {"loop", "half"} => q.asOf <= Len(history))
    BY DEF RunOK, TypeOK, Run
  <2>2. Len(history) <= Len(history') /\ Len(history') \in Int
    BY <2>1 DEF Grows
  <2> QED BY <2>1, <2>2
<1>2. q.pc = "half" => Fetched(q, q.cur)' = Fetched(q, q.cur)
  BY FetchedKept DEF RunOK
<1> QED BY <1>1, <1>2 DEF RunOK, Grows

\* A step of run p, which leaves the others as they are.
LEMMA RunsKept ==
  ASSUME Base, TypeOK', Grows, NEW p \in Process, NEW x \in Run, Becomes(p, x), RunOK(p, x)'
  PROVE  RunsOK'
<1> SUFFICES ASSUME NEW o \in Process, NEW y, y = run'[o] PROVE RunOK(o, y)'
  BY DEF RunsOK
<1>1. CASE o = p
  BY <1>1 DEF Becomes
<1>2. CASE o # p
  <2>1. y = run[o] /\ y \in Run
    BY <1>2 DEF Becomes, Base, TypeOK
  <2>2. RunOK(o, y)
    BY <2>1 DEF Base, RunsOK
  <2> QED BY <2>1, <2>2, RunKept DEF Base
<1> QED BY <1>1, <1>2

\* Steps that change no run.
LEMMA UserInv == ASSUME Base, Watch \/ UserAdds PROVE Base' /\ Grows
<1>1. run' = run /\ UNCHANGED <<lastSeen, walkComplete, ghosts, fixed, importing, clean, interrupts>>
  BY DEF Watch, UserAdds
<1>2. history' \in Seq(Title) /\ Len(history') <= MaxTime /\ Len(history') \in Nat
      /\ Len(history) <= Len(history') /\ \A i \in 1..Len(history) : history'[i] = history[i]
  <2>1. history \in Seq(Title) /\ Len(history) \in Nat /\ Len(history) <= MaxTime /\ MaxTime \in Nat
    BY BoundAssumption DEF Base, TypeOK
  <2>2. CASE Watch
    BY <2>1, <2>2 DEF Watch
  <2>3. CASE UserAdds
    BY <2>1, <2>3 DEF UserAdds
  <2> QED BY <2>2, <2>3
<1>3. tracked' \subseteq Media
  BY DEF Base, TypeOK, Watch, UserAdds
<1>4. Grows
  BY <1>1, <1>2 DEF Grows, fixed, ghosts, importing
<1>5. TypeOK'
  BY <1>1, <1>2, <1>3 DEF Base, TypeOK, fixed, ghosts, importing
<1>6. RunsOK'
  <2> SUFFICES ASSUME NEW o \in Process, NEW y, y = run'[o] PROVE RunOK(o, y)'
    BY DEF RunsOK
  <2>1. y \in Run /\ RunOK(o, y)
    BY <1>1 DEF Base, RunsOK, TypeOK
  <2> QED BY <1>4, <2>1, RunKept DEF Base
<1>7. DaysOK'
  <2>1. 1..Len(history) \subseteq 1..Len(history')
    BY <1>2 DEF Base, TypeOK
  <2> QED BY <1>1, <2>1 DEF Base, DaysOK, ghosts, importing
<1> QED BY <1>4, <1>5, <1>6, <1>7 DEF Base

\* DaysOK, where a step changes a run beyond its fetch only.
LEMMA DaysKept ==
  ASSUME Base, NEW p \in Process, NEW x, Becomes(p, x), x.pc # "fetch",
         run[p].pc # "idle", history' = history, imports' = imports,
         applied' \subseteq 1..Len(history), lastDay' \subseteq 1..Len(history),
         lastDay' = lastDay \/ p \in Importer
  PROVE  DaysOK'
<1>1. ASSUME imports' = 0 PROVE lastDay' = {}
  <2>1. imports = 0 /\ RunOK(p, run[p])
    BY <1>1 DEF Base, RunsOK
  <2>2. p \notin Importer
    BY <2>1 DEF RunOK
  <2> QED BY <2>1, <2>2 DEF Base, DaysOK
<1>2. \A c, d \in Importer : (run'[c].pc # "idle" /\ run'[d].pc # "idle") => c = d
  BY DEF Base, DaysOK, Becomes, Process
<1>3. ASSUME NEW c \in Importer, run'[c].pc = "fetch" PROVE lastDay' = {}
  <2>1. c # p /\ run[c].pc = "fetch" /\ p \notin Importer
    BY <1>3 DEF Base, DaysOK, Becomes, Process
  <2> QED BY <2>1 DEF Base, DaysOK
<1> QED BY <1>1, <1>2, <1>3 DEF DaysOK

LEMMA StartInv ==
  ASSUME Base, NEW r \in Runner, NEW forced \in BOOLEAN, Start(r, forced)
  PROVE  Base' /\ Grows
<1> DEFINE redo == forced \/ ~walkComplete
           w    == IF redo THEN NoMark ELSE Watermark(lastSeen)
<1>1. r \in Process /\ r \notin Importer /\ TypeOK /\ MaxTime \in Nat
  BY ImporterAssumption, BoundAssumption DEF Process, Base
<1>2. redo \in BOOLEAN /\ w \in Mark
  BY <1>1, WatermarkIs DEF TypeOK, Mark, NoMark
<1>3. PICK x : x = NewRun(w, redo)
  OBVIOUS
<1>5. /\ x \in Run /\ x.pc = "fetch" /\ ~x.byDay
  <2> HIDE DEF w, redo
  <2> QED BY <1>1, <1>2, <1>3, NewRunIs
<1>6. Becomes(r, x)
  BY <1>1, <1>3, <1>5, RunChange DEF Start
<1>7. /\ UNCHANGED <<fixed, history, tracked, lastSeen, ghosts, dawn, imports, clean, interrupts>>
      /\ walkComplete' \in BOOLEAN /\ overlapped' \in BOOLEAN
  BY DEF Start, Base, TypeOK, Busy
<1>8. Grows
  BY <1>7 DEF Grows, fixed, ghosts, Base, TypeOK
<1>9. TypeOK'
  BY <1>6, <1>7 DEF Base, TypeOK, Becomes, fixed, ghosts
<1>10. RunOK(r, x)'
  BY <1>1, <1>5 DEF RunOK
<1>11. DaysOK'
  BY <1>1, <1>6, <1>7 DEF Base, DaysOK, Becomes, Process, ghosts
<1> QED BY <1>1, <1>5, <1>6, <1>8, <1>9, <1>10, <1>11, RunsKept DEF Base

LEMMA FetchInv == ASSUME Base, NEW r, Fetch(r) PROVE Base' /\ Grows
<1>1. PICK q : q = run[r]
  OBVIOUS
<1>2. PICK x \in Run :
        /\ Becomes(r, x) /\ x.pc = "loop" /\ x.asOf = Len(history) /\ x.byDay = q.byDay
        /\ clean' = (clean /\ (q.redo \/ x.from = q.from))
  BY <1>1, FetchIs DEF Base
<1>3. /\ r \in Runner /\ r \in Process /\ r \notin Importer /\ q \in Run /\ q.pc = "fetch"
      /\ UNCHANGED <<fixed, history, tracked, lastSeen, walkComplete, ghosts, importing, interrupts>>
  BY <1>1, FetchIs, ImporterAssumption DEF Base, Process
<1>4. Grows
  BY <1>3 DEF Grows, fixed, ghosts, importing, Base, TypeOK
<1>5. TypeOK'
  BY <1>2, <1>3 DEF Base, TypeOK, Becomes, fixed, ghosts, importing
<1>6. RunOK(r, x)'
  <2>1. RunOK(r, q) /\ Len(history) \in Nat
    BY <1>1, <1>3 DEF Base, RunsOK, TypeOK
  <2> QED BY <1>2, <1>3, <2>1 DEF RunOK
<1>7. DaysOK'
  BY <1>1, <1>2, <1>3, DaysKept DEF Base, DaysOK, ghosts, importing
<1> QED BY <1>2, <1>3, <1>4, <1>5, <1>6, <1>7, RunsKept DEF Base

LEMMA RunIs ==
  ASSUME Base, NEW p \in Process, NEW q, q = run[p]
  PROVE  q \in Run /\ RunOK(p, q) /\ (q.pc \in {"loop", "half"} => q.asOf <= Len(history))
BY DEF Base, TypeOK, RunsOK, RunOK

LEMMA PassedInv == ASSUME Base, NEW p \in Process, PassOver(p) \/ Skip(p) PROVE Base' /\ Grows
<1>1. PICK q : q = run[p]
  OBVIOUS
<1>2. /\ q \in Run /\ q.pc = "loop" /\ RunOK(p, q) /\ q.asOf <= Len(history)
      /\ UNCHANGED <<fixed, history, tracked, lastSeen, walkComplete, applied, twice, lastDay, importing, clean, interrupts>>
  BY <1>1, PassedIs, RunIs DEF Base
<1>3. PICK t \in q.todo, x \in Run :
        /\ Becomes(p, x) /\ x.pc = "loop" /\ x.asOf = q.asOf /\ x.byDay = q.byDay
        /\ done' = done \cup Reviewed(q, t)
  BY <1>1, PassedIs DEF Base
<1>4. t \in Title
  BY <1>2, <1>3 DEF Run
<1>5. done' \subseteq Time
  BY <1>2, <1>3, <1>4, FetchedIs DEF Base, TypeOK
<1>6. Grows
  BY <1>2, <1>3 DEF Grows, fixed, importing, Base, TypeOK
<1>7. TypeOK'
  BY <1>2, <1>3, <1>5 DEF Base, TypeOK, Becomes, fixed, importing
<1>8. RunOK(p, x)'
  BY <1>2, <1>3 DEF RunOK, fixed, importing
<1>9. DaysOK'
  BY <1>1, <1>2, <1>3, DaysKept DEF Base, DaysOK, importing
<1> QED BY <1>3, <1>6, <1>7, <1>8, <1>9, RunsKept DEF Base

LEMMA AtomicInv == ASSUME Base, NEW p \in Process, ProcessAtomic(p) PROVE Base' /\ Grows
<1>1. PICK q : q = run[p]
  OBVIOUS
<1>2. /\ q \in Run /\ q.pc = "loop" /\ RunOK(p, q) /\ q.asOf <= Len(history) /\ script = "netflix"
      /\ UNCHANGED <<fixed, history, walkComplete, importing, clean, interrupts>>
  BY <1>1, AtomicIs, RunIs DEF Base
<1>3. PICK t \in q.todo, x \in Run :
        /\ mediaOf[t] \in Media /\ Fresh(q, t) # {}
        /\ Reflect(q, t) /\ SaveWatermark(q, t)
        /\ Becomes(p, x) /\ x.pc = "loop" /\ x.asOf = q.asOf /\ x.byDay = q.byDay
  BY <1>1, AtomicIs DEF Base
<1>4. t \in Title /\ TypeOK
  BY <1>2, <1>3 DEF Run, Base
<1>5. /\ tracked' \subseteq Media
      /\ applied' = applied \cup Fresh(q, t) /\ applied' \subseteq Time
      /\ done' = done \cup Reviewed(q, t) /\ done' \subseteq Time
      /\ lastDay' \subseteq lastDay \cup Fetched(q, t) /\ lastDay' \subseteq Time
      /\ ~q.byDay => lastDay' = lastDay
      /\ twice' \subseteq Time
  BY <1>2, <1>3, <1>4, ReflectedIs
<1>6. lastSeen' \in [Media -> Mark]
  BY <1>2, <1>3, <1>4, SavedIs
<1>7. Grows
  BY <1>2, <1>5 DEF Grows, fixed, importing, Base, TypeOK
<1>8. TypeOK'
  BY <1>2, <1>3, <1>5, <1>6 DEF Base, TypeOK, Becomes, fixed, importing
<1>9. RunOK(p, x)'
  BY <1>2, <1>3 DEF RunOK, fixed, importing
<1>10. DaysOK'
  <2>1. Fetched(q, t) \subseteq 1..Len(history) /\ Fresh(q, t) \subseteq Fetched(q, t)
    BY <1>2, <1>4, FetchedIs
  <2>2. applied' \subseteq 1..Len(history) /\ lastDay' \subseteq 1..Len(history)
    BY <1>5, <2>1 DEF Base, DaysOK
  <2>3. lastDay' = lastDay \/ p \in Importer
    BY <1>2, <1>5 DEF RunOK
  <2> QED BY <1>1, <1>2, <1>3, <2>2, <2>3, DaysKept DEF importing
<1> QED BY <1>3, <1>7, <1>8, <1>9, <1>10, RunsKept DEF Base

\* A commit of one half of an update, at the title where x stands or stood.
LEMMA HalfInv ==
  ASSUME Base, NEW p \in Process, NEW q, q = run[p], q.pc \in {"loop", "half"}, script # "netflix",
         UNCHANGED <<fixed, history, walkComplete, importing, clean, interrupts>>,
         NEW t \in Title, mediaOf[t] \in Media, Fetched(q, t) # {},
         NEW x \in Run, Becomes(p, x), x.from = q.from, x.asOf = q.asOf, x.byDay = q.byDay,
         \/ x.pc = "loop"
         \/ x.pc = "half" /\ x.cur = t /\ (script = "plex" => Reflect(q, t)),
         \/ SaveWatermark(q, t) /\ UNCHANGED <<tracked, ghosts>>
         \/ Reflect(q, t) /\ UNCHANGED lastSeen
  PROVE  Base' /\ Grows
<1>1. q \in Run /\ RunOK(p, q) /\ q.asOf <= Len(history) /\ TypeOK
  BY RunIs DEF Base
<1>2. p \notin Importer /\ p \in Runner /\ ~q.byDay
  BY <1>1 DEF RunOK, Process
<1>3. /\ Fetched(q, t) \subseteq Time /\ Fetched(q, t) \subseteq 1..Len(history)
      /\ Fresh(q, t) = Fetched(q, t) /\ Reviewed(q, t) = Fetched(q, t)
  BY <1>1, <1>2, FetchedIs
<1>4. /\ tracked' \subseteq Media
      /\ applied \subseteq applied' /\ applied' \subseteq applied \cup Fetched(q, t)
      /\ done \subseteq done' /\ done' \subseteq done \cup Fetched(q, t)
      /\ lastDay' = lastDay /\ twice' \subseteq Time
  <2>1. CASE Reflect(q, t)
    BY <1>1, <1>2, <1>3, <2>1, ReflectedIs
  <2>2. CASE UNCHANGED <<tracked, ghosts>>
    BY <1>1, <2>2 DEF TypeOK, ghosts
  <2> QED BY <2>1, <2>2
<1>5. lastSeen' \in [Media -> Mark]
  BY <1>1, <1>3, SavedIs DEF TypeOK
<1>6. Grows
  BY <1>4 DEF Grows, fixed, importing, Base, TypeOK
<1>7. TypeOK'
  BY <1>3, <1>4, <1>5 DEF Base, TypeOK, Becomes, fixed, importing
<1>8. Fetched(x, t)' = Fetched(q, t)
  BY DEF Fetched
<1>9. RunOK(p, x)'
  <2>1. /\ x.byDay <=> (p \in Importer /\ x.pc # "idle")
        /\ (p \in Importer /\ x.pc # "idle") => (script = "netflix" /\ imports = 1)'
        /\ x.pc \in {"loop", "half"} => x.asOf <= Len(history')
    BY <1>1, <1>2
  <2>2. ASSUME x.pc = "half"
        PROVE  /\ p \in Runner /\ script' # "netflix"
               /\ x.cur \in Title /\ mediaOf'[x.cur] # NoMatch /\ Fetched(x, x.cur)' # {}
               /\ (script' = "plex" => Fetched(x, x.cur)' \subseteq applied' \cap done')
    <3>1. x.cur = t /\ Fetched(x, x.cur)' = Fetched(q, t) /\ script' = script /\ mediaOf' = mediaOf
      BY <1>8, <2>2 DEF fixed
    <3>2. script = "plex" => Fetched(q, t) \subseteq applied' \cap done'
      BY <1>1, <1>3, <2>2, ReflectedIs
    <3> QED BY <1>2, <3>1, <3>2, MediaAssumption
  <2> QED BY <2>1, <2>2 DEF RunOK
<1>10. DaysOK'
  <2>1. applied' \subseteq 1..Len(history) /\ lastDay' \subseteq 1..Len(history)
    BY <1>3, <1>4 DEF Base, DaysOK
  <2> QED BY <1>4, <2>1, DaysKept DEF importing
<1> QED BY <1>6, <1>7, <1>9, <1>10, RunsKept DEF Base

LEMMA FirstInv == ASSUME Base, NEW p \in Process, ProcessFirst(p) PROVE Base' /\ Grows
<1>1. PICK q : q = run[p]
  OBVIOUS
<1>2. /\ q \in Run /\ q.pc = "loop" /\ script # "netflix" /\ q.asOf <= Len(history)
      /\ UNCHANGED <<fixed, history, walkComplete, importing, clean, interrupts>>
  BY <1>1, FirstIs, RunIs DEF Base
<1>3. PICK t \in q.todo, x \in Run :
        /\ mediaOf[t] \in Media /\ Fresh(q, t) # {}
        /\ \/ script = "crunchyroll" /\ SaveWatermark(q, t) /\ UNCHANGED <<tracked, ghosts>>
           \/ script = "plex" /\ Reflect(q, t) /\ UNCHANGED lastSeen
        /\ Becomes(p, x) /\ x.pc = "half" /\ x.cur = t /\ x.from = q.from /\ x.asOf = q.asOf
        /\ x.byDay = q.byDay
  BY <1>1, FirstIs DEF Base
<1>4. t \in Title /\ Fetched(q, t) # {}
  BY <1>2, <1>3, FetchedIs DEF Run, Base
<1> QED BY <1>1, <1>2, <1>3, <1>4, HalfInv

LEMMA SecondInv == ASSUME Base, NEW p \in Process, ProcessSecond(p) PROVE Base' /\ Grows
<1>1. PICK q : q = run[p]
  OBVIOUS
<1>2. /\ q \in Run /\ q.pc = "half" /\ script # "netflix"
      /\ UNCHANGED <<fixed, history, walkComplete, importing, clean, interrupts>>
  BY <1>1, SecondIs DEF Base
<1>3. PICK t \in Title, x \in Run :
        /\ mediaOf[t] \in Media /\ Fetched(q, t) # {}
        /\ \/ script = "crunchyroll" /\ Reflect(q, t) /\ UNCHANGED lastSeen
           \/ script = "plex" /\ SaveWatermark(q, t) /\ UNCHANGED <<tracked, ghosts>>
        /\ Becomes(p, x) /\ x.pc = "loop" /\ x.from = q.from /\ x.asOf = q.asOf /\ x.byDay = q.byDay
  BY <1>1, SecondIs DEF Base
<1> QED BY <1>1, <1>2, <1>3, HalfInv

LEMMA StartImportInv == ASSUME Base, NEW c \in Importer, StartImport(c) PROVE Base' /\ Grows
<1>1. c \in Process /\ TypeOK /\ MaxTime \in Nat /\ NoMark \in Mark /\ run[c].pc = "idle"
      /\ script = "netflix" /\ imports < MaxImports
  BY BoundAssumption DEF Process, Base, Mark, NoMark, StartImport
<1>2. imports = 0 /\ imports' = 1 /\ MaxImports = 1
  BY <1>1, BoundAssumption DEF TypeOK, StartImport
<1>3. PICK n : n = NewRun(NoMark, TRUE)
  OBVIOUS
<1>4. n \in Run /\ n.pc = "fetch"
  BY <1>1, <1>3, NewRunIs
<1>5. PICK x : x = [n EXCEPT !.byDay = TRUE]
  OBVIOUS
<1>6. x \in Run /\ x.pc = "fetch" /\ x.byDay = TRUE
  BY <1>4, <1>5 DEF Run
<1>7. Becomes(c, x)
  BY <1>1, <1>3, <1>5, <1>6, RunChange DEF StartImport
<1>8. /\ UNCHANGED <<fixed, history, tracked, lastSeen, walkComplete, ghosts, dawn, clean, interrupts>>
      /\ overlapped' \in BOOLEAN
  BY DEF StartImport, Base, TypeOK, Busy
<1>9. Grows
  BY <1>2, <1>8 DEF Grows, fixed, ghosts, Base, TypeOK
<1>10. TypeOK'
  BY <1>2, <1>7, <1>8 DEF Base, TypeOK, Becomes, fixed, ghosts
<1>11. RunOK(c, x)'
  BY <1>1, <1>2, <1>6, <1>8 DEF RunOK, fixed
<1>12. DaysOK'
  <2>1. \A d \in Importer : run[d].pc = "idle" /\ d \in Process
    <3> SUFFICES ASSUME NEW d \in Importer PROVE run[d].pc = "idle" /\ d \in Process
      OBVIOUS
    <3>1. d \in Process /\ RunOK(d, run[d])
      BY DEF Process, Base, RunsOK
    <3> QED BY <1>2, <3>1 DEF RunOK
  <2>2. lastDay' = {} /\ applied' \subseteq 1..Len(history')
    BY <1>2, <1>8 DEF Base, DaysOK, ghosts
  <2>3. \A d \in Importer : d # c => run'[d].pc = "idle"
    BY <1>7, <2>1 DEF Becomes
  <2> QED BY <1>2, <2>2, <2>3 DEF DaysOK
<1> QED BY <1>1, <1>6, <1>7, <1>9, <1>10, <1>11, <1>12, RunsKept DEF Base

LEMMA ExportInv == ASSUME Base, NEW c, ReadExport(c) PROVE Base' /\ Grows
<1>1. PICK q : q = run[c]
  OBVIOUS
<1>2. /\ c \in Importer /\ c \in Process /\ q \in Run /\ q.pc = "fetch" /\ dawn' \subseteq Time
      /\ UNCHANGED <<fixed, history, tracked, lastSeen, walkComplete, ghosts, overlapped, imports, clean, interrupts>>
  BY <1>1, ExportIs DEF Base, Process
<1>3. PICK x \in Run :
        /\ Becomes(c, x) /\ x.pc = "loop" /\ x.asOf \in 1..Len(history) /\ x.byDay = q.byDay
  BY <1>1, ExportIs DEF Base
<1>4. RunOK(c, q)
  BY <1>1, <1>2, RunIs
<1>5. Grows
  BY <1>2 DEF Grows, fixed, ghosts, Base, TypeOK
<1>6. TypeOK'
  BY <1>2, <1>3 DEF Base, TypeOK, Becomes, fixed, ghosts
<1>7. RunOK(c, x)'
  BY <1>2, <1>3, <1>4 DEF RunOK, fixed
<1>8. DaysOK'
  BY <1>1, <1>2, <1>3, DaysKept DEF Base, DaysOK, ghosts
<1> QED BY <1>2, <1>3, <1>5, <1>6, <1>7, <1>8, RunsKept DEF Base

LEMMA EndInv == ASSUME Base, NEW p \in Process, Finish(p) \/ Interrupt(p) PROVE Base' /\ Grows
<1>1. /\ UNCHANGED <<fixed, history, tracked, lastSeen, ghosts, importing>>
      /\ run' = [run EXCEPT ![p] = NoRun] /\ run[p].pc # "idle"
      /\ walkComplete' \in BOOLEAN /\ clean' \in BOOLEAN /\ interrupts' \in 0..MaxInterrupts
  <2>1. TypeOK
    BY DEF Base
  <2>2. CASE Finish(p)
    <3>1. run[p].pc = "loop" /\ run[p] \in Run
      BY <2>1, <2>2 DEF Finish, TypeOK
    <3> QED BY <2>1, <2>2, <3>1 DEF Finish, TypeOK, Run
  <2>3. CASE Interrupt(p)
    <3>1. run[p] \in Run /\ interrupts' \in 0..MaxInterrupts
      BY <2>1, <2>3, BoundAssumption DEF Interrupt, TypeOK
    <3> QED BY <2>1, <2>3, <3>1 DEF Interrupt, TypeOK, Run
  <2> QED BY <2>2, <2>3
<1>2. PICK x : x = NoRun
  OBVIOUS
<1>3. x \in Run /\ x.pc = "idle" /\ ~x.byDay
  BY <1>2, NoRunIs
<1>4. Becomes(p, x)
  BY <1>1, <1>2, <1>3, RunChange DEF Base
<1>5. Grows
  BY <1>1 DEF Grows, fixed, ghosts, importing, Base, TypeOK
<1>6. TypeOK'
  BY <1>1, <1>4 DEF Base, TypeOK, Becomes, fixed, ghosts, importing
<1>7. RunOK(p, x)'
  BY <1>3 DEF RunOK
<1>8. DaysOK'
  BY <1>1, <1>3, <1>4, DaysKept DEF Base, DaysOK, ghosts, importing
<1> QED BY <1>3, <1>4, <1>5, <1>6, <1>7, <1>8, RunsKept DEF Base

\* The steps, with those an import shares with a sync named once.
LEMMA Steps ==
  ASSUME [Next]_vars
  PROVE  \/ Watch \/ UserAdds
         \/ \E r \in Runner, forced \in BOOLEAN : Start(r, forced)
         \/ \E c \in Importer : StartImport(c)
         \/ \E p \in Process : \/ Fetch(p) \/ ReadExport(p)
                               \/ PassOver(p) \/ Skip(p) \/ ProcessAtomic(p)
                               \/ ProcessFirst(p) \/ ProcessSecond(p)
                               \/ Finish(p) \/ Interrupt(p)
         \/ UNCHANGED vars
BY Zenon DEF Next, Step, ImportStep, Process

\* The base of the invariant is kept by every step, and no step takes back an update,
\* a watch event or what was reviewed.
THEOREM BaseStep == Base /\ [Next]_vars => Base' /\ Grows
<1> SUFFICES ASSUME Base, [Next]_vars PROVE Base' /\ Grows
  OBVIOUS
<1>1. CASE Watch \/ UserAdds
  BY <1>1, UserInv
<1>2. CASE \E r \in Runner, forced \in BOOLEAN : Start(r, forced)
  BY <1>2, StartInv
<1>3. CASE \E c \in Importer : StartImport(c)
  BY <1>3, StartImportInv
<1>4. CASE \E p \in Process : Fetch(p) \/ ReadExport(p)
  BY <1>4, FetchInv, ExportInv
<1>5. CASE \E p \in Process : PassOver(p) \/ Skip(p)
  BY <1>5, PassedInv
<1>6. CASE \E p \in Process : ProcessAtomic(p)
  BY <1>6, AtomicInv
<1>7. CASE \E p \in Process : ProcessFirst(p)
  BY <1>7, FirstInv
<1>8. CASE \E p \in Process : ProcessSecond(p)
  BY <1>8, SecondInv
<1>9. CASE \E p \in Process : Finish(p) \/ Interrupt(p)
  BY <1>9, EndInv
<1>10. CASE UNCHANGED vars
  <2>1. UNCHANGED <<script, mediaOf, history, tracked, lastSeen, walkComplete, run, done, applied, twice,
                    lastDay, overlapped, dawn, imports, clean, interrupts>>
    BY <1>10 DEF vars, fixed, ghosts, importing
  <2>2. Grows
    BY <2>1 DEF Grows, Base, TypeOK
  <2>3. TypeOK'
    BY <2>1 DEF Base, TypeOK
  <2>4. RunsOK'
    BY <2>1, <2>2, RunKept DEF Base, RunsOK, TypeOK
  <2>5. DaysOK'
    BY <2>1 DEF Base, DaysOK
  <2> QED BY <2>2, <2>3, <2>4, <2>5 DEF Base
<1> QED BY <1>1, <1>2, <1>3, <1>4, <1>5, <1>6, <1>7, <1>8, <1>9, <1>10, Steps

LEMMA BaseInit == Init => Base
<1> SUFFICES ASSUME Init PROVE Base
  OBVIOUS
<1>1. MaxTime \in Nat /\ MaxImports \in Nat /\ MaxInterrupts \in Nat /\ NoMark \in Mark
  BY BoundAssumption DEF Mark, NoMark
<1>2. history = <<>> /\ Len(history) = 0
  BY DEF Init
<1>3. \A p \in Process : run[p] = NoRun
  BY DEF Init
<1>4. TypeOK
  <2>1. run \in [Process -> Run] /\ history \in Seq(Title) /\ Len(history) <= MaxTime
    BY <1>1, <1>2, NoRunIs DEF Init
  <2>2. lastSeen \in [Media -> Mark]
    BY <1>1 DEF Init
  <2>3. 0 \in 0..MaxImports /\ 0 \in 0..MaxInterrupts
    BY <1>1
  <2> QED BY <2>1, <2>2, <2>3 DEF Init, TypeOK
<1>5. RunsOK
  BY <1>3, NoRunIs DEF RunsOK, RunOK
<1>6. DaysOK
  BY <1>2, <1>3, NoRunIs DEF Init, DaysOK, Process
<1> QED BY <1>4, <1>5, <1>6 DEF Base

-----------------------------------------------------------------------------
(* A watermark is never ahead of the update it stands for.                 *)

\* What SeenIsApplied asks of one media's watermark.
Backed(m) ==
  \E i \in applied : /\ mediaOf[history[i]] = m
                     /\ lastSeen[m] \in {2 * i} \cup {Midnight(j) : j \in {i} \cap lastDay}

\* Crunchyroll's first commit has stored m's watermark, the second is to come.
Ahead(q, m) == /\ q.pc = "half" /\ mediaOf[q.cur] = m
               /\ \E i \in Fetched(q, q.cur) : lastSeen[m] = 2 * i

\* Every watermark is backed by an update, or the update is under way, or lost with
\* a run that was killed between Crunchyroll's two commits.
MarksBacked ==
  \A m \in Media : lastSeen[m] # NoMark =>
    \/ Backed(m)
    \/ /\ script = "crunchyroll"
       /\ interrupts > 0 \/ \E r \in Process : \E q \in {run[r]} : Ahead(q, m)

LEMMA BackedKept ==
  ASSUME Base, Grows, lastDay \subseteq lastDay', dawn' = dawn \/ lastDay = {},
         NEW m \in Media, lastSeen'[m] = lastSeen[m], Backed(m)
  PROVE  Backed(m)'
<1>1. PICK i \in applied : /\ mediaOf[history[i]] = m
                           /\ lastSeen[m] \in {2 * i} \cup {Midnight(j) : j \in {i} \cap lastDay}
  BY DEF Backed
<1>2. i \in applied' /\ history'[i] = history[i] /\ mediaOf' = mediaOf
  BY DEF Grows, Base, DaysOK
<1>3. dawn' = dawn => Midnight(i)' = Midnight(i)
  BY DEF Midnight, Newest
<1>4. lastSeen'[m] = 2 * i \/ (i \in lastDay' /\ lastSeen'[m] = Midnight(i)')
  BY <1>1, <1>3
<1> QED BY <1>1, <1>2, <1>4 DEF Backed

LEMMA AheadKept ==
  ASSUME Base, Grows, NEW p \in Process, NEW q, q = run[p],
         NEW m \in Media, lastSeen'[m] = lastSeen[m], Ahead(q, m)
  PROVE  Ahead(q, m)'
<1>1. q \in Run /\ q.asOf <= Len(history) /\ q.pc = "half" /\ mediaOf' = mediaOf
  BY RunIs DEF Ahead, Grows
<1>2. Fetched(q, q.cur)' = Fetched(q, q.cur)
  BY <1>1, FetchedKept DEF Base
<1> QED BY <1>1, <1>2 DEF Ahead

\* Media whose watermark a step leaves alone, unless it ends a run that was ahead.
LEMMA BackingKept ==
  ASSUME Base, Grows, MarksBacked, NEW m \in Media,
         lastSeen'[m] = lastSeen[m], lastSeen[m] # NoMark,
         lastDay \subseteq lastDay', dawn' = dawn \/ lastDay = {}, interrupts' >= interrupts, interrupts' \in Int,
         \A o \in Process : run'[o] # run[o] =>
           \/ run[o].pc # "half" \/ interrupts' > 0
           \/ \A q \in {run[o]} : Ahead(q, m) => Backed(m)'
  PROVE  \/ Backed(m)'
         \/ /\ script' = "crunchyroll"
            /\ interrupts' > 0 \/ \E r \in Process : \E q \in {run'[r]} : Ahead(q, m)'
<1>1. script' = script /\ interrupts \in Nat
  BY DEF Grows, Base, TypeOK
<1>2. CASE Backed(m)
  BY <1>2, BackedKept
<1>3. CASE script = "crunchyroll" /\ interrupts > 0
  BY <1>1, <1>3
<1>4. CASE script = "crunchyroll" /\ \E r \in Process : \E q \in {run[r]} : Ahead(q, m)
  <2>a. PICK r \in Process : \E q \in {run[r]} : Ahead(q, m)
    BY <1>4
  <2>1. PICK q \in {run[r]} : Ahead(q, m)
    BY <2>a
  <2>2. q.pc = "half"
    BY <2>1 DEF Ahead
  <2>3. CASE run'[r] = q
    BY <1>1, <1>4, <2>1, <2>3, AheadKept
  <2>4. CASE run'[r] # q
    BY <1>1, <1>4, <2>1, <2>2, <2>4
  <2> QED BY <2>3, <2>4
<1> QED BY <1>2, <1>3, <1>4 DEF MarksBacked

\* A watermark stored for an update that is committed by now is backed.
LEMMA SavedBacked ==
  ASSUME Base, NEW q \in Run, q.asOf <= Len(history), NEW t \in Title, mediaOf[t] \in Media, Fresh(q, t) # {},
         UNCHANGED <<fixed, history, dawn>>, Fresh(q, t) \subseteq applied',
         {i \in Fetched(q, t) : q.byDay /\ 2 * i > NewMark(q, t)} \subseteq lastDay',
         NEW m, m = mediaOf[t], lastSeen'[m] = NewMark(q, t)
  PROVE  Backed(m)'
<1>1. PICK i \in Fresh(q, t) : NewMark(q, t) = Stamp(q, i)
  BY NewMarkIs DEF Base
<1>2. i \in Fetched(q, t) /\ i \in Time /\ history[i] = t /\ TypeOK
  BY FetchedIs DEF Base
<1>3. history'[i] = t /\ mediaOf' = mediaOf /\ i \in applied'
  BY <1>1, <1>2 DEF fixed
<1>4. CASE ~q.byDay
  <2>1. lastSeen'[m] = 2 * i
    BY <1>1, <1>2, <1>4, StampIs
  <2> QED BY <1>3, <2>1 DEF Backed
<1>5. CASE q.byDay
  <2>1. NewMark(q, t) = Midnight(i) /\ Midnight(i) \in 1..(2 * i - 1) /\ i \in Nat
    BY <1>1, <1>2, <1>5, StampIs, MidnightIs DEF Time
  <2>2. i \in lastDay'
    BY <1>2, <1>5, <2>1
  <2>3. Midnight(i)' = Midnight(i)
    BY DEF Midnight, Newest
  <2>4. lastSeen'[m] \in {2 * i} \cup {Midnight(j)' : j \in {i} \cap lastDay'}
    BY <2>1, <2>2, <2>3
  <2> QED BY <1>3, <2>4 DEF Backed
<1> QED BY <1>4, <1>5

\* MarksBacked after a step that stores no watermark and ends no run half-way.
LEMMA MarksKept ==
  ASSUME Base, Grows, MarksBacked, UNCHANGED lastSeen,
         lastDay \subseteq lastDay', dawn' = dawn \/ lastDay = {}, interrupts' >= interrupts, interrupts' \in Int,
         \A o \in Process : run'[o] # run[o] => run[o].pc # "half" \/ interrupts' > 0
  PROVE  MarksBacked'
<1> SUFFICES ASSUME NEW m \in Media, lastSeen'[m] # NoMark
             PROVE  \/ Backed(m)'
                    \/ /\ script' = "crunchyroll"
                       /\ interrupts' > 0 \/ \E r \in Process : \E q \in {run'[r]} : Ahead(q, m)'
  BY DEF MarksBacked
<1> QED BY BackingKept

LEMMA AtomicMarks == ASSUME Base, Base', Grows, MarksBacked, NEW p \in Process, ProcessAtomic(p) PROVE MarksBacked'
<1>1. PICK q : q = run[p]
  OBVIOUS
<1>2. /\ q \in Run /\ q.pc = "loop" /\ q.asOf <= Len(history) /\ script = "netflix"
      /\ UNCHANGED <<fixed, history, walkComplete, importing, clean, interrupts>>
  BY <1>1, AtomicIs, RunIs DEF Base
<1>3. PICK t \in q.todo, x \in Run :
        /\ mediaOf[t] \in Media /\ Fresh(q, t) # {}
        /\ Reflect(q, t) /\ SaveWatermark(q, t) /\ Becomes(p, x)
  BY <1>1, AtomicIs DEF Base
<1>4. t \in Title /\ TypeOK /\ interrupts \in Nat
  BY <1>2, <1>3 DEF Run, Base, TypeOK
<1>5. Fresh(q, t) \subseteq applied' /\ lastDay \subseteq lastDay'
      /\ {i \in Fetched(q, t) : q.byDay /\ 2 * i > NewMark(q, t)} \subseteq lastDay'
  BY <1>3 DEF Reflect
<1> SUFFICES ASSUME NEW m \in Media, lastSeen'[m] # NoMark
             PROVE  \/ Backed(m)'
                    \/ /\ script' = "crunchyroll"
                       /\ interrupts' > 0 \/ \E r \in Process : \E y \in {run'[r]} : Ahead(y, m)'
  BY DEF MarksBacked
<1>6. CASE m = mediaOf[t]
  <2>1. lastSeen'[m] = NewMark(q, t)
    BY <1>2, <1>3, <1>4, <1>6, SavedIs
  <2> QED BY <1>2, <1>3, <1>4, <1>5, <1>6, <2>1, SavedBacked DEF importing
<1>7. CASE m # mediaOf[t]
  <2>1. lastSeen'[m] = lastSeen[m]
    BY <1>2, <1>3, <1>4, <1>7, SavedIs
  <2>2. \A o \in Process : run'[o] # run[o] => run[o].pc # "half"
    BY <1>1, <1>2, <1>3 DEF Becomes
  <2> QED BY <1>2, <1>4, <1>5, <2>1, <2>2, BackingKept DEF importing
<1> QED BY <1>6, <1>7

LEMMA FirstMarks == ASSUME Base, Base', Grows, MarksBacked, NEW p \in Process, ProcessFirst(p) PROVE MarksBacked'
<1>1. PICK q : q = run[p]
  OBVIOUS
<1>2. /\ q \in Run /\ q.pc = "loop" /\ q.asOf <= Len(history) /\ script # "netflix"
      /\ UNCHANGED <<fixed, history, walkComplete, importing, clean, interrupts>>
  BY <1>1, FirstIs, RunIs DEF Base
<1>3. PICK t \in q.todo, x \in Run :
        /\ mediaOf[t] \in Media /\ Fresh(q, t) # {}
        /\ \/ script = "crunchyroll" /\ SaveWatermark(q, t) /\ UNCHANGED <<tracked, ghosts>>
           \/ script = "plex" /\ Reflect(q, t) /\ UNCHANGED lastSeen
        /\ Becomes(p, x) /\ x.pc = "half" /\ x.cur = t /\ x.from = q.from /\ x.asOf = q.asOf
        /\ x.byDay = q.byDay
  BY <1>1, FirstIs DEF Base
<1>4. t \in Title /\ TypeOK /\ interrupts \in Nat /\ RunOK(p, q)
  BY <1>1, <1>2, <1>3, RunIs DEF Run, Base, TypeOK
<1>5. \A o \in Process : run'[o] # run[o] => run[o].pc # "half"
  BY <1>1, <1>2, <1>3 DEF Becomes
<1>6. CASE script = "plex"
  <2>1. Reflect(q, t) /\ UNCHANGED lastSeen
    BY <1>3, <1>6
  <2>2. lastDay \subseteq lastDay'
    BY <2>1 DEF Reflect
  <2> QED BY <1>2, <1>4, <1>5, <2>1, <2>2, MarksKept DEF importing
<1>7. CASE script = "crunchyroll"
  <2>1. SaveWatermark(q, t) /\ UNCHANGED ghosts
    BY <1>3, <1>7
  <2> SUFFICES ASSUME NEW m \in Media, lastSeen'[m] # NoMark
               PROVE  \/ Backed(m)'
                      \/ /\ script' = "crunchyroll"
                         /\ interrupts' > 0 \/ \E r \in Process : \E y \in {run'[r]} : Ahead(y, m)'
    BY DEF MarksBacked
  <2>2. CASE lastSeen'[m] = lastSeen[m]
    BY <1>2, <1>4, <1>5, <2>1, <2>2, BackingKept DEF importing, ghosts
  <2>3. CASE lastSeen'[m] # lastSeen[m]
    <3>1. m = mediaOf[t] /\ lastSeen'[m] = NewMark(q, t)
      BY <1>2, <1>3, <1>4, <2>1, <2>3, SavedIs
    <3>2. PICK i \in Fresh(q, t) : NewMark(q, t) = Stamp(q, i)
      BY <1>2, <1>3, <1>4, NewMarkIs
    <3>3. i \in Fetched(q, t) /\ i \in Time
      BY <1>2, <1>4, FetchedIs
    <3>4. ~q.byDay
      BY <1>2, <1>4 DEF RunOK
    <3>5. lastSeen'[m] = 2 * i
      BY <1>2, <1>4, <3>1, <3>2, <3>3, <3>4, StampIs
    <3>6. i \in Fetched(x, x.cur)'
      BY <1>2, <1>3, <3>3 DEF Fetched
    <3>7. Ahead(x, m)'
      BY <1>2, <1>3, <3>1, <3>5, <3>6 DEF Ahead, fixed
    <3> QED BY <1>2, <1>3, <1>7, <3>7 DEF Becomes, fixed
  <2> QED BY <2>2, <2>3
<1> QED BY <1>3, <1>6, <1>7

LEMMA SecondMarks == ASSUME Base, Base', Grows, MarksBacked, NEW p \in Process, ProcessSecond(p) PROVE MarksBacked'
<1>1. PICK q : q = run[p]
  OBVIOUS
<1>2. /\ q \in Run /\ q.pc = "half" /\ q.asOf <= Len(history) /\ script # "netflix" /\ p \in Runner
      /\ UNCHANGED <<fixed, history, walkComplete, importing, clean, interrupts>> /\ RunOK(p, q)
  BY <1>1, SecondIs, RunIs DEF Base
<1>3. PICK t \in Title, x \in Run :
        /\ t = q.cur /\ mediaOf[t] \in Media /\ Fetched(q, t) # {}
        /\ \/ script = "crunchyroll" /\ Reflect(q, t) /\ UNCHANGED lastSeen
           \/ script = "plex" /\ SaveWatermark(q, t) /\ UNCHANGED <<tracked, ghosts>>
        /\ Becomes(p, x)
  BY <1>1, SecondIs DEF Base
<1>4. TypeOK /\ interrupts \in Nat /\ p \notin Importer /\ ~q.byDay
  BY <1>2, ImporterAssumption DEF Base, TypeOK, RunOK
<1>5. /\ Fresh(q, t) = Fetched(q, t) /\ Fetched(q, t) \subseteq Time
      /\ \A i \in Fetched(q, t) : history[i] = t
  BY <1>2, <1>4, FetchedIs
<1> SUFFICES ASSUME NEW m \in Media, lastSeen'[m] # NoMark
             PROVE  \/ Backed(m)'
                    \/ /\ script' = "crunchyroll"
                       /\ interrupts' > 0 \/ \E r \in Process : \E y \in {run'[r]} : Ahead(y, m)'
  BY DEF MarksBacked
<1>6. CASE script = "crunchyroll"
  <2>1. Reflect(q, t) /\ lastSeen' = lastSeen
    BY <1>3, <1>6
  <2>2. lastDay \subseteq lastDay' /\ Fetched(q, t) \subseteq applied'
    BY <1>5, <2>1 DEF Reflect
  <2>3. Ahead(q, m) => Backed(m)'
    BY <1>2, <1>3, <1>5, <2>1, <2>2 DEF Ahead, Backed, fixed
  <2>4. \A o \in Process : run'[o] # run[o] => \A y \in {run[o]} : Ahead(y, m) => Backed(m)'
    BY <1>1, <1>3, <2>3 DEF Becomes
  <2> QED BY <1>2, <1>4, <2>1, <2>2, <2>4, BackingKept DEF importing
<1>7. CASE script = "plex"
  <2>1. SaveWatermark(q, t) /\ UNCHANGED ghosts
    BY <1>3, <1>7
  <2>2. Fetched(q, t) \subseteq applied'
    BY <1>2, <1>3, <1>7, <2>1 DEF RunOK, ghosts
  <2>3. CASE m = mediaOf[t] /\ lastSeen'[m] = NewMark(q, t)
    BY <1>2, <1>3, <1>4, <1>5, <2>1, <2>2, <2>3, SavedBacked DEF importing
  <2>4. CASE lastSeen'[m] = lastSeen[m]
    <3>1. Backed(m)
      BY <1>7, <2>4 DEF MarksBacked
    <3> QED BY <2>1, <2>4, <3>1, <1>2, BackedKept DEF importing, ghosts
  <2> QED BY <1>2, <1>3, <1>4, <1>5, <2>1, <2>3, <2>4, SavedIs
<1> QED BY <1>3, <1>6, <1>7

LEMMA EndMarks ==
  ASSUME Base, Grows, MarksBacked, NEW p \in Process, Finish(p) \/ Interrupt(p)
  PROVE  MarksBacked'
<1>1. UNCHANGED <<lastSeen, ghosts, importing>> /\ run' = [run EXCEPT ![p] = NoRun] /\ interrupts \in Nat
  BY DEF Finish, Interrupt, Base, TypeOK
<1>2. \A o \in Process : run'[o] # run[o] => o = p
  BY <1>1 DEF Base, TypeOK
<1>3. CASE Finish(p)
  <2>1. run[p].pc # "half" /\ interrupts' = interrupts
    BY <1>3 DEF Finish
  <2> QED BY <1>1, <1>2, <2>1, MarksKept DEF ghosts, importing
<1>4. CASE Interrupt(p)
  <2>1. interrupts' = interrupts + 1
    BY <1>4 DEF Interrupt
  <2> QED BY <1>1, <2>1, MarksKept DEF ghosts, importing
<1> QED BY <1>3, <1>4

LEMMA OtherMarks ==
  ASSUME Base, Grows, MarksBacked,
         \/ Watch \/ UserAdds
         \/ \E r \in Runner, forced \in BOOLEAN : Start(r, forced)
         \/ \E c \in Importer : StartImport(c)
         \/ \E p \in Process : Fetch(p) \/ ReadExport(p) \/ PassOver(p) \/ Skip(p)
         \/ UNCHANGED vars
  PROVE  MarksBacked'
<1>0. interrupts \in Nat /\ run \in [Process -> Run]
  BY DEF Base, TypeOK
<1>1. CASE Watch \/ UserAdds \/ UNCHANGED vars
  <2>1. UNCHANGED <<lastSeen, lastDay, dawn, interrupts, run>>
    BY <1>1 DEF Watch, UserAdds, vars, ghosts, importing
  <2> QED BY <1>0, <2>1, MarksKept
<1>2. CASE \E r \in Runner, forced \in BOOLEAN : Start(r, forced)
  <2>1. UNCHANGED <<lastSeen, lastDay, dawn, interrupts>>
    BY <1>2 DEF Start, ghosts
  <2>2. \A o \in Process : run'[o] # run[o] => run[o].pc # "half"
    BY <1>0, <1>2 DEF Start
  <2> QED BY <1>0, <2>1, <2>2, MarksKept
<1>3. CASE \E c \in Importer : StartImport(c)
  <2>1. UNCHANGED <<lastSeen, lastDay, dawn, interrupts>>
    BY <1>3 DEF StartImport, ghosts
  <2>2. \A o \in Process : run'[o] # run[o] => run[o].pc # "half"
    BY <1>0, <1>3 DEF StartImport
  <2> QED BY <1>0, <2>1, <2>2, MarksKept
<1>4. ASSUME NEW p \in Process, Fetch(p) \/ ReadExport(p) \/ PassOver(p) \/ Skip(p) PROVE MarksBacked'
  <2>1. UNCHANGED <<lastSeen, lastDay, interrupts>>
    BY <1>4 DEF Fetch, ReadExport, PassOver, Skip, ghosts
  <2>2. \A o \in Process : run'[o] # run[o] => run[o].pc # "half"
    BY <1>0, <1>4 DEF Fetch, ReadExport, PassOver, Skip, Next1
  <2>3. dawn' = dawn \/ lastDay = {}
    BY <1>4 DEF Fetch, ReadExport, PassOver, Skip, importing, Base, DaysOK
  <2> QED BY <1>0, <2>1, <2>2, <2>3, MarksKept
<1> QED BY <1>1, <1>2, <1>3, <1>4

LEMMA MarksStep == Base /\ MarksBacked /\ [Next]_vars => MarksBacked'
<1> SUFFICES ASSUME Base, MarksBacked, [Next]_vars PROVE MarksBacked'
  OBVIOUS
<1>1. Base' /\ Grows
  BY BaseStep
<1> QED BY <1>1, Steps, OtherMarks, AtomicMarks, FirstMarks, SecondMarks, EndMarks

\* A watermark is never ahead of the update it stands for: with any number of syncs
\* and imports running at once, and killed at any point -- except that a killed
\* Crunchyroll run may leave one behind.
THEOREM NeverAhead == Spec => []SeenIsApplied
<1>1. Init => Base /\ MarksBacked
  BY BaseInit DEF Init, MarksBacked
<1>2. Base /\ MarksBacked /\ [Next]_vars => (Base /\ MarksBacked)'
  BY BaseStep, MarksStep
<1>3. Base /\ MarksBacked => SeenIsApplied
  BY DEF MarksBacked, SeenIsApplied, Backed, Ahead, Quiet, Busy, Base, TypeOK
<1> QED BY <1>1, <1>2, <1>3, PTL DEF Spec

-----------------------------------------------------------------------------
(* One process at a time.                                                  *)

\* A user has one sync at a time (SyncPipeline's SingleFlight).
OneSync == \A r, s \in Runner : r = s

\* Unless an import and a sync were in progress together, nobody works beside another.
Alone == ~overlapped => \A p, o \in Process : (run[p].pc # "idle" /\ run[o].pc # "idle") => p = o

\* A step of a process in progress leaves it the only one.
LEMMA AloneKept ==
  ASSUME Alone, overlapped' = overlapped, NEW p \in Process, run[p].pc # "idle",
         \A o \in Process : o # p => run'[o] = run[o]
  PROVE  Alone'
BY DEF Alone

LEMMA AloneStep == ASSUME OneSync PROVE Base /\ Alone /\ [Next]_vars => Alone'
<1> SUFFICES ASSUME Base, Alone, [Next]_vars PROVE Alone'
  OBVIOUS
<1>0. run \in [Process -> Run] /\ TypeOK
  BY DEF Base, TypeOK
<1>1. CASE Watch \/ UserAdds \/ UNCHANGED vars
  <2>1. run' = run /\ overlapped' = overlapped
    BY <1>1 DEF Watch, UserAdds, vars, importing
  <2> QED BY <2>1 DEF Alone
<1>2. ASSUME NEW r \in Runner, NEW forced \in BOOLEAN, Start(r, forced) PROVE Alone'
  <2>1. overlapped' = (overlapped \/ Busy(Importer)) /\ \A o \in Process : o # r => run'[o] = run[o]
    BY <1>0, <1>2 DEF Start
  <2>2. ~overlapped' => \A o \in Process : o # r => run'[o].pc = "idle"
    BY <2>1 DEF OneSync, Busy, Process
  <2> QED BY <2>2 DEF Alone
<1>3. ASSUME NEW c \in Importer, StartImport(c) PROVE Alone'
  <2>1. overlapped' = (overlapped \/ Busy(Runner)) /\ \A o \in Process : o # c => run'[o] = run[o]
    BY <1>0, <1>3 DEF StartImport
  <2>2. imports # 1
    BY <1>0, <1>3, BoundAssumption DEF StartImport, TypeOK
  <2>3. \A d \in Importer : run[d].pc = "idle"
    <3> SUFFICES ASSUME NEW d \in Importer PROVE run[d].pc = "idle"
      OBVIOUS
    <3>1. d \in Process /\ RunOK(d, run[d])
      BY DEF Process, Base, RunsOK
    <3> QED BY <2>2, <3>1 DEF RunOK
  <2>4. ~overlapped' => \A o \in Process : o # c => run'[o].pc = "idle"
    BY <2>1, <2>3 DEF Busy, Process
  <2> QED BY <2>4 DEF Alone
<1>4. ASSUME NEW p \in Process,
             \/ Fetch(p) \/ ReadExport(p) \/ PassOver(p) \/ Skip(p) \/ Finish(p) \/ Interrupt(p)
      PROVE  Alone'
  <2>1. overlapped' = overlapped /\ run[p].pc # "idle" /\ \A o \in Process : o # p => run'[o] = run[o]
    BY <1>0, <1>4 DEF Fetch, ReadExport, PassOver, Skip, Finish, Interrupt, Next1, importing
  <2> QED BY <2>1, AloneKept
<1>5. ASSUME NEW p \in Process, ProcessAtomic(p) \/ ProcessFirst(p) \/ ProcessSecond(p) PROVE Alone'
  <2>1. PICK q : q = run[p]
    OBVIOUS
  <2>2. \E x \in Run : Becomes(p, x)
    BY <1>0, <1>5, <2>1, AtomicIs, FirstIs, SecondIs DEF Base
  <2>3. q.pc # "idle" /\ UNCHANGED importing
    BY <1>0, <1>5, <2>1, AtomicIs, FirstIs, SecondIs DEF Base
  <2> QED BY <2>1, <2>2, <2>3, AloneKept DEF Becomes, importing
<1> QED BY <1>1, <1>2, <1>3, <1>4, <1>5, Steps

-----------------------------------------------------------------------------
(* Netflix's counting.                                                     *)

\* No two titles share an AniList entry.
Distinct == \A t, u \in Title : (mediaOf[t] = mediaOf[u] /\ mediaOf[t] # NoMatch) => t = u

\* The series' watermarks a run filters by are those on record, for the titles to come.
CountOK(q) ==
  /\ q.pc = "fetch" => q.marks = lastSeen
  /\ q.pc = "loop" => \A t \in q.todo : mediaOf[t] # NoMatch => q.marks[mediaOf[t]] = lastSeen[mediaOf[t]]

\* What has been applied is behind its series' watermark, or of the last day an
\* import saw.
AppliedBehind ==
  \A i \in applied : /\ mediaOf[history[i]] # NoMatch
                     /\ i \in lastDay \/ 2 * i <= lastSeen[mediaOf[history[i]]]

Counted ==
  /\ script # "netflix" => twice = {}
  /\ (script = "netflix" /\ Distinct /\ ~overlapped) =>
       /\ AppliedBehind
       /\ \A p \in Process : \A q \in {run[p]} : CountOK(q)
       /\ twice \subseteq lastDay

LEMMA AppliedKept ==
  ASSUME Base, Grows, UNCHANGED <<applied, lastDay, lastSeen>>, AppliedBehind
  PROVE  AppliedBehind'
<1>1. \A i \in applied : history'[i] = history[i] /\ mediaOf' = mediaOf
  BY DEF Base, DaysOK, Grows
<1> QED BY <1>1 DEF AppliedBehind

\* A step of the only process in progress, or one that starts it.
LEMMA CountedKept ==
  ASSUME Base, Grows, Alone', Counted, overlapped => overlapped', UNCHANGED <<applied, lastDay, lastSeen, twice>>,
         NEW p \in Process, NEW x, Becomes(p, x),
         (x.pc # "idle" /\ script = "netflix" /\ Distinct /\ ~overlapped) => CountOK(x)'
  PROVE  Counted'
<1>1. script' = script /\ mediaOf' = mediaOf
  BY DEF Grows
<1>2. CASE script = "netflix" /\ Distinct /\ ~overlapped'
  <2>1. AppliedBehind /\ twice \subseteq lastDay /\ \A o \in Process : \A q \in {run[o]} : CountOK(q)
    BY <1>2 DEF Counted
  <2>2. AppliedBehind'
    BY <2>1, AppliedKept
  <2>3. \A o \in Process : \A q \in {run'[o]} : CountOK(q)'
    <3> SUFFICES ASSUME NEW o \in Process, NEW q, q = run'[o] PROVE CountOK(q)'
      OBVIOUS
    <3>1. CASE o = p
      BY <1>2, <3>1 DEF Becomes, CountOK
    <3>2. CASE o # p
      <4>1. CountOK(q)
        BY <2>1, <3>2 DEF Becomes
      <4> QED BY <1>1, <4>1 DEF CountOK
    <3> QED BY <3>1, <3>2
  <2> QED BY <1>1, <1>2, <2>1, <2>2, <2>3 DEF Counted
<1>3. CASE ~(script = "netflix" /\ Distinct /\ ~overlapped')
  BY <1>1, <1>3 DEF Counted, Distinct
<1> QED BY <1>2, <1>3

LEMMA AtomicCounted ==
  ASSUME Base, Base', Grows, Alone, Counted, NEW p \in Process, ProcessAtomic(p)
  PROVE  Counted'
<1>1. PICK q : q = run[p]
  OBVIOUS
<1>2. /\ q \in Run /\ q.pc = "loop" /\ q.asOf <= Len(history) /\ script = "netflix" /\ RunOK(p, q)
      /\ UNCHANGED <<fixed, history, walkComplete, importing, clean, interrupts>> /\ TypeOK
  BY <1>1, AtomicIs, RunIs DEF Base
<1>3. PICK t \in q.todo, x \in Run :
        /\ mediaOf[t] \in Media /\ Fresh(q, t) # {}
        /\ Reflect(q, t) /\ SaveWatermark(q, t) /\ Becomes(p, x)
        /\ x.pc = "loop" /\ x.todo = q.todo \ {t} /\ x.marks = q.marks
  BY <1>1, AtomicIs DEF Base
<1>4. t \in Title /\ UNCHANGED <<script, mediaOf, overlapped, history>> /\ q.todo \subseteq Title
  BY <1>2, <1>3 DEF Run, fixed, importing
<1> DEFINE m == mediaOf[t]
<1>5. CASE Distinct /\ ~overlapped
  <2>1. AppliedBehind /\ twice \subseteq lastDay /\ CountOK(q)
    BY <1>1, <1>2, <1>5 DEF Counted
  <2>2. q.marks[m] = lastSeen[m] /\ lastSeen[m] \in Mark /\ lastSeen[m] \in Int
    BY <1>2, <1>3, <2>1, MediaAssumption DEF CountOK, TypeOK, Mark
  <2>3. /\ lastSeen'[m] = NewMark(q, t) /\ NewMark(q, t) \in Mark /\ NewMark(q, t) \in Int
        /\ \A k \in Media : k # m => lastSeen'[k] = lastSeen[k]
    BY <1>2, <1>3, <1>4, SavedIs, NewMarkIs DEF Mark
  <2>4. /\ Fetched(q, t) \subseteq Time /\ Fresh(q, t) \subseteq Fetched(q, t)
        /\ \A i \in Fetched(q, t) : history[i] = t
    BY <1>2, <1>4, FetchedIs
  <2>5. \A i \in Fresh(q, t) : /\ Stamp(q, i) > lastSeen[m] /\ Stamp(q, i) <= NewMark(q, t)
                               /\ Stamp(q, i) \in 1..(2 * i) /\ (~q.byDay => Stamp(q, i) = 2 * i)
    <3>1. Fresh(q, t) = {i \in Fetched(q, t) : Stamp(q, i) > q.marks[m]}
      BY <1>2, <1>3, MediaAssumption DEF Fresh
    <3> QED BY <1>2, <1>3, <1>4, <2>2, <2>4, <3>1, NewMarkIs, StampIs
  <2>6. \A i \in Time : i \in Nat
    BY DEF Time
  <2>7. NewMark(q, t) >= lastSeen[m]
    BY <1>3, <2>2, <2>3, <2>4, <2>5, <2>6
  <2>8. \A i \in Fresh(q, t) : i \in lastDay' \/ 2 * i <= NewMark(q, t)
    <3> SUFFICES ASSUME NEW i \in Fresh(q, t), 2 * i > NewMark(q, t) PROVE i \in lastDay'
      BY <2>3, <2>4, <2>6
    <3>1. q.byDay
      BY <2>3, <2>4, <2>5, <2>6
    <3> QED BY <1>3, <2>4, <3>1 DEF Reflect
  <2>9. lastDay \subseteq lastDay' /\ applied' = applied \cup Fresh(q, t)
        /\ twice' = twice \cup (Fresh(q, t) \cap applied)
    BY <1>2, <1>3 DEF Reflect
  <2>10. AppliedBehind'
    <3> SUFFICES ASSUME NEW i \in applied'
                 PROVE  /\ mediaOf[history[i]] # NoMatch
                        /\ i \in lastDay' \/ 2 * i <= lastSeen'[mediaOf[history[i]]]
      BY <1>4 DEF AppliedBehind
    <3>1. CASE i \in Fresh(q, t)
      BY <1>3, <2>3, <2>4, <2>8, <3>1, MediaAssumption
    <3>2. CASE i \in applied
      <4>1. /\ mediaOf[history[i]] # NoMatch /\ history[i] \in Title /\ mediaOf[history[i]] \in Media
            /\ i \in lastDay \/ 2 * i <= lastSeen[mediaOf[history[i]]]
            /\ i \in Nat
        BY <1>2, <2>1, <2>6, <3>2 DEF AppliedBehind, Base, DaysOK, TypeOK
      <4>2. CASE mediaOf[history[i]] = m
        BY <2>2, <2>3, <2>7, <2>9, <4>1, <4>2
      <4>3. CASE mediaOf[history[i]] # m
        BY <2>3, <2>9, <4>1, <4>3
      <4> QED BY <4>2, <4>3
    <3> QED BY <2>9, <3>1, <3>2
  <2>11. twice' \subseteq lastDay'
    <3> SUFFICES ASSUME NEW i \in Fresh(q, t) \cap applied, i \notin lastDay PROVE FALSE
      BY <2>1, <2>9
    <3>1. 2 * i <= lastSeen[m] /\ i \in Nat
      BY <2>1, <2>4, <2>6 DEF AppliedBehind
    <3> QED BY <2>2, <2>5, <3>1
  <2>12. CountOK(x)'
    <3>1. \A u \in x.todo : mediaOf[u] # NoMatch => (mediaOf[u] # m /\ mediaOf[u] \in Media)
      BY <1>2, <1>3, <1>4, <1>5 DEF Distinct, TypeOK
    <3>2. \A u \in x.todo : mediaOf[u] # NoMatch => x.marks[mediaOf[u]] = lastSeen[mediaOf[u]]
      BY <1>2, <1>3, <2>1 DEF CountOK
    <3>3. \A u \in x.todo : mediaOf'[u] # NoMatch => x.marks[mediaOf'[u]] = lastSeen'[mediaOf'[u]]
      BY <1>4, <2>3, <3>1, <3>2
    <3> QED BY <1>3, <3>3 DEF CountOK
  <2>13. \A o \in Process : \A y \in {run'[o]} : CountOK(y)'
    <3> SUFFICES ASSUME NEW o \in Process, NEW y, y = run'[o] PROVE CountOK(y)'
      OBVIOUS
    <3>1. CASE o = p
      <4>1. y = x
        BY <1>3, <3>1 DEF Becomes
      <4> QED BY <2>12, <4>1
    <3>2. CASE o # p
      <4>1. y.pc = "idle"
        BY <1>1, <1>2, <1>3, <1>5, <3>2 DEF Alone, Becomes
      <4> QED BY <4>1 DEF CountOK
    <3> QED BY <3>1, <3>2
  <2> QED BY <1>2, <1>4, <2>10, <2>11, <2>13 DEF Counted
<1>6. CASE ~(Distinct /\ ~overlapped)
  BY <1>2, <1>4, <1>6 DEF Counted, Distinct
<1> QED BY <1>5, <1>6

LEMMA CountedStep == ASSUME OneSync PROVE Base /\ Alone /\ Counted /\ [Next]_vars => Counted'
<1> SUFFICES ASSUME Base, Alone, Counted, [Next]_vars PROVE Counted'
  OBVIOUS
<1>0. Base' /\ Grows /\ Alone' /\ TypeOK /\ run \in [Process -> Run]
  BY BaseStep, AloneStep DEF Base, TypeOK
<1>1. CASE Watch \/ UserAdds \/ UNCHANGED vars
  <2>1. UNCHANGED <<applied, lastDay, lastSeen, twice, run, script, mediaOf, overlapped>>
    BY <1>1 DEF Watch, UserAdds, vars, ghosts, fixed, importing
  <2>2. AppliedBehind => AppliedBehind'
    BY <1>0, <2>1, AppliedKept
  <2>3. \A q : CountOK(q)' <=> CountOK(q)
    BY <2>1 DEF CountOK
  <2> QED BY <2>1, <2>2, <2>3 DEF Counted, Distinct
<1>2. ASSUME NEW r \in Runner, NEW forced \in BOOLEAN, Start(r, forced) PROVE Counted'
  <2>1. PICK w \in Mark, redo \in BOOLEAN : /\ redo = (forced \/ ~walkComplete)
                                            /\ w = IF redo THEN NoMark ELSE Watermark(lastSeen)
    <3>1. NoMark \in Mark /\ Watermark(lastSeen) \in Mark
      BY <1>0, WatermarkIs, BoundAssumption DEF Mark, NoMark
    <3> QED BY <3>1
  <2>2. PICK x : x = NewRun(w, redo)
    OBVIOUS
  <2>3. x \in Run /\ x.pc = "fetch" /\ x.marks = lastSeen
    BY <1>0, <2>2, NewRunIs
  <2>4. Becomes(r, x) /\ r \in Process
    BY <1>0, <1>2, <2>1, <2>2, <2>3, RunChange DEF Start, Process
  <2>5. UNCHANGED <<applied, lastDay, lastSeen, twice>> /\ (overlapped => overlapped')
    BY <1>2 DEF Start, ghosts
  <2>6. CountOK(x)'
    BY <2>3, <2>5 DEF CountOK
  <2> QED BY <1>0, <2>4, <2>5, <2>6, CountedKept
<1>3. ASSUME NEW c \in Importer, StartImport(c) PROVE Counted'
  <2>1. PICK n : n = NewRun(NoMark, TRUE)
    OBVIOUS
  <2>a. NoMark \in Mark
    BY BoundAssumption DEF Mark, NoMark
  <2>2. n \in Run /\ n.pc = "fetch" /\ n.marks = lastSeen
    BY <1>0, <2>1, <2>a, NewRunIs
  <2>3. PICK x : x = [n EXCEPT !.byDay = TRUE]
    OBVIOUS
  <2>4. x \in Run /\ x.pc = "fetch" /\ x.marks = lastSeen
    BY <2>2, <2>3 DEF Run
  <2>5. Becomes(c, x) /\ c \in Process
    BY <1>0, <1>3, <2>1, <2>3, <2>4, RunChange DEF StartImport, Process
  <2>6. UNCHANGED <<applied, lastDay, lastSeen, twice>> /\ (overlapped => overlapped')
    BY <1>3 DEF StartImport, ghosts
  <2>7. CountOK(x)'
    BY <2>4, <2>6 DEF CountOK
  <2> QED BY <1>0, <2>5, <2>6, <2>7, CountedKept
<1>4. ASSUME NEW p \in Process, Fetch(p) \/ ReadExport(p) PROVE Counted'
  <2>1. PICK q : q = run[p]
    OBVIOUS
  <2>2. /\ q.pc = "fetch" /\ q \in Run
        /\ UNCHANGED <<applied, lastDay, lastSeen, twice, overlapped, mediaOf>>
    BY <1>0, <1>4, <2>1, FetchIs, ExportIs DEF ghosts, importing, fixed
  <2>3. PICK x \in Run : Becomes(p, x) /\ x.pc = "loop" /\ x.marks = q.marks
    BY <1>0, <1>4, <2>1, FetchIs, ExportIs
  <2>4. (script = "netflix" /\ Distinct /\ ~overlapped) => CountOK(x)'
    BY <2>1, <2>2, <2>3 DEF CountOK, Counted
  <2> QED BY <1>0, <2>2, <2>3, <2>4, CountedKept
<1>5. ASSUME NEW p \in Process, PassOver(p) \/ Skip(p) PROVE Counted'
  <2>1. PICK q : q = run[p]
    OBVIOUS
  <2>2. q.pc = "loop" /\ UNCHANGED <<applied, lastDay, lastSeen, twice, overlapped, mediaOf>>
    BY <1>0, <1>5, <2>1, PassedIs DEF importing, fixed
  <2>3. PICK t \in q.todo, x \in Run : Becomes(p, x) /\ x.pc = "loop" /\ x.todo = q.todo \ {t} /\ x.marks = q.marks
    BY <1>0, <1>5, <2>1, PassedIs
  <2>4. (script = "netflix" /\ Distinct /\ ~overlapped) => CountOK(x)'
    BY <2>1, <2>2, <2>3 DEF CountOK, Counted
  <2> QED BY <1>0, <2>2, <2>3, <2>4, CountedKept
<1>6. ASSUME NEW p \in Process, ProcessFirst(p) \/ ProcessSecond(p) PROVE Counted'
  <2>1. script # "netflix" /\ UNCHANGED <<script, mediaOf>>
    BY <1>6, <1>0 DEF ProcessFirst, ProcessSecond, Base, RunsOK, RunOK, Grows
  <2>2. twice' = twice
    BY <1>6, <2>1 DEF ProcessFirst, ProcessSecond, Reflect, ghosts
  <2> QED BY <2>1, <2>2 DEF Counted
<1>7. ASSUME NEW p \in Process, Finish(p) \/ Interrupt(p) PROVE Counted'
  <2>1. PICK x : x = NoRun
    OBVIOUS
  <2>2. x \in Run /\ x.pc = "idle" /\ run' = [run EXCEPT ![p] = x]
    BY <1>7, <2>1, NoRunIs DEF Finish, Interrupt
  <2>3. Becomes(p, x)
    BY <1>0, <2>2, RunChange
  <2>4. UNCHANGED <<applied, lastDay, lastSeen, twice, overlapped>>
    BY <1>7 DEF Finish, Interrupt, ghosts, importing
  <2> QED BY <1>0, <2>2, <2>3, <2>4, CountedKept
<1> QED BY <1>0, <1>1, <1>2, <1>3, <1>4, <1>5, <1>6, <1>7, Steps, AtomicCounted

LEMMA AloneInit == Init => Alone /\ Counted
<1> SUFFICES ASSUME Init PROVE Alone /\ Counted
  OBVIOUS
<1>1. \A p \in Process : run[p].pc = "idle"
  BY NoRunIs DEF Init
<1>2. Alone
  BY <1>1 DEF Alone
<1>3. \A p \in Process : \A q \in {run[p]} : CountOK(q)
  BY <1>1 DEF CountOK
<1>4. applied = {} /\ twice = {}
  BY DEF Init
<1> QED BY <1>2, <1>3, <1>4 DEF Counted, AppliedBehind

\* With one sync of a user at a time, Netflix's counting adds an episode to the
\* progress again only if it is of the last day an import saw of its series -- for
\* titles that share no entry, and as long as no import overlaps a sync.
THEOREM NothingCountedTwice == ASSUME OneSync PROVE Spec => []CountedOnce
<1>1. Init => Base /\ Alone /\ Counted
  BY BaseInit, AloneInit
<1>2. Base /\ Alone /\ Counted /\ [Next]_vars => (Base /\ Alone /\ Counted)'
  BY BaseStep, AloneStep, CountedStep
<1>3. Base /\ Alone /\ Counted => CountedOnce
  <2> SUFFICES ASSUME Counted, Base, Distinct, ~overlapped PROVE twice \subseteq lastDay
    BY DEF CountedOnce, Distinct
  <2> QED BY DEF Counted
<1> QED BY <1>1, <1>2, <1>3, PTL DEF Spec

-----------------------------------------------------------------------------
(* Nothing behind the watermark is lost.                                   *)

MarksUpTo(n) == \A m \in Media : lastSeen[m] <= 2 * n

\* What is behind some series' watermark has been reviewed.
AllReviewed == \A m \in Media, i \in Time : 2 * i <= lastSeen[m] => i \in done

\* A sync in progress has reviewed what it fetched except the titles to come; a full
\* walk that met the end of the history has fetched all of it.
Walked(q) ==
  /\ q.redo => q.full
  /\ (q.full /\ (q.pc = "fetch" \/ q.end)) => q.from = 0
  /\ q.pc \in {"loop", "half"} => \A i \in (q.from + 1)..q.asOf : history[i] \notin q.todo => i \in done

Held(q) == q.pc \in {"loop", "half"} => MarksUpTo(q.asOf)

\* A sync that trusts a completed walk starts at a mark behind which all was reviewed.
Trusted(q) ==
  /\ q.redo => ~walkComplete
  /\ ~q.redo => walkComplete /\ 1..q.from \subseteq done
  /\ (~q.redo /\ q.pc = "fetch") => \A m \in Media : lastSeen[m] <= 2 * q.from + 1

Underway(q) == /\ Walked(q)
               /\ ~overlapped => Held(q)
               /\ (clean /\ ~Busy(Importer)) => Trusted(q)

Reading ==
  /\ MarksUpTo(Len(history))
  /\ (overlapped /\ ~Busy(Importer)) => ~clean
  /\ \A r \in Runner : \A q \in {run[r]} : q.pc # "idle" => Underway(q)
  /\ (Quiet /\ walkComplete /\ clean) => AllReviewed

\* The marks a run stores are no newer than what it fetched.
LEMMA MarkInFetch ==
  ASSUME TypeOK, NEW q \in Run, q.asOf <= Len(history), NEW t \in Title, mediaOf[t] \in Media,
         Fresh(q, t) # {}, SaveWatermark(q, t), NEW n \in Nat, MarksUpTo(n), q.asOf <= n
  PROVE  MarksUpTo(n)'
<1>1. PICK i \in Fresh(q, t) : NewMark(q, t) = Stamp(q, i)
  BY NewMarkIs
<1>2. i \in Time /\ i <= q.asOf /\ i \in Nat /\ q.asOf \in Nat
  BY FetchedIs DEF Time, Run
<1>3. NewMark(q, t) <= 2 * n /\ NewMark(q, t) \in Int
  BY <1>1, <1>2, StampIs
<1> SUFFICES ASSUME NEW m \in Media PROVE lastSeen'[m] <= 2 * n
  BY DEF MarksUpTo
<1>4. lastSeen[m] <= 2 * n
  BY DEF MarksUpTo
<1>5. lastSeen'[m] = lastSeen[m] \/ lastSeen'[m] = NewMark(q, t)
  BY SavedIs
<1> QED BY <1>3, <1>4, <1>5

LEMMA WalkedKept ==
  ASSUME Base, Grows, NEW q \in Run, q.asOf <= Len(history) \/ q.pc = "fetch", Walked(q)
  PROVE  Walked(q)'
<1>1. q.from \in Nat /\ q.asOf \in Nat /\ Len(history) \in Nat
  BY DEF Base, TypeOK, Run
<1>2. ASSUME q.pc \in {"loop", "half"}, NEW i \in (q.from + 1)..q.asOf, history'[i] \notin q.todo
      PROVE  i \in done'
  <2>1. i \in 1..Len(history)
    BY <1>1, <1>2
  <2>2. history'[i] = history[i] /\ done \subseteq done'
    BY <2>1 DEF Grows
  <2> QED BY <1>2, <2>2 DEF Walked
<1> QED BY <1>2 DEF Walked

\* A sync goes on.
LEMMA SyncStep ==
  ASSUME OneSync, Reading, NEW r \in Runner, NEW x \in Run, Becomes(r, x), x.pc # "idle",
         MarksUpTo(Len(history))', (overlapped' /\ ~Busy(Importer)) => ~clean', Walked(x)',
         ~overlapped' => Held(x)', (clean' /\ ~Busy(Importer)) => Trusted(x)'
  PROVE  Reading'
<1>1. r \in Process /\ \A s \in Runner : s = r
  BY DEF OneSync, Process
<1>2. Busy(Importer)' <=> Busy(Importer)
  BY <1>1, ImporterAssumption DEF Busy, Becomes, Process
<1>3. ~Quiet'
  BY <1>1 DEF Quiet, Busy, Becomes
<1>4. Underway(x)'
  BY <1>2 DEF Underway
<1>5. \A s \in Runner : \A q \in {run'[s]} : Underway(q)'
  BY <1>1, <1>4 DEF Becomes
<1> QED BY <1>2, <1>3, <1>5 DEF Reading

\* An import begins, goes on or ends.
LEMMA ImportChange ==
  ASSUME Base, Base', Grows, Alone, Alone', overlapped => overlapped', Reading,
         NEW c \in Importer, NEW x \in Run, Becomes(c, x), MarksUpTo(Len(history))', x.pc = "idle" => ~clean', x.pc = "idle" => run[c].pc # "idle"
  PROVE  Reading'
<1>1. c \in Process /\ c \notin Runner
  BY ImporterAssumption DEF Process
<1>2. ASSUME NEW r \in Runner, NEW q, q = run'[r], q.pc # "idle" PROVE Underway(q)'
  <2>1. q = run[r] /\ q \in Run /\ r \in Process /\ r # c
    BY <1>1, <1>2 DEF Becomes, Process, Base, TypeOK
  <2>2. Walked(q) /\ RunOK(r, q)
    BY <1>2, <2>1, RunIs DEF Reading, Underway
  <2>3. q.asOf <= Len(history) \/ q.pc = "fetch"
    BY <1>2, <2>1, <2>2 DEF RunOK, Run
  <2>4. Walked(q)'
    BY <2>1, <2>2, <2>3, WalkedKept
  <2>5. CASE x.pc # "idle"
    <3>1. overlapped' /\ Busy(Importer)'
      BY <1>1, <1>2, <2>1, <2>5 DEF Alone, Becomes, Busy, Base, TypeOK
    <3> QED BY <2>4, <3>1 DEF Underway
  <2>6. CASE x.pc = "idle"
    <3>1. ~overlapped' => Held(q)'
      BY <1>1, <1>2, <2>1, <2>6 DEF Alone, Becomes, Base, TypeOK
    <3> QED BY <2>4, <2>6, <3>1 DEF Underway
  <2> QED BY <2>5, <2>6
<1>3. Busy(Importer)' \/ ~clean'
  BY <1>1 DEF Becomes, Busy
<1>4. Quiet' => ~Busy(Importer)'
  BY DEF Quiet, Busy, Process
<1> QED BY <1>2, <1>3, <1>4 DEF Reading

\* A title is done with by a sync, or one of its two commits is made.
LEMMA TitleDone ==
  ASSUME Base, Base', Grows, OneSync, Reading, NEW r \in Runner, NEW q, q = run[r],
         q.pc \in {"loop", "half"}, UNCHANGED <<fixed, history, walkComplete, importing, clean>>,
         NEW t \in Title, NEW x \in Run, Becomes(r, x), x.pc \in {"loop", "half"},
         x.redo = q.redo, x.full = q.full, x.end = q.end, x.from = q.from, x.asOf = q.asOf,
         x.todo = q.todo \/ (x.todo = q.todo \ {t} /\ Fetched(q, t) \subseteq done'),
         UNCHANGED lastSeen \/ (mediaOf[t] \in Media /\ Fresh(q, t) # {} /\ SaveWatermark(q, t))
  PROVE  Reading'
<1>1. q \in Run /\ q.asOf <= Len(history) /\ TypeOK /\ r \in Process /\ Underway(q)
      /\ Len(history) \in Nat /\ q.asOf \in Nat
  BY RunIs DEF Base, TypeOK, Process, Reading, Run
<1>2. MarksUpTo(Len(history))'
  <2>1. MarksUpTo(Len(history))
    BY DEF Reading
  <2>2. PICK n : n = Len(history)
    OBVIOUS
  <2>3. MarksUpTo(n)'
    BY <1>1, <2>1, <2>2, MarkInFetch DEF MarksUpTo
  <2> QED BY <2>2, <2>3 DEF MarksUpTo
<1>3. Walked(x)'
  <2>1. ASSUME NEW i \in (x.from + 1)..x.asOf, history'[i] \notin x.todo PROVE i \in done'
    <3>1. history[i] \notin q.todo => i \in done
      BY <1>1, <2>1 DEF Underway, Walked
    <3>2. history[i] = t => i \in Fetched(q, t)
      BY <2>1 DEF Fetched
    <3> QED BY <2>1, <3>1, <3>2 DEF Grows
  <2> QED BY <1>1, <2>1 DEF Underway, Walked
<1>4. ~overlapped' => Held(x)'
  <2> SUFFICES ASSUME ~overlapped' PROVE MarksUpTo(x.asOf)'
    BY DEF Held
  <2>1. MarksUpTo(q.asOf)
    BY <1>1 DEF Underway, Held, importing
  <2>2. PICK n : n = q.asOf
    OBVIOUS
  <2>3. MarksUpTo(n)'
    BY <1>1, <2>1, <2>2, MarkInFetch DEF MarksUpTo
  <2> QED BY <2>2, <2>3
<1>5. (clean' /\ ~Busy(Importer)) => Trusted(x)'
  BY <1>1 DEF Underway, Trusted, Grows
<1>6. (overlapped' /\ ~Busy(Importer)) => ~clean'
  BY DEF Reading, importing
<1> QED BY <1>2, <1>3, <1>4, <1>5, <1>6, SyncStep

LEMMA StartReading ==
  ASSUME Base, Base', Grows, OneSync, Reading, NEW r \in Runner, NEW forced \in BOOLEAN, Start(r, forced)
  PROVE  Reading'
<1>0. TypeOK /\ r \in Process /\ MaxTime \in Nat
  BY BoundAssumption DEF Base, Process
<1>1. PICK w \in Mark, redo \in BOOLEAN : /\ redo = (forced \/ ~walkComplete)
                                          /\ w = IF redo THEN NoMark ELSE Watermark(lastSeen)
  <2>1. NoMark \in Mark /\ Watermark(lastSeen) \in Mark
    BY <1>0, WatermarkIs DEF Mark, NoMark
  <2> QED BY <2>1
<1>2. PICK x : x = NewRun(w, redo)
  OBVIOUS
<1>3. x \in Run /\ x.pc = "fetch" /\ x.redo = redo /\ x.full = (w = NoMark) /\ ~x.end /\ x.from = w \div 2
  BY <1>0, <1>2, NewRunIs
<1>4. Becomes(r, x)
  BY <1>0, <1>1, <1>2, <1>3, RunChange DEF Start
<1>5. /\ UNCHANGED <<history, lastSeen, done, clean>> /\ overlapped' = (overlapped \/ Busy(Importer))
      /\ walkComplete' = (walkComplete /\ ~forced) /\ run[r].pc = "idle"
  BY DEF Start, ghosts
<1>6. Walked(x)'
  BY <1>1, <1>3 DEF Walked, NoMark
<1>7. ASSUME clean', ~Busy(Importer) PROVE Trusted(x)'
  <2>1. CASE redo
    BY <1>1, <1>3, <1>5, <2>1 DEF Trusted
  <2>2. CASE ~redo
    <3>1. Quiet /\ walkComplete /\ clean /\ ~forced
      BY <1>1, <1>5, <1>7, <2>2 DEF Quiet, Busy, OneSync, Process
    <3>2. AllReviewed /\ w = Watermark(lastSeen)
      BY <1>1, <2>2, <3>1 DEF Reading
    <3>3. w \in Nat /\ w <= 2 * (w \div 2) + 1 /\ 2 * (w \div 2) <= w /\ (w \div 2) \in Nat /\ w \div 2 <= MaxTime
      BY <1>0 DEF Mark
    <3>4. ASSUME NEW i \in 1..(w \div 2) PROVE i \in done
      <4>1. i \in Time /\ 2 * i <= w /\ w # NoMark
        BY <1>0, <3>3, <3>4 DEF Time, NoMark
      <4>2. PICK m \in Media : lastSeen[m] = w
        BY <1>0, <3>2, <4>1, WatermarkIs
      <4> QED BY <3>2, <4>1, <4>2 DEF AllReviewed
    <3>5. \A m \in Media : lastSeen[m] <= 2 * (w \div 2) + 1
      <4> SUFFICES ASSUME NEW m \in Media PROVE lastSeen[m] <= 2 * (w \div 2) + 1
        OBVIOUS
      <4>1. lastSeen[m] <= w /\ lastSeen[m] \in Int
        BY <1>0, <3>2, WatermarkIs DEF TypeOK, Mark
      <4> QED BY <3>3, <4>1
    <3> QED BY <1>3, <1>5, <2>2, <3>1, <3>4, <3>5 DEF Trusted
  <2> QED BY <2>1, <2>2
<1>8. MarksUpTo(Len(history))'
  BY <1>5 DEF Reading, MarksUpTo
<1>9. (overlapped' /\ ~Busy(Importer)) => ~clean'
  BY <1>5 DEF Reading
<1> QED BY <1>3, <1>4, <1>6, <1>7, <1>8, <1>9, SyncStep DEF Held

LEMMA FetchReading ==
  ASSUME Base, Base', Grows, OneSync, Reading, NEW r \in Runner, Fetch(r)
  PROVE  Reading'
<1>0. PICK q : q = run[r]
  OBVIOUS
<1>1. /\ q \in Run /\ q.pc = "fetch" /\ Len(history) \in Nat /\ Underway(q)
      /\ UNCHANGED <<fixed, history, tracked, lastSeen, walkComplete, ghosts, importing, interrupts>>
  BY <1>0, FetchIs DEF Base, TypeOK, Reading
<1>2. PICK x \in Run :
        /\ Becomes(r, x)
        /\ x.pc = "loop" /\ x.from = Larger(q.from, Len(history) - FetchCap) /\ x.asOf = Len(history)
        /\ \A i \in (x.from + 1)..x.asOf : history[i] \in x.todo
        /\ x.redo = q.redo /\ x.full = q.full /\ x.byDay = q.byDay /\ x.marks = q.marks
        /\ x.end => (x.from = q.from)
        /\ clean' = (clean /\ (q.redo \/ x.from = q.from))
  <2>1. TypeOK
    BY DEF Base
  <2> QED BY <1>0, <2>1, FetchIs
<1>3. Walked(x)'
  <2>1. \A i \in (x.from + 1)..x.asOf : history'[i] \in x.todo
    BY <1>1, <1>2
  <2> QED BY <1>1, <1>2, <2>1 DEF Underway, Walked
<1>4. MarksUpTo(Len(history))' /\ Held(x)'
  BY <1>1, <1>2 DEF Reading, MarksUpTo, Held
<1>5. (clean' /\ ~Busy(Importer)) => Trusted(x)'
  BY <1>1, <1>2 DEF Underway, Trusted, ghosts
<1>6. (overlapped' /\ ~Busy(Importer)) => ~clean'
  BY <1>1, <1>2 DEF Reading, importing
<1> QED BY <1>2, <1>3, <1>4, <1>5, <1>6, SyncStep

LEMMA LoopReading ==
  ASSUME Base, Base', Grows, OneSync, Reading, NEW r \in Runner,
         PassOver(r) \/ Skip(r) \/ ProcessAtomic(r) \/ ProcessFirst(r) \/ ProcessSecond(r)
  PROVE  Reading'
<1>0. PICK q : q = run[r]
  OBVIOUS
<1>1. r \in Process /\ q \in Run /\ TypeOK /\ RunsOK /\ RunOK(r, q) /\ ~q.byDay /\ q.todo \subseteq Title
  BY <1>0, RunIs, ImporterAssumption DEF Process, Base, RunOK, Run
<1>2. CASE PassOver(r) \/ Skip(r)
  <2>1. /\ q.pc = "loop" /\ q.asOf <= Len(history)
        /\ UNCHANGED <<fixed, history, lastSeen, walkComplete, importing, clean>>
    BY <1>0, <1>1, <1>2, PassedIs DEF RunOK
  <2>2. PICK t \in q.todo, x \in Run :
              /\ Becomes(r, x) /\ x.pc = "loop" /\ x.todo = q.todo \ {t}
              /\ x.redo = q.redo /\ x.full = q.full /\ x.end = q.end /\ x.from = q.from /\ x.asOf = q.asOf
              /\ done' = done \cup Reviewed(q, t)
    BY <1>0, <1>1, <1>2, PassedIs
  <2>3. t \in Title /\ Fetched(q, t) \subseteq done'
    BY <1>1, <2>1, <2>2, FetchedIs
  <2> QED BY <1>0, <2>1, <2>2, <2>3, TitleDone
<1>3. CASE ProcessAtomic(r)
  <2>1. /\ q.pc = "loop" /\ q.asOf <= Len(history)
        /\ UNCHANGED <<fixed, history, walkComplete, importing, clean>>
    BY <1>0, <1>1, <1>3, AtomicIs DEF RunOK
  <2>2. PICK t \in q.todo, x \in Run :
              /\ mediaOf[t] \in Media /\ Fresh(q, t) # {}
              /\ Reflect(q, t) /\ SaveWatermark(q, t)
              /\ Becomes(r, x) /\ x.pc = "loop" /\ x.todo = q.todo \ {t}
              /\ x.redo = q.redo /\ x.full = q.full /\ x.end = q.end /\ x.from = q.from /\ x.asOf = q.asOf
    BY <1>0, <1>1, <1>3, AtomicIs
  <2>3. t \in Title /\ Fetched(q, t) \subseteq done'
    BY <1>1, <2>1, <2>2, FetchedIs DEF Reflect
  <2> QED BY <1>0, <2>1, <2>2, <2>3, TitleDone
<1>4. CASE ProcessFirst(r)
  <2>1. /\ q.pc = "loop" /\ UNCHANGED <<fixed, history, walkComplete, importing, clean>>
    BY <1>0, <1>1, <1>4, FirstIs
  <2>2. PICK t \in q.todo, x \in Run :
              /\ mediaOf[t] \in Media /\ Fresh(q, t) # {}
              /\ \/ script = "crunchyroll" /\ SaveWatermark(q, t) /\ UNCHANGED <<tracked, ghosts>>
                 \/ script = "plex" /\ Reflect(q, t) /\ UNCHANGED lastSeen
              /\ Becomes(r, x) /\ x.pc = "half" /\ x.cur = t /\ x.todo = q.todo
              /\ x.redo = q.redo /\ x.full = q.full /\ x.end = q.end /\ x.from = q.from /\ x.asOf = q.asOf
    BY <1>0, <1>1, <1>4, FirstIs
  <2>3. t \in Title
    BY <1>1, <2>2
  <2>4. UNCHANGED lastSeen \/ (mediaOf[t] \in Media /\ Fresh(q, t) # {} /\ SaveWatermark(q, t))
    BY <2>2
  <2> QED BY <1>0, <2>1, <2>2, <2>3, <2>4, TitleDone
<1>5. CASE ProcessSecond(r)
  <2>1. /\ q.pc = "half" /\ UNCHANGED <<fixed, history, walkComplete, importing, clean>>
        /\ q.asOf <= Len(history) /\ script # "netflix"
    BY <1>0, <1>1, <1>5, SecondIs DEF RunOK
  <2>2. PICK t \in Title, x \in Run :
              /\ t = q.cur /\ mediaOf[t] \in Media /\ Fetched(q, t) # {}
              /\ \/ script = "crunchyroll" /\ Reflect(q, t) /\ UNCHANGED lastSeen
                 \/ script = "plex" /\ SaveWatermark(q, t) /\ UNCHANGED <<tracked, ghosts>>
              /\ Becomes(r, x) /\ x.pc = "loop" /\ x.todo = q.todo \ {t}
              /\ x.redo = q.redo /\ x.full = q.full /\ x.end = q.end /\ x.from = q.from /\ x.asOf = q.asOf
    BY <1>0, <1>1, <1>5, SecondIs
  <2>3. Fresh(q, t) = Fetched(q, t) /\ Reviewed(q, t) = Fetched(q, t)
    BY <1>1, <2>1, <2>2, FetchedIs
  <2>4. Fetched(q, t) \subseteq done'
    BY <1>1, <2>1, <2>2, <2>3 DEF Reflect, RunOK, ghosts
  <2>5. UNCHANGED lastSeen \/ (mediaOf[t] \in Media /\ Fresh(q, t) # {} /\ SaveWatermark(q, t))
    BY <2>2, <2>3
  <2> QED BY <1>0, <2>1, <2>2, <2>4, <2>5, TitleDone
<1> QED BY <1>2, <1>3, <1>4, <1>5

\* What a sync leaves behind when it ends or dies.
LEMMA EndReading ==
  ASSUME Base, Base', Grows, OneSync, Reading, NEW r \in Runner, Finish(r) \/ Interrupt(r)
  PROVE  Reading'
<1>0. PICK q : q = run[r]
  OBVIOUS
<1>1. /\ UNCHANGED <<fixed, history, lastSeen, ghosts, importing>> /\ q.pc # "idle"
      /\ run' = [run EXCEPT ![r] = NoRun]
  BY <1>0 DEF Finish, Interrupt
<1>2. /\ q \in Run /\ RunOK(r, q) /\ TypeOK /\ r \in Process /\ Underway(q) /\ r \notin Importer
      /\ run \in [Process -> Run] /\ q.from \in Nat /\ q.asOf \in Nat
  BY <1>0, <1>1, RunIs, ImporterAssumption DEF Base, Process, Reading, TypeOK, Run
<1>3. /\ \A p \in Process : p # r => run'[p] = run[p]
      /\ run'[r].pc = "idle"
  BY <1>1, <1>2, NoRunIs
<1>4. \A s \in Runner : run'[s].pc = "idle"
  BY <1>3 DEF OneSync
<1>5. Busy(Importer)' <=> Busy(Importer)
  BY <1>2, <1>3 DEF Busy, Process
<1>6. (overlapped' /\ ~Busy(Importer)) => ~clean'
  <2>1. (overlapped /\ ~Busy(Importer)) => ~clean
    BY DEF Reading
  <2>2. clean' => clean \/ ~overlapped
    BY DEF Finish, Interrupt
  <2> QED BY <1>1, <2>1, <2>2 DEF importing
<1>7. ASSUME ~Busy(Importer), walkComplete', clean' PROVE AllReviewed'
  <2>1. ~overlapped
    BY <1>1, <1>6, <1>7 DEF importing
  <2> SUFFICES ASSUME NEW m \in Media, NEW i \in Time, 2 * i <= lastSeen[m] PROVE i \in done
    BY <1>1 DEF AllReviewed, ghosts
  <2>2. i \in Nat /\ i >= 1 /\ lastSeen[m] \in Int
    BY <1>2 DEF Time, TypeOK, Mark
  <2>3. CASE Finish(r)
    <3>1. /\ q.pc = "loop" /\ q.todo = {}
          /\ walkComplete' = (walkComplete \/ q.end) /\ clean' = (clean \/ (q.full /\ q.end /\ ~overlapped))
      BY <1>0, <2>3 DEF Finish
    <3>2. lastSeen[m] <= 2 * q.asOf
      BY <1>2, <2>1, <3>1 DEF Underway, Held, MarksUpTo
    <3>3. i <= q.asOf
      BY <1>2, <2>2, <3>2
    <3>4. i > q.from => i \in done
      BY <1>2, <2>2, <3>1, <3>3 DEF Underway, Walked
    <3>5. CASE q.full /\ q.end
      BY <1>2, <2>2, <3>4, <3>5 DEF Underway, Walked
    <3>6. CASE ~(q.full /\ q.end)
      <4>1. Trusted(q) /\ (q.redo => q.full)
        BY <1>2, <1>7, <3>1, <3>6 DEF Underway, Walked
      <4>2. ~q.redo
        BY <1>7, <3>1, <3>6, <4>1 DEF Trusted
      <4>3. i <= q.from => i \in done
        BY <1>2, <2>2, <4>1, <4>2 DEF Trusted
      <4> QED BY <1>2, <2>2, <3>4, <4>3
    <3> QED BY <3>5, <3>6
  <2>4. CASE Interrupt(r)
    <3>1. clean /\ (q.pc = "fetch" \/ q.redo) /\ walkComplete
      BY <1>0, <1>7, <2>4 DEF Interrupt
    <3>2. Trusted(q) /\ ~q.redo /\ q.pc = "fetch"
      BY <1>2, <1>7, <3>1 DEF Underway, Trusted
    <3>3. lastSeen[m] <= 2 * q.from + 1
      BY <3>2 DEF Trusted
    <3>4. i \in 1..q.from
      BY <1>2, <2>2, <3>3
    <3> QED BY <3>2, <3>4 DEF Trusted
  <2> QED BY <2>3, <2>4
<1>8. MarksUpTo(Len(history))'
  BY <1>1 DEF Reading, MarksUpTo
<1>9. Quiet' => ~Busy(Importer)'
  BY DEF Quiet, Busy, Process
<1> QED BY <1>4, <1>5, <1>6, <1>7, <1>8, <1>9 DEF Reading

LEMMA ImportReading ==
  ASSUME Base, Base', Grows, Alone, Alone', Reading, NEW c \in Importer,
         \/ StartImport(c) \/ ReadExport(c) \/ PassOver(c) \/ Skip(c) \/ ProcessAtomic(c)
         \/ Finish(c) \/ Interrupt(c)
  PROVE  Reading'
<1>0. c \in Process /\ TypeOK /\ MarksUpTo(Len(history)) /\ Len(history) \in Nat /\ c \notin Runner
  BY ImporterAssumption DEF Process, Base, Reading, TypeOK
<1>a. PICK q : q = run[c]
  OBVIOUS
<1>1. CASE StartImport(c)
  <2>1. NoMark \in Mark
    BY BoundAssumption DEF Mark, NoMark
  <2>2. PICK n : n = NewRun(NoMark, TRUE)
    OBVIOUS
  <2>3. n \in Run /\ n.pc = "fetch"
    BY <1>0, <2>1, <2>2, NewRunIs
  <2>4. PICK x : x = [n EXCEPT !.byDay = TRUE]
    OBVIOUS
  <2>5. x \in Run /\ x.pc = "fetch"
    BY <2>3, <2>4 DEF Run
  <2>6. Becomes(c, x)
    BY <1>0, <1>1, <2>2, <2>4, <2>5, RunChange DEF StartImport
  <2>7. UNCHANGED <<lastSeen, history>> /\ (overlapped => overlapped')
    BY <1>1 DEF StartImport
  <2>8. MarksUpTo(Len(history))'
    BY <1>0, <2>7 DEF MarksUpTo
  <2> QED BY <2>5, <2>6, <2>7, <2>8, ImportChange
<1>2. CASE ReadExport(c)
  <2>1. q.pc = "fetch" /\ UNCHANGED <<lastSeen, history, overlapped>>
    BY <1>0, <1>2, <1>a, ExportIs
  <2>2. PICK x \in Run : Becomes(c, x) /\ x.pc = "loop"
    BY <1>0, <1>2, <1>a, ExportIs
  <2>3. MarksUpTo(Len(history))'
    BY <1>0, <2>1 DEF MarksUpTo
  <2> QED BY <1>a, <2>1, <2>2, <2>3, ImportChange
<1>3. CASE PassOver(c) \/ Skip(c)
  <2>1. q.pc = "loop" /\ UNCHANGED <<lastSeen, history, overlapped>>
    BY <1>0, <1>3, <1>a, PassedIs DEF importing
  <2>2. PICK x \in Run : Becomes(c, x) /\ x.pc = "loop"
    BY <1>0, <1>3, <1>a, PassedIs
  <2>3. MarksUpTo(Len(history))'
    BY <1>0, <2>1 DEF MarksUpTo
  <2> QED BY <1>a, <2>1, <2>2, <2>3, ImportChange
<1>4. CASE ProcessAtomic(c)
  <2>1. q \in Run /\ q.pc = "loop" /\ q.asOf <= Len(history) /\ UNCHANGED <<history, overlapped>>
    BY <1>0, <1>4, <1>a, AtomicIs, RunIs DEF importing
  <2>2. PICK t \in q.todo, x \in Run :
          /\ mediaOf[t] \in Media /\ Fresh(q, t) # {} /\ SaveWatermark(q, t)
          /\ Becomes(c, x) /\ x.pc = "loop"
    BY <1>0, <1>4, <1>a, AtomicIs
  <2>3. PICK n : n = Len(history)
    OBVIOUS
  <2>4. t \in Title
    BY <2>1, <2>2 DEF Run
  <2>5. MarksUpTo(n)'
    BY <1>0, <2>1, <2>2, <2>3, <2>4, MarkInFetch
  <2>6. MarksUpTo(Len(history))'
    BY <2>1, <2>3, <2>5 DEF MarksUpTo
  <2> QED BY <1>a, <2>1, <2>2, <2>6, ImportChange
<1>5. CASE Finish(c) \/ Interrupt(c)
  <2>1. /\ UNCHANGED <<lastSeen, history, overlapped>> /\ ~clean'
        /\ q.pc # "idle" /\ run' = [run EXCEPT ![c] = NoRun]
    BY <1>0, <1>5, <1>a DEF Finish, Interrupt, importing
  <2>2. PICK x : x = NoRun
    OBVIOUS
  <2>3. x \in Run /\ x.pc = "idle"
    BY <2>2, NoRunIs
  <2>4. Becomes(c, x)
    BY <1>0, <2>1, <2>2, <2>3, RunChange
  <2>5. MarksUpTo(Len(history))'
    BY <1>0, <2>1 DEF MarksUpTo
  <2> QED BY <1>a, <2>1, <2>3, <2>4, <2>5, ImportChange
<1> QED BY <1>1, <1>2, <1>3, <1>4, <1>5

LEMMA UserReading ==
  ASSUME Base, Base', Grows, Reading, Watch \/ UserAdds \/ UNCHANGED vars
  PROVE  Reading'
<1>1. UNCHANGED <<lastSeen, walkComplete, run, done, overlapped, clean>>
  BY DEF Watch, UserAdds, vars, ghosts, importing
<1>2. Len(history) <= Len(history') /\ Len(history) \in Nat /\ Len(history') \in Nat /\ lastSeen \in [Media -> Mark]
  BY DEF Grows, Base, TypeOK
<1>3. MarksUpTo(Len(history))'
  <2> SUFFICES ASSUME NEW m \in Media PROVE lastSeen[m] <= 2 * Len(history')
    BY <1>1 DEF MarksUpTo
  <2>1. lastSeen[m] <= 2 * Len(history) /\ lastSeen[m] \in Int
    BY <1>2 DEF Reading, MarksUpTo, Mark
  <2> QED BY <1>2, <2>1
<1>4. ASSUME NEW r \in Runner, NEW q, q = run[r], q.pc # "idle" PROVE Underway(q)'
  <2>1. q \in Run /\ RunOK(r, q) /\ Underway(q)
    BY <1>4, RunIs DEF Reading, Process
  <2>2. q.asOf <= Len(history) \/ q.pc = "fetch"
    BY <1>4, <2>1 DEF RunOK, Run
  <2>3. Walked(q)'
    BY <2>1, <2>2, WalkedKept DEF Underway
  <2> QED BY <1>1, <2>1, <2>3 DEF Underway, Held, MarksUpTo, Trusted, Busy
<1>5. (overlapped' /\ ~Busy(Importer)') => ~clean'
  BY <1>1 DEF Reading, Busy
<1>6. (Quiet' /\ walkComplete' /\ clean') => AllReviewed'
  BY <1>1 DEF Reading, Quiet, Busy, AllReviewed
<1> QED BY <1>1, <1>3, <1>4, <1>5, <1>6 DEF Reading

LEMMA ReadingStep == ASSUME OneSync PROVE Base /\ Alone /\ Reading /\ [Next]_vars => Reading'
<1> SUFFICES ASSUME Base, Alone, Reading, [Next]_vars PROVE Reading'
  OBVIOUS
<1>0. Base' /\ Grows /\ Alone'
  BY BaseStep, AloneStep
<1>1. CASE Watch \/ UserAdds \/ UNCHANGED vars
  BY <1>0, <1>1, UserReading
<1>2. CASE \E r \in Runner : \/ \E forced \in BOOLEAN : Start(r, forced)
                             \/ Step(r) \/ Interrupt(r)
  BY <1>0, <1>2, StartReading, FetchReading, LoopReading, EndReading DEF Step
<1>3. CASE \E c \in Importer : StartImport(c) \/ ImportStep(c) \/ Interrupt(c)
  BY <1>0, <1>3, ImportReading DEF ImportStep
<1> QED BY <1>1, <1>2, <1>3 DEF Next

LEMMA ReadingInit == Init => Reading
<1> SUFFICES ASSUME Init PROVE Reading
  OBVIOUS
<1>1. \A p \in Process : run[p].pc = "idle"
  BY NoRunIs DEF Init
<1>2. Len(history) = 0 /\ \A m \in Media : lastSeen[m] = 0
  BY DEF Init, NoMark
<1> QED BY <1>1, <1>2 DEF Init, Reading, MarksUpTo, Process

\* With one sync of a user at a time, whatever the length of the history, the number
\* of pages fetched, the imports and the kills: everything behind the watermark the
\* next incremental sync would start from has been reviewed, provided that no sync
\* that trusted a completed walk was cut short and no import ended since the last
\* full walk.
THEOREM NothingLost == ASSUME OneSync PROVE Spec => []NothingBehindWatermark
<1>1. Init => Base /\ Alone /\ Reading
  BY BaseInit, AloneInit, ReadingInit
<1>2. Base /\ Alone /\ Reading /\ [Next]_vars => (Base /\ Alone /\ Reading)'
  BY BaseStep, AloneStep, ReadingStep
<1>3. Base /\ Reading => NothingBehindWatermark
  <2> SUFFICES ASSUME Base, Reading, Quiet, walkComplete, clean PROVE Behind(Watermark(lastSeen)) \subseteq done
    BY DEF NothingBehindWatermark, Base
  <2>1. AllReviewed /\ TypeOK
    BY DEF Reading, Base
  <2> SUFFICES ASSUME NEW i \in Time, 2 * i <= Watermark(lastSeen) PROVE i \in done
    BY DEF Behind
  <2>2. Watermark(lastSeen) # NoMark
    BY DEF NoMark, Time
  <2>3. PICK m \in Media : lastSeen[m] = Watermark(lastSeen)
    BY <2>1, <2>2, WatermarkIs
  <2> QED BY <2>1, <2>3 DEF AllReviewed
<1> QED BY <1>1, <1>2, <1>3, PTL DEF Spec
=============================================================================
