---------------------------- MODULE AlertsProofs ----------------------------
(***************************************************************************)
(* Proofs about the hourly and daily jobs, for any users, series, titles,  *)
(* overlapping checks and bounds: who is alerted how often, that an        *)
(* availability or health signal is raised once, and that a title's rows   *)
(* are those of its last committed check.  The components share no         *)
(* variable, so each has an invariant of its own and the others' steps     *)
(* leave it alone.                                                         *)
(***************************************************************************)
EXTENDS MCAlerts, FiniteSetTheorems, WellFoundedInduction, TLAPS

-----------------------------------------------------------------------------
(* The invariant of the catalogue's refreshes.                             *)

CTInv ==
  /\ CatalogueTypeOK
  /\ updates \in Nat /\ errors \in Nat

\* What is written and not committed belongs to the title in hand.
InHand ==
  /\ pass.pc = "title" => pass.cur \in Id /\ pass.left \subseteq Part
  /\ pass.pc # "title" => pass.dirty = {}
  /\ \A d \in pass.dirty : d[1] = pass.cur /\ d[2] \in Part

CInv == CTInv /\ InHand /\ CheckedTogether

-----------------------------------------------------------------------------
(* The invariant of the availability and health signals.                   *)

Row == [title: Title, has: BOOLEAN, had: Had, sent: BOOLEAN]

STInv ==
  /\ SignalsTypeOK
  /\ gains \in [Title -> Nat] /\ alerts \in [Title -> Nat] /\ overlaps \in Nat
  /\ fresh \subseteq Signal /\ repeats \in Nat
  /\ flips \in Nat /\ checks \in Nat /\ crashes \in Nat

\* The alerts that checks under way are going to send of t.
Coming(t) == {x \in Checker \X Row : x[2] \in scan[x[1]] /\ x[2].title = t
                                   /\ x[2].had = "no" /\ x[2].has /\ ~x[2].sent}

\* A check under way has seen t gain its link, or is about to record that it has none.
Rising(t) == \E c \in Checker : \E r \in scan[c] : r.title = t /\ r.had = "no" /\ r.has
Sinking(t) == \E c \in Checker : \E r \in scan[c] :
                r.title = t /\ ~r.has /\ (r.had = "yes" \/ (r.had = "none" /\ ledger[t] = "none"))

\* The next check may find a link where the ledger says there was none.
Armed(t) == t \in streams /\ (Sinking(t) \/ (ledger[t] = "no" /\ ~Rising(t)))

\* Alerts sent, about to be sent and still to come are paid for by links that
\* appeared, overlapping checks and crashes.
Budget(t) == gains[t] + overlaps + crashes

PaidFor(t) ==
  /\ IsFiniteSet(Coming(t))
  /\ alerts[t] + Cardinality(Coming(t)) <= Budget(t)
  /\ Armed(t) => alerts[t] + Cardinality(Coming(t)) + 1 <= Budget(t)

Paid == \A t \in Title : PaidFor(t)

\* The next comparison of s will find it changed, though nothing changed it.
Forgotten(s) ==
  /\ s \notin fresh /\ Value(s) # 0
  /\ IF health.pc = "store" /\ health.at = s THEN health.value # Value(s) ELSE alarm[s] # Value(s)

Forgetful == {s \in Signal : Forgotten(s)}

RepeatsPaid ==
  /\ repeats <= crashes
  /\ Forgetful # {} => repeats + 1 <= crashes
  /\ Forgetful = Signal => repeats + 2 <= crashes

SInv == STInv /\ Paid /\ RepeatsPaid

-----------------------------------------------------------------------------
(* The invariant of the episode alerts.                                    *)

ATInv ==
  /\ AiringTypeOK
  /\ raced \in [Follower -> SUBSET Key] /\ shown \in [Follower -> SUBSET Key]
  /\ moves \in Nat /\ edits \in Nat /\ visits \in Nat /\ outages \in Nat

\* Between turns no alert is without its rows; an alert out has its row or is
\* waiting for it, or the job that sent it died.
Once ==
  /\ check.pc # "mark" => check.rows = {}
  /\ \A u \in Follower, k \in Key :
       /\ sent[<<u, k>>] <= 1 + outages
       /\ k \notin Range(log[u]) /\ <<u, k>> \notin check.rows => sent[<<u, k>>] <= outages

\* What a digest has looked at, and what the one being built covers.
Digested == \A u \in Follower :
  /\ \A i \in 1..seen[u] : log[u][i] \in shown[u] \cup raced[u]
  /\ visit[u] # NoVisit => \A i \in 1..Len(log[u]) : log[u][i] \in shown[u] \cup raced[u]

\* Until a refresh is compared with what was there before, followers know that.
Informed == outages = 0 =>
  /\ refresh.pc = "fetch" => refresh.before = cache
  /\ \A u \in Follower, k \in Key :
       Follows(u, k) /\ cache[k] # NoRow /\ (refresh.pc = "diff" => refresh.before[k] = cache[k])
         => told[<<u, k>>] = cache[k]

AInv == ATInv /\ Once /\ Digested /\ Informed

-----------------------------------------------------------------------------
(* What the catalogue's operators give.                                    *)

LEMMA LongestNat == Longest \in Nat
<1>1. ASSUME NEW a \in Nat, NEW b \in Nat, NEW c \in Nat, NEW d \in Nat
      PROVE  \E x \in {a, b, c, d} : \A y \in {a, b, c, d} : x >= y
  OBVIOUS
<1>2. {FillerAgain, FillerRetry, MangaAgain, MangaRetry} \subseteq Nat
  BY CatalogueAssumption
<1>3. \E x \in {FillerAgain, FillerRetry, MangaAgain, MangaRetry} :
        \A y \in {FillerAgain, FillerRetry, MangaAgain, MangaRetry} : x >= y
  BY <1>1, <1>2
<1> QED BY <1>2, <1>3 DEF Longest, Max

\* Finite sets of naturals have a least element: one below which there are fewest.
LEMMA MinIn ==
  ASSUME NEW S \in SUBSET Nat, S # {}, IsFiniteSet(S)
  PROVE  Min(S) \in S
<1> DEFINE Below(x) == {y \in S : y < x}
           Belows == {Below(x) : x \in S}
<1>1. Belows \subseteq FiniteSubsetsOf(S)
  <2>1. \A x \in S : Below(x) \in SUBSET S
    OBVIOUS
  <2>2. \A U \in SUBSET S : IsFiniteSet(U)
    BY FS_Subset
  <2> QED BY <2>1, <2>2 DEF FiniteSubsetsOf
<1>2. PICK B \in Belows : \A C \in Belows : ~ (<<C, B>> \in StrictSubsetOrdering(S))
  <2>1. Belows # {}
    OBVIOUS
  <2>2. IsWellFoundedOn(StrictSubsetOrdering(S), FiniteSubsetsOf(S))
    BY FS_StrictSubsetOrderingWellFounded
  <2> HIDE DEF Belows
  <2> QED BY <1>1, <2>1, <2>2, WFMin
<1>3. PICK x \in S : B = Below(x)
  BY <1>2
<1>4. \A y \in S : x <= y
  <2>1. SUFFICES ASSUME NEW y \in S, y < x PROVE FALSE
    OBVIOUS
  <2>2. Below(y) \subseteq Below(x) /\ y \in Below(x) /\ y \notin Below(y)
    <3>1. x \in Nat /\ y \in Nat /\ \A z \in S : z \in Nat
      OBVIOUS
    <3>2. \A z \in S : z < y => z < x
      BY <2>1, <3>1
    <3>3. ~ (y < y)
      BY <3>1
    <3> QED BY <2>1, <3>2, <3>3, Zenon
  <2>3. Below(y) \in Belows /\ Below(y) \in SUBSET S /\ B \in SUBSET S
    BY <1>3
  <2> HIDE DEF Below
  <2>4. <<Below(y), B>> \in StrictSubsetOrdering(S)
    BY <1>3, <2>2, <2>3 DEF StrictSubsetOrdering
  <2> QED BY <1>2, <2>3, <2>4
<1> QED BY <1>4 DEF Min

LEMMA ReachedIn ==
  ASSUME pass.reached \in 0..Reach
  PROVE  Reached \in 0..Reach
<1>1. Reach \in Nat
  BY CatalogueAssumption
<1>2. ASSUME NEW a \in Nat, NEW b \in Nat
      PROVE  \E x \in {a, b} : \A y \in {a, b} : x <= y
  OBVIOUS
<1>3. pass.reached + 1 \in Nat
  BY <1>1
<1>4. \E x \in {Reach, pass.reached + 1} : \A y \in {Reach, pass.reached + 1} : x <= y
  BY <1>1, <1>2, <1>3
<1>5. Reached \in {Reach, pass.reached + 1} /\ Reached <= Reach
  BY <1>1, <1>3, <1>4 DEF Reached, Min
<1> QED BY <1>1, <1>3, <1>5

\* Rows put into a table stay in its range, and hide no row that was there.
LEMMA WrittenRows ==
  ASSUME NEW f \in Data, NEW d \in SUBSET (Id \X AllParts \X (0..MaxVersion))
  PROVE  /\ Written(f, d) \in Data
         /\ \A t \in Id, p \in AllParts : f[t][p] # Absent => Written(f, d)[t][p] # Absent
         /\ \A t \in Id, p \in AllParts, v \in 0..MaxVersion :
              <<t, p, v>> \in d => Written(f, d)[t][p] # Absent
<1> DEFINE In(t, p) == \E v \in 0..MaxVersion : <<t, p, v>> \in d
<1>0. MaxVersion \in Nat /\ Absent = -1
  BY CatalogueAssumption DEF Absent
<1>1. \A t \in Id, p \in AllParts :
        Written(f, d)[t][p] = IF In(t, p) THEN CHOOSE v \in 0..MaxVersion : <<t, p, v>> \in d ELSE f[t][p]
  BY DEF Written
<1>2. \A t \in Id, p \in AllParts : In(t, p) => Written(f, d)[t][p] \in 0..MaxVersion
  BY <1>1
<1>3. \A t \in Id, p \in AllParts : f[t][p] \in Absent..MaxVersion
  BY DEF Data
<1>4. \A t \in Id, p \in AllParts : Written(f, d)[t][p] \in Absent..MaxVersion
  <2>1. SUFFICES ASSUME NEW t \in Id, NEW p \in AllParts
                 PROVE  Written(f, d)[t][p] \in Absent..MaxVersion
    OBVIOUS
  <2>2. CASE In(t, p)
    BY <1>0, <1>2, <2>2
  <2>3. CASE ~In(t, p)
    BY <1>1, <1>3, <2>3
  <2> QED BY <2>2, <2>3
<1>5. Written(f, d) \in Data
  <2>1. /\ Written(f, d) = [t \in Id |-> Written(f, d)[t]]
        /\ \A t \in Id : Written(f, d)[t] = [p \in AllParts |-> Written(f, d)[t][p]]
    BY DEF Written
  <2>2. \A t \in Id : Written(f, d)[t] \in [AllParts -> Absent..MaxVersion]
    BY <2>1, <1>4
  <2> QED BY <2>1, <2>2 DEF Data
<1>6. \A t \in Id, p \in AllParts : In(t, p) => Written(f, d)[t][p] # Absent
  BY <1>0, <1>2
<1>7. \A t \in Id, p \in AllParts : f[t][p] # Absent => Written(f, d)[t][p] # Absent
  BY <1>1, <1>6
<1>8. \A t \in Id, p \in AllParts, v \in 0..MaxVersion :
        <<t, p, v>> \in d => Written(f, d)[t][p] # Absent
  BY <1>6
<1> QED BY <1>5, <1>7, <1>8

-----------------------------------------------------------------------------
(* The catalogue's refreshes keep their invariant.                         *)

Pass == [pc: {"idle", "loop", "title"}, due: SUBSET Id, cur: Id \cup {0}, left: SUBSET AllParts,
         dirty: SUBSET (Id \X AllParts \X (0..MaxVersion)), reached: 0..Reach]

LEMMA ConstantsC ==
  /\ Reach \in Nat /\ MaxVersion \in Nat /\ MaxUpdates \in Nat /\ MaxErrors \in Nat
  /\ Id \subseteq Nat /\ IsFiniteSet(Id) /\ Longest \in Nat /\ Absent = -1
BY CatalogueAssumption, LongestNat DEF Absent

LEMMA CatalogueInitInv ==
  ASSUME CatalogueInit
  PROVE  CInv
<1> USE ConstantsC
<1>1. Nothing \in Data
  BY DEF Nothing, Data
<1>2. remote \in Data
  <2>1. PICK known \in SUBSET Id :
          remote = [t \in Id |-> [p \in AllParts |-> IF t \in known /\ p \in Part THEN 0 ELSE Absent]]
    BY DEF CatalogueInit
  <2>2. \A t \in Id : [p \in AllParts |-> IF t \in known /\ p \in Part THEN 0 ELSE Absent]
                        \in [AllParts -> Absent..MaxVersion]
    OBVIOUS
  <2> QED BY <2>1, <2>2 DEF Data
<1>3. state \in [Id -> [found: BOOLEAN, age: Absent..Longest]]
  BY DEF CatalogueInit
<1>4. pass \in Pass
  BY DEF CatalogueInit, NoPass, Pass
<1>5. CTInv
  BY <1>1, <1>2, <1>3, <1>4 DEF CatalogueInit, CTInv, CatalogueTypeOK, Pass
<1>6. InHand
  BY DEF CatalogueInit, InHand, NoPass
<1>7. CheckedTogether
  BY <1>5 DEF CatalogueInit, CheckedTogether, CTInv
<1> QED BY <1>5, <1>6, <1>7 DEF CInv

\* A step that leaves the tables alone changes what is in hand only.
LEMMA CatalogueHands ==
  ASSUME CInv, UNCHANGED <<script, remote, stored, state, asOf>>,
         NEW q \in Pass, pass' = q, updates' \in Nat, errors' \in Nat,
         q.pc = "title" => q.cur \in Id /\ q.left \subseteq Part,
         q.pc # "title" => q.dirty = {},
         \A d \in q.dirty : d[1] = q.cur /\ d[2] \in Part
  PROVE  CInv'
<1>1. Part' = Part
  BY DEF Part
<1>2. CTInv'
  BY DEF CInv, CTInv, CatalogueTypeOK, Pass
<1>3. InHand'
  BY <1>1 DEF InHand
<1>4. CheckedTogether'
  BY <1>1, <1>2 DEF CInv, CTInv, CheckedTogether
<1> QED BY <1>2, <1>3, <1>4 DEF CInv

LEMMA CatalogueStepInv ==
  ASSUME CInv, CatalogueNext
  PROVE  CInv'
<1> USE ConstantsC
<1>1. /\ script \in {"filler", "manga"}
      /\ remote \in Data /\ stored \in Data /\ asOf \in Data
      /\ state \in [Id -> [found: BOOLEAN, age: Absent..Longest]]
      /\ pass \in Pass /\ updates \in Nat /\ errors \in Nat
  BY DEF CInv, CTInv, CatalogueTypeOK, Pass
<1>2. /\ Part \subseteq AllParts
      /\ \A q \in Pass : /\ q.pc \in {"idle", "loop", "title"} /\ q.due \subseteq Id
                         /\ q.cur \in Id \cup {0} /\ q.left \subseteq AllParts
                         /\ q.dirty \subseteq Id \X AllParts \X (0..MaxVersion)
                         /\ q.reached \in 0..Reach
  BY DEF Part, AllParts, Pass
<1>3. InHand /\ stored = asOf
      /\ \A t \in Id : state[t].found => state[t].age # Absent /\ \E p \in Part : stored[t][p] # Absent
  BY DEF CInv, CheckedTogether
<1>a. ASSUME NEW t \in Id, NEW p \in AllParts, NEW v \in Absent..MaxVersion, Publish(t, p, v)
      PROVE  CInv'
  <2>1. remote' \in Data
    <3>1. remote[t] \in [AllParts -> Absent..MaxVersion]
      BY <1>1 DEF Data
    <3>2. [remote[t] EXCEPT ![p] = v] \in [AllParts -> Absent..MaxVersion]
      BY <3>1
    <3> QED BY <1>1, <1>a, <3>2 DEF Publish, Data
  <2>2. Part' = Part /\ UNCHANGED <<script, stored, state, pass, asOf, errors>> /\ updates' \in Nat
    BY <1>1, <1>a DEF Publish, Part
  <2>3. CTInv'
    BY <1>1, <2>1, <2>2 DEF CTInv, CatalogueTypeOK, Pass
  <2>4. InHand'
    BY <1>3, <2>2 DEF InHand
  <2> QED BY <1>3, <2>2, <2>3, <2>4 DEF CInv, CheckedTogether, CTInv
<1>b. CASE Begin
  <2>1. PICK st : st = [t \in Id |-> IF state[t].age \in {Absent, Longest} THEN state[t]
                                     ELSE [state[t] EXCEPT !.age = @ + 1]]
    OBVIOUS
  <2>2. \A t \in Id : /\ st[t] \in [found: BOOLEAN, age: Absent..Longest]
                      /\ st[t].found = state[t].found /\ (state[t].age # Absent => st[t].age # Absent)
    <3>1. SUFFICES ASSUME NEW t \in Id
                   PROVE  /\ st[t] \in [found: BOOLEAN, age: Absent..Longest]
                          /\ st[t].found = state[t].found /\ (state[t].age # Absent => st[t].age # Absent)
      OBVIOUS
    <3>2. PICK a \in Absent..Longest, f \in BOOLEAN : state[t] = [found |-> f, age |-> a]
      BY <1>1
    <3>3. CASE a \in {Absent, Longest}
      BY <1>1, <2>1, <3>2, <3>3
    <3>4. CASE a \notin {Absent, Longest}
      <4>1. st[t] = [found |-> f, age |-> a + 1]
        BY <2>1, <3>2, <3>4
      <4>2. a + 1 \in Absent..Longest /\ a + 1 # Absent
        BY <3>4
      <4> QED BY <3>2, <4>1, <4>2
    <3> QED BY <3>3, <3>4
  <2>3. st \in [Id -> [found: BOOLEAN, age: Absent..Longest]]
    BY <2>1, <2>2
  <2>4. PICK D \in SUBSET Id : D = {t \in Id : IsDue(st[t])}
    OBVIOUS
  <2>5. /\ state' = st /\ UNCHANGED <<script, remote, stored, asOf, updates, errors>>
        /\ pass' = [NoPass EXCEPT !.pc = "loop", !.due = D]
    BY <1>b, <2>1, <2>4 DEF Begin
  <2>6. pass' = [pc |-> "loop", due |-> D, cur |-> 0, left |-> {}, dirty |-> {}, reached |-> 0]
    BY <2>5 DEF NoPass
  <2>7. pass' \in Pass
    BY <2>6 DEF Pass
  <2>8. CTInv'
    BY <1>1, <2>3, <2>5, <2>7 DEF CTInv, CatalogueTypeOK, Pass
  <2>9. InHand'
    BY <2>6 DEF InHand
  <2>10. \A t \in Id : st[t].found => st[t].age # Absent /\ \E p \in Part' : stored'[t][p] # Absent
    BY <1>3, <2>2, <2>5 DEF Part
  <2>11. CheckedTogether'
    BY <1>3, <2>5, <2>8, <2>10 DEF CheckedTogether, CTInv
  <2> QED BY <2>8, <2>9, <2>11 DEF CInv
<1>c. CASE NextTitle
  <2>1. pass.due \in SUBSET Nat /\ pass.due # {} /\ IsFiniteSet(pass.due)
    BY <1>1, <1>2, <1>c, FS_Subset DEF NextTitle
  <2>2. PICK m : m = Min(pass.due)
    OBVIOUS
  <2>3. m \in Id
    BY <1>1, <1>2, <2>1, <2>2, MinIn
  <2>4. PICK q : q = [pass EXCEPT !.pc = "title", !.cur = m, !.due = @ \ {m}, !.left = Part]
    OBVIOUS
  <2>5. q \in Pass /\ q.pc = "title" /\ q.cur = m /\ q.left = Part /\ q.dirty = pass.dirty
    BY <1>1, <1>2, <2>3, <2>4 DEF Pass
  <2>6. pass.dirty = {}
    BY <1>3, <1>c DEF InHand, NextTitle
  <2>7. pass' = q /\ UNCHANGED <<script, remote, stored, state, asOf, updates, errors>>
    BY <1>c, <2>2, <2>4 DEF NextTitle
  <2> QED BY <1>1, <2>3, <2>5, <2>6, <2>7, CatalogueHands
<1>d. ASSUME NEW p \in Part, Lookup(p)
      PROVE  CInv'
  <2>1. PICK t \in Id : t = pass.cur
    BY <1>3, <1>d DEF Lookup, InHand
  <2>2. PICK v \in Absent..MaxVersion : v = remote[t][p]
    <3>1. p \in AllParts /\ remote[t] \in [AllParts -> Absent..MaxVersion]
      BY <1>1, <1>2 DEF Data
    <3>2. remote[t][p] \in Absent..MaxVersion
      BY <3>1
    <3> QED BY <3>2
  <2>3. PICK D : D = IF v = Absent THEN pass.dirty ELSE pass.dirty \cup {<<t, p, v>>}
    OBVIOUS
  <2>4. /\ D \in SUBSET (Id \X AllParts \X (0..MaxVersion))
        /\ \A d \in D : d[1] = t /\ d[2] \in Part
    <3>1. /\ pass.dirty \in SUBSET (Id \X AllParts \X (0..MaxVersion))
          /\ \A d \in pass.dirty : d[1] = t /\ d[2] \in Part
      BY <1>1, <1>2, <1>3, <2>1 DEF InHand
    <3>2. CASE v = Absent
      BY <2>3, <3>1, <3>2
    <3>3. CASE v # Absent
      <4>1. v \in 0..MaxVersion
        BY <3>3
      <4>2. <<t, p, v>> \in Id \X AllParts \X (0..MaxVersion)
        BY <1>2, <4>1
      <4> QED BY <2>3, <3>1, <3>3, <4>2
    <3> QED BY <3>2, <3>3
  <2>5. PICK q : q = [pass EXCEPT !.left = @ \ {p}, !.dirty = D]
    OBVIOUS
  <2>6. /\ q \in Pass /\ q.pc = "title" /\ q.cur = t
        /\ q.left \subseteq Part /\ q.dirty = D
    BY <1>1, <1>2, <1>3, <1>d, <2>1, <2>4, <2>5 DEF Pass, InHand, Lookup
  <2>7. pass' = q /\ UNCHANGED <<script, remote, stored, state, asOf, updates, errors>>
    BY <1>d, <1>1, <2>1, <2>2, <2>3, <2>5 DEF Lookup, Pass
  <2> QED BY <1>1, <2>1, <2>4, <2>6, <2>7, CatalogueHands
<1>e. CASE Commit
  <2>1. PICK t \in Id : t = pass.cur
    BY <1>3, <1>e DEF Commit, InHand
  <2>2. PICK D \in SUBSET (Id \X AllParts \X (0..MaxVersion)) : D = pass.dirty
    BY <1>1, <1>2
  <2>3. /\ \A d \in D : d[1] = t /\ d[2] \in Part
        /\ {d \in D : d[1] = t} = D
    BY <1>3, <2>1, <2>2 DEF InHand
  <2>4. PICK r \in 0..Reach : r = Reached
    BY <1>1, <1>2, ReachedIn
  <2>5. PICK F : F = Written(stored, D)
    OBVIOUS
  <2>6. /\ stored' = F /\ asOf' = F /\ UNCHANGED <<script, remote, updates, errors>>
        /\ state' = [state EXCEPT ![t] = [found |-> D # {}, age |-> 0]]
        /\ pass' = [pass EXCEPT !.pc = "loop", !.cur = 0, !.dirty = {}, !.reached = r]
    BY <1>3, <1>e, <2>1, <2>2, <2>3, <2>4, <2>5 DEF Commit
  <2>7. /\ F \in Data
        /\ \A s \in Id, p \in AllParts : stored[s][p] # Absent => F[s][p] # Absent
        /\ \A s \in Id, p \in AllParts, v \in 0..MaxVersion : <<s, p, v>> \in D => F[s][p] # Absent
    BY <1>1, <2>5, WrittenRows
  <2>8. pass' \in Pass /\ pass'.pc = "loop" /\ pass'.dirty = {}
    BY <1>1, <1>2, <2>6 DEF Pass
  <2>9. state' \in [Id -> [found: BOOLEAN, age: Absent..Longest]]
    <3>1. [found |-> D # {}, age |-> 0] \in [found: BOOLEAN, age: Absent..Longest]
      OBVIOUS
    <3> QED BY <1>1, <2>6, <3>1
  <2>10. CTInv'
    BY <1>1, <2>6, <2>7, <2>8, <2>9 DEF CTInv, CatalogueTypeOK, Pass
  <2>11. InHand'
    BY <2>8 DEF InHand
  <2>12. ASSUME NEW s \in Id, state'[s].found
         PROVE  state'[s].age # Absent /\ \E p \in Part' : stored'[s][p] # Absent
    <3>1. Part' = Part
      BY <2>6 DEF Part
    <3>2. CASE s = t
      <4>1. state'[s] = [found |-> D # {}, age |-> 0]
        BY <1>1, <2>6, <3>2
      <4>0. D # {}
        <5>1. state'[s].found = (D # {})
          BY <4>1
        <5> QED BY <2>12, <5>1, Zenon
      <4>2. PICK d \in D : d[1] = t /\ d[2] \in Part
        BY <2>3, <4>0
      <4>3. PICK v \in 0..MaxVersion : v = d[3] /\ d = <<t, d[2], v>>
        BY <4>2
      <4>4. F[s][d[2]] # Absent
        BY <1>2, <2>7, <3>2, <4>2, <4>3
      <4> QED BY <2>6, <3>1, <4>1, <4>2, <4>4
    <3>3. CASE s # t
      <4>1. state'[s] = state[s]
        BY <1>1, <2>6, <3>3
      <4>2. state[s].age # Absent /\ \E p \in Part : stored[s][p] # Absent
        BY <1>3, <2>12, <4>1
      <4> QED BY <1>2, <2>6, <2>7, <3>1, <4>1, <4>2
    <3> QED BY <3>2, <3>3
  <2>13. CheckedTogether'
    BY <2>6, <2>10, <2>12 DEF CheckedTogether, CTInv
  <2> QED BY <2>10, <2>11, <2>13 DEF CInv
<1>f. CASE TitleFails
  <2>1. PICK r \in 0..Reach : r = Reached
    BY <1>1, <1>2, ReachedIn
  <2>2. PICK q : q = [pass EXCEPT !.pc = "loop", !.cur = 0, !.left = {}, !.dirty = {}, !.reached = r]
    OBVIOUS
  <2>3. q \in Pass /\ q.pc = "loop" /\ q.dirty = {}
    BY <1>1, <1>2, <2>2 DEF Pass
  <2>4. pass' = q /\ errors' \in Nat /\ UNCHANGED <<script, remote, stored, state, asOf, updates>>
    BY <1>1, <1>f, <2>1, <2>2 DEF TitleFails
  <2> QED BY <1>1, <2>3, <2>4, CatalogueHands
<1>g. CASE RunEnds \/ TimedOut
  <2>1. pass' = NoPass /\ UNCHANGED <<script, remote, stored, state, asOf, updates, errors>>
    BY <1>g DEF RunEnds, TimedOut
  <2>2. NoPass \in Pass /\ NoPass.pc = "idle" /\ NoPass.dirty = {}
    BY DEF NoPass, Pass
  <2> QED BY <1>1, <2>1, <2>2, CatalogueHands
<1>h. CASE FillerLookup \/ MangaLookup
  <2>1. \E p \in Part : Lookup(p)
    BY <1>h DEF FillerLookup, MangaLookup, Part
  <2> QED BY <1>d, <2>1
<1> QED BY <1>a, <1>b, <1>c, <1>e, <1>f, <1>g, <1>h
        DEF CatalogueNext, CatalogueStep, FillerCommit, MangaCommit

LEMMA CatalogueStutters ==
  ASSUME CInv, UNCHANGED catalogue
  PROVE  CInv'
BY DEF CInv, catalogue, CTInv, CatalogueTypeOK, InHand, CheckedTogether, Part

-----------------------------------------------------------------------------
(* Availability and health signals keep their invariant.                   *)

LEMMA SignalsTypes ==
  ASSUME STInv
  PROVE  /\ planning \subseteq Title /\ streams \subseteq Title /\ ledger \in [Title -> Had]
         /\ scan \in [Checker -> SUBSET Row]
         /\ pending \in Nat /\ limit \in [id: Nat, active: BOOLEAN] /\ alarm \in [Signal -> Nat]
         /\ health \in [pc: {"idle", "migrations", "rate_limit", "store"}, at: Signal, value: Nat]
         /\ gains \in [Title -> Nat] /\ alerts \in [Title -> Nat] /\ overlaps \in Nat
         /\ fresh \subseteq Signal /\ repeats \in Nat
         /\ flips \in Nat /\ checks \in Nat /\ crashes \in Nat
BY DEF STInv, SignalsTypeOK, Row

LEMMA BudgetNat ==
  ASSUME STInv, NEW t \in Title
  PROVE  Budget(t) \in Nat /\ alerts[t] \in Nat
BY SignalsTypes DEF Budget

LEMMA SignalsInitInv ==
  ASSUME SignalsInit
  PROVE  SInv
<1>1. STInv
  BY DEF SignalsInit, STInv, SignalsTypeOK, Had, Signal
<1>2. \A t \in Title : Coming(t) = {} /\ ~Armed(t)
  BY DEF SignalsInit, Coming, Armed, Sinking
<1>3. \A t \in Title : PaidFor(t)
  <2>1. SUFFICES ASSUME NEW t \in Title PROVE PaidFor(t)
    OBVIOUS
  <2>2. IsFiniteSet(Coming(t)) /\ Cardinality(Coming(t)) = 0
    BY <1>2, FS_EmptySet
  <2>3. alerts[t] = 0 /\ Budget(t) = 0
    BY DEF SignalsInit, Budget
  <2> QED BY <1>2, <2>2, <2>3 DEF PaidFor
<1>4. \A s \in Signal : Value(s) = 0
  BY DEF SignalsInit, Value, Signal
<1>5. Forgetful = {}
  BY <1>4 DEF Forgetful, Forgotten
<1>6. RepeatsPaid
  BY <1>5 DEF SignalsInit, RepeatsPaid, Signal
<1> QED BY <1>1, <1>3, <1>6 DEF SInv, Paid

\* Nothing more is to come of t and its link is no newer than it was.
LEMMA KeptPaid ==
  ASSUME STInv, STInv', NEW t \in Title, PaidFor(t),
         Coming(t)' \subseteq Coming(t), alerts'[t] = alerts[t],
         Budget(t)' >= Budget(t), Armed(t)' => Armed(t)
  PROVE  PaidFor(t)'
<1>1. IsFiniteSet(Coming(t)') /\ Cardinality(Coming(t)') <= Cardinality(Coming(t))
  BY FS_Subset DEF PaidFor
<1>2. Cardinality(Coming(t)) \in Nat /\ Cardinality(Coming(t)') \in Nat
  BY <1>1, FS_CardinalityType DEF PaidFor
<1>3. Budget(t) \in Nat /\ alerts[t] \in Nat /\ Budget(t)' \in Nat
  BY BudgetNat, SignalsTypes DEF STInv, SignalsTypeOK, Budget
<1> QED BY <1>1, <1>2, <1>3 DEF PaidFor

\* What t may cost more is paid by a gain, an overlap or a crash.
LEMMA DearerPaid ==
  ASSUME STInv, STInv', NEW t \in Title, PaidFor(t),
         Coming(t)' \subseteq Coming(t), alerts'[t] = alerts[t], Budget(t)' >= Budget(t) + 1
  PROVE  PaidFor(t)'
<1>1. IsFiniteSet(Coming(t)') /\ Cardinality(Coming(t)') <= Cardinality(Coming(t))
  BY FS_Subset DEF PaidFor
<1>2. Cardinality(Coming(t)) \in Nat /\ Cardinality(Coming(t)') \in Nat
  BY <1>1, FS_CardinalityType DEF PaidFor
<1>3. Budget(t) \in Nat /\ alerts[t] \in Nat /\ Budget(t)' \in Nat
  BY BudgetNat, SignalsTypes DEF STInv, SignalsTypeOK, Budget
<1> QED BY <1>1, <1>2, <1>3 DEF PaidFor

\* A check that sees the link is paid by its overlap, or by the link itself.
LEMMA OneMorePaid ==
  ASSUME STInv, STInv', NEW t \in Title, PaidFor(t), NEW x,
         Coming(t)' \subseteq Coming(t) \cup {x}, alerts'[t] = alerts[t],
         Budget(t)' >= Budget(t), Armed(t)' => Armed(t),
         Budget(t)' >= Budget(t) + 1 \/ (Armed(t) /\ ~Armed(t)')
  PROVE  PaidFor(t)'
<1>0. PICK S : S = Coming(t)
  OBVIOUS
<1>1. IsFiniteSet(S) /\ Cardinality(S) \in Nat
  BY <1>0, FS_CardinalityType DEF PaidFor
<1>2. IsFiniteSet(S \cup {x}) /\ Cardinality(S \cup {x}) <= Cardinality(S) + 1
  <2>1. /\ IsFiniteSet(S \cup {x})
        /\ Cardinality(S \cup {x}) = IF x \in S THEN Cardinality(S) ELSE Cardinality(S) + 1
    BY <1>1, FS_AddElement, Zenon
  <2> QED BY <1>1, <2>1
<1>3. /\ IsFiniteSet(Coming(t)') /\ Cardinality(Coming(t)') <= Cardinality(S \cup {x})
      /\ Cardinality(Coming(t)') \in Nat /\ Cardinality(S \cup {x}) \in Nat
  <2>1. Coming(t)' \in SUBSET (S \cup {x})
    BY <1>0
  <2>2. IsFiniteSet(Coming(t)') /\ Cardinality(Coming(t)') <= Cardinality(S \cup {x})
    BY <1>2, <2>1, FS_Subset
  <2> QED BY <1>2, <2>2, FS_CardinalityType
<1>4. Budget(t) \in Nat /\ alerts[t] \in Nat /\ Budget(t)' \in Nat
  BY BudgetNat, SignalsTypes DEF STInv, SignalsTypeOK, Budget
<1> QED BY <1>0, <1>1, <1>2, <1>3, <1>4 DEF PaidFor

\* An alert that was to come is sent.
LEMMA SentPaid ==
  ASSUME STInv, STInv', NEW t \in Title, PaidFor(t), NEW x \in Coming(t),
         Coming(t)' \subseteq Coming(t) \ {x}, alerts'[t] = alerts[t] + 1,
         Budget(t)' >= Budget(t), Armed(t)' => Armed(t)
  PROVE  PaidFor(t)'
<1>0. PICK S : S = Coming(t)
  OBVIOUS
<1>1. IsFiniteSet(S) /\ Cardinality(S) \in Nat
  BY <1>0, FS_CardinalityType DEF PaidFor
<1>2. IsFiniteSet(S \ {x}) /\ Cardinality(S \ {x}) = Cardinality(S) - 1
  <2>1. /\ IsFiniteSet(S \ {x})
        /\ Cardinality(S \ {x}) = IF x \in S THEN Cardinality(S) - 1 ELSE Cardinality(S)
    BY <1>1, FS_RemoveElement, Zenon
  <2> QED BY <1>0, <2>1
<1>3. /\ IsFiniteSet(Coming(t)') /\ Cardinality(Coming(t)') <= Cardinality(S \ {x})
      /\ Cardinality(Coming(t)') \in Nat
  <2>1. Coming(t)' \in SUBSET (S \ {x})
    BY <1>0
  <2>2. IsFiniteSet(Coming(t)') /\ Cardinality(Coming(t)') <= Cardinality(S \ {x})
    BY <1>2, <2>1, FS_Subset
  <2> QED BY <1>2, <2>2, FS_CardinalityType
<1>4. Budget(t) \in Nat /\ alerts[t] \in Nat /\ Budget(t)' \in Nat
  BY BudgetNat, SignalsTypes DEF STInv, SignalsTypeOK, Budget
<1> QED BY <1>0, <1>1, <1>2, <1>3, <1>4 DEF PaidFor

\* A check's rows under way: what replacing those of check c does to a title.
LEMMA ScanEffects ==
  ASSUME STInv, NEW c \in Checker, NEW R \in SUBSET Row, scan' = [scan EXCEPT ![c] = R]
  PROVE  /\ scan' \in [Checker -> SUBSET Row]
         /\ scan'[c] = R /\ \A d \in Checker \ {c} : scan'[d] = scan[d]
BY SignalsTypes

\* The availability half of a step leaves the health signals alone.
LEMMA HealthUntouched ==
  ASSUME STInv, RepeatsPaid, UNCHANGED status, crashes' \in Nat, crashes' >= crashes
  PROVE  RepeatsPaid'
<1>1. Forgetful' = Forgetful /\ repeats' = repeats
  BY DEF Forgetful, Forgotten, Value, status
<1> QED BY <1>1, SignalsTypes DEF RepeatsPaid

LEMMA ScanRowInv ==
  ASSUME SInv, NEW c \in Checker, NEW r \in scan[c], ScanRow(c, r)
  PROVE  SInv'
<1>1. /\ STInv /\ Paid /\ RepeatsPaid
      /\ ledger \in [Title -> Had] /\ scan \in [Checker -> SUBSET Row] /\ alerts \in [Title -> Nat]
  BY SignalsTypes DEF SInv
<1>2. /\ r \in Row /\ r.title \in Title /\ r.has \in BOOLEAN /\ r.had \in Had /\ r.sent \in BOOLEAN
      /\ scan[c] \in SUBSET Row
  BY <1>1 DEF Row
<1>3. UNCHANGED <<planning, streams, gains, overlaps, flips, checks, crashes, status>>
  BY DEF ScanRow
<1>4. PICK t \in Title : t = r.title
  BY <1>2
<1>a. ASSUME NEW l \in Had, ledger' = [ledger EXCEPT ![t] = l],
             scan' = Handled(c, r), alerts' = alerts, Armed(t)' => Armed(t)
      PROVE  SInv'
  <2>1. PICK R \in SUBSET Row : R = scan[c] \ {r}
    BY <1>2
  <2>2. /\ scan' \in [Checker -> SUBSET Row]
        /\ scan'[c] = R /\ \A d \in Checker \ {c} : scan'[d] = scan[d]
    BY <1>1, <1>a, <2>1, ScanEffects DEF Handled
  <2>3. ledger' \in [Title -> Had] /\ \A s \in Title \ {t} : ledger'[s] = ledger[s]
    BY <1>1, <1>a
  <2>4. STInv'
    BY <1>1, <1>3, <1>a, <2>2, <2>3 DEF STInv, SignalsTypeOK, status, Row
  <2>5. \A s \in Title : Coming(s)' \subseteq Coming(s)
    BY <2>1, <2>2 DEF Coming
  <2>6. ASSUME NEW s \in Title, Armed(s)' PROVE Armed(s)
    <3>1. CASE s = t
      BY <1>a, <2>6, <3>1
    <3>2. CASE s # t
      <4>1. Sinking(s)' => Sinking(s)
        BY <2>1, <2>2, <2>3, <3>2 DEF Sinking
      <4>2. Rising(s) => Rising(s)'
        BY <1>4, <2>1, <2>2, <3>2 DEF Rising
      <4> QED BY <1>3, <2>3, <2>6, <3>2, <4>1, <4>2 DEF Armed
    <3> QED BY <3>1, <3>2
  <2>7. \A s \in Title : alerts'[s] = alerts[s] /\ Budget(s)' >= Budget(s)
    <3>1. \A s \in Title : Budget(s)' = Budget(s) /\ Budget(s) \in Nat
      BY <1>1, <1>3, BudgetNat DEF Budget
    <3> QED BY <1>a, <3>1
  <2>8. Paid'
    BY <1>1, <2>4, <2>5, <2>6, <2>7, KeptPaid DEF Paid
  <2>9. RepeatsPaid'
    BY <1>1, <1>3, HealthUntouched, SignalsTypes
  <2> QED BY <2>4, <2>8, <2>9 DEF SInv
<1>5. \A R : scan' = [scan EXCEPT ![c] = R] => scan'[c] = R /\ \A d \in Checker \ {c} : scan'[d] = scan[d]
  BY <1>1
<1>6. scan' = Handled(c, r) => scan'[c] = scan[c] \ {r} /\ \A d \in Checker \ {c} : scan'[d] = scan[d]
  BY <1>1 DEF Handled
<1>b. CASE Baseline(c, r)
  <2>1. PICK l \in Had : l = IF ledger[t] = "none" THEN YesNo(r.has) ELSE ledger[t]
    BY <1>1 DEF YesNo, Had
  <2>2. /\ ledger' = [ledger EXCEPT ![t] = l] /\ ledger'[t] = l
        /\ scan' = Handled(c, r) /\ alerts' = alerts /\ r.had = "none"
    BY <1>1, <1>4, <1>b, <2>1 DEF Baseline
  <2>3. ASSUME Armed(t)' PROVE Armed(t)
    <3>1. t \in streams
      BY <1>3, <2>3 DEF Armed
    <3>2. CASE ledger[t] = "none" /\ ~r.has
      BY <1>4, <2>2, <3>1, <3>2 DEF Armed, Sinking
    <3>3. CASE ledger[t] = "none" /\ r.has
      <4>1. ledger'[t] = "yes"
        BY <2>1, <2>2, <3>3 DEF YesNo
      <4>2. Sinking(t)
        BY <1>6, <2>2, <2>3, <4>1 DEF Armed, Sinking
      <4> QED BY <3>1, <4>2 DEF Armed
    <3>4. CASE ledger[t] # "none"
      <4>1. ledger'[t] = ledger[t]
        BY <2>1, <2>2, <3>4
      <4>2. Sinking(t)' => Sinking(t)
        BY <1>6, <2>2, <4>1 DEF Sinking
      <4>3. Rising(t) => Rising(t)'
        BY <1>6, <2>2 DEF Rising
      <4> QED BY <2>3, <3>1, <4>1, <4>2, <4>3 DEF Armed
    <3> QED BY <1>2, <3>2, <3>3, <3>4
  <2> QED BY <1>a, <2>2, <2>3
<1>c. CASE NoTransition(c, r)
  <2>1. PICK l \in Had : l = ledger[t]
    BY <1>1
  <2>2. /\ ledger' = [ledger EXCEPT ![t] = l] /\ ledger'[t] = ledger[t]
        /\ scan' = Handled(c, r) /\ alerts' = alerts /\ r.had = YesNo(r.has)
    BY <1>1, <1>4, <1>c, <2>1 DEF NoTransition
  <2>3. ~ (r.had = "no" /\ r.has)
    BY <2>2 DEF YesNo
  <2>4. Sinking(t)' => Sinking(t)
    BY <1>6, <2>2 DEF Sinking
  <2>5. Rising(t) => Rising(t)'
    BY <1>6, <2>2, <2>3 DEF Rising
  <2>6. Armed(t)' => Armed(t)
    BY <1>3, <2>2, <2>4, <2>5 DEF Armed
  <2> QED BY <1>a, <2>2, <2>6
<1>d. CASE Lost(c, r)
  <2>1. /\ ledger' = [ledger EXCEPT ![t] = "no"] /\ "no" \in Had
        /\ scan' = Handled(c, r) /\ alerts' = alerts /\ r.had = "yes" /\ ~r.has
    BY <1>4, <1>d DEF Lost, Had
  <2>2. Armed(t)' => Armed(t)
    BY <1>3, <1>4, <2>1 DEF Armed, Sinking
  <2> QED BY <1>a, <2>1, <2>2
<1>e. CASE Gained(c, r) /\ r.sent
  <2>1. /\ ledger' = [ledger EXCEPT ![t] = "yes"] /\ "yes" \in Had /\ ledger'[t] = "yes"
        /\ scan' = Handled(c, r) /\ alerts' = alerts
    BY <1>1, <1>4, <1>e DEF Gained, Had
  <2>2. Sinking(t)' => Sinking(t)
    BY <1>6, <2>1 DEF Sinking
  <2>3. Armed(t)' => Armed(t)
    BY <1>3, <2>1, <2>2 DEF Armed
  <2> QED BY <1>a, <2>1, <2>3
<1>f. CASE Gained(c, r) /\ ~r.sent
  <2>1. PICK q \in Row : q = [r EXCEPT !.sent = TRUE]
    BY <1>2 DEF Row
  <2>2. q.title = t /\ q.had = "no" /\ q.has /\ q.sent /\ r.had = "no" /\ r.has /\ ~r.sent
    BY <1>2, <1>4, <1>f, <2>1 DEF Gained, Row
  <2>3. PICK R \in SUBSET Row : R = (scan[c] \ {r}) \cup {q}
    BY <1>2, <2>1
  <2>4. /\ scan' = [scan EXCEPT ![c] = R] /\ ledger' = ledger
        /\ alerts' = [alerts EXCEPT ![t] = @ + 1]
    BY <1>4, <1>f, <1>1, <2>1, <2>3 DEF Gained
  <2>5. /\ scan' \in [Checker -> SUBSET Row]
        /\ scan'[c] = R /\ \A d \in Checker \ {c} : scan'[d] = scan[d]
    BY <1>1, <2>4, ScanEffects
  <2>6. /\ alerts' \in [Title -> Nat] /\ alerts'[t] = alerts[t] + 1
        /\ \A s \in Title \ {t} : alerts'[s] = alerts[s]
    BY <1>1, <2>4
  <2>7. STInv'
    BY <1>1, <1>3, <2>4, <2>5, <2>6 DEF STInv, SignalsTypeOK, status, Row
  <2>8. \A s \in Title : Sinking(s)' => Sinking(s)
    BY <2>2, <2>3, <2>4, <2>5 DEF Sinking
  <2>9. \A s \in Title : Rising(s) => Rising(s)'
    <3>1. SUFFICES ASSUME NEW s \in Title, NEW d \in Checker, NEW x \in scan[d],
                          x.title = s, x.had = "no", x.has
                   PROVE  Rising(s)'
      BY DEF Rising
    <3>2. CASE d = c /\ x = r
      BY <1>4, <2>2, <2>3, <2>5, <3>1, <3>2 DEF Rising
    <3>3. CASE d # c \/ x # r
      BY <2>3, <2>5, <3>1, <3>3 DEF Rising
    <3> QED BY <3>2, <3>3
  <2>10. \A s \in Title : Armed(s)' => Armed(s)
    BY <1>3, <2>4, <2>8, <2>9 DEF Armed
  <2>11. \A s \in Title : Coming(s)' \subseteq Coming(s) \ {<<c, r>>}
    <3>1. SUFFICES ASSUME NEW s \in Title, NEW d \in Checker, NEW x \in Row, x \in scan'[d],
                          x.title = s, x.had = "no", x.has, ~x.sent
                   PROVE  x \in scan[d] /\ <<d, x>> # <<c, r>>
      BY DEF Coming
    <3>2. x # q
      BY <2>2, <3>1
    <3>3. r \notin scan[c] \ {r}
      OBVIOUS
    <3>4. CASE d = c
      BY <2>3, <2>5, <3>1, <3>2, <3>4
    <3>5. CASE d # c
      BY <2>5, <3>1, <3>5
    <3> QED BY <3>4, <3>5
  <2>12. <<c, r>> \in Coming(t)
    BY <1>2, <1>4, <2>2 DEF Coming
  <2>13. \A s \in Title : Budget(s)' >= Budget(s)
    <3>1. \A s \in Title : Budget(s)' = Budget(s) /\ Budget(s) \in Nat
      BY <1>1, <1>3, BudgetNat DEF Budget
    <3> QED BY <3>1
  <2>14. PaidFor(t)'
    BY <1>1, <2>6, <2>7, <2>10, <2>11, <2>12, <2>13, SentPaid DEF Paid
  <2>15. \A s \in Title \ {t} : PaidFor(s)'
    BY <1>1, <2>6, <2>7, <2>10, <2>11, <2>13, KeptPaid DEF Paid
  <2>16. RepeatsPaid'
    BY <1>1, <1>3, HealthUntouched, SignalsTypes
  <2> QED BY <2>7, <2>14, <2>15, <2>16 DEF SInv, Paid
<1> QED BY <1>2, <1>b, <1>c, <1>d, <1>e, <1>f DEF ScanRow

LEMMA ScanBeginsInv ==
  ASSUME SInv, NEW c \in Checker, ScanBegins(c)
  PROVE  SInv'
<1>1. /\ STInv /\ Paid /\ RepeatsPaid /\ checks \in Nat /\ overlaps \in Nat
      /\ ledger \in [Title -> Had] /\ scan \in [Checker -> SUBSET Row] /\ planning \subseteq Title
  BY SignalsTypes DEF SInv
<1> DEFINE Read(t) == [title |-> t, has |-> t \in streams, had |-> ledger[t], sent |-> FALSE]
<1>2. \A t \in Title : /\ Read(t) \in Row /\ Read(t).title = t /\ (Read(t).has <=> t \in streams)
                       /\ Read(t).had = ledger[t] /\ ~Read(t).sent
  <2>1. SUFFICES ASSUME NEW t \in Title
                 PROVE  /\ Read(t) \in Row /\ Read(t).title = t /\ (Read(t).has <=> t \in streams)
                        /\ Read(t).had = ledger[t] /\ ~Read(t).sent
    OBVIOUS
  <2>2. ledger[t] \in Had
    BY <1>1
  <2>3. CASE t \in streams
    <3>1. Read(t) = [title |-> t, has |-> TRUE, had |-> ledger[t], sent |-> FALSE]
      BY <2>3
    <3> QED BY <2>2, <2>3, <3>1 DEF Row
  <2>4. CASE t \notin streams
    <3>1. Read(t) = [title |-> t, has |-> FALSE, had |-> ledger[t], sent |-> FALSE]
      <4>1. (t \in streams) = FALSE
        BY <2>4
      <4> QED BY <4>1, Zenon
    <3> QED BY <2>2, <2>4, <3>1 DEF Row
  <2> QED BY <2>3, <2>4
<1> HIDE DEF Read
<1>3. PICK R : R = {Read(t) : t \in planning}
  OBVIOUS
<1>4. /\ R \in SUBSET Row
      /\ \A x \in R : x.title \in planning /\ x = Read(x.title)
      /\ \A t \in planning : Read(t) \in R
  BY <1>1, <1>2, <1>3
<1>5. /\ scan[c] = {} /\ scan' = [scan EXCEPT ![c] = R] /\ checks' = checks + 1
      /\ overlaps' = (IF \E d \in Checker : scan[d] # {} THEN overlaps + 1 ELSE overlaps)
      /\ UNCHANGED <<planning, streams, ledger, gains, alerts, flips, crashes, status>>
  BY <1>3 DEF ScanBegins, Read
<1>6. /\ scan' \in [Checker -> SUBSET Row]
      /\ scan'[c] = R /\ \A d \in Checker \ {c} : scan'[d] = scan[d]
  BY <1>1, <1>4, <1>5, ScanEffects
<1>7. STInv'
  BY <1>1, <1>5, <1>6 DEF STInv, SignalsTypeOK, status, Row
<1>8. \A t \in Title : Rising(t) => Rising(t)'
  BY <1>5, <1>6 DEF Rising
<1>9. \A t \in streams : Sinking(t)' => Sinking(t)
  <2>1. SUFFICES ASSUME NEW t \in streams, NEW d \in Checker, NEW x \in scan'[d],
                        x.title = t, ~x.has, x.had = "yes" \/ (x.had = "none" /\ ledger[t] = "none")
                 PROVE  Sinking(t)
    BY <1>5 DEF Sinking
  <2>2. d # c
    BY <1>1, <1>2, <1>4, <1>6, <2>1
  <2> QED BY <1>6, <2>1, <2>2 DEF Sinking
<1>10. \A t \in Title : Armed(t)' => Armed(t)
  BY <1>5, <1>8, <1>9 DEF Armed
<1>11. \A t \in Title : Coming(t)' \subseteq Coming(t) \cup {<<c, Read(t)>>}
  BY <1>4, <1>6 DEF Coming
<1>12. CASE \E d \in Checker : scan[d] # {}
  <2>1. \A t \in Title : Budget(t)' >= Budget(t) + 1 /\ Budget(t)' >= Budget(t)
    <3>1. \A t \in Title : Budget(t)' = Budget(t) + 1 /\ Budget(t) \in Nat
      BY <1>1, <1>5, <1>12, BudgetNat, SignalsTypes DEF Budget
    <3> QED BY <3>1
  <2>2. Paid'
    BY <1>1, <1>5, <1>7, <1>10, <1>11, <2>1, OneMorePaid DEF Paid
  <2>3. RepeatsPaid'
    BY <1>1, <1>5, HealthUntouched, SignalsTypes
  <2> QED BY <1>7, <2>2, <2>3 DEF SInv
<1>13. CASE \A d \in Checker : scan[d] = {}
  <2>1. \A t \in Title : Budget(t)' >= Budget(t)
    <3>1. \A t \in Title : Budget(t)' = Budget(t) /\ Budget(t) \in Nat
      BY <1>1, <1>5, <1>13, BudgetNat DEF Budget
    <3> QED BY <3>1
  <2>2. ASSUME NEW t \in Title PROVE PaidFor(t)'
    <3>1. CASE t \in planning /\ t \in streams /\ ledger[t] = "no"
      <4>1. Armed(t)
        BY <1>13, <3>1 DEF Armed, Rising
      <4>2. Rising(t)'
        BY <1>2, <1>4, <1>6, <3>1 DEF Rising
      <4>3. ~Sinking(t)
        BY <1>13 DEF Sinking
      <4>4. ~Armed(t)'
        BY <1>5, <1>9, <3>1, <4>2, <4>3 DEF Armed
      <4> QED BY <1>1, <1>5, <1>7, <1>10, <1>11, <2>1, <4>1, <4>4, OneMorePaid DEF Paid
    <3>2. CASE ~ (t \in planning /\ t \in streams /\ ledger[t] = "no")
      <4>1. Coming(t)' \subseteq Coming(t)
        <5>1. SUFFICES ASSUME NEW d \in Checker, NEW x \in Row, x \in scan'[d],
                              x.title = t, x.had = "no", x.has, ~x.sent
                       PROVE  x \in scan[d]
          BY DEF Coming
        <5>2. CASE d = c
          BY <1>2, <1>4, <1>6, <3>2, <5>1, <5>2
        <5>3. CASE d # c
          BY <1>6, <5>1, <5>3
        <5> QED BY <5>2, <5>3
      <4> QED BY <1>1, <1>5, <1>7, <1>10, <2>1, <4>1, KeptPaid DEF Paid
    <3> QED BY <3>1, <3>2
  <2>3. RepeatsPaid'
    BY <1>1, <1>5, HealthUntouched, SignalsTypes
  <2> QED BY <1>7, <2>2, <2>3 DEF SInv, Paid
<1> QED BY <1>12, <1>13

LEMMA AvailabilityInv ==
  ASSUME SInv, AvailabilityNext
  PROVE  SInv'
<1>1. /\ STInv /\ Paid /\ RepeatsPaid /\ crashes \in Nat /\ flips \in Nat
      /\ gains \in [Title -> Nat] /\ scan \in [Checker -> SUBSET Row]
      /\ planning \subseteq Title /\ streams \subseteq Title
  BY SignalsTypes DEF SInv
<1>2. \A t \in Title : Budget(t) \in Nat
  BY <1>1, BudgetNat
<1>a. ASSUME NEW t \in Title, LinkChanges(t)
      PROVE  SInv'
  <2>1. /\ flips' \in Nat /\ streams' \subseteq Title /\ gains' \in [Title -> Nat]
        /\ UNCHANGED <<planning, ledger, scan, alerts, overlaps, checks, crashes, status>>
        /\ \A s \in Title \ {t} : gains'[s] = gains[s] /\ (s \in streams' <=> s \in streams)
        /\ (t \in streams => t \notin streams' /\ gains'[t] = gains[t])
        /\ (t \notin streams => gains'[t] = gains[t] + 1)
    BY <1>1, <1>a DEF LinkChanges, Flip
  <2>2. STInv'
    BY <1>1, <2>1 DEF STInv, SignalsTypeOK, status
  <2>3. \A s \in Title : /\ Coming(s)' = Coming(s) /\ (Rising(s)' <=> Rising(s))
                         /\ (Sinking(s)' <=> Sinking(s)) /\ alerts'[s] = alerts[s]
    BY <2>1 DEF Coming, Rising, Sinking
  <2>4. \A s \in Title \ {t} : Budget(s)' >= Budget(s) /\ (Armed(s)' => Armed(s))
    <3>1. \A s \in Title \ {t} : Budget(s)' = Budget(s)
      BY <2>1 DEF Budget
    <3>2. \A s \in Title \ {t} : Armed(s)' => Armed(s)
      BY <2>1, <2>3 DEF Armed
    <3> QED BY <1>2, <3>1, <3>2
  <2>5. \A s \in Title \ {t} : PaidFor(s)'
    BY <1>1, <2>2, <2>3, <2>4, KeptPaid DEF Paid
  <2>8. PaidFor(t)'
    <3>1. CASE t \in streams
      <4>1. ~Armed(t)' /\ Budget(t)' >= Budget(t)
        <5>1. Budget(t)' = Budget(t)
          BY <2>1, <3>1 DEF Budget
        <5> QED BY <1>2, <2>1, <3>1, <5>1 DEF Armed
      <4> QED BY <1>1, <2>2, <2>3, <4>1, KeptPaid DEF Paid
    <3>2. CASE t \notin streams
      <4>1. Budget(t)' = Budget(t) + 1
        BY <1>1, <2>1, <3>2, SignalsTypes DEF Budget
      <4>2. Budget(t)' >= Budget(t) + 1
        BY <1>2, <4>1
      <4> QED BY <1>1, <2>2, <2>3, <4>2, DearerPaid DEF Paid
    <3> QED BY <3>1, <3>2
  <2>9. RepeatsPaid'
    BY <1>1, <2>1, HealthUntouched
  <2> QED BY <2>2, <2>5, <2>8, <2>9 DEF SInv, Paid
<1>b. ASSUME NEW t \in Title, PlanChanges(t)
      PROVE  SInv'
  <2>1. /\ flips' \in Nat /\ planning' \subseteq Title
        /\ UNCHANGED <<streams, ledger, scan, gains, alerts, overlaps, checks, crashes, status>>
    BY <1>1, <1>b DEF PlanChanges, Flip
  <2>2. STInv'
    BY <1>1, <2>1 DEF STInv, SignalsTypeOK, status
  <2>3. Paid'
    BY <1>1, <2>1 DEF Paid, PaidFor, Coming, Budget, Armed, Sinking, Rising
  <2>4. RepeatsPaid'
    BY <1>1, <2>1, HealthUntouched
  <2> QED BY <2>2, <2>3, <2>4 DEF SInv
<1>c. ASSUME NEW c \in Checker, ScanDies(c)
      PROVE  SInv'
  <2>1. PICK R \in SUBSET Row : R = {}
    OBVIOUS
  <2>2. /\ scan' = [scan EXCEPT ![c] = R] /\ crashes' = crashes + 1 /\ crashes' \in Nat
        /\ UNCHANGED <<planning, streams, ledger, gains, alerts, overlaps, flips, checks, status>>
    BY <1>1, <1>c, <2>1 DEF ScanDies
  <2>3. /\ scan' \in [Checker -> SUBSET Row]
        /\ scan'[c] = R /\ \A d \in Checker \ {c} : scan'[d] = scan[d]
    BY <1>1, <2>2, ScanEffects
  <2>4. STInv'
    BY <1>1, <2>2, <2>3 DEF STInv, SignalsTypeOK, status, Row
  <2>5. \A s \in Title : Coming(s)' \subseteq Coming(s)
    BY <2>1, <2>3 DEF Coming
  <2>6. \A s \in Title : Budget(s)' >= Budget(s) + 1
    <3>1. \A s \in Title : Budget(s)' = Budget(s) + 1
      BY <1>1, <2>2, SignalsTypes DEF Budget
    <3> QED BY <1>2, <3>1
  <2>7. Paid'
    BY <1>1, <2>2, <2>4, <2>5, <2>6, DearerPaid DEF Paid
  <2>8. RepeatsPaid'
    <3>1. crashes' >= crashes
      BY <1>1, <2>2
    <3> QED BY <1>1, <2>2, <3>1, HealthUntouched
  <2> QED BY <2>4, <2>7, <2>8 DEF SInv
<1> QED BY <1>a, <1>b, <1>c, ScanBeginsInv, ScanRowInv DEF AvailabilityNext

\* The health half of a step leaves what is paid for availability alone.
LEMMA AvailUntouched ==
  ASSUME STInv, STInv', Paid, UNCHANGED avail, crashes' >= crashes
  PROVE  Paid'
<1>1. SUFFICES ASSUME NEW t \in Title PROVE PaidFor(t)'
  BY DEF Paid
<1>2. Coming(t)' = Coming(t) /\ (Armed(t)' <=> Armed(t)) /\ alerts'[t] = alerts[t]
  BY DEF avail, Coming, Armed, Rising, Sinking
<1>3. Budget(t)' >= Budget(t)
  BY SignalsTypes DEF Budget, avail, STInv
<1> QED BY <1>2, <1>3, KeptPaid DEF Paid

\* Repeats to come are paid for when there are no more of them, when a failure
\* hides one signal's value, and when the repeat to come is there.
LEMMA RepeatsKept ==
  ASSUME STInv, RepeatsPaid, crashes' = crashes, repeats' = repeats, Forgetful' \subseteq Forgetful
  PROVE  RepeatsPaid'
BY SignalsTypes DEF RepeatsPaid, Forgetful

LEMMA RepeatsHidden ==
  ASSUME STInv, RepeatsPaid, NEW s \in Signal, crashes' = crashes + 1, repeats' = repeats,
         Forgetful' \subseteq Forgetful \cup {s}
  PROVE  RepeatsPaid'
<1>1. crashes \in Nat /\ repeats \in Nat
  BY SignalsTypes
<1>2. Forgetful' = Signal => Forgetful # {}
  BY DEF Signal
<1> QED BY <1>1, <1>2 DEF RepeatsPaid

LEMMA RepeatsTold ==
  ASSUME STInv, RepeatsPaid, NEW s \in Forgetful, crashes' = crashes, repeats' = repeats + 1,
         Forgetful' \subseteq Forgetful \ {s}
  PROVE  RepeatsPaid'
<1>1. crashes \in Nat /\ repeats \in Nat
  BY SignalsTypes
<1>2. Forgetful \subseteq Signal /\ Forgetful # {}
  BY DEF Forgetful
<1>3. Forgetful' # {} => Forgetful = Signal
  BY <1>2 DEF Signal
<1>4. Forgetful' # Signal
  BY <1>2
<1> QED BY <1>1, <1>2, <1>3, <1>4 DEF RepeatsPaid

LEMMA HealthInv ==
  ASSUME SInv, HealthNext
  PROVE  SInv'
<1>1. /\ STInv /\ Paid /\ RepeatsPaid
      /\ pending \in Nat /\ limit \in [id: Nat, active: BOOLEAN] /\ alarm \in [Signal -> Nat]
      /\ health \in [pc: {"idle", "migrations", "rate_limit", "store"}, at: Signal, value: Nat]
      /\ fresh \subseteq Signal /\ repeats \in Nat /\ flips \in Nat /\ checks \in Nat /\ crashes \in Nat
  BY SignalsTypes DEF SInv
<1>2. /\ health.pc \in {"idle", "migrations", "rate_limit", "store"} /\ health.at \in Signal
      /\ health.value \in Nat /\ limit.id \in Nat /\ limit.active \in BOOLEAN
      /\ \A s \in Signal : Value(s) \in Nat /\ alarm[s] \in Nat
  BY <1>1 DEF Value
<1>3. Signal = {"migrations", "rate_limit"}
  BY DEF Signal
<1>a. ASSUME NEW p \in Nat, pending' = p, fresh' = fresh \cup {"migrations"}, flips' = flips + 1,
             UNCHANGED <<limit, alarm, health, repeats, checks, crashes, avail>>
      PROVE  SInv'
  <2>1. STInv'
    BY <1>1, <1>3, <1>a DEF STInv, SignalsTypeOK, avail
  <2>2. Forgetful' \subseteq Forgetful
    BY <1>3, <1>a DEF Forgetful, Forgotten, Value
  <2> QED BY <1>1, <1>a, <2>1, <2>2, RepeatsKept, AvailUntouched DEF SInv
<1>b. ASSUME NEW l \in [id: Nat, active: BOOLEAN], limit' = l, flips' \in Nat,
             l.active => fresh' = fresh \cup {"rate_limit"}, ~l.active => fresh' = fresh,
             UNCHANGED <<pending, alarm, health, repeats, checks, crashes, avail>>
      PROVE  SInv'
  <2>0. fresh' \subseteq Signal
    BY <1>1, <1>3, <1>b
  <2>1. STInv'
    BY <1>1, <1>b, <2>0 DEF STInv, SignalsTypeOK, avail
  <2>2. Forgetful' \subseteq Forgetful
    <3>1. "rate_limit" \notin Forgetful'
      BY <1>b DEF Forgetful, Forgotten, Value
    <3>2. "migrations" \in Forgetful' => "migrations" \in Forgetful
      BY <1>b DEF Forgetful, Forgotten, Value
    <3> QED BY <1>3, <3>1, <3>2 DEF Forgetful
  <2> QED BY <1>1, <1>b, <2>1, <2>2, RepeatsKept, AvailUntouched DEF SInv
<1>c. CASE Limited \/ Resumed
  <2>1. PICK l : l = limit'
    OBVIOUS
  <2>2. /\ l \in [id: Nat, active: BOOLEAN] /\ flips' \in Nat
        /\ (l.active => fresh' = fresh \cup {"rate_limit"}) /\ (~l.active => fresh' = fresh)
        /\ UNCHANGED <<pending, alarm, health, repeats, checks, crashes, avail>>
    <3>1. CASE Limited
      BY <1>1, <1>2, <2>1, <3>1 DEF Limited, Flip
    <3>2. CASE Resumed
      BY <1>1, <1>2, <2>1, <3>2 DEF Resumed
    <3> QED BY <1>c, <3>1, <3>2
  <2> QED BY <1>b, <2>1, <2>2
<1>d. CASE HealthBegins
  <2>1. /\ health.pc = "idle" /\ checks' = checks + 1
        /\ health' = [pc |-> "migrations", at |-> health.at, value |-> health.value]
        /\ UNCHANGED <<pending, limit, alarm, fresh, repeats, flips, crashes, avail>>
    BY <1>1, <1>d DEF HealthBegins
  <2>2. STInv'
    BY <1>1, <1>2, <2>1 DEF STInv, SignalsTypeOK, avail
  <2>3. Forgetful' \subseteq Forgetful
    BY <2>1 DEF Forgetful, Forgotten, Value
  <2>4. RepeatsPaid' /\ Paid'
    BY <1>1, <2>1, <2>2, <2>3, RepeatsKept, AvailUntouched
  <2> QED BY <2>2, <2>4 DEF SInv
<1>e. ASSUME NEW s \in Signal, HealthReads(s), Compare(s)
      PROVE  SInv'
  <2>1. PICK v \in Nat : v = Value(s)
    BY <1>2
  <2>2. /\ health.pc = s /\ v # 0 /\ alarm[s] # v
        /\ health' = [pc |-> "store", at |-> s, value |-> v]
        /\ fresh' = fresh \ {s} /\ alarm' = alarm
        /\ UNCHANGED <<pending, limit, flips, checks, crashes, avail>>
    BY <1>e, <2>1 DEF HealthReads, Compare
  <2>3. (s \in fresh => repeats' = repeats) /\ (s \notin fresh => repeats' = repeats + 1)
    BY <1>e DEF HealthReads
  <2>4. STInv'
    BY <1>1, <1>3, <2>2, <2>3 DEF STInv, SignalsTypeOK, avail
  <2>5. Value(s)' = v /\ \A q \in Signal : Value(q)' = Value(q)
    BY <2>1, <2>2 DEF Value
  <2>6. Forgetful' \subseteq Forgetful \ {s}
    <3>1. s \notin Forgetful'
      BY <2>2, <2>5 DEF Forgetful, Forgotten
    <3>2. \A q \in Signal \ {s} : Forgotten(q)' => Forgotten(q)
      BY <1>3, <2>2, <2>5 DEF Forgotten
    <3> QED BY <3>1, <3>2 DEF Forgetful
  <2>7. CASE s \in fresh
    BY <1>1, <2>2, <2>3, <2>4, <2>6, <2>7, RepeatsKept, AvailUntouched DEF SInv
  <2>8. CASE s \notin fresh
    <3>1. s \in Forgetful
      BY <1>3, <2>1, <2>2, <2>8 DEF Forgetful, Forgotten
    <3>2. RepeatsPaid'
      BY <1>1, <2>2, <2>3, <2>6, <2>8, <3>1, RepeatsTold
    <3> QED BY <1>1, <2>2, <2>4, <3>2, AvailUntouched DEF SInv
  <2> QED BY <2>7, <2>8
<1>f. ASSUME NEW s \in Signal, HealthReads(s), ~Compare(s)
      PROVE  SInv'
  <2>1. PICK v \in Nat, n \in {"idle", "rate_limit"} : v = Value(s) /\ n = After(s)
    BY <1>2 DEF After
  <2>2. /\ health.pc = s /\ (v = 0 \/ alarm[s] = v)
        /\ health' = [pc |-> n, at |-> health.at, value |-> health.value]
        /\ (v = 0 => alarm' = [alarm EXCEPT ![s] = 0]) /\ (v # 0 => alarm' = alarm)
        /\ UNCHANGED <<pending, limit, fresh, repeats, flips, checks, crashes, avail>>
    BY <1>1, <1>f, <2>1 DEF HealthReads, Compare
  <2>3. alarm' \in [Signal -> Nat] /\ \A q \in Signal \ {s} : alarm'[q] = alarm[q]
    BY <1>1, <2>2
  <2>4. STInv'
    BY <1>1, <1>2, <2>1, <2>2, <2>3 DEF STInv, SignalsTypeOK, avail
  <2>5. \A q \in Signal : Value(q)' = Value(q)
    BY <2>2 DEF Value
  <2>6. Forgetful' \subseteq Forgetful
    <3>1. s \notin Forgetful'
      BY <2>1, <2>2, <2>5 DEF Forgetful, Forgotten
    <3>2. \A q \in Signal \ {s} : Forgotten(q)' => Forgotten(q)
      BY <1>3, <2>2, <2>3, <2>5 DEF Forgotten
    <3> QED BY <3>1, <3>2 DEF Forgetful
  <2>7. RepeatsPaid' /\ Paid'
    BY <1>1, <2>2, <2>4, <2>6, RepeatsKept, AvailUntouched
  <2> QED BY <2>4, <2>7 DEF SInv
<1>g. CASE HealthStores
  <2>1. PICK s \in Signal, v \in Nat, n \in {"idle", "rate_limit"} :
          s = health.at /\ v = health.value /\ n = After(s)
    BY <1>2 DEF After
  <2>2. /\ health.pc = "store" /\ health' = [pc |-> n, at |-> s, value |-> 0]
        /\ alarm' = [alarm EXCEPT ![s] = v]
        /\ UNCHANGED <<pending, limit, fresh, repeats, flips, checks, crashes, avail>>
    BY <1>1, <1>g, <2>1 DEF HealthStores
  <2>3. /\ alarm' \in [Signal -> Nat] /\ alarm'[s] = v
        /\ \A q \in Signal \ {s} : alarm'[q] = alarm[q]
    BY <1>1, <2>2
  <2>4. STInv'
    BY <1>1, <2>1, <2>2, <2>3 DEF STInv, SignalsTypeOK, avail
  <2>5. \A q \in Signal : Value(q)' = Value(q)
    BY <2>2 DEF Value
  <2>6. Forgetful' \subseteq Forgetful
    BY <2>1, <2>2, <2>3, <2>5 DEF Forgetful, Forgotten
  <2>7. RepeatsPaid' /\ Paid'
    BY <1>1, <2>2, <2>4, <2>6, RepeatsKept, AvailUntouched
  <2> QED BY <2>4, <2>7 DEF SInv
<1>h. CASE PendingUnknown
  <2>1. /\ health.pc = "migrations" /\ crashes' = crashes + 1
        /\ health' = [pc |-> "rate_limit", at |-> health.at, value |-> health.value]
        /\ alarm' = [alarm EXCEPT !["migrations"] = 0]
        /\ UNCHANGED <<pending, limit, fresh, repeats, flips, checks, avail>>
    BY <1>1, <1>h DEF PendingUnknown
  <2>2. alarm' \in [Signal -> Nat] /\ alarm'["rate_limit"] = alarm["rate_limit"]
    BY <1>1, <1>3, <2>1
  <2>3. STInv' /\ crashes' >= crashes
    BY <1>1, <1>2, <2>1, <2>2 DEF STInv, SignalsTypeOK, avail
  <2>4. Forgetful' \subseteq Forgetful \cup {"migrations"}
    BY <1>3, <2>1, <2>2 DEF Forgetful, Forgotten, Value
  <2>5. RepeatsPaid' /\ Paid'
    BY <1>1, <1>3, <2>1, <2>3, <2>4, RepeatsHidden, AvailUntouched
  <2> QED BY <2>3, <2>5 DEF SInv
<1>i. CASE HealthDies
  <2>1. PICK s \in Signal : s = health.at
    BY <1>2
  <2>2. /\ crashes' = crashes + 1 /\ health' = [pc |-> "idle", at |-> "migrations", value |-> 0]
        /\ UNCHANGED <<pending, limit, alarm, fresh, repeats, flips, checks, avail>>
    BY <1>i DEF HealthDies
  <2>3. STInv' /\ crashes' >= crashes
    BY <1>1, <1>3, <2>2 DEF STInv, SignalsTypeOK, avail
  <2>4. Forgetful' \subseteq Forgetful \cup {s}
    BY <2>1, <2>2 DEF Forgetful, Forgotten, Value
  <2>5. RepeatsPaid' /\ Paid'
    BY <1>1, <2>2, <2>3, <2>4, RepeatsHidden, AvailUntouched
  <2> QED BY <2>3, <2>5 DEF SInv
<1>j. ASSUME NEW n \in 0..2, PendingChanges(n)
      PROVE  SInv'
  BY <1>a, <1>j DEF PendingChanges, Flip
<1> QED BY <1>c, <1>d, <1>e, <1>f, <1>g, <1>h, <1>i, <1>j DEF HealthNext

LEMMA SignalsStutter ==
  ASSUME SInv, UNCHANGED signals
  PROVE  SInv'
<1>1. STInv'
  BY DEF SInv, STInv, SignalsTypeOK, signals, avail, status
<1>2. RepeatsPaid'
  BY DEF SInv, RepeatsPaid, Forgetful, Forgotten, Value, signals, status
<1>3. Paid'
  BY DEF SInv, Paid, PaidFor, Budget, Coming, Armed, Rising, Sinking, signals, avail
<1> QED BY <1>1, <1>2, <1>3 DEF SInv

-----------------------------------------------------------------------------
(* The episode alerts keep their invariant.                                *)

Check == [pc: {"idle", "loop", "mark"}, todo: SUBSET Follower, rows: SUBSET (Follower \X Key)]
Refresh == [pc: {"idle", "fetch", "diff"}, before: Schedule]

LEMMA AiringTypes ==
  ASSUME ATInv
  PROVE  /\ now \in Time /\ airsAt \in [Key -> Time] /\ cache \in Schedule
         /\ follows \subseteq Follower \X Show /\ log \in [Follower -> Seq(Key)]
         /\ sent \in [Follower \X Key -> Nat] /\ told \in [Follower \X Key -> Time \cup {NoRow}]
         /\ check \in Check /\ refresh \in Refresh
         /\ seen \in [Follower -> Nat \cup {NoVisit}] /\ visit \in [Follower -> Nat \cup {NoVisit}]
         /\ \A u \in Follower : seen[u] <= Len(log[u]) /\ visit[u] <= Len(log[u])
         /\ raced \in [Follower -> SUBSET Key] /\ shown \in [Follower -> SUBSET Key]
         /\ moves \in Nat /\ edits \in Nat /\ visits \in Nat /\ outages \in Nat
BY DEF ATInv, AiringTypeOK, Check, Refresh

LEMMA AiringConstants ==
  /\ Active \subseteq Follower /\ MaxTime \in Nat /\ MaxTime > 0 /\ Time = 0..MaxTime
  /\ NoRow = -1 /\ NoVisit = -1
BY AiringAssumption DEF Time, NoRow, NoVisit

\* What appending a row does to a log.
LEMMA Logged ==
  ASSUME NEW s \in Seq(Key), NEW k \in Key
  PROVE  /\ Append(s, k) \in Seq(Key) /\ Len(Append(s, k)) = Len(s) + 1 /\ Len(s) \in Nat
         /\ \A i \in 1..Len(s) : Append(s, k)[i] = s[i]
         /\ Append(s, k)[Len(s) + 1] = k
         /\ \A e : e \in Range(s) \/ e = k => e \in Range(Append(s, k))
<1>1. /\ Append(s, k) \in Seq(Key) /\ Len(Append(s, k)) = Len(s) + 1 /\ Len(s) \in Nat
      /\ \A i \in 1..Len(s) : Append(s, k)[i] = s[i]
      /\ Append(s, k)[Len(s) + 1] = k
  OBVIOUS
<1>2. DOMAIN s = 1..Len(s) /\ DOMAIN Append(s, k) = 1..(Len(s) + 1)
  OBVIOUS
<1>3. ASSUME NEW e, e \in Range(s) PROVE e \in Range(Append(s, k))
  <2>1. PICK i \in 1..Len(s) : e = s[i]
    BY <1>2, <1>3 DEF Range
  <2>2. i \in 1..(Len(s) + 1) /\ Append(s, k)[i] = e
    BY <1>1, <2>1
  <2> QED BY <1>2, <2>2 DEF Range
<1>4. k \in Range(Append(s, k))
  <2>1. Len(s) + 1 \in 1..(Len(s) + 1)
    BY <1>1
  <2> QED BY <1>1, <1>2, <2>1 DEF Range
<1> QED BY <1>1, <1>3, <1>4

LEMMA AiringInitInv ==
  ASSUME AiringInit
  PROVE  AInv
<1> USE AiringConstants
<1>1. airsAt \in [Key -> Time] /\ cache \in Schedule
  <2>1. airsAt \in [Key -> 0..(MaxTime - 1)] /\ cache = airsAt
    BY DEF AiringInit
  <2>2. \A k \in Key : airsAt[k] \in Time /\ airsAt[k] \in Time \cup {NoRow}
    BY <2>1
  <2> QED BY <2>1, <2>2 DEF Schedule
<1>2. told \in [Follower \X Key -> Time \cup {NoRow}]
  BY <1>1 DEF AiringInit, Schedule
<1>3. check \in Check /\ check.rows = {} /\ check.pc = "idle"
  BY DEF AiringInit, Idle, Check
<1>4. refresh \in Refresh /\ refresh.pc = "idle"
  BY DEF AiringInit, NoRefresh, Refresh, Schedule
<1>5. \A u \in Follower : /\ log[u] = <<>> /\ log[u] \in Seq(Key) /\ Len(log[u]) = 0
                          /\ seen[u] \in {0, NoVisit} /\ visit[u] = NoVisit
                          /\ 1..seen[u] = {}
  <2>1. SUFFICES ASSUME NEW u \in Follower
                 PROVE  /\ log[u] = <<>> /\ log[u] \in Seq(Key) /\ Len(log[u]) = 0
                        /\ seen[u] \in {0, NoVisit} /\ visit[u] = NoVisit
                        /\ 1..seen[u] = {}
    OBVIOUS
  <2>2. seen[u] \in {0, NoVisit} /\ visit[u] = NoVisit /\ log[u] = <<>>
    BY DEF AiringInit
  <2> QED BY <2>2
<1>6. /\ seen \in [Follower -> Nat \cup {NoVisit}] /\ visit \in [Follower -> Nat \cup {NoVisit}]
      /\ log \in [Follower -> Seq(Key)]
  BY <1>5 DEF AiringInit
<1>7. /\ now \in Time /\ follows \subseteq Follower \X Show /\ sent \in [Follower \X Key -> Nat]
      /\ raced \in [Follower -> SUBSET Key] /\ shown \in [Follower -> SUBSET Key]
      /\ moves \in Nat /\ edits \in Nat /\ visits \in Nat /\ outages \in Nat
  BY DEF AiringInit
<1>8. \A u \in Follower : seen[u] <= Len(log[u]) /\ visit[u] <= Len(log[u])
  BY <1>5
<1>9. ATInv
  BY <1>1, <1>2, <1>3, <1>4, <1>6, <1>7, <1>8 DEF ATInv, AiringTypeOK, Check, Refresh
<1>10. Once
  BY <1>3 DEF AiringInit, Once
<1>11. Digested
  BY <1>5 DEF Digested
<1>12. Informed
  BY <1>4 DEF AiringInit, Informed
<1> QED BY <1>9, <1>10, <1>11, <1>12 DEF AInv

\* Steps that send nothing and record nothing.
LEMMA OnceKept ==
  ASSUME ATInv, Once, UNCHANGED <<log, sent>>, outages' \in Nat, outages' >= outages,
         check'.rows = check.rows, check'.pc # "mark" => check'.rows = {}
  PROVE  Once'
<1>1. \A u \in Follower, k \in Key : sent[<<u, k>>] \in Nat
  BY AiringTypes
<1>2. outages \in Nat
  BY AiringTypes
<1> QED BY <1>1, <1>2 DEF Once

LEMMA DigestedKept ==
  ASSUME Digested, UNCHANGED <<log, seen, visit, shown, raced>>
  PROVE  Digested'
BY DEF Digested

LEMMA InformedKept ==
  ASSUME ATInv, Informed, UNCHANGED <<refresh, cache, follows, told>>, outages' = 0 => outages = 0
  PROVE  Informed'
BY DEF Informed, Follows

LEMMA TickInv ==
  ASSUME AInv, Tick
  PROVE  AInv'
<1> USE AiringConstants
<1>1. ATInv /\ Once /\ Digested /\ Informed
  BY DEF AInv
<1>2. /\ UNCHANGED <<airsAt, cache, follows, log, sent, told, raced, moves, edits, outages,
                     seen, visit, shown, visits>>
      /\ check.pc = "idle" /\ refresh.pc = "idle" /\ now < MaxTime /\ now' = now + 1
  BY DEF Tick, page
<1>3. now' \in Time
  BY <1>1, <1>2, AiringTypes
<1>4. check.rows = {}
  BY <1>1, <1>2 DEF Once
<1>5. /\ check' \in Check /\ refresh' \in Refresh
      /\ check'.pc # "mark" /\ check'.rows = {}
      /\ refresh'.pc # "diff" /\ (refresh'.pc = "fetch" => refresh'.before = cache)
  <2>1. CASE now' % 2 = 0
    <3>1. check' = [pc |-> "loop", todo |-> Follower, rows |-> {}] /\ refresh' = refresh
      BY <2>1 DEF Tick, Idle
    <3> QED BY <1>1, <1>2, <3>1, AiringTypes DEF Check
  <2>2. CASE now' % 2 # 0
    <3>1. refresh' = [pc |-> "fetch", before |-> cache] /\ check' = check
      BY <2>2 DEF Tick, NoRefresh
    <3> QED BY <1>1, <1>2, <1>4, <3>1, AiringTypes DEF Refresh
  <2> QED BY <2>1, <2>2
<1>6. ATInv'
  BY <1>1, <1>2, <1>3, <1>5, AiringTypes DEF ATInv, AiringTypeOK, Check, Refresh
<1>7. Once'
  BY <1>1, <1>2, <1>4, <1>5, OnceKept, AiringTypes
<1>8. Digested'
  BY <1>1, <1>2, DigestedKept
<1>9. Informed'
  BY <1>1, <1>2, <1>5 DEF Informed, Follows
<1> QED BY <1>6, <1>7, <1>8, <1>9 DEF AInv

LEMMA MoveInv ==
  ASSUME AInv, NEW k \in Key, NEW t \in Time, Move(k, t)
  PROVE  AInv'
<1>1. ATInv /\ Once /\ Digested /\ Informed
  BY DEF AInv
<1>2. /\ UNCHANGED <<now, cache, follows, log, sent, told, check, refresh, raced, edits, outages,
                     seen, visit, shown, visits>>
      /\ airsAt' = [airsAt EXCEPT ![k] = t] /\ moves' = moves + 1
  BY DEF Move, page
<1>3. ATInv'
  BY <1>1, <1>2, AiringTypes DEF ATInv, AiringTypeOK, Check, Refresh
<1>4. Once' /\ Digested' /\ Informed'
  BY <1>1, <1>2, DigestedKept, InformedKept DEF Once
<1> QED BY <1>3, <1>4 DEF AInv

LEMMA ToggleInv ==
  ASSUME AInv, NEW u \in Follower, NEW s \in Show, Toggle(u, s)
  PROVE  AInv'
<1>1. ATInv /\ Once /\ Digested /\ Informed
  BY DEF AInv
<1>2. /\ UNCHANGED <<now, airsAt, cache, log, sent, check, refresh, raced, moves, outages,
                     seen, visit, shown, visits>>
      /\ edits' = edits + 1
      /\ follows' = (IF <<u, s>> \in follows THEN follows \ {<<u, s>>} ELSE follows \cup {<<u, s>>})
      /\ told' = [x \in DOMAIN told |-> IF x[1] = u /\ x[2][1] = s THEN cache[x[2]] ELSE told[x]]
  BY DEF Toggle, page
<1>3. /\ \A k \in Key : cache[k] \in Time \cup {NoRow}
      /\ told \in [Follower \X Key -> Time \cup {NoRow}]
  BY <1>1, AiringTypes DEF Schedule
<1>4. /\ told' \in [Follower \X Key -> Time \cup {NoRow}]
      /\ \A v \in Follower, k \in Key :
           told'[<<v, k>>] = IF v = u /\ k[1] = s THEN cache[k] ELSE told[<<v, k>>]
  BY <1>2, <1>3
<1>5. follows' \subseteq Follower \X Show /\ edits' \in Nat
  BY <1>1, <1>2, AiringTypes
<1>6. ATInv'
  BY <1>1, <1>2, <1>4, <1>5, AiringTypes DEF ATInv, AiringTypeOK, Check, Refresh
<1>7. Once' /\ Digested'
  BY <1>1, <1>2, DigestedKept DEF Once
<1>8. \A v \in Follower, k \in Key : ~ (v = u /\ k[1] = s) => (Follows(v, k)' <=> Follows(v, k))
  BY <1>2 DEF Follows
<1>9. Informed'
  <2>1. SUFFICES ASSUME outages' = 0
                 PROVE  /\ refresh'.pc = "fetch" => refresh'.before = cache'
                        /\ \A v \in Follower, k \in Key :
                             /\ Follows(v, k)' /\ cache'[k] # NoRow
                             /\ (refresh'.pc = "diff" => refresh'.before[k] = cache'[k])
                             => told'[<<v, k>>] = cache'[k]
    BY DEF Informed
  <2> QED BY <1>1, <1>2, <1>4, <1>8, <2>1 DEF Informed
<1> QED BY <1>6, <1>7, <1>9 DEF AInv

LEMMA RefetchInv ==
  ASSUME AInv, Refetch
  PROVE  AInv'
<1>1. ATInv /\ Once /\ Digested /\ Informed
  BY DEF AInv
<1>2. /\ UNCHANGED <<now, airsAt, follows, log, sent, told, check, raced, moves, edits, outages,
                     seen, visit, shown, visits>>
      /\ refresh.pc = "fetch" /\ refresh' = [refresh EXCEPT !.pc = "diff"]
      /\ cache' = [k \in Key |-> IF k[1] \in Releasing THEN Upcoming(k) ELSE cache[k]]
  BY DEF Refetch, page
<1>3. cache' \in Schedule
  <2>1. \A k \in Key : Upcoming(k) \in Time \cup {NoRow} /\ cache[k] \in Time \cup {NoRow}
    BY <1>1, AiringTypes DEF Upcoming, Schedule
  <2> QED BY <1>2, <2>1 DEF Schedule
<1>4. refresh' \in Refresh /\ refresh'.pc = "diff" /\ refresh'.before = refresh.before
  BY <1>1, <1>2, AiringTypes DEF Refresh
<1>5. ATInv'
  BY <1>1, <1>2, <1>3, <1>4, AiringTypes DEF ATInv, AiringTypeOK, Check, Refresh
<1>6. Once' /\ Digested'
  BY <1>1, <1>2, DigestedKept DEF Once
<1>7. Informed'
  BY <1>1, <1>2, <1>4 DEF Informed, Follows
<1> QED BY <1>5, <1>6, <1>7 DEF AInv

LEMMA DiffInv ==
  ASSUME AInv, Diff
  PROVE  AInv'
<1>1. ATInv /\ Once /\ Digested /\ Informed
  BY DEF AInv
<1>2. /\ UNCHANGED <<now, airsAt, cache, follows, log, sent, check, raced, moves, edits, outages,
                     seen, visit, shown, visits>>
      /\ refresh.pc = "diff" /\ refresh' = NoRefresh
      /\ told' = [x \in DOMAIN told |->
           IF Follows(x[1], x[2]) /\ refresh.before[x[2]] # cache[x[2]] THEN cache[x[2]] ELSE told[x]]
  BY DEF Diff, page
<1>3. /\ \A k \in Key : cache[k] \in Time \cup {NoRow}
      /\ told \in [Follower \X Key -> Time \cup {NoRow}]
  BY <1>1, AiringTypes DEF Schedule
<1>4. /\ told' \in [Follower \X Key -> Time \cup {NoRow}]
      /\ \A v \in Follower, k \in Key :
           told'[<<v, k>>] = IF Follows(v, k) /\ refresh.before[k] # cache[k] THEN cache[k]
                             ELSE told[<<v, k>>]
  BY <1>2, <1>3
<1>5. refresh' \in Refresh /\ refresh'.pc = "idle"
  BY <1>2 DEF NoRefresh, Refresh, Schedule
<1>6. ATInv'
  BY <1>1, <1>2, <1>4, <1>5, AiringTypes DEF ATInv, AiringTypeOK, Check, Refresh
<1>7. Once' /\ Digested'
  BY <1>1, <1>2, DigestedKept DEF Once
<1>8. Informed'
  BY <1>1, <1>2, <1>4, <1>5 DEF Informed, Follows
<1> QED BY <1>6, <1>7, <1>8 DEF AInv

LEMMA AiringFailsInv ==
  ASSUME AInv, RefreshFails \/ CheckFails
  PROVE  AInv'
<1>1. ATInv /\ Once /\ Digested /\ outages \in Nat
  BY AiringTypes DEF AInv
<1>2. /\ UNCHANGED <<now, airsAt, cache, follows, log, sent, told, raced, moves, edits,
                     seen, visit, shown, visits>>
      /\ outages' = outages + 1
  BY DEF RefreshFails, CheckFails, page
<1>3. /\ check' \in Check /\ refresh' \in Refresh
      /\ (check' = check \/ (check'.pc = "idle" /\ check'.rows = {}))
  <2>1. Idle \in Check /\ Idle.pc = "idle" /\ Idle.rows = {}
    BY DEF Idle, Check
  <2>2. NoRefresh \in Refresh
    BY DEF NoRefresh, Refresh, Schedule
  <2> QED BY <1>1, <2>1, <2>2, AiringTypes DEF RefreshFails, CheckFails
<1>4. ATInv'
  BY <1>1, <1>2, <1>3, AiringTypes DEF ATInv, AiringTypeOK, Check, Refresh
<1>5. Once'
  <2>1. \A u \in Follower, k \in Key : sent[<<u, k>>] \in Nat
    BY <1>1, AiringTypes
  <2> QED BY <1>1, <1>2, <1>3, <2>1 DEF Once
<1>6. Digested'
  BY <1>1, <1>2, DigestedKept
<1>7. Informed'
  BY <1>1, <1>2 DEF Informed
<1> QED BY <1>4, <1>5, <1>6, <1>7 DEF AInv

LEMMA AlertInv ==
  ASSUME AInv, NEW u \in Follower, Alert(u)
  PROVE  AInv'
<1>1. ATInv /\ Once /\ Digested /\ Informed /\ outages \in Nat
  BY AiringTypes DEF AInv
<1>2. PICK D \in SUBSET Key : D = Due(u)
  BY DEF Due
<1>3. /\ UNCHANGED <<now, airsAt, cache, follows, log, told, refresh, raced, moves, edits, outages,
                     seen, visit, shown, visits>>
      /\ check.pc = "loop"
      /\ check' = [pc |-> IF D = {} THEN "loop" ELSE "mark", todo |-> check.todo \ {u}, rows |-> {u} \X D]
      /\ sent' = [x \in DOMAIN sent |-> IF x[1] = u /\ x[2] \in D THEN sent[x] + 1 ELSE sent[x]]
  BY <1>2 DEF Alert, Sent, page
<1>4. sent \in [Follower \X Key -> Nat] /\ check \in Check
  BY <1>1, AiringTypes
<1>5. /\ sent' \in [Follower \X Key -> Nat]
      /\ \A v \in Follower, k \in Key :
           sent'[<<v, k>>] = IF v = u /\ k \in D THEN sent[<<v, k>>] + 1 ELSE sent[<<v, k>>]
  BY <1>3, <1>4
<1>6. /\ check' \in Check /\ check'.rows = {u} \X D /\ (check'.pc # "mark" => check'.rows = {})
  <2>1. PICK p \in {"loop", "mark"} : p = IF D = {} THEN "loop" ELSE "mark"
    OBVIOUS
  <2>2. PICK R \in SUBSET (Follower \X Key) : R = {u} \X D
    OBVIOUS
  <2>3. check' = [pc |-> p, todo |-> check.todo \ {u}, rows |-> R]
    BY <1>3, <2>1, <2>2
  <2>4. p # "mark" => R = {}
    BY <2>1, <2>2
  <2>5. check.todo \ {u} \in SUBSET Follower
    BY <1>4 DEF Check
  <2> QED BY <2>2, <2>3, <2>4, <2>5 DEF Check
<1>7. ATInv'
  BY <1>1, <1>3, <1>5, <1>6, AiringTypes DEF ATInv, AiringTypeOK, Check, Refresh
<1>8. Once'
  <2>1. SUFFICES ASSUME NEW v \in Follower, NEW k \in Key
                 PROVE  /\ sent'[<<v, k>>] <= 1 + outages
                        /\ k \notin Range(log[v]) /\ <<v, k>> \notin check'.rows => sent'[<<v, k>>] <= outages
    BY <1>3, <1>6 DEF Once
  <2>2. /\ check.rows = {} /\ sent[<<v, k>>] <= 1 + outages /\ sent[<<v, k>>] \in Nat
        /\ (k \notin Range(log[v]) => sent[<<v, k>>] <= outages)
    BY <1>1, <1>3, <1>4 DEF Once
  <2>3. CASE v = u /\ k \in D
    <3>1. k \notin Range(log[v])
      BY <1>2, <2>3 DEF Due
    <3>2. <<v, k>> \in check'.rows
      BY <1>6, <2>3
    <3> QED BY <1>1, <1>5, <2>2, <2>3, <3>1, <3>2
  <2>4. CASE ~ (v = u /\ k \in D)
    BY <1>5, <2>2, <2>4
  <2> QED BY <2>3, <2>4
<1>9. Digested' /\ Informed'
  BY <1>1, <1>3, DigestedKept, InformedKept
<1> QED BY <1>7, <1>8, <1>9 DEF AInv

LEMMA MarkInv ==
  ASSUME AInv, NEW u \in Follower, NEW k \in Key, Mark(u, k)
  PROVE  AInv'
<1> USE AiringConstants
<1>1. ATInv /\ Once /\ Digested /\ Informed /\ outages \in Nat
  BY AiringTypes DEF AInv
<1>2. /\ log \in [Follower -> Seq(Key)] /\ check \in Check /\ raced \in [Follower -> SUBSET Key]
      /\ shown \in [Follower -> SUBSET Key]
      /\ seen \in [Follower -> Nat \cup {NoVisit}] /\ visit \in [Follower -> Nat \cup {NoVisit}]
      /\ \A v \in Follower : /\ seen[v] <= Len(log[v]) /\ visit[v] <= Len(log[v])
                             /\ log[v] \in Seq(Key) /\ Len(log[v]) \in Nat
  BY <1>1, AiringTypes
<1>3. PICK l : l = IF k \in Range(log[u]) THEN log[u] ELSE Append(log[u], k)
  OBVIOUS
<1>4. PICK r \in SUBSET Key : r = IF visit[u] # NoVisit THEN raced[u] \cup {k} ELSE raced[u]
  BY <1>2
<1>5. PICK R \in SUBSET (Follower \X Key), p \in {"loop", "mark"} :
        R = check.rows \ {<<u, k>>} /\ p = IF check.rows = {<<u, k>>} THEN "loop" ELSE "mark"
  BY <1>2 DEF Check
<1>6. /\ UNCHANGED <<now, airsAt, cache, follows, sent, told, refresh, moves, edits, outages,
                     seen, visit, shown, visits>>
      /\ check.pc = "mark" /\ <<u, k>> \in check.rows
      /\ log' = [log EXCEPT ![u] = l] /\ raced' = [raced EXCEPT ![u] = r]
      /\ check' = [check EXCEPT !.rows = R, !.pc = p]
  BY <1>2, <1>3, <1>4, <1>5 DEF Mark, page, Check
<1>7. /\ l \in Seq(Key) /\ Len(l) >= Len(log[u]) /\ Len(l) \in Nat
      /\ \A i \in 1..Len(log[u]) : l[i] = log[u][i]
      /\ \A i \in 1..Len(l) : i \in 1..Len(log[u]) \/ l[i] = k
      /\ k \in Range(l) /\ \A e : e \in Range(log[u]) => e \in Range(l)
  <2>1. CASE k \in Range(log[u])
    BY <1>2, <1>3, <2>1
  <2>2. CASE k \notin Range(log[u])
    <3>1. l = Append(log[u], k) /\ log[u] \in Seq(Key)
      BY <1>2, <1>3, <2>2
    <3>2. /\ l \in Seq(Key) /\ Len(l) = Len(log[u]) + 1 /\ Len(log[u]) \in Nat
          /\ \A i \in 1..Len(log[u]) : l[i] = log[u][i]
          /\ l[Len(log[u]) + 1] = k
          /\ \A e : e \in Range(log[u]) \/ e = k => e \in Range(l)
      BY <3>1, Logged
    <3>3. \A i \in 1..Len(l) : i \in 1..Len(log[u]) \/ i = Len(log[u]) + 1
      BY <3>2
    <3> QED BY <3>2, <3>3
  <2> QED BY <2>1, <2>2
<1>8. /\ log' \in [Follower -> Seq(Key)] /\ log'[u] = l /\ raced' \in [Follower -> SUBSET Key] /\ raced'[u] = r
      /\ \A v \in Follower \ {u} : log'[v] = log[v] /\ raced'[v] = raced[v]
  BY <1>2, <1>6, <1>7
<1>9. /\ check' \in Check /\ check'.rows = R /\ check'.pc = p /\ (p # "mark" => R = {})
  BY <1>2, <1>5, <1>6 DEF Check
<1>10. \A v \in Follower : seen[v] <= Len(log'[v]) /\ visit[v] <= Len(log'[v])
  <2>1. SUFFICES ASSUME NEW v \in Follower PROVE seen[v] <= Len(log'[v]) /\ visit[v] <= Len(log'[v])
    OBVIOUS
  <2>2. seen[v] \in Int /\ visit[v] \in Int
    BY <1>2
  <2>3. CASE v = u
    BY <1>2, <1>7, <1>8, <2>2, <2>3
  <2>4. CASE v # u
    BY <1>2, <1>8, <2>4
  <2> QED BY <2>3, <2>4
<1>11. ATInv'
  BY <1>1, <1>6, <1>8, <1>9, <1>10, AiringTypes DEF ATInv, AiringTypeOK, Check, Refresh
<1>12. Once'
  <2>1. SUFFICES ASSUME NEW v \in Follower, NEW e \in Key
                 PROVE  /\ sent[<<v, e>>] <= 1 + outages
                        /\ e \notin Range(log'[v]) /\ <<v, e>> \notin R => sent[<<v, e>>] <= outages
    BY <1>6, <1>9 DEF Once
  <2>2. e \notin Range(log'[v]) => e \notin Range(log[v])
    BY <1>7, <1>8
  <2>3. e \notin Range(log'[v]) /\ <<v, e>> \notin R => <<v, e>> \notin check.rows
    BY <1>5, <1>7, <1>8
  <2> QED BY <1>1, <2>2, <2>3 DEF Once
<1>13. Digested'
  <2>1. ASSUME NEW v \in Follower, NEW i \in 1..Len(log[v])
        PROVE  log'[v][i] = log[v][i] /\ i \in 1..Len(log'[v])
    <3>1. CASE v = u
      BY <1>2, <1>7, <1>8, <3>1
    <3>2. CASE v # u
      BY <1>8, <3>2
    <3> QED BY <3>1, <3>2
  <2>2. \A v \in Follower : raced[v] \subseteq raced'[v] /\ seen'[v] = seen[v]
                            /\ shown'[v] = shown[v] /\ visit'[v] = visit[v]
    BY <1>4, <1>6, <1>8
  <2>3. ASSUME NEW v \in Follower, NEW i \in 1..seen[v]
        PROVE  log'[v][i] \in shown'[v] \cup raced'[v]
    <3>1. i \in 1..Len(log[v])
      <4>1. seen[v] \in Int /\ seen[v] <= Len(log[v]) /\ Len(log[v]) \in Nat
        BY <1>2
      <4> QED BY <4>1
    <3>2. log[v][i] \in shown[v] \cup raced[v]
      BY <1>1 DEF Digested
    <3> QED BY <2>1, <2>2, <3>1, <3>2
  <2>4. ASSUME NEW v \in Follower, visit[v] # NoVisit, NEW i \in 1..Len(log'[v])
        PROVE  log'[v][i] \in shown'[v] \cup raced'[v]
    <3>1. \A j \in 1..Len(log[v]) : log[v][j] \in shown[v] \cup raced[v]
      BY <1>1, <2>4 DEF Digested
    <3>2. CASE i \in 1..Len(log[v])
      BY <2>1, <2>2, <3>1, <3>2
    <3>3. CASE i \notin 1..Len(log[v])
      <4>1. v = u /\ log'[v][i] = k
        BY <1>7, <1>8, <2>4, <3>3
      <4> QED BY <1>4, <1>8, <2>4, <4>1
    <3> QED BY <3>2, <3>3
  <2> QED BY <2>2, <2>3, <2>4 DEF Digested
<1>14. Informed'
  BY <1>1, <1>6, InformedKept
<1> QED BY <1>11, <1>12, <1>13, <1>14 DEF AInv

LEMMA CheckEndsInv ==
  ASSUME AInv, CheckEnds
  PROVE  AInv'
<1>1. ATInv /\ Once /\ Digested /\ Informed /\ outages \in Nat
  BY AiringTypes DEF AInv
<1>2. /\ UNCHANGED <<now, airsAt, cache, follows, log, sent, told, refresh, raced, moves, edits, outages,
                     seen, visit, shown, visits>>
      /\ check.pc = "loop" /\ check' = Idle
  BY DEF CheckEnds, page
<1>3. Idle \in Check /\ Idle.rows = {} /\ check.rows = {}
  BY <1>1, <1>2 DEF Idle, Check, Once
<1>4. ATInv'
  BY <1>1, <1>2, <1>3, AiringTypes DEF ATInv, AiringTypeOK, Check, Refresh
<1>5. Once' /\ Digested' /\ Informed'
  BY <1>1, <1>2, <1>3, OnceKept, DigestedKept, InformedKept
<1> QED BY <1>4, <1>5 DEF AInv

LEMMA VisitInv ==
  ASSUME AInv, NEW u \in Follower, Visit(u)
  PROVE  AInv'
<1> USE AiringConstants
<1>1. ATInv /\ Once /\ Digested /\ Informed
  BY DEF AInv
<1>2. /\ log \in [Follower -> Seq(Key)] /\ shown \in [Follower -> SUBSET Key]
      /\ seen \in [Follower -> Nat \cup {NoVisit}] /\ visit \in [Follower -> Nat \cup {NoVisit}]
      /\ log[u] \in Seq(Key) /\ Len(log[u]) \in Nat /\ seen[u] \in Nat \cup {NoVisit}
      /\ \A i \in 1..Len(log[u]) : log[u][i] \in Key
  BY <1>1, AiringTypes
<1>3. PICK f \in Nat : f = IF seen[u] = NoVisit THEN 1 ELSE seen[u] + 1
  BY <1>2
<1>4. f >= 1
  BY <1>2, <1>3
<1>5. PICK S \in SUBSET Key : S = shown[u] \cup {log[u][i] : i \in f..Len(log[u])}
  <2>1. \A i \in f..Len(log[u]) : i \in 1..Len(log[u])
    BY <1>2, <1>4
  <2>2. {log[u][i] : i \in f..Len(log[u])} \subseteq Key
    BY <1>2, <2>1
  <2>3. shown[u] \subseteq Key
    BY <1>2
  <2> QED BY <2>2, <2>3
<1>6. /\ UNCHANGED <<now, airsAt, cache, follows, log, sent, told, check, refresh, seen, raced, moves, edits,
                     outages>>
      /\ visits' = visits + 1
      /\ visit' = [visit EXCEPT ![u] = Len(log[u])] /\ shown' = [shown EXCEPT ![u] = S]
  BY <1>2, <1>3, <1>5 DEF Visit
<1>7. /\ visit' \in [Follower -> Nat \cup {NoVisit}] /\ shown' \in [Follower -> SUBSET Key]
      /\ visit'[u] = Len(log[u]) /\ shown'[u] = S
      /\ \A v \in Follower \ {u} : visit'[v] = visit[v] /\ shown'[v] = shown[v]
  BY <1>2, <1>6
<1>8. \A v \in Follower : visit'[v] <= Len(log[v])
  <2>1. \A v \in Follower : visit[v] <= Len(log[v])
    BY <1>1, AiringTypes
  <2>2. visit'[u] <= Len(log[u])
    BY <1>2, <1>7
  <2> QED BY <1>7, <2>1, <2>2
<1>9. ATInv'
  BY <1>1, <1>6, <1>7, <1>8, AiringTypes DEF ATInv, AiringTypeOK, Check, Refresh
<1>10. Once' /\ Informed'
  BY <1>1, <1>6, InformedKept DEF Once
<1>11. Digested'
  <2>1. ASSUME NEW i \in 1..Len(log[u])
        PROVE  log[u][i] \in S \cup raced[u]
    <3>1. CASE i \in 1..seen[u]
      BY <1>1, <1>5, <3>1 DEF Digested
    <3>2. CASE i \notin 1..seen[u]
      <4>1. i \in f..Len(log[u])
        BY <1>2, <1>3, <3>2
      <4> QED BY <1>5, <4>1
    <3> QED BY <3>1, <3>2
  <2>2. \A v \in Follower : shown[v] \subseteq shown'[v]
    BY <1>5, <1>7
  <2> QED BY <1>1, <1>6, <1>7, <2>1, <2>2 DEF Digested
<1> QED BY <1>9, <1>10, <1>11 DEF AInv

LEMMA AdvanceInv ==
  ASSUME AInv, NEW u \in Follower, Advance(u)
  PROVE  AInv'
<1> USE AiringConstants
<1>1. ATInv /\ Once /\ Digested /\ Informed
  BY DEF AInv
<1>2. /\ seen \in [Follower -> Nat \cup {NoVisit}] /\ visit \in [Follower -> Nat \cup {NoVisit}]
      /\ Len(log[u]) \in Nat
  BY <1>1, AiringTypes
<1>3. /\ UNCHANGED <<now, airsAt, cache, follows, log, sent, told, check, refresh, raced, shown, moves,
                     edits, visits, outages>>
      /\ visit[u] # NoVisit
      /\ seen' = [seen EXCEPT ![u] = Len(log[u])] /\ visit' = [visit EXCEPT ![u] = NoVisit]
  BY DEF Advance
<1>4. /\ seen' \in [Follower -> Nat \cup {NoVisit}] /\ visit' \in [Follower -> Nat \cup {NoVisit}]
      /\ seen'[u] = Len(log[u]) /\ visit'[u] = NoVisit
      /\ \A v \in Follower \ {u} : seen'[v] = seen[v] /\ visit'[v] = visit[v]
  BY <1>2, <1>3
<1>5. \A v \in Follower : seen'[v] <= Len(log[v]) /\ visit'[v] <= Len(log[v])
  <2>1. \A v \in Follower : seen[v] <= Len(log[v]) /\ visit[v] <= Len(log[v])
    BY <1>1, AiringTypes
  <2>2. seen'[u] <= Len(log[u]) /\ visit'[u] <= Len(log[u])
    BY <1>2, <1>4
  <2> QED BY <1>4, <2>1, <2>2
<1>6. ATInv'
  BY <1>1, <1>3, <1>4, <1>5, AiringTypes DEF ATInv, AiringTypeOK, Check, Refresh
<1>7. Once' /\ Informed'
  BY <1>1, <1>3, InformedKept DEF Once
<1>8. Digested'
  BY <1>1, <1>3, <1>4 DEF Digested
<1> QED BY <1>6, <1>7, <1>8 DEF AInv

LEMMA AiringInv ==
  ASSUME AInv, AiringNext
  PROVE  AInv'
BY AiringConstants, TickInv, MoveInv, ToggleInv, RefetchInv, DiffInv, AiringFailsInv, AlertInv, MarkInv,
   CheckEndsInv, VisitInv, AdvanceInv DEF AiringNext, CheckStep

LEMMA AiringStutters ==
  ASSUME AInv, UNCHANGED airing
  PROVE  AInv'
<1>1. UNCHANGED <<now, airsAt, cache, follows, log, sent, told, check, refresh, seen, visit,
                  raced, shown, moves, edits, visits, outages>>
  BY DEF airing
<1> QED BY <1>1 DEF AInv, ATInv, AiringTypeOK, Once, Digested, Informed, Follows

-----------------------------------------------------------------------------
(* The jobs together.                                                      *)

JobsInv == CInv /\ SInv /\ AInv

\* The invariant holds in every reachable state, whichever component moves.
THEOREM JobsKeep == Spec => []JobsInv
<1>1. Init => JobsInv
  BY CatalogueInitInv, SignalsInitInv, AiringInitInv DEF Init, JobsInv
<1>2. JobsInv /\ [Next]_vars => JobsInv'
  <2>1. SUFFICES ASSUME JobsInv, [Next]_vars PROVE JobsInv'
    OBVIOUS
  <2>2. CASE AiringNext /\ UNCHANGED <<focus, signals, catalogue>>
    BY <2>1, <2>2, AiringInv, SignalsStutter, CatalogueStutters DEF JobsInv
  <2>3. CASE AvailabilityNext /\ UNCHANGED <<focus, airing, catalogue>>
    BY <2>1, <2>3, AvailabilityInv, AiringStutters, CatalogueStutters DEF JobsInv
  <2>4. CASE HealthNext /\ UNCHANGED <<focus, airing, catalogue>>
    BY <2>1, <2>4, HealthInv, AiringStutters, CatalogueStutters DEF JobsInv
  <2>5. CASE CatalogueNext /\ UNCHANGED <<focus, airing, signals>>
    BY <2>1, <2>5, CatalogueStepInv, AiringStutters, SignalsStutter DEF JobsInv
  <2>6. CASE UNCHANGED vars
    BY <2>1, <2>6, AiringStutters, SignalsStutter, CatalogueStutters DEF JobsInv, vars
  <2> QED BY <2>1, <2>2, <2>3, <2>4, <2>5, <2>6 DEF Next
<1> QED BY <1>1, <1>2, PTL DEF Spec

\* A title's rows in filler_episode_cache and manga_adaptation_cache are what its
\* last committed check saw, however often lookups fail, runs are cut off and the
\* services change (sync_one_anime, conn.rollback()).
THEOREM RowsOfOneCheck == Spec => []CheckedTogether
<1>1. JobsInv => CheckedTogether
  BY DEF JobsInv, CInv
<1> QED BY <1>1, JobsKeep, PTL

\* Availability alerts and repeats of health alerts are paid for, one by one, by
\* links that appeared, checks that overlapped and failures between alert and row,
\* for any number of titles and checks (_check_streaming_availability,
\* _check_health_signals).
THEOREM SignalsPaid == Spec => []SignalledOnce
<1>1. SInv => SignalledOnce
  <2>1. SUFFICES ASSUME SInv PROVE SignalledOnce
    OBVIOUS
  <2>2. SignalsTypeOK /\ repeats <= crashes
    BY <2>1 DEF SInv, STInv, RepeatsPaid
  <2>3. ASSUME NEW t \in Title PROVE alerts[t] <= gains[t] + overlaps + crashes
    <3>1. alerts[t] \in Nat /\ Budget(t) \in Nat
      BY <2>1, BudgetNat DEF SInv
    <3>2. Cardinality(Coming(t)) \in Nat /\ alerts[t] + Cardinality(Coming(t)) <= Budget(t)
      BY <2>1, FS_CardinalityType DEF SInv, Paid, PaidFor
    <3> QED BY <3>1, <3>2 DEF Budget
  <2> QED BY <2>2, <2>3 DEF SignalledOnce
<1> QED BY <1>1, JobsKeep, PTL DEF JobsInv

\* A user hears of an episode once and once more per failure, no digest skips a
\* recorded episode, and followers know the cached airing times, for any number
\* of users, series, moves and visits (_check_airing_episodes,
\* _whats_new_for_request, _notify_airing_schedule_shifts).
THEOREM EpisodesAccounted == Spec => []AlertsAccountedFor
<1>1. AInv => AlertsAccountedFor
  <2>1. SUFFICES ASSUME AInv PROVE AlertsAccountedFor
    OBVIOUS
  <2>2. AiringTypeOK /\ sent \in [Follower \X Key -> Nat] /\ told \in [Follower \X Key -> Time \cup {NoRow}]
    BY <2>1, AiringTypes DEF AInv, ATInv
  <2>3. \A x \in DOMAIN sent : sent[x] <= 1 + outages
    <3>1. \A u \in Follower, k \in Key : sent[<<u, k>>] <= 1 + outages
      BY <2>1 DEF AInv, Once
    <3> QED BY <2>2, <3>1
  <2>4. \A u \in Follower : \A i \in 1..seen[u] : log[u][i] \in shown[u] \cup raced[u]
    BY <2>1 DEF AInv, Digested
  <2>5. outages = 0 /\ refresh.pc = "idle" =>
          \A x \in DOMAIN told : Follows(x[1], x[2]) /\ cache[x[2]] # NoRow => told[x] = cache[x[2]]
    <3>1. outages = 0 /\ refresh.pc = "idle" =>
            \A u \in Follower, k \in Key : Follows(u, k) /\ cache[k] # NoRow => told[<<u, k>>] = cache[k]
      BY <2>1 DEF AInv, Informed
    <3> QED BY <2>2, <3>1
  <2> QED BY <2>2, <2>3, <2>4, <2>5 DEF AlertsAccountedFor
<1> QED BY <1>1, JobsKeep, PTL DEF JobsInv
=============================================================================
