--------------------------- MODULE LocalLoginProofs ---------------------------
(* Proofs, for every number of browsers, requests, attempts and set-ups: a  *)
(* recovery code signs in once, recovery codes follow the switch, and, of    *)
(* two requests at a time, the login budget locks after a bounded number of  *)
(* wrong passwords.                                                          *)
EXTENDS LocalLogin, FiniteSetTheorems, TLAPS

LTInv == LoginTypeOK /\ sub \in [Submission -> {Free} \cup Work]

(***************************************************************************)
(* What the recovery codes need.  A code in stock has signed nobody in;    *)
(* the switch stands on codes and, off, leaves none; and a disabling that   *)
(* has deleted its rows has seen every code but those enabled since.        *)
(***************************************************************************)
Unsetting(r) == r.pc = "unset" => Unused \subseteq r.seen \cup stray

CodesOK ==
  /\ \A c \in Code : grants[c] <= 1 /\ (code[c] \in {"none", "unused"} => grants[c] = 0)
  /\ user.totp => Rows # {}
  /\ ~user.totp => Unused \subseteq stray
  /\ \A q \in Submission : \A r \in {sub[q]} : Unsetting(r)

(***************************************************************************)
(* What the budget needs.  A count of fails leaves Tri(MaxFails - fails)    *)
(* wrong passwords at worst; a request that holds an older count can put it  *)
(* back once, and then pays for the difference.  Within(lo, hi) says the      *)
(* wrong passwords so far leave room for a request that puts lo back where    *)
(* hi stands.                                                                *)
(***************************************************************************)
Tri(k) == (k * (k + 1)) \div 2

Clip(x) == IF x >= MaxFails THEN MaxFails - 1 ELSE x

Guessing(r) == r.pc \in {"password", "reauth"}

Held(r) == Clip(r.snap.fails)

Within(lo, hi) == guesses + Tri(MaxFails - lo) <= Tri(MaxFails) + (hi - lo)

Budget ==
  ~user.locked =>
    /\ Within(Clip(user.fails), Clip(user.fails))
    /\ \A q \in Submission : \A r \in {sub[q]} :
         Guessing(r) /\ Held(r) <= Clip(user.fails) => Within(Held(r), Clip(user.fails))
    /\ \A p, q \in Submission : p # q => \A r \in {sub[p]}, s \in {sub[q]} :
         Guessing(r) /\ Guessing(s) /\ Held(r) <= Held(s) => Within(Held(r), Held(s))

LockedBudget ==
  /\ guesses <= 1 + Tri(MaxFails)
  /\ \A q \in Submission : Guessing(sub[q]) => guesses <= Tri(MaxFails)
  /\ \A p, q \in Submission : p # q /\ Guessing(sub[p]) /\ Guessing(sub[q]) => guesses + 1 <= Tri(MaxFails)

\* What two requests at a time means to the proof.
TwoAtATime == \A p, q, r \in Submission : p = q \/ p = r \/ q = r

-----------------------------------------------------------------------------
(* Numbers.                                                                *)

LEMMA Fails == MaxFails \in Nat /\ MaxFails >= 1 /\ MaxSetupTries \in Nat /\ MaxSetupTries >= 1
               /\ MaxSetups \in Nat /\ MaxResets \in Nat
BY LoginAssumption

LEMMA Halves == ASSUME NEW x \in Int, NEW y \in Int PROVE (x + 2 * y) \div 2 = (x \div 2) + y
OBVIOUS

LEMMA TriNat == ASSUME NEW k \in Nat PROVE Tri(k) \in Nat
<1>1. k * (k + 1) \in Nat OBVIOUS
<1> QED BY <1>1 DEF Tri

\* One attempt more is worth its number.
LEMMA TriStep == ASSUME NEW k \in Nat PROVE Tri(k + 1) = Tri(k) + k + 1
<1>1. (k + 1) * ((k + 1) + 1) = k * (k + 1) + 2 * (k + 1) OBVIOUS
<1>2. k * (k + 1) \in Int OBVIOUS
<1>3. (k * (k + 1) + 2 * (k + 1)) \div 2 = ((k * (k + 1)) \div 2) + (k + 1)
  BY <1>2, Halves
<1>4. Tri(k) \in Nat BY TriNat
<1> QED BY <1>1, <1>3, <1>4 DEF Tri

\* A larger remainder is worth at least the difference more.
LEMMA TriGap == ASSUME NEW i \in Nat, NEW j \in Nat, i <= j PROVE Tri(i) + (j - i) <= Tri(j)
<1> DEFINE d == j - i
<1>1. CASE i = j BY <1>1, TriNat
<1>2. CASE i < j
  <2>1. d \in Nat /\ d >= 1 /\ i + j + 1 \in Nat /\ i + j + 1 >= 2 BY <1>2
  <2>2. j * (j + 1) = i * (i + 1) + d * (i + j + 1) OBVIOUS
  <2>3. d * (i + j + 1) >= d * 2
    <3>1. d * (i + j - 1) >= 0 BY <2>1
    <3> QED BY <3>1, <2>1
  <2>4. PICK x \in Int : x = i * (i + 1) OBVIOUS
  <2>5. PICK y \in Int : y = j * (j + 1) OBVIOUS
  <2>6. PICK z \in Int : z = d * (i + j + 1) BY <2>1
  <2>7. y = x + z /\ z >= 2 * d BY <2>2, <2>3, <2>4, <2>5, <2>6, <2>1
  <2>8. (x + 2 * d) \div 2 = (x \div 2) + d BY Halves, <2>1
  <2>9. y >= x + 2 * d /\ x + 2 * d \in Int BY <2>7, <2>1
  <2>10. y \div 2 >= (x + 2 * d) \div 2 BY <2>9
  <2>11. Tri(i) = x \div 2 /\ Tri(j) = y \div 2 BY <2>4, <2>5 DEF Tri
  <2> HIDE DEF d
  <2>12. Tri(i) + d <= Tri(j) BY <2>8, <2>10, <2>11, <2>1
  <2> QED BY <2>12 DEF d
<1> QED BY <1>1, <1>2

LEMMA TriTop == Tri(MaxFails) \in Nat /\ Tri(MaxFails) >= MaxFails
<1>1. Tri(0) + (MaxFails - 0) <= Tri(MaxFails) BY TriGap, Fails
<1> QED BY <1>1, TriNat, Fails

\* For the arithmetic of the budget Tri is only known by these facts.
LEMMA ClipBounds ==
  ASSUME NEW x \in 0..MaxFails
  PROVE  /\ Clip(x) \in 0..(MaxFails - 1)
         /\ x < MaxFails => Clip(x) = x
         /\ MaxFails - Clip(x) \in Nat /\ Tri(MaxFails - Clip(x)) \in Nat
         /\ 1 <= Tri(MaxFails - Clip(x)) /\ Tri(MaxFails - Clip(x)) + Clip(x) <= Tri(MaxFails)
<1>1. Clip(x) \in 0..(MaxFails - 1) /\ (x < MaxFails => Clip(x) = x) BY Fails DEF Clip
<1>2. PICK c \in 0..(MaxFails - 1) : c = Clip(x) BY <1>1
<1>3. MaxFails - c \in Nat /\ MaxFails - c <= MaxFails /\ 0 <= MaxFails - c BY Fails
<1>4. Tri(MaxFails - c) \in Nat BY <1>3, TriNat
<1>5. Tri(MaxFails - c) + (MaxFails - (MaxFails - c)) <= Tri(MaxFails) BY <1>3, TriGap, Fails
<1>6. Tri(0) + ((MaxFails - c) - 0) <= Tri(MaxFails - c) BY <1>3, TriGap
<1>7. Tri(0) \in Nat BY TriNat
<1> QED BY <1>1, <1>2, <1>3, <1>4, <1>5, <1>6, <1>7, TriTop, Fails

-----------------------------------------------------------------------------
(* Records.                                                                *)

LEMMA UserFields ==
  ASSUME NEW u \in User
  PROVE  /\ u.fails \in 0..MaxFails /\ u.totpFails \in 0..MaxFails
         /\ u.locked \in BOOLEAN /\ u.totp \in BOOLEAN /\ u.totpLocked \in BOOLEAN
BY DEF User

LEMMA RenewedFields ==
  ASSUME NEW u \in User
  PROVE  Renewed(u) \in User /\ Renewed(u).fails = 0 /\ ~Renewed(u).locked /\ Renewed(u).totp = u.totp
<1>1. 0 \in 0..MaxFails BY Fails
<1>2. PICK w : w = [u EXCEPT !.fails = 0, !.locked = FALSE] OBVIOUS
<1>3. w \in User /\ w.fails = 0 /\ ~w.locked /\ w.totp = u.totp BY <1>1, <1>2 DEF User
<1> QED BY <1>2, <1>3 DEF Renewed

\* A row before its count is capped.
Loose == [fails: Nat, locked: BOOLEAN, totp: BOOLEAN, totpFails: 0..MaxFails, totpLocked: BOOLEAN]

LEMMA CappedType ==
  ASSUME NEW v \in Loose
  PROVE  /\ Capped(v) \in User /\ Capped(v).locked = v.locked /\ Capped(v).totp = v.totp
         /\ Capped(v).fails = IF v.fails > MaxFails THEN MaxFails ELSE v.fails
<1>1. CASE v.fails > MaxFails
  <2>1. Capped(v) = [v EXCEPT !.fails = MaxFails] BY <1>1 DEF Capped
  <2>2. PICK w : w = [v EXCEPT !.fails = MaxFails] OBVIOUS
  <2>3. MaxFails \in 0..MaxFails BY Fails
  <2>4. w \in User /\ w.fails = MaxFails /\ w.locked = v.locked /\ w.totp = v.totp
    BY <2>2, <2>3 DEF User, Loose
  <2> QED BY <2>1, <2>2, <2>4, <1>1
<1>2. CASE ~(v.fails > MaxFails)
  <2>1. Capped(v) = v BY <1>2 DEF Capped
  <2>2. v.fails \in Nat BY DEF Loose
  <2>3. v.fails \in 0..MaxFails BY <1>2, <2>2, Fails
  <2>4. v \in User BY <2>3 DEF User, Loose
  <2> QED BY <2>1, <2>4, <1>2
<1> QED BY <1>1, <1>2

\* A wrong password, by the snapshot it was judged on.
LEMMA WrongEffect ==
  ASSUME user \in User, NEW s \in User, Wrong(s)
  PROVE  LET n == s.fails + 1 IN
         /\ user' \in User /\ user'.totp = user.totp /\ guesses' = guesses + 1
         /\ user'.locked = (user.locked \/ n >= MaxFails)
         /\ user'.fails = IF n > MaxFails THEN MaxFails ELSE n
<1>1. PICK n \in Nat : n = s.fails + 1 BY UserFields
<1>2. PICK u \in User : u = user OBVIOUS
<1>3. PICK l \in BOOLEAN : l = (u.locked \/ n >= MaxFails) OBVIOUS
<1>4. PICK v : v = [u EXCEPT !.fails = n, !.locked = l] OBVIOUS
<1>5. v = Failed(s)
  <2>1. Failed(s) = [u EXCEPT !.fails = n, !.locked = u.locked \/ n >= MaxFails]
    BY <1>1, <1>2 DEF Failed
  <2> QED BY <2>1, <1>3, <1>4
<1>6. v \in Loose /\ v.fails = n /\ v.locked = l /\ v.totp = u.totp BY <1>4 DEF User, Loose
<1>7. user' = Capped(v) /\ guesses' = guesses + 1 BY <1>5 DEF Wrong
<1>8. PICK w : w = Capped(v) OBVIOUS
<1>9. w \in User /\ w.locked = l /\ w.totp = u.totp /\ w.fails = IF n > MaxFails THEN MaxFails ELSE n
  BY <1>6, <1>8, CappedType
<1> QED BY <1>1, <1>2, <1>3, <1>7, <1>8, <1>9

\* A snapshot is a users row, and the requests that hold one say at which step.
LEMMA WorkFields ==
  ASSUME NEW r \in {Free} \cup Work
  PROVE  /\ r.pc \in {"idle", "password", "reauth", "code", "confirm", "enable", "claim", "wipe", "unset", "set", "mark"}
         /\ r.pc \in {"password", "reauth", "code", "claim"} => r.snap \in User /\ r.browser \in Browser
         /\ r.pc = "claim" => r.code \in Code
         /\ r.pc \in {"wipe", "unset"} => r.by \in {"user", "admin"} /\ r.seen \subseteq Code
         /\ r.pc \in {"set", "mark"} => r.token \in Token
BY DEF Free, Work

LEMMA NewWork ==
  /\ \A pc \in {"password", "reauth", "code"}, b \in Browser, u \in User :
       [pc |-> pc, browser |-> b, snap |-> u] \in Work
  /\ \A b \in Browser, u \in User, c \in Code :
       [pc |-> "claim", browser |-> b, snap |-> u, code |-> c] \in Work
  /\ \A pc \in {"confirm", "enable"} : [pc |-> pc] \in Work
  /\ \A pc \in {"wipe", "unset"}, by \in {"user", "admin"}, seen \in SUBSET Code :
       [pc |-> pc, by |-> by, seen |-> seen] \in Work
  /\ \A pc \in {"set", "mark"}, t \in Token : [pc |-> pc, token |-> t] \in Work
BY DEF Work

LEMMA Snapshots ==
  ASSUME user \in User
  PROVE  /\ ForPassword \in User /\ ForPassword.fails = user.fails
         /\ ForCode \in User
         /\ ForReauth \in User /\ ForReauth.fails = user.fails
<1>1. 0 \in 0..MaxFails BY Fails
<1>2. PICK u : u = user OBVIOUS
<1>3. PICK x : x = [u EXCEPT !.totpFails = 0] OBVIOUS
<1>4. PICK y : y = [u EXCEPT !.fails = 0, !.locked = FALSE] OBVIOUS
<1>5. PICK z : z = [u EXCEPT !.totpFails = 0, !.totpLocked = FALSE] OBVIOUS
<1>6. x \in User /\ x.fails = u.fails BY <1>1, <1>2, <1>3 DEF User
<1>7. y \in User BY <1>1, <1>2, <1>4 DEF User
<1>8. z \in User /\ z.fails = u.fails BY <1>1, <1>2, <1>5 DEF User
<1> QED BY <1>2, <1>3, <1>4, <1>5, <1>6, <1>7, <1>8 DEF ForPassword, ForCode, ForReauth

LEMMA PutType ==
  ASSUME LTInv, NEW q \in Submission, NEW x \in {Free} \cup Work, Put(q, x)
  PROVE  /\ sub' \in [Submission -> {Free} \cup Work]
         /\ \A p \in Submission : sub'[p] = Free \/ sub'[p] \in Work
         /\ sub'[q] = x /\ \A p \in Submission \ {q} : sub'[p] = sub[p]
BY DEF LTInv, Put

LEMMA SubType == ASSUME LTInv, NEW q \in Submission PROVE sub[q] \in {Free} \cup Work
BY DEF LTInv

-----------------------------------------------------------------------------
(* What a step does to the budget and to the recovery codes.               *)

Leaves(q) == \A p \in Submission \ {q} : sub'[p] = sub[p]

Keeps == \A p \in Submission : Guessing(sub'[p]) => sub'[p] = sub[p]

Steady == user'.fails = user.fails /\ user'.locked = user.locked /\ guesses' = guesses

Starts(q) ==
  /\ ~user.locked /\ Steady /\ Leaves(q)
  /\ sub'[q].snap.fails = user.fails

Misses(q) ==
  /\ Guessing(sub[q]) /\ ~Guessing(sub'[q]) /\ Leaves(q)
  /\ \A n \in {sub[q].snap.fails + 1} :
       /\ user'.locked = (user.locked \/ n >= MaxFails)
       /\ user'.fails = IF n > MaxFails THEN MaxFails ELSE n
  /\ guesses' = guesses + 1

BudgetStep ==
  \/ Keeps /\ Steady
  \/ Keeps /\ guesses' = 0
  \/ \E q \in Submission : Starts(q) \/ Misses(q)

CodesAlone ==
  /\ UNCHANGED codeVars /\ user'.totp = user.totp
  /\ \A p \in Submission : sub'[p].pc = "unset" => sub'[p] = sub[p] \/ Unused \subseteq sub'[p].seen

Effect == LTInv' /\ BudgetStep /\ (CodesAlone \/ \E q \in Submission : Claim(q) \/ Enable(q) \/ Unset(q))

RestOK ==
  /\ user' \in User
  /\ token' \in [Token -> {"none", "open", "over"}]
  /\ setup' \in {NoSetup} \cup 0..MaxSetupTries
  /\ pending' \subseteq Browser
  /\ guesses' \in Nat

LEMMA TypesOf ==
  ASSUME LTInv, RestOK, UNCHANGED codeVars, sub' \in [Submission -> {Free} \cup Work]
  PROVE  LTInv'
BY DEF LTInv, LoginTypeOK, RestOK, codeVars

LEMMA Idles == Free.pc = "idle" /\ Free \in {Free} \cup Work /\ ~Guessing(Free)
BY DEF Free, Guessing

\* Putting in a request's place one that does not guess takes no guess.
LEMMA PutKeeps ==
  ASSUME LTInv, NEW q \in Submission, NEW x \in {Free} \cup Work, Put(q, x), ~Guessing(x)
  PROVE  Keeps /\ Leaves(q) /\ ~Guessing(sub'[q])
BY PutType DEF Keeps, Leaves, Guessing

\* A step of a request that no password and no code is judged in.
LEMMA PlainStep ==
  ASSUME LTInv, NEW q \in Submission, NEW x \in {Free} \cup Work, Put(q, x), ~Guessing(x),
         x.pc = "unset" => Unused \subseteq x.seen, UNCHANGED codeVars,
         RestOK, user'.totp = user.totp, Steady \/ guesses' = 0
  PROVE  Effect
<1>1. LTInv' BY PutType, TypesOf
<1>2. BudgetStep BY PutKeeps DEF BudgetStep
<1>3. CodesAlone BY PutType DEF CodesAlone
<1> QED BY <1>1, <1>2, <1>3 DEF Effect

\* A step that finishes its request.
LEMMA EndStep ==
  ASSUME LTInv, NEW q \in Submission, Done(q), UNCHANGED codeVars,
         RestOK, user'.totp = user.totp, Steady \/ guesses' = 0
  PROVE  Effect
BY PlainStep, Idles DEF Done

\* A step of no request.
LEMMA AsideStep ==
  ASSUME LTInv, UNCHANGED <<sub, codeVars>>,
         RestOK, user'.totp = user.totp, Steady \/ guesses' = 0
  PROVE  Effect
<1>1. LTInv' BY TypesOf DEF LTInv
<1>2. BudgetStep BY DEF BudgetStep, Keeps
<1>3. CodesAlone BY DEF CodesAlone
<1> QED BY <1>1, <1>2, <1>3 DEF Effect

LEMMA Unmoved ==
  ASSUME LTInv
  PROVE  /\ user \in User /\ guesses \in Nat /\ pending \subseteq Browser
         /\ token \in [Token -> {"none", "open", "over"}]
         /\ setup \in {NoSetup} \cup 0..MaxSetupTries
         /\ user' = user /\ guesses' = guesses => Steady /\ user'.totp = user.totp
         /\ UNCHANGED <<user, token, setup, pending, guesses>> => RestOK
BY DEF LTInv, LoginTypeOK, RestOK, Steady

LEMMA StartEffect ==
  ASSUME LTInv, NEW q \in Submission, NEW pc \in {"password", "reauth"}, NEW b \in Browser,
         NEW u \in User, u.fails = user.fails, ~user.locked, Start(q, pc, b, u),
         UNCHANGED <<user, codeVars, loginVars, pending, guesses>>
  PROVE  Effect
<1>1. PICK x : x = [pc |-> pc, browser |-> b, snap |-> u] OBVIOUS
<1>2. x \in {Free} \cup Work BY <1>1, NewWork
<1>3. x.pc = pc /\ x.snap = u BY <1>1
<1>4. Put(q, x) BY <1>1 DEF Start
<1>5. RestOK /\ Steady /\ user'.totp = user.totp BY Unmoved DEF loginVars
<1>6. LTInv' BY <1>2, <1>4, <1>5, PutType, TypesOf
<1>7. sub'[q] = x /\ Leaves(q) BY <1>2, <1>4, PutType DEF Leaves
<1>8. Starts(q) BY <1>3, <1>5, <1>7 DEF Starts
<1>9. CodesAlone BY <1>2, <1>3, <1>4, <1>5, PutType DEF CodesAlone
<1> QED BY <1>6, <1>8, <1>9 DEF Effect, BudgetStep

LEMMA MissEffect ==
  ASSUME LTInv, NEW q \in Submission, Guessing(sub[q]), Wrong(sub[q].snap), Done(q),
         UNCHANGED <<codeVars, loginVars, pending>>
  PROVE  Effect
<1>1. PICK r \in {Free} \cup Work : r = sub[q] BY SubType
<1>2. PICK s \in User : s = r.snap BY <1>1, WorkFields DEF Guessing
<1>3. Wrong(s) /\ user \in User /\ guesses \in Nat BY <1>1, <1>2, Unmoved
<1>4. /\ user' \in User /\ user'.totp = user.totp /\ guesses' = guesses + 1
      /\ user'.locked = (user.locked \/ s.fails + 1 >= MaxFails)
      /\ user'.fails = IF s.fails + 1 > MaxFails THEN MaxFails ELSE s.fails + 1
  BY <1>3, WrongEffect
<1>5. RestOK BY <1>3, <1>4, Unmoved DEF RestOK, loginVars
<1>6. LTInv' BY <1>5, Idles, PutType, TypesOf DEF Done
<1>7. Leaves(q) /\ ~Guessing(sub'[q]) BY Idles, PutKeeps DEF Done
<1>8. Misses(q) BY <1>1, <1>2, <1>4, <1>7 DEF Misses
<1>9. CodesAlone BY <1>4, Idles, PutType DEF CodesAlone, Done
<1> QED BY <1>6, <1>8, <1>9 DEF Effect, BudgetStep

-----------------------------------------------------------------------------
(* The actions.                                                            *)

LEMMA LoginEffect ==
  ASSUME LTInv, NEW q \in Submission, NEW b \in Browser, Login(q, b)
  PROVE  Effect
<1>1. PICK u : u = ForPassword OBVIOUS
<1>2. u \in User /\ u.fails = user.fails BY <1>1, Snapshots, Unmoved
<1> QED BY <1>1, <1>2, StartEffect DEF Login

LEMMA DisableEffect ==
  ASSUME LTInv, NEW q \in Submission, NEW b \in Browser, Disable(q, b)
  PROVE  Effect
<1>1. PICK u : u = ForReauth OBVIOUS
<1>2. u \in User /\ u.fails = user.fails BY <1>1, Snapshots, Unmoved
<1> QED BY <1>1, <1>2, StartEffect DEF Disable

LEMMA FailsEffect ==
  ASSUME LTInv, NEW q \in Submission, LoginFails(q) \/ ReauthFails(q)
  PROVE  Effect
BY MissEffect DEF LoginFails, ReauthFails, At, Guessing

LEMMA LoginPassesEffect ==
  ASSUME LTInv, NEW q \in Submission, LoginPasses(q)
  PROVE  Effect
<1>1. PICK r \in {Free} \cup Work : r = sub[q] BY SubType
<1>2. r.pc = "password" /\ r.browser \in Browser BY <1>1, WorkFields DEF LoginPasses, At
<1>3. Done(q) /\ UNCHANGED codeVars BY DEF LoginPasses
<1>4. CASE UNCHANGED <<user, pending, guesses>>
  <2>1. RestOK /\ Steady /\ user'.totp = user.totp BY <1>4, Unmoved DEF LoginPasses, loginVars
  <2> QED BY <1>3, <2>1, EndStep
<1>5. CASE ~UNCHANGED <<user, pending, guesses>>
  <2>1. user' = Renewed(user) /\ guesses' = 0 /\ pending' \subseteq Browser
    BY <1>1, <1>2, <1>5, Unmoved DEF LoginPasses
  <2>2. user' \in User /\ user'.totp = user.totp BY <2>1, RenewedFields, Unmoved
  <2>3. RestOK BY <2>1, <2>2, Unmoved DEF RestOK, LoginPasses, loginVars
  <2> QED BY <1>3, <2>1, <2>2, <2>3, EndStep
<1> QED BY <1>4, <1>5

LEMMA LockEndsEffect ==
  ASSUME LTInv, LockEnds
  PROVE  Effect
<1>1. PICK u \in User : u = user BY Unmoved
<1>2. PICK v : v = [u EXCEPT !.locked = FALSE] OBVIOUS
<1>3. v \in User /\ v.totp = u.totp BY <1>2 DEF User
<1>4. user' = v /\ guesses' = 0 BY <1>1, <1>2 DEF LockEnds
<1>5. UNCHANGED <<codeVars, token, setup, pending, sub>> BY DEF LockEnds, loginVars
<1>6. RestOK BY <1>3, <1>4, <1>5, Unmoved DEF RestOK
<1> QED BY <1>1, <1>3, <1>4, <1>5, <1>6, AsideStep

LEMMA TotpLockEndsEffect ==
  ASSUME LTInv, TotpLockEnds
  PROVE  Effect
<1>1. PICK u \in User : u = user BY Unmoved
<1>2. PICK v : v = [u EXCEPT !.totpLocked = FALSE] OBVIOUS
<1>3. v \in User /\ v.totp = u.totp /\ v.fails = u.fails /\ v.locked = u.locked BY <1>2 DEF User
<1>4. user' = v /\ guesses' = guesses BY <1>1, <1>2 DEF TotpLockEnds
<1>5. RestOK /\ Steady BY <1>1, <1>3, <1>4, Unmoved DEF RestOK, Steady, TotpLockEnds, loginVars
<1> QED BY <1>1, <1>3, <1>4, <1>5, AsideStep DEF TotpLockEnds

LEMMA SetupEffect ==
  ASSUME LTInv, SetupPage \/ SetupExpires
  PROVE  Effect
<1>1. setup' \in {NoSetup} \cup 0..MaxSetupTries BY Fails DEF SetupPage, SetupExpires
<1>2. UNCHANGED <<user, codeVars, token, pending, sub, guesses>> BY DEF SetupPage, SetupExpires
<1>3. RestOK BY <1>1, <1>2, Unmoved DEF RestOK
<1> QED BY <1>2, <1>3, Unmoved, AsideStep

LEMMA TokenEffect ==
  ASSUME LTInv, NEW t \in Token, AdminReset(t) \/ ResetExpires(t)
  PROVE  Effect
<1>1. token' \in [Token -> {"none", "open", "over"}] BY Unmoved DEF AdminReset, ResetExpires
<1>2. UNCHANGED <<user, codeVars, setup, pending, sub, guesses>> BY DEF AdminReset, ResetExpires
<1>3. RestOK BY <1>1, <1>2, Unmoved DEF RestOK
<1> QED BY <1>2, <1>3, Unmoved, AsideStep

LEMMA EnterCodeEffect ==
  ASSUME LTInv, NEW q \in Submission, NEW b \in Browser, EnterCode(q, b)
  PROVE  Effect
<1>1. UNCHANGED <<user, codeVars, loginVars, guesses>> BY DEF EnterCode
<1>2. pending' \subseteq Browser BY Unmoved DEF EnterCode
<1>3. RestOK /\ Steady /\ user'.totp = user.totp BY <1>1, <1>2, Unmoved DEF RestOK, loginVars
<1>4. CASE Start(q, "code", b, ForCode)
  <2>1. PICK u \in User : u = ForCode BY Snapshots, Unmoved
  <2>2. PICK x : x = [pc |-> "code", browser |-> b, snap |-> u] OBVIOUS
  <2>3. x \in {Free} \cup Work BY <2>2, NewWork
  <2>4. x.pc = "code" BY <2>2
  <2>5. Put(q, x) BY <1>4, <2>1, <2>2 DEF Start
  <2> QED BY <1>1, <1>3, <2>3, <2>4, <2>5, PlainStep DEF Guessing
<1>5. CASE UNCHANGED sub BY <1>1, <1>3, <1>5, AsideStep
<1> QED BY <1>4, <1>5 DEF EnterCode

LEMMA SignedInEffect ==
  ASSUME LTInv, NEW q \in Submission, SignedIn(q), sub[q].pc \in {"code", "claim"},
         UNCHANGED <<loginVars, guesses>>
  PROVE  RestOK /\ Steady /\ user'.totp = user.totp
<1>1. PICK u \in User : u = user BY Unmoved
<1>2. PICK v : v = [u EXCEPT !.totpFails = 0, !.totpLocked = FALSE] OBVIOUS
<1>3. 0 \in 0..MaxFails BY Fails
<1>4. v \in User /\ v.totp = u.totp /\ v.fails = u.fails /\ v.locked = u.locked BY <1>2, <1>3 DEF User
<1>5. user' = v /\ pending' \subseteq Browser BY <1>1, <1>2, Unmoved DEF SignedIn
<1> QED BY <1>1, <1>4, <1>5, Unmoved DEF RestOK, Steady, loginVars

LEMMA CodePassesEffect ==
  ASSUME LTInv, NEW q \in Submission, CodePasses(q)
  PROVE  Effect
BY SignedInEffect, EndStep DEF CodePasses, At, SignedIn

LEMMA CodeMatchesEffect ==
  ASSUME LTInv, NEW q \in Submission, CodeMatches(q)
  PROVE  Effect
<1>1. PICK c \in Unused : Put(q, [pc |-> "claim", browser |-> sub[q].browser, snap |-> sub[q].snap, code |-> c])
  BY DEF CodeMatches
<1>2. PICK r \in {Free} \cup Work : r = sub[q] BY SubType
<1>3. r.pc = "code" BY <1>2 DEF CodeMatches, At
<1>4. r.snap \in User /\ r.browser \in Browser /\ c \in Code BY <1>3, WorkFields DEF Unused
<1>5. PICK x : x = [pc |-> "claim", browser |-> r.browser, snap |-> r.snap, code |-> c] OBVIOUS
<1>6. x \in {Free} \cup Work BY <1>4, <1>5, NewWork
<1>7. x.pc = "claim" BY <1>5
<1>8. Put(q, x) BY <1>1, <1>2, <1>5
<1>9. RestOK /\ Steady /\ user'.totp = user.totp /\ UNCHANGED codeVars
  BY Unmoved DEF CodeMatches, loginVars
<1> QED BY <1>6, <1>7, <1>8, <1>9, PlainStep DEF Guessing

LEMMA CodeFailsEffect ==
  ASSUME LTInv, NEW q \in Submission, CodeFails(q)
  PROVE  Effect
<1>1. PICK r \in {Free} \cup Work : r = sub[q] BY SubType
<1>2. r.pc \in {"code", "claim"} BY <1>1 DEF CodeFails, At
<1>3. r.snap \in User BY <1>2, WorkFields
<1>4. r.snap.totpFails \in 0..MaxFails BY <1>3, UserFields
<1>5. PICK n \in Nat : n = r.snap.totpFails + 1 BY <1>4
<1>6. PICK u \in User : u = user BY Unmoved
<1>7. PICK f \in 0..MaxFails : f = IF n > MaxFails THEN MaxFails ELSE n BY Fails
<1>8. PICK l \in BOOLEAN : l = (u.totpLocked \/ n >= MaxFails) OBVIOUS
<1>9. PICK v : v = [u EXCEPT !.totpFails = f, !.totpLocked = l] OBVIOUS
<1>10. v \in User /\ v.totp = u.totp /\ v.fails = u.fails /\ v.locked = u.locked BY <1>9 DEF User
<1>11. user' = v
  <2>1. user' = [u EXCEPT !.totpFails = IF n > MaxFails THEN MaxFails ELSE n,
                          !.totpLocked = u.totpLocked \/ n >= MaxFails]
    BY <1>1, <1>5, <1>6 DEF CodeFails
  <2> QED BY <2>1, <1>7, <1>8, <1>9
<1>12. pending' \subseteq Browser
  <2>1. pending' = pending \/ pending' = pending \ {r.browser} BY <1>1 DEF CodeFails
  <2> QED BY <2>1, Unmoved
<1>13. RestOK /\ Steady /\ user'.totp = user.totp
  BY <1>6, <1>10, <1>11, <1>12, Unmoved DEF RestOK, Steady, CodeFails, loginVars
<1> QED BY <1>13, EndStep DEF CodeFails

\* A request that goes on to a step at which nothing is judged.
LEMMA GoesOn ==
  ASSUME LTInv, NEW q \in Submission, NEW x \in {Free} \cup Work, Put(q, x), ~Guessing(x),
         x.pc = "unset" => Unused \subseteq x.seen,
         UNCHANGED <<user, codeVars, token, pending, guesses>>,
         setup' \in {NoSetup} \cup 0..MaxSetupTries
  PROVE  Effect
<1>1. RestOK /\ Steady /\ user'.totp = user.totp BY Unmoved DEF RestOK
<1> QED BY <1>1, PlainStep

LEMMA ConfirmEffect ==
  ASSUME LTInv, NEW q \in Submission, Confirm(q)
  PROVE  Effect
<1>1. PICK x : x = [pc |-> "confirm"] OBVIOUS
<1>2. x \in {Free} \cup Work /\ x.pc = "confirm" BY <1>1, NewWork
<1>3. Put(q, x) /\ UNCHANGED <<user, codeVars, loginVars, pending, guesses>> BY <1>1 DEF Confirm
<1> QED BY <1>2, <1>3, GoesOn, Unmoved DEF Guessing, loginVars

LEMMA VerifyEffect ==
  ASSUME LTInv, NEW q \in Submission, Verify(q)
  PROVE  Effect
<1>1. UNCHANGED <<user, codeVars, token, pending, guesses>> BY DEF Verify
<1>2. setup' \in {NoSetup} \cup 0..MaxSetupTries BY Unmoved, Fails DEF Verify, NoSetup
<1>3. PICK x : x = [pc |-> "enable"] OBVIOUS
<1>4. x \in {Free} \cup Work /\ x.pc = "enable" BY <1>3, NewWork
<1>5. Put(q, x) \/ Put(q, Free) BY <1>3 DEF Verify, Done
<1> QED BY <1>1, <1>2, <1>4, <1>5, Idles, GoesOn DEF Guessing

LEMMA ReauthPassesEffect ==
  ASSUME LTInv, NEW q \in Submission, ReauthPasses(q)
  PROVE  Effect
<1>1. PICK x : x = [pc |-> "wipe", by |-> "user", seen |-> {}] OBVIOUS
<1>2. x \in {Free} \cup Work /\ x.pc = "wipe" BY <1>1, NewWork
<1>3. Put(q, x) /\ UNCHANGED <<user, codeVars, loginVars, pending, guesses>> BY <1>1 DEF ReauthPasses
<1> QED BY <1>2, <1>3, GoesOn, Unmoved DEF Guessing, loginVars

LEMMA AdminDisableEffect ==
  ASSUME LTInv, NEW q \in Submission, AdminDisable(q)
  PROVE  Effect
<1>1. PICK x : x = [pc |-> "wipe", by |-> "admin", seen |-> {}] OBVIOUS
<1>2. x \in {Free} \cup Work /\ x.pc = "wipe" BY <1>1, NewWork
<1>3. Put(q, x) /\ UNCHANGED <<user, codeVars, loginVars, pending, guesses>> BY <1>1 DEF AdminDisable
<1> QED BY <1>2, <1>3, GoesOn, Unmoved DEF Guessing, loginVars

LEMMA WipeEffect ==
  ASSUME LTInv, NEW q \in Submission, Wipe(q)
  PROVE  Effect
<1>1. PICK r \in {Free} \cup Work : r = sub[q] BY SubType
<1>2. r.pc = "wipe" BY <1>1 DEF Wipe, At
<1>3. PICK S \in SUBSET Code : S = Rows BY DEF Rows
<1>4. PICK x : x = [r EXCEPT !.pc = "unset", !.seen = S] OBVIOUS
<1>5. r \in [pc: {"wipe", "unset"}, by: {"user", "admin"}, seen: SUBSET Code]
  BY <1>2 DEF Free, Work
<1>6. x \in [pc: {"wipe", "unset"}, by: {"user", "admin"}, seen: SUBSET Code] /\ x.pc = "unset" /\ x.seen = S
  BY <1>4, <1>5
<1>7. x \in {Free} \cup Work BY <1>6 DEF Work
<1>8. Unused \subseteq x.seen BY <1>3, <1>6 DEF Unused, Rows
<1>9. Put(q, x) /\ UNCHANGED <<user, codeVars, loginVars, pending, guesses>>
  BY <1>1, <1>3, <1>4 DEF Wipe
<1> QED BY <1>6, <1>7, <1>8, <1>9, GoesOn, Unmoved DEF Guessing, loginVars

LEMMA ResetCheckEffect ==
  ASSUME LTInv, NEW q \in Submission, NEW t \in Token, ResetCheck(q, t)
  PROVE  Effect
<1>1. PICK x : x = [pc |-> "set", token |-> t] OBVIOUS
<1>2. x \in {Free} \cup Work /\ x.pc = "set" BY <1>1, NewWork
<1>3. Put(q, x) /\ UNCHANGED <<user, codeVars, loginVars, pending, guesses>> BY <1>1 DEF ResetCheck
<1> QED BY <1>2, <1>3, GoesOn, Unmoved DEF Guessing, loginVars

LEMMA ResetSetEffect ==
  ASSUME LTInv, NEW q \in Submission, ResetSet(q)
  PROVE  Effect
<1>1. PICK r \in {Free} \cup Work : r = sub[q] BY SubType
<1>2. r \in [pc: {"set", "mark"}, token: Token] BY <1>1 DEF ResetSet, At, Free, Work
<1>3. PICK x : x = [r EXCEPT !.pc = "mark"] OBVIOUS
<1>4. x \in [pc: {"set", "mark"}, token: Token] /\ x.pc = "mark" BY <1>2, <1>3
<1>5. x \in {Free} \cup Work BY <1>4 DEF Work
<1>6. Put(q, x) /\ user' = Renewed(user) /\ guesses' = 0 /\ UNCHANGED <<codeVars, loginVars, pending>>
  BY <1>1, <1>3 DEF ResetSet
<1>7. user' \in User /\ user'.totp = user.totp BY <1>6, RenewedFields, Unmoved
<1>8. RestOK BY <1>6, <1>7, Unmoved DEF RestOK, loginVars
<1> QED BY <1>4, <1>5, <1>6, <1>7, <1>8, PlainStep DEF Guessing

LEMMA ResetMarkEffect ==
  ASSUME LTInv, NEW q \in Submission, ResetMark(q)
  PROVE  Effect
<1>1. token' \in [Token -> {"none", "open", "over"}] BY Unmoved DEF ResetMark
<1>2. UNCHANGED <<user, codeVars, setup, pending, guesses>> /\ Done(q) BY DEF ResetMark
<1>3. RestOK /\ Steady /\ user'.totp = user.totp BY <1>1, <1>2, Unmoved DEF RestOK
<1> QED BY <1>2, <1>3, EndStep

LEMMA RestartEffect ==
  ASSUME LTInv, LoginRestart
  PROVE  Effect
<1>1. sub' \in [Submission -> {Free} \cup Work] /\ \A p \in Submission : sub'[p] = Free
  BY DEF LoginRestart
<1>2. UNCHANGED <<user, codeVars, token, pending, guesses>> /\ setup' = NoSetup BY DEF LoginRestart
<1>3. RestOK /\ Steady /\ user'.totp = user.totp BY <1>2, Unmoved DEF RestOK
<1>4. LTInv' BY <1>1, <1>2, <1>3, TypesOf
<1>5. BudgetStep BY <1>1, <1>3, Idles DEF BudgetStep, Keeps
<1>6. CodesAlone BY <1>1, <1>2, <1>3, Idles DEF CodesAlone
<1> QED BY <1>4, <1>5, <1>6 DEF Effect

LEMMA CodeTypes == ASSUME LTInv
  PROVE /\ code \in [Code -> {"none", "unused", "used", "gone"}] /\ grants \in [Code -> Nat]
        /\ stray \subseteq Code
BY DEF LTInv, LoginTypeOK

LEMMA TypesWithCodes ==
  ASSUME LTInv, RestOK, sub' \in [Submission -> {Free} \cup Work],
         code' \in [Code -> {"none", "unused", "used", "gone"}], grants' \in [Code -> Nat], stray' \subseteq Code
  PROVE  LTInv'
BY DEF LTInv, LoginTypeOK, RestOK

LEMMA ClaimEffect ==
  ASSUME LTInv, NEW q \in Submission, Claim(q)
  PROVE  Effect
<1>1. PICK r \in {Free} \cup Work : r = sub[q] BY SubType
<1>2. r.pc = "claim" /\ r.code \in Code BY <1>1, WorkFields DEF Claim, At
<1>3. RestOK /\ Steady BY <1>1, <1>2, SignedInEffect DEF Claim
<1>4. code' \in [Code -> {"none", "unused", "used", "gone"}] /\ grants' \in [Code -> Nat] /\ stray' \subseteq Code
  BY <1>1, <1>2, CodeTypes DEF Claim
<1>5. Put(q, Free) BY DEF Claim, SignedIn, Done
<1>6. LTInv' BY <1>3, <1>4, <1>5, PutType, TypesWithCodes, Idles
<1>7. BudgetStep BY <1>3, <1>5, PutKeeps, Idles DEF BudgetStep
<1> QED BY <1>6, <1>7 DEF Effect

LEMMA EnableEffect ==
  ASSUME LTInv, NEW q \in Submission, Enable(q)
  PROVE  Effect
<1>1. PICK c \in Code : /\ code' = [code EXCEPT ![c] = "unused"]
                        /\ stray' = IF \E r \in Submission : At(r, "unset") THEN stray \cup {c} ELSE stray
  BY DEF Enable
<1>2. PICK u \in User : u = user BY Unmoved
<1>3. PICK v : v = [u EXCEPT !.totp = TRUE] OBVIOUS
<1>4. v \in User /\ v.fails = u.fails /\ v.locked = u.locked BY <1>3 DEF User
<1>5. /\ user' = v /\ setup' = NoSetup /\ Put(q, Free)
      /\ UNCHANGED <<token, pending, grants, guesses>>
  BY <1>2, <1>3 DEF Enable, Done
<1>6. RestOK /\ Steady BY <1>2, <1>4, <1>5, Unmoved DEF RestOK, Steady
<1>7. code' \in [Code -> {"none", "unused", "used", "gone"}] /\ grants' \in [Code -> Nat] /\ stray' \subseteq Code
  BY <1>1, <1>5, CodeTypes
<1>8. LTInv' BY <1>5, <1>6, <1>7, PutType, TypesWithCodes, Idles
<1>9. BudgetStep BY <1>5, <1>6, PutKeeps, Idles DEF BudgetStep
<1> QED BY <1>8, <1>9 DEF Effect

LEMMA UnsetEffect ==
  ASSUME LTInv, NEW q \in Submission, Unset(q)
  PROVE  Effect /\ ~user'.totp
<1>1. PICK u \in User : u = user BY Unmoved
<1>2. PICK v : v = [u EXCEPT !.totp = FALSE] OBVIOUS
<1>3. v \in User /\ ~v.totp /\ v.fails = u.fails /\ v.locked = u.locked BY <1>2 DEF User
<1>4. 0 \in 0..MaxFails BY Fails
<1>5. PICK w : w = [v EXCEPT !.totpFails = 0, !.totpLocked = FALSE] OBVIOUS
<1>6. w \in User /\ w.fails = u.fails /\ w.locked = u.locked /\ ~w.totp BY <1>3, <1>4, <1>5 DEF User
<1>7. PICK z : z = Renewed(v) OBVIOUS
<1>8. z \in User /\ ~z.totp BY <1>3, <1>7, RenewedFields
<1>9. \/ user' = z /\ guesses' = 0
      \/ user' = w /\ guesses' = guesses
  <2>1. CASE sub[q].by = "user"
    <3>1. user' = Renewed(v) /\ guesses' = 0 BY <1>1, <1>2, <2>1 DEF Unset
    <3> QED BY <1>7, <3>1
  <2>2. CASE sub[q].by # "user"
    <3>1. user' = [v EXCEPT !.totpFails = 0, !.totpLocked = FALSE] /\ guesses' = guesses
      BY <1>1, <1>2, <2>2 DEF Unset
    <3> QED BY <1>5, <3>1
  <2> QED BY <2>1, <2>2
<1>10. user' \in User /\ ~user'.totp /\ (Steady \/ guesses' = 0)
  BY <1>1, <1>6, <1>8, <1>9 DEF Steady
<1>11. UNCHANGED <<grants, token, setup, pending>> /\ Put(q, Free) BY DEF Unset, loginVars, Done
<1>12. guesses' \in Nat BY <1>9, Unmoved
<1>13. RestOK BY <1>10, <1>11, <1>12, Unmoved DEF RestOK
<1>14. code' \in [Code -> {"none", "unused", "used", "gone"}] /\ grants' \in [Code -> Nat] /\ stray' \subseteq Code
  BY <1>11, CodeTypes DEF Unset
<1>15. LTInv' BY <1>11, <1>13, <1>14, PutType, TypesWithCodes, Idles
<1>16. BudgetStep BY <1>10, <1>11, PutKeeps, Idles DEF BudgetStep
<1> QED BY <1>10, <1>15, <1>16 DEF Effect

LEMMA StutterEffect == ASSUME LTInv, UNCHANGED login PROVE Effect
BY Unmoved, AsideStep DEF login, codeVars

\* Every step is of a type, and of one of the kinds above.
THEOREM EffectOfStep == ASSUME LTInv, [LoginNext]_login PROVE Effect
<1>1. ASSUME NEW q \in Submission, HandleLogin(q) PROVE Effect
  <2>1. ASSUME NEW b \in Browser, Login(q, b) \/ EnterCode(q, b) \/ Disable(q, b) PROVE Effect
    BY <2>1, LoginEffect, EnterCodeEffect, DisableEffect
  <2>2. CASE LoginFails(q) \/ LoginPasses(q) \/ CodePasses(q) \/ CodeMatches(q) \/ Claim(q) \/ CodeFails(q)
    BY <2>2, FailsEffect, LoginPassesEffect, CodePassesEffect, CodeMatchesEffect, ClaimEffect, CodeFailsEffect
  <2>3. CASE Confirm(q) \/ Verify(q) \/ Enable(q)
    BY <2>3, ConfirmEffect, VerifyEffect, EnableEffect
  <2>4. CASE ReauthFails(q) \/ ReauthPasses(q) \/ AdminDisable(q) \/ Wipe(q) \/ Unset(q)
    BY <2>4, FailsEffect, ReauthPassesEffect, AdminDisableEffect, WipeEffect, UnsetEffect
  <2>5. ASSUME NEW t \in Token, ResetCheck(q, t) PROVE Effect BY <2>5, ResetCheckEffect
  <2>6. CASE ResetSet(q) \/ ResetMark(q) BY <2>6, ResetSetEffect, ResetMarkEffect
  <2> QED BY <1>1, <2>1, <2>2, <2>3, <2>4, <2>5, <2>6 DEF HandleLogin
<1>2. CASE LockEnds \/ TotpLockEnds \/ SetupPage \/ SetupExpires
  BY <1>2, LockEndsEffect, TotpLockEndsEffect, SetupEffect
<1>3. ASSUME NEW t \in Token, AdminReset(t) \/ ResetExpires(t) PROVE Effect BY <1>3, TokenEffect
<1>4. CASE LoginRestart BY <1>4, RestartEffect
<1>5. CASE UNCHANGED login BY <1>5, StutterEffect
<1> QED BY <1>1, <1>2, <1>3, <1>4, <1>5 DEF LoginNext

-----------------------------------------------------------------------------
(* The recovery codes.                                                     *)

\* Only a claim, an enabling and the commit of a disabling touch the codes.
LEMMA CodesStep == ASSUME LTInv, CodesOK, [LoginNext]_login PROVE CodesOK'
<1>0. Effect /\ LTInv' BY EffectOfStep DEF Effect
<1>1. CASE CodesAlone
  <2>1. Unused' = Unused /\ Rows' = Rows BY <1>1 DEF CodesAlone, Unused, Rows, codeVars
  <2>2. \A c \in Code : grants'[c] <= 1 /\ (code'[c] \in {"none", "unused"} => grants'[c] = 0)
    BY <1>1 DEF CodesAlone, CodesOK, codeVars
  <2>3. (user'.totp => Rows' # {}) /\ (~user'.totp => Unused' \subseteq stray')
    BY <1>1, <2>1 DEF CodesAlone, CodesOK, codeVars
  <2>4. ASSUME NEW p \in Submission, NEW r \in {sub'[p]}, r.pc = "unset" PROVE Unused' \subseteq r.seen \cup stray'
    <3>1. r = sub[p] \/ Unused \subseteq r.seen BY <1>1, <2>4 DEF CodesAlone
    <3> QED BY <1>1, <2>1, <2>4, <3>1 DEF CodesAlone, CodesOK, Unsetting, codeVars
  <2> QED BY <2>2, <2>3, <2>4 DEF CodesOK, Unsetting
<1>2. ASSUME NEW q \in Submission, Claim(q) PROVE CodesOK'
  <2>1. PICK r \in {Free} \cup Work : r = sub[q] BY SubType
  <2>2. PICK c \in Code : c = r.code BY <1>2, <2>1, WorkFields DEF Claim, At
  <2>3. /\ code[c] = "unused" /\ code' = [code EXCEPT ![c] = "used"]
        /\ grants' = [grants EXCEPT ![c] = @ + 1] /\ stray' = stray
    BY <1>2, <2>1, <2>2 DEF Claim
  <2>4. user'.totp = user.totp BY <1>2, SignedInEffect DEF Claim, At
  <2>5. Unused' = Unused \ {c} /\ Rows' = Rows BY <2>3, CodeTypes DEF Unused, Rows
  <2>6. \A d \in Code : grants'[d] <= 1 /\ (code'[d] \in {"none", "unused"} => grants'[d] = 0)
    BY <2>3, CodeTypes DEF CodesOK
  <2>7. ASSUME NEW p \in Submission, NEW x \in {sub'[p]}, x.pc = "unset" PROVE Unused' \subseteq x.seen \cup stray'
    <3>1. x = sub[p] BY <1>2, <2>7, PutType, Idles DEF Claim, SignedIn, Done
    <3> QED BY <2>3, <2>5, <2>7, <3>1 DEF CodesOK, Unsetting
  <2> QED BY <2>3, <2>4, <2>5, <2>6, <2>7 DEF CodesOK, Unsetting
<1>3. ASSUME NEW q \in Submission, Enable(q) PROVE CodesOK'
  <2>1. PICK c \in Code : /\ code[c] = "none" /\ code' = [code EXCEPT ![c] = "unused"]
                          /\ stray' = IF \E r \in Submission : At(r, "unset") THEN stray \cup {c} ELSE stray
    BY <1>3 DEF Enable
  <2>2. user'.totp /\ grants' = grants
    <3>1. PICK u \in User : u = user BY Unmoved
    <3>2. user' = [u EXCEPT !.totp = TRUE] /\ grants' = grants BY <1>3, <3>1 DEF Enable
    <3> QED BY <3>2 DEF User
  <2>3. Unused' = Unused \cup {c} /\ c \in Rows' BY <2>1, CodeTypes DEF Unused, Rows
  <2>4. \A d \in Code : grants'[d] <= 1 /\ (code'[d] \in {"none", "unused"} => grants'[d] = 0)
    BY <2>1, <2>2, CodeTypes DEF CodesOK
  <2>5. ASSUME NEW p \in Submission, NEW x \in {sub'[p]}, x.pc = "unset" PROVE Unused' \subseteq x.seen \cup stray'
    <3>1. x = sub[p] BY <1>3, <2>5, PutType, Idles DEF Enable, Done
    <3>2. stray' = stray \cup {c} BY <2>1, <2>5, <3>1 DEF At
    <3> QED BY <2>3, <2>5, <3>1, <3>2 DEF CodesOK, Unsetting
  <2> QED BY <2>2, <2>3, <2>4, <2>5 DEF CodesOK, Unsetting
<1>4. ASSUME NEW q \in Submission, Unset(q) PROVE CodesOK'
  <2>1. PICK r \in {Free} \cup Work : r = sub[q] BY SubType
  <2>2. /\ r.pc = "unset" /\ grants' = grants /\ stray' = stray \ r.seen
        /\ code' = [c \in Code |-> IF c \in r.seen THEN "gone" ELSE code[c]]
    BY <1>4, <2>1 DEF Unset, At
  <2>3. Unused' = Unused \ r.seen BY <2>2 DEF Unused
  <2>4. ~user'.totp BY <1>4, UnsetEffect
  <2>5. Unused \subseteq r.seen \cup stray BY <2>1, <2>2 DEF CodesOK, Unsetting
  <2>6. Unused' \subseteq stray' BY <2>2, <2>3, <2>5
  <2>7. \A d \in Code : grants'[d] <= 1 /\ (code'[d] \in {"none", "unused"} => grants'[d] = 0)
    BY <2>2 DEF CodesOK
  <2>8. ASSUME NEW p \in Submission, NEW x \in {sub'[p]}, x.pc = "unset" PROVE Unused' \subseteq x.seen \cup stray'
    BY <2>6
  <2> QED BY <2>4, <2>6, <2>7, <2>8 DEF CodesOK, Unsetting
<1> QED BY <1>0, <1>1, <1>2, <1>3, <1>4 DEF Effect

-----------------------------------------------------------------------------
(* The budget.                                                             *)

LInv == LTInv /\ Budget /\ LockedBudget

LEMMA HeldType ==
  ASSUME NEW r \in {Free} \cup Work, Guessing(r)
  PROVE  r.snap.fails \in 0..MaxFails /\ Held(r) \in 0..(MaxFails - 1)
BY WorkFields, UserFields, ClipBounds DEF Guessing, Held

\* A budget just renewed has room for every request under way.
LEMMA RoomAtZero ==
  ASSUME NEW g, g = 0, NEW x \in 0..MaxFails, NEW y \in 0..MaxFails, Clip(x) <= Clip(y)
  PROVE  g + Tri(MaxFails - Clip(x)) <= Tri(MaxFails) + (Clip(y) - Clip(x))
BY ClipBounds, TriTop, Fails

LEMMA BudgetRenewed ==
  ASSUME LTInv, LTInv', guesses' = 0
  PROVE  Budget' /\ LockedBudget'
<1>1. PICK f \in 0..MaxFails : f = user'.fails BY UserFields DEF LTInv, LoginTypeOK
<1>2. Within(Clip(f), Clip(f))' BY RoomAtZero, ClipBounds DEF Within
<1>3. ASSUME NEW q \in Submission, NEW r \in {sub'[q]}, Guessing(r), Held(r) <= Clip(f)
      PROVE  Within(Held(r), Clip(f))'
  <2>1. r.snap.fails \in 0..MaxFails BY <1>3, HeldType DEF LTInv
  <2> QED BY <1>3, <2>1, RoomAtZero DEF Within, Held
<1>4. ASSUME NEW p \in Submission, NEW q \in Submission, NEW r \in {sub'[p]}, NEW s \in {sub'[q]},
             Guessing(r), Guessing(s), Held(r) <= Held(s)
      PROVE  Within(Held(r), Held(s))'
  <2>1. r.snap.fails \in 0..MaxFails /\ s.snap.fails \in 0..MaxFails BY <1>4, HeldType DEF LTInv
  <2> QED BY <1>4, <2>1, RoomAtZero DEF Within, Held
<1>5. Budget' BY <1>1, <1>2, <1>3, <1>4 DEF Budget
<1>6. LockedBudget' BY TriTop, Fails DEF LockedBudget
<1> QED BY <1>5, <1>6

\* A step that leaves the counts alone and adds no guessing request.
LEMMA BudgetSteady ==
  ASSUME LInv, LTInv', Keeps, Steady
  PROVE  Budget' /\ LockedBudget'
<1>1. \A p \in Submission : \A r \in {sub'[p]} : Guessing(r) => r = sub[p] BY DEF Keeps
<1>2. Budget' BY <1>1 DEF Budget, LInv, Steady, Within
<1>3. LockedBudget' BY DEF LockedBudget, LInv, Keeps, Steady
<1> QED BY <1>2, <1>3

\* A request that starts holds the count that stands.
LEMMA BudgetStarts ==
  ASSUME LInv, LTInv', NEW q \in Submission, Starts(q)
  PROVE  Budget' /\ LockedBudget'
<1>1. PICK f \in 0..MaxFails : f = user.fails BY UserFields DEF LInv, LTInv, LoginTypeOK
<1>2. PICK c \in 0..(MaxFails - 1) : c = Clip(f) BY ClipBounds
<1>3. PICK x \in {Free} \cup Work : x = sub'[q] BY DEF LTInv
<1>4. Held(x) = c BY <1>1, <1>2, <1>3 DEF Starts, Held
<1>5. Budget /\ LockedBudget /\ ~user.locked /\ guesses \in Nat BY Unmoved DEF LInv, Starts
<1>6. user'.fails = f /\ guesses' = guesses BY <1>1 DEF Starts, Steady
<1>7. Within(c, c) BY <1>1, <1>2, <1>5 DEF Budget
<1>8. ASSUME NEW p \in Submission, NEW r \in {sub[p]}, Guessing(r)
      PROVE  /\ Held(r) \in 0..(MaxFails - 1)
             /\ Held(r) <= c => Within(Held(r), c)
             /\ c <= Held(r) => Within(c, Held(r))
  <2>1. Held(r) \in 0..(MaxFails - 1) BY <1>8, HeldType DEF LInv, LTInv
  <2>2. Held(r) <= c => Within(Held(r), c) BY <1>1, <1>2, <1>5, <1>8 DEF Budget
  <2>3. ASSUME c <= Held(r) PROVE Within(c, Held(r))
    <3>1. Tri(MaxFails - c) \in Nat BY <1>2, ClipBounds
    <3> QED BY <1>5, <1>7, <2>1, <2>3, <3>1, TriTop, Fails DEF Within
  <2> QED BY <2>1, <2>2, <2>3
<1>9. \A p \in Submission \ {q} : sub'[p] = sub[p] BY DEF Starts, Leaves
<1>10. \A lo, hi : Within(lo, hi)' = Within(lo, hi) BY <1>6 DEF Within
<1>11. Budget'
  <2>1. Within(c, c)' BY <1>7, <1>10
  <2>2. ASSUME NEW p \in Submission, NEW r \in {sub'[p]}, Guessing(r), Held(r) <= c PROVE Within(Held(r), c)'
    <3>1. CASE p = q BY <1>3, <1>4, <2>1, <2>2, <3>1
    <3>2. CASE p # q BY <1>8, <1>9, <1>10, <2>2, <3>2
    <3> QED BY <3>1, <3>2
  <2>3. ASSUME NEW p \in Submission, NEW o \in Submission, p # o, NEW r \in {sub'[p]}, NEW s \in {sub'[o]},
               Guessing(r), Guessing(s), Held(r) <= Held(s)
        PROVE  Within(Held(r), Held(s))'
    <3>1. CASE p = q
      <4>1. Held(r) = c /\ s = sub[o] BY <1>3, <1>4, <1>9, <2>3, <3>1
      <4> QED BY <1>8, <1>10, <2>3, <4>1
    <3>2. CASE o = q
      <4>1. Held(s) = c /\ r = sub[p] BY <1>3, <1>4, <1>9, <2>3, <3>2
      <4> QED BY <1>8, <1>10, <2>3, <4>1
    <3>3. CASE p # q /\ o # q
      <4>1. r = sub[p] /\ s = sub[o] BY <1>9, <2>3, <3>3
      <4>2. Within(Held(r), Held(s)) BY <1>5, <2>3, <4>1 DEF Budget
      <4> QED BY <1>10, <4>2
    <3> QED BY <3>1, <3>2, <3>3
  <2> QED BY <1>2, <1>6, <2>1, <2>2, <2>3 DEF Budget
<1>12. guesses + 1 <= Tri(MaxFails)
  <2>1. Tri(MaxFails - c) \in Nat /\ 1 <= Tri(MaxFails - c) BY <1>2, ClipBounds
  <2> QED BY <1>5, <1>7, <2>1, TriTop DEF Within
<1>13. LockedBudget' BY <1>5, <1>6, <1>12, TriTop DEF LockedBudget
<1> QED BY <1>11, <1>13

\* The arithmetic of a wrong password that does not lock: whatever the count it was
\* judged on, what stands afterwards has room again.
LEMMA MissRoom ==
  ASSUME NEW a \in 0..(MaxFails - 2), NEW f \in 0..(MaxFails - 1), NEW g \in Nat,
         a <= f => g + Tri(MaxFails - a) <= Tri(MaxFails) + (f - a),
         g + Tri(MaxFails - f) <= Tri(MaxFails)
  PROVE  g + 1 + Tri(MaxFails - (a + 1)) <= Tri(MaxFails)
<1>1. MaxFails - (a + 1) \in Nat /\ MaxFails - f \in Nat /\ MaxFails - a = (MaxFails - (a + 1)) + 1 BY Fails
<1>2. Tri(MaxFails - a) = Tri(MaxFails - (a + 1)) + (MaxFails - (a + 1)) + 1 BY <1>1, TriStep
<1>3. Tri(MaxFails - a) \in Nat /\ Tri(MaxFails - (a + 1)) \in Nat /\ Tri(MaxFails - f) \in Nat
  BY <1>1, TriNat
<1>4. CASE a <= f BY <1>2, <1>3, <1>4, TriTop, Fails
<1>5. CASE f < a
  <2>1. Tri(MaxFails - (a + 1)) + ((MaxFails - f) - (MaxFails - (a + 1))) <= Tri(MaxFails - f)
    <3>1. PICK i \in Nat, j \in Nat : i = MaxFails - (a + 1) /\ j = MaxFails - f BY <1>1
    <3>2. i <= j BY <1>5, <3>1, Fails
    <3>3. Tri(i) + (j - i) <= Tri(j) BY <3>2, TriGap
    <3> QED BY <3>1, <3>3
  <2> QED BY <1>3, <1>5, <2>1, TriTop, Fails
<1> QED BY <1>4, <1>5

LEMMA BudgetMisses ==
  ASSUME LInv, LTInv', TwoAtATime, NEW q \in Submission, Misses(q)
  PROVE  Budget' /\ LockedBudget'
<1>1. PICK x \in {Free} \cup Work : x = sub[q] BY SubType DEF LInv
<1>2. Guessing(x) BY <1>1 DEF Misses
<1>3. PICK a \in 0..MaxFails : a = x.snap.fails BY <1>2, HeldType
<1>4. /\ user'.locked = (user.locked \/ a + 1 >= MaxFails)
      /\ user'.fails = IF a + 1 > MaxFails THEN MaxFails ELSE a + 1
      /\ guesses' = guesses + 1
  BY <1>1, <1>3 DEF Misses
<1>5. Budget /\ LockedBudget /\ guesses \in Nat BY Unmoved DEF LInv
<1>6. \A p \in Submission : Guessing(sub'[p]) => p # q /\ sub'[p] = sub[p] BY DEF Misses, Leaves
<1>7. \A p, o \in Submission : Guessing(sub'[p]) /\ Guessing(sub'[o]) => p = o
  BY <1>6 DEF TwoAtATime
<1>8. LockedBudget'
  <2>1. guesses + 1 <= 1 + Tri(MaxFails) BY <1>1, <1>2, <1>5, TriTop DEF LockedBudget
  <2>2. ASSUME NEW p \in Submission, Guessing(sub'[p]) PROVE guesses + 1 <= Tri(MaxFails)
    BY <1>1, <1>2, <1>5, <1>6, <2>2 DEF LockedBudget
  <2> QED BY <1>4, <1>7, <2>1, <2>2 DEF LockedBudget
<1>9. Budget'
  <2> SUFFICES ASSUME ~user'.locked PROVE Budget' BY DEF Budget
  <2>1. ~user.locked /\ ~(a + 1 >= MaxFails) BY <1>4
  <2>2. a \in 0..(MaxFails - 2) /\ user'.fails = a + 1 /\ Clip(a) = a /\ Clip(a + 1) = a + 1
    BY <1>3, <1>4, <2>1, Fails DEF Clip
  <2>3. PICK f \in 0..(MaxFails - 1) : f = Clip(user.fails)
    BY ClipBounds, UserFields DEF LInv, LTInv, LoginTypeOK
  <2>4. Held(x) = a BY <1>3, <2>2 DEF Held
  <2>5. a <= f => Within(a, f) BY <1>1, <1>2, <1>5, <2>1, <2>3, <2>4 DEF Budget
  <2>6. Within(f, f) BY <1>5, <2>1, <2>3 DEF Budget
  <2>7. guesses + 1 + Tri(MaxFails - (a + 1)) <= Tri(MaxFails)
    <3>1. guesses + Tri(MaxFails - f) <= Tri(MaxFails)
      <4>1. f - f = 0 /\ Tri(MaxFails) + 0 = Tri(MaxFails) BY TriTop
      <4> QED BY <2>6, <4>1 DEF Within
    <3>2. a <= f => guesses + Tri(MaxFails - a) <= Tri(MaxFails) + (f - a) BY <2>5 DEF Within
    <3> QED BY <1>5, <2>2, <3>1, <3>2, MissRoom
  <2>8. Within(a + 1, a + 1)' BY <1>4, <2>7, TriTop DEF Within
  <2>9. ASSUME NEW p \in Submission, NEW r \in {sub'[p]}, Guessing(r), Held(r) <= a + 1
        PROVE  Within(Held(r), a + 1)'
    <3>1. p # q /\ r = sub[p] BY <1>6, <2>9
    <3>2. PICK b \in 0..(MaxFails - 1) : b = Held(r) BY <2>9, <3>1, HeldType, SubType DEF LInv
    <3>3. CASE b = a + 1 BY <2>8, <3>2, <3>3
    <3>4. CASE b <= a
      <4>1. Within(b, a) BY <1>1, <1>2, <1>5, <2>1, <2>4, <2>9, <3>1, <3>2, <3>4 DEF Budget
      <4>2. MaxFails - b \in Nat BY Fails
      <4>3. Tri(MaxFails - b) \in Nat BY <4>2, TriNat
      <4>4. guesses + 1 + Tri(MaxFails - b) <= Tri(MaxFails) + ((a + 1) - b)
        BY <1>5, <4>1, <4>3, TriTop DEF Within
      <4> QED BY <1>4, <3>2, <4>4 DEF Within
    <3> QED BY <2>9, <3>2, <3>3, <3>4
  <2> QED BY <1>7, <2>2, <2>8, <2>9 DEF Budget
<1> QED BY <1>8, <1>9

LEMMA BudgetKept == ASSUME LInv, TwoAtATime, [LoginNext]_login PROVE LInv'
<1>1. LTInv' /\ BudgetStep BY EffectOfStep DEF Effect, LInv
<1> QED BY <1>1, BudgetSteady, BudgetRenewed, BudgetStarts, BudgetMisses DEF BudgetStep, LInv

-----------------------------------------------------------------------------
(* The theorems.                                                           *)

LEMMA LoginInitInv == ASSUME LoginInit PROVE LInv /\ CodesOK
<1>1. PICK u : u = [fails |-> 0, locked |-> FALSE, totp |-> FALSE, totpFails |-> 0, totpLocked |-> FALSE]
  OBVIOUS
<1>2. u \in User /\ u.fails = 0 /\ ~u.totp /\ user = u BY <1>1, Fails DEF User, LoginInit
<1>3. LTInv
  BY <1>2, Fails DEF LTInv, LoginTypeOK, LoginInit
<1>4. \A q \in Submission : sub[q] = Free /\ Free.pc = "idle" BY Idles DEF LoginInit
<1>5. CodesOK BY <1>2, <1>4 DEF CodesOK, Unsetting, LoginInit, Unused
<1>6. LockedBudget BY TriTop, Fails DEF LockedBudget, LoginInit
<1>7. Budget
  <2>1. Within(Clip(0), Clip(0)) BY RoomAtZero, ClipBounds, Fails DEF Within, LoginInit
  <2> QED BY <1>2, <1>4, <2>1 DEF Budget, Guessing
<1> QED BY <1>3, <1>5, <1>6, <1>7 DEF LInv

\* However its submissions overlap with each other and with disabling and enabling
\* the second factor, a recovery code signs in at most once: the UPDATE that claims it
\* asks for used_at IS NULL, and no code in stock has been claimed.
THEOREM OneLogin == LoginSpec => []CodeGrantsOnce
<1>1. LoginInit => LTInv /\ CodesOK BY LoginInitInv DEF LInv
<1>2. LTInv /\ CodesOK /\ [LoginNext]_login => (LTInv /\ CodesOK)'
  BY CodesStep, EffectOfStep DEF Effect
<1>3. LTInv /\ CodesOK => CodeGrantsOnce BY DEF CodesOK, CodeGrantsOnce
<1> QED BY <1>1, <1>2, <1>3, PTL DEF LoginSpec

\* The second factor is never on without the recovery codes of its setup, and never
\* leaves codes behind when it goes off, except those enabled between the two
\* statements of a disabling.
THEOREM SwitchFollowed == LoginSpec => []CodesFollowSwitch
<1>1. LoginInit => LTInv /\ CodesOK BY LoginInitInv DEF LInv
<1>2. LTInv /\ CodesOK /\ [LoginNext]_login => (LTInv /\ CodesOK)'
  BY CodesStep, EffectOfStep DEF Effect
<1>3. LTInv /\ CodesOK => CodesFollowSwitch BY DEF LTInv, CodesOK, CodesFollowSwitch
<1> QED BY <1>1, <1>2, <1>3, PTL DEF LoginSpec

\* Of two requests at a time, whatever the limit of attempts: at most
\* 1 + MaxFails * (MaxFails + 1) / 2 wrong passwords are judged before the lock.
THEOREM LockComes == ASSUME IsFiniteSet(Submission) PROVE LoginSpec => []LockoutBound
<1>1. CASE TwoAtATime
  <2>1. LoginInit => LInv BY LoginInitInv
  <2>2. LInv /\ [LoginNext]_login => LInv' BY <1>1, BudgetKept
  <2>3. LInv => LockoutBound BY DEF LInv, LockedBudget, LockoutBound, Tri
  <2> QED BY <2>1, <2>2, <2>3, PTL DEF LoginSpec
<1>2. CASE ~TwoAtATime
  <2>1. PICK p \in Submission, q \in Submission, r \in Submission : p # q /\ p # r /\ q # r
    BY <1>2 DEF TwoAtATime
  <2>2. {p, q, r} \subseteq Submission OBVIOUS
  <2>3. Cardinality({p, q, r}) = 3
    <3>1. PICK S : S = {p} OBVIOUS
    <3>2. IsFiniteSet(S) /\ Cardinality(S) = 1 BY <3>1, FS_Singleton
    <3>3. PICK D : D = S \cup {q} OBVIOUS
    <3>4. q \notin S BY <2>1, <3>1
    <3>5. IsFiniteSet(D) /\ Cardinality(D) = 2 BY <3>2, <3>3, <3>4, FS_AddElement
    <3>6. r \notin D BY <2>1, <3>1, <3>3
    <3>7. Cardinality(D \cup {r}) = 3
      <4>1. Cardinality(D \cup {r}) = IF r \in D THEN Cardinality(D) ELSE Cardinality(D) + 1
        BY <3>5, FS_AddElement, Zenon
      <4> QED BY <3>5, <3>6, <4>1
    <3>8. D \cup {r} = {p, q, r} BY <3>1, <3>3
    <3> QED BY <3>7, <3>8
  <2>4. Cardinality({p, q, r}) <= Cardinality(Submission) BY <2>2, FS_Subset
  <2>5. Cardinality(Submission) \in Nat BY FS_CardinalityType
  <2>6. ~(Cardinality(Submission) <= 2) BY <2>3, <2>4, <2>5
  <2>7. LockoutBound BY <2>6 DEF LockoutBound
  <2> QED BY <2>7, PTL
<1> QED BY <1>1, <1>2
=============================================================================
