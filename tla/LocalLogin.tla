----------------------------- MODULE LocalLogin -----------------------------
(***************************************************************************)
(* Signing in to one account with a password and a second factor           *)
(* (app/routers/auth.py and the settings_2fa handlers of app/main.py).     *)
(*                                                                         *)
(* Every handler reads the users row first and writes what it computed     *)
(* from that copy later -- a bcrypt check takes its time in between -- so  *)
(* a request keeps a snapshot.  What a request submits (the right or a     *)
(* wrong password, a code of the authenticator, a recovery code) is its    *)
(* caller's choice.  Enabling the second factor inserts one batch of       *)
(* recovery codes; a batch is represented by one code, numbered.           *)
(***************************************************************************)
EXTENDS Integers, FiniteSets

CONSTANTS
  Browser,
  Submission,     \* requests the server handles at a time
  MaxFails,       \* _LOGIN_MAX_ATTEMPTS, _TOTP_LOGIN_MAX_ATTEMPTS
  MaxSetupTries,  \* _TOTP_SETUP_MAX_ATTEMPTS
  MaxSetups,      \* model bound on enabling the second factor
  MaxResets       \* model bound on reset tokens

ASSUME LoginAssumption == /\ {MaxFails, MaxSetupTries} \subseteq Nat \ {0}
                          /\ {MaxSetups, MaxResets} \subseteq Nat

VARIABLES
  user,    \* the users row
  code,    \* totp_recovery_codes
  token,   \* password_resets
  setup,   \* _totp_setup_state of the user
  pending, \* the browsers whose cookie holds pending_2fa_user_id
  sub,     \* the requests in progress
  grants,  \* ghost: how often each recovery code signed somebody in
  guesses, \* ghost: wrong passwords since the budget was last renewed
  stray    \* ghost: codes enabled while a disabling was under way

login == <<user, code, token, setup, pending, sub, grants, guesses, stray>>

Code  == 1..MaxSetups
Token == 1..MaxResets

User == [fails: 0..MaxFails, locked: BOOLEAN, totp: BOOLEAN,
         totpFails: 0..MaxFails, totpLocked: BOOLEAN]

NoSetup == -1   \* otherwise the attempts counted so far

Free  == [pc |-> "idle"]
Work  == [pc: {"password", "reauth", "code"}, browser: Browser, snap: User]
         \cup [pc: {"confirm", "enable"}]
         \cup [pc: {"claim"}, browser: Browser, snap: User, code: Code]
         \cup [pc: {"wipe", "unset"}, by: {"user", "admin"}, seen: SUBSET Code]
         \cup [pc: {"set", "mark"}, token: Token]

LoginInit ==
  /\ user = [fails |-> 0, locked |-> FALSE, totp |-> FALSE, totpFails |-> 0, totpLocked |-> FALSE]
  /\ code = [c \in Code |-> "none"]
  /\ token = [t \in Token |-> "none"]
  /\ setup = NoSetup
  /\ pending = {}
  /\ sub = [q \in Submission |-> Free]
  /\ grants = [c \in Code |-> 0] /\ guesses = 0 /\ stray = {}

Put(q, r)  == sub' = [sub EXCEPT ![q] = r]
Done(q)   == Put(q, Free)
At(q, pc) == sub[q].pc = pc
Start(q, pc, b, row) == At(q, "idle") /\ Put(q, [pc |-> pc, browser |-> b, snap |-> row])

\* The row as a request holds it, without the columns it does not use.
ForPassword == [user EXCEPT !.totpFails = 0]
ForCode     == [user EXCEPT !.fails = 0, !.locked = FALSE]
ForReauth   == [user EXCEPT !.totpFails = 0, !.totpLocked = FALSE]

\* The code rows a SELECT sees, and those any statement sees.
Unused == {c \in Code : code[c] = "unused"}
Rows   == {c \in Code : code[c] \in {"unused", "used"}}

codeVars  == <<code, grants, stray>>
loginVars == <<token, setup>>

-----------------------------------------------------------------------------
(* The password.                                                           *)

\* Mutant of Failed: the lock is left to the next attempt.
FailedOffByOne(snap) == LET n == snap.fails + 1 IN
  [user EXCEPT !.fails = n, !.locked = @ \/ n > MaxFails]

\* failed_login_attempts is written as the snapshot's value plus one.
Failed(snap) == LET n == snap.fails + 1 IN
  [user EXCEPT !.fails = n, !.locked = @ \/ n >= MaxFails]

\* A budget that is used up stays used up until it is renewed: the next wrong answer
\* after the lock's end locks again.
Capped(u) == IF u.fails > MaxFails THEN [u EXCEPT !.fails = MaxFails] ELSE u

Wrong(snap) == user' = Capped(Failed(snap)) /\ guesses' = guesses + 1

Renewed(u) == [u EXCEPT !.fails = 0, !.locked = FALSE]

\* auth_login_submit up to the bcrypt check.
Login(q, b) ==
  /\ ~user.locked /\ Start(q, "password", b, ForPassword)
  /\ UNCHANGED <<user, codeVars, loginVars, pending, guesses>>

LoginFails(q) ==
  /\ At(q, "password") /\ Wrong(sub[q].snap) /\ Done(q)
  /\ UNCHANGED <<codeVars, loginVars, pending>>

\* The right password: signed in, or asked for a code, or told the code prompt is
\* locked -- all by the snapshot.
LoginPasses(q) ==
  /\ At(q, "password") /\ Done(q)
  /\ LET snap == sub[q].snap IN
     IF snap.totp /\ snap.totpLocked THEN UNCHANGED <<user, pending, guesses>>
     ELSE /\ user' = Renewed(user) /\ guesses' = 0
          /\ pending' = IF snap.totp THEN pending \cup {sub[q].browser}
                                     ELSE pending \ {sub[q].browser}
  /\ UNCHANGED <<codeVars, loginVars>>

LockEnds ==
  /\ user.locked /\ user' = [user EXCEPT !.locked = FALSE] /\ guesses' = 0
  /\ UNCHANGED <<codeVars, loginVars, pending, sub>>

-----------------------------------------------------------------------------
(* The second factor at login.                                             *)

\* auth_login_2fa_submit: without a second factor, or while its budget is locked,
\* the pending login is over.
EnterCode(q, b) ==
  /\ b \in pending
  /\ IF user.totp /\ ~user.totpLocked
     THEN Start(q, "code", b, ForCode) /\ UNCHANGED pending
     ELSE At(q, "idle") /\ pending' = pending \ {b} /\ UNCHANGED sub
  /\ UNCHANGED <<user, codeVars, loginVars, guesses>>

SignedIn(q) ==
  /\ user' = [user EXCEPT !.totpFails = 0, !.totpLocked = FALSE]
  /\ pending' = pending \ {sub[q].browser}
  /\ Done(q)

\* A code of the authenticator.
CodePasses(q) ==
  /\ At(q, "code") /\ SignedIn(q)
  /\ UNCHANGED <<codeVars, loginVars, guesses>>

\* _consume_recovery_code_if_valid: the rows are selected and compared ...
CodeMatches(q) ==
  /\ At(q, "code")
  /\ \E c \in Unused : Put(q, [pc |-> "claim", browser |-> sub[q].browser, snap |-> sub[q].snap, code |-> c])
  /\ UNCHANGED <<user, codeVars, loginVars, pending, guesses>>

\* Mutant of Claim: UPDATE ... WHERE id = ..., without AND used_at IS NULL.
ClaimUnguarded(q) ==
  /\ At(q, "claim") /\ code[sub[q].code] \in {"unused", "used"}
  /\ LET c == sub[q].code IN
     code' = [code EXCEPT ![c] = "used"] /\ grants' = [grants EXCEPT ![c] = @ + 1]
  /\ SignedIn(q)
  /\ UNCHANGED <<stray, loginVars, guesses>>

\* ... and the match is claimed WHERE used_at IS NULL: of two requests one wins.
Claim(q) ==
  /\ At(q, "claim") /\ code[sub[q].code] = "unused"
  /\ LET c == sub[q].code IN
     code' = [code EXCEPT ![c] = "used"] /\ grants' = [grants EXCEPT ![c] = @ + 1]
  /\ SignedIn(q)
  /\ UNCHANGED <<stray, loginVars, guesses>>

\* No code, or one claimed or wiped meanwhile.
CodeFails(q) ==
  /\ At(q, "code") \/ (At(q, "claim") /\ code[sub[q].code] # "unused")
  /\ LET n == sub[q].snap.totpFails + 1 IN
     /\ user' = [user EXCEPT !.totpFails = IF n > MaxFails THEN MaxFails ELSE n,
                             !.totpLocked = @ \/ n >= MaxFails]
     /\ pending' = IF n >= MaxFails THEN pending \ {sub[q].browser} ELSE pending
  /\ Done(q)
  /\ UNCHANGED <<codeVars, loginVars, guesses>>

TotpLockEnds ==
  /\ user.totpLocked /\ user' = [user EXCEPT !.totpLocked = FALSE]
  /\ UNCHANGED <<codeVars, loginVars, pending, sub, guesses>>

-----------------------------------------------------------------------------
(* Enabling and disabling it.                                              *)

\* settings_2fa_setup_page: a pending secret is reused until it expires.
SetupPage ==
  /\ ~user.totp /\ setup = NoSetup /\ setup' = 0
  /\ UNCHANGED <<user, codeVars, token, pending, sub, guesses>>

SetupExpires ==
  /\ setup # NoSetup /\ setup' = NoSetup
  /\ UNCHANGED <<user, codeVars, token, pending, sub, guesses>>

\* settings_2fa_setup_confirm: the row is read,
Confirm(q) ==
  /\ At(q, "idle") /\ ~user.totp /\ Put(q, [pc |-> "confirm"])
  /\ UNCHANGED <<user, codeVars, loginVars, pending, guesses>>

\* then the attempt counted and the code compared.
Verify(q) ==
  /\ At(q, "confirm")
  /\ IF setup = NoSetup \/ setup >= MaxSetupTries
     THEN setup' = NoSetup /\ Done(q)
     ELSE /\ setup' = setup + 1
          /\ Done(q) \/ Put(q, [pc |-> "enable"])
  /\ UNCHANGED <<user, codeVars, token, pending, guesses>>

\* One transaction sets the flag and inserts the codes; then the setup is over.
Enable(q) ==
  /\ At(q, "enable")
  /\ \E c \in Code :
       /\ \A d \in 1..(c - 1) : code[d] # "none"
       /\ code[c] = "none"
       /\ code' = [code EXCEPT ![c] = "unused"]
       /\ stray' = IF \E r \in Submission : At(r, "unset") THEN stray \cup {c} ELSE stray
  /\ user' = [user EXCEPT !.totp = TRUE]
  /\ setup' = NoSetup /\ Done(q)
  /\ UNCHANGED <<token, pending, grants, guesses>>

\* settings_2fa_disable asks for the password, on the login budget.
Disable(q, b) ==
  /\ user.totp /\ ~user.locked /\ Start(q, "reauth", b, ForReauth)
  /\ UNCHANGED <<user, codeVars, loginVars, pending, guesses>>

ReauthFails(q) ==
  /\ At(q, "reauth") /\ Wrong(sub[q].snap) /\ Done(q)
  /\ UNCHANGED <<codeVars, loginVars, pending>>

ReauthPasses(q) ==
  /\ At(q, "reauth") /\ Put(q, [pc |-> "wipe", by |-> "user", seen |-> {}])
  /\ UNCHANGED <<user, codeVars, loginVars, pending, guesses>>

\* admin_disable_2fa.
AdminDisable(q) ==
  /\ At(q, "idle") /\ user.totp /\ Put(q, [pc |-> "wipe", by |-> "admin", seen |-> {}])
  /\ UNCHANGED <<user, codeVars, loginVars, pending, guesses>>

\* The transaction's DELETE takes the rows committed by now,
Wipe(q) ==
  /\ At(q, "wipe") /\ Put(q, [sub[q] EXCEPT !.pc = "unset", !.seen = Rows])
  /\ UNCHANGED <<user, codeVars, loginVars, pending, guesses>>

\* Mutant of Unset: the codes are left to be overwritten by the next setup.
UnsetKeepsCodes(q) ==
  /\ At(q, "unset") /\ Done(q)
  /\ user' = LET u == [user EXCEPT !.totp = FALSE] IN
             IF sub[q].by = "user" THEN Renewed(u) ELSE [u EXCEPT !.totpFails = 0, !.totpLocked = FALSE]
  /\ guesses' = IF sub[q].by = "user" THEN 0 ELSE guesses
  /\ UNCHANGED <<code, stray, grants, loginVars, pending>>

\* and both it and the flag become visible at the commit.  The user's own request
\* renews the password budget, the admin's that of the codes.
Unset(q) ==
  /\ At(q, "unset") /\ Done(q)
  /\ code' = [c \in Code |-> IF c \in sub[q].seen THEN "gone" ELSE code[c]]
  /\ user' = LET u == [user EXCEPT !.totp = FALSE] IN
             IF sub[q].by = "user" THEN Renewed(u) ELSE [u EXCEPT !.totpFails = 0, !.totpLocked = FALSE]
  /\ guesses' = IF sub[q].by = "user" THEN 0 ELSE guesses
  /\ stray' = stray \ sub[q].seen
  /\ UNCHANGED <<grants, loginVars, pending>>

-----------------------------------------------------------------------------
(* Password reset links.                                                   *)

AdminReset(t) ==
  /\ token[t] = "none" /\ token' = [token EXCEPT ![t] = "open"]
  /\ UNCHANGED <<user, codeVars, setup, pending, sub, guesses>>

ResetExpires(t) ==
  /\ token[t] = "open" /\ token' = [token EXCEPT ![t] = "over"]
  /\ UNCHANGED <<user, codeVars, setup, pending, sub, guesses>>

\* auth_reset_password_submit: the token is checked, the password set, the token
\* marked used -- three statements.
ResetCheck(q, t) ==
  /\ At(q, "idle") /\ token[t] = "open" /\ Put(q, [pc |-> "set", token |-> t])
  /\ UNCHANGED <<user, codeVars, loginVars, pending, guesses>>

ResetSet(q) ==
  /\ At(q, "set") /\ user' = Renewed(user) /\ guesses' = 0
  /\ Put(q, [sub[q] EXCEPT !.pc = "mark"])
  /\ UNCHANGED <<codeVars, loginVars, pending>>

ResetMark(q) ==
  /\ At(q, "mark") /\ token' = [token EXCEPT ![sub[q].token] = "over"] /\ Done(q)
  /\ UNCHANGED <<user, codeVars, setup, pending, guesses>>

\* A restart forgets the pending setup and the requests.
LoginRestart ==
  /\ setup' = NoSetup /\ sub' = [q \in Submission |-> Free]
  /\ UNCHANGED <<user, codeVars, token, pending, guesses>>

-----------------------------------------------------------------------------
HandleLogin(q) ==
  \/ \E b \in Browser : Login(q, b) \/ EnterCode(q, b) \/ Disable(q, b)
  \/ LoginFails(q) \/ LoginPasses(q)
  \/ CodePasses(q) \/ CodeMatches(q) \/ Claim(q) \/ CodeFails(q)
  \/ Confirm(q) \/ Verify(q) \/ Enable(q)
  \/ ReauthFails(q) \/ ReauthPasses(q) \/ AdminDisable(q) \/ Wipe(q) \/ Unset(q)
  \/ \E t \in Token : ResetCheck(q, t)
  \/ ResetSet(q) \/ ResetMark(q)

LoginNext ==
  \/ \E q \in Submission : HandleLogin(q)
  \/ LockEnds \/ TotpLockEnds \/ SetupPage \/ SetupExpires
  \/ \E t \in Token : AdminReset(t) \/ ResetExpires(t)
  \/ LoginRestart

LoginSpec == LoginInit /\ [][LoginNext]_login

-----------------------------------------------------------------------------
(* What makes signing in correct.                                          *)

\* Every variable holds a value of its type (a conjunct of CodesFollowSwitch).
LoginTypeOK ==
  /\ user \in User
  /\ code \in [Code -> {"none", "unused", "used", "gone"}]
  /\ token \in [Token -> {"none", "open", "over"}]
  /\ setup \in {NoSetup} \cup 0..MaxSetupTries
  /\ pending \subseteq Browser
  /\ \A q \in Submission : sub[q] = Free \/ sub[q] \in Work
  /\ grants \in [Code -> Nat] /\ guesses \in Nat /\ stray \subseteq Code

\* A recovery code signs in once, however its submissions overlap with each other
\* and with disabling and enabling the second factor
\* (_consume_recovery_code_if_valid: "closes the race window").
CodeGrantsOnce == \A c \in Code : grants[c] <= 1

\* The second factor is never on without the recovery codes of its setup (spent or
\* not), and never leaves codes behind when it goes off: those a later setup would
\* inherit ("a later re-enable can't accidentally inherit stale codes").  Codes
\* inserted between the two statements of a disabling are the exception.
CodesFollowSwitch ==
  /\ LoginTypeOK
  /\ IF user.totp THEN Rows # {} ELSE Unused \subseteq stray

\* Two overlapping requests read the same count and store the same successor, or
\* put back an older one; the lock comes later for it, but this many wrong
\* passwords always bring it (for the code's five attempts: sixteen).
LockoutBound ==
  Cardinality(Submission) <= 2 => guesses <= 1 + (MaxFails * (MaxFails + 1)) \div 2
=============================================================================
