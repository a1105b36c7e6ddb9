------------------------------ MODULE Sessions ------------------------------
(***************************************************************************)
(* Server-side sessions and admin impersonation (app/sessions.py and       *)
(* get_current_user in app/main.py).                                       *)
(*                                                                         *)
(* A browser's signed cookie names a session (sid) and, while an admin     *)
(* impersonates somebody, the admin's own session (impersonator_sid, here  *)
(* way: the way back).  A request works on a copy of the cookie and the    *)
(* response writes the copy back, so requests of two tabs overwrite each   *)
(* other's cookie.  Between its queries anything may happen: the session   *)
(* row, the user row and the impersonation columns are read one by one,    *)
(* and deactivating a user takes two transactions.                         *)
(*                                                                         *)
(* A token is the number of its row.  Rows of create_session's clean-up    *)
(* are dead and stay dead, so deleting them changes nothing.               *)
(***************************************************************************)
EXTENDS Integers, FiniteSets

CONSTANTS
  User,
  Admin,       \* the users with is_admin
  Nobody,
  Browser,
  Request,     \* requests the server handles at a time
  MaxSessions  \* model bound on session rows

ASSUME AdminAssumption  == Admin \subseteq User
ASSUME NobodyAssumption == Nobody \notin User
ASSUME BoundAssumption  == MaxSessions \in Nat

VARIABLES
  active,  \* users.is_active
  row,     \* the sessions table, by token
  used,    \* tokens handed out so far
  cookie,  \* what each browser stores
  req,     \* the requests in progress
  ended    \* ghost: sessions somebody ended, or whose time ran out

vars == <<active, row, used, cookie, req, ended>>

Token    == 1..MaxSessions
NoToken  == 0
Cookie   == [sid: Token \cup {NoToken}, way: Token \cup {NoToken}]
NoCookie == [sid |-> NoToken, way |-> NoToken]

\* by: impersonated_by; live: neither revoked nor past expires_at; boxOver:
\* impersonation_expires_at has passed.
Row == [user: User, by: User \cup {Nobody}, live: BOOLEAN, boxOver: BOOLEAN]

\* who: the user resolved so far (_cached_user); admin: the impersonation context
\* found; target: whom the handler is about to act on; barred, from: ghosts, the
\* ended sessions and the cookie at the request's start.
Working == [pc: {"session", "user", "context", "act", "refused", "insert", "stand_in", "cut", "respond"},
            browser: Browser, c: Cookie, who: User \cup {Nobody}, admin: User \cup {Nobody},
            target: User \cup {Nobody}, barred: SUBSET Token, from: Cookie]
Idle == [pc |-> "idle"]

\* A request at pc with cookie c that has resolved nobody yet.
Fresh(pc, b, c) == [pc |-> pc, browser |-> b, c |-> c, who |-> Nobody, admin |-> Nobody,
                    target |-> Nobody, barred |-> {}, from |-> NoCookie]

Init ==
  /\ active = [u \in User |-> TRUE]
  /\ used = 0
  /\ row = [t \in {} |-> NoToken]
  /\ cookie = [b \in Browser |-> NoCookie]
  /\ req = [q \in Request |-> Idle]
  /\ ended = {}

-----------------------------------------------------------------------------
(* The table.                                                              *)

Exists(t) == t \in 1..used

\* WHERE session_token_hash = ... AND revoked_at IS NULL AND expires_at > now().
Live(t) == Exists(t) /\ row[t].live

Impersonation(t) == Exists(t) /\ row[t].by # Nobody

BoxOver(t) == Impersonation(t) /\ row[t].boxOver

\* UPDATE sessions SET revoked_at = now() WHERE ... AND revoked_at IS NULL.
Revoked(S) == [t \in DOMAIN row |-> IF t \in S THEN [row[t] EXCEPT !.live = FALSE] ELSE row[t]]

Close(S) == row' = Revoked(S) /\ ended' = ended \cup (S \cap DOMAIN row)

\* create_session, start_impersonation_session.
NewRow(u, by) ==
  /\ used < MaxSessions
  /\ used' = used + 1
  /\ row' = [t \in 1..(used + 1) |->
               IF t = used + 1 THEN [user |-> u, by |-> by, live |-> TRUE, boxOver |-> FALSE]
               ELSE row[t]]

-----------------------------------------------------------------------------
(* get_current_user.                                                       *)

\* A request that goes through get_current_user.
Arrive(q, b) ==
  /\ req[q].pc = "idle" /\ cookie[b].sid # NoToken
  /\ req' = [req EXCEPT ![q] = [Fresh("session", b, cookie[b]) EXCEPT
                !.from = cookie[b], !.barred = ended \cap {cookie[b].sid, cookie[b].way}]]
  /\ UNCHANGED <<active, row, used, cookie, ended>>

\* Mutant of Failed: the impersonator's session is only used by the Stop button.
FailedNoFallback(r) == [r EXCEPT !.pc = "refused", !.who = Nobody, !.c = NoCookie]

\* The token did not resolve to an active user: once, the way back is tried
\* instead; then the request is anonymous and its session is cleared.
Failed(r) == IF r.c.way # NoToken
             THEN [r EXCEPT !.pc = "session", !.who = Nobody, !.c = [sid |-> r.c.way, way |-> NoToken]]
             ELSE [r EXCEPT !.pc = "refused", !.who = Nobody, !.c = NoCookie]

Found(r) == [r EXCEPT !.pc = "user", !.who = row[r.c.sid].user]

\* resolve_session: a row past its time box is revoked on sight.
Resolve(q) ==
  LET r == req[q]
      t == r.c.sid
  IN
  /\ r.pc = "session"
  /\ req' = [req EXCEPT ![q] = IF Live(t) /\ ~BoxOver(t) THEN Found(r) ELSE Failed(r)]
  /\ IF Live(t) /\ BoxOver(t) THEN Close({t}) ELSE UNCHANGED <<row, ended>>
  /\ UNCHANGED <<active, used, cookie>>

\* _resolve_session_user reads the user; a deactivated one loses the session.
ReadUser(q) ==
  LET r == req[q] IN
  /\ r.pc = "user"
  /\ IF active[r.who]
     THEN req' = [req EXCEPT ![q].pc = "context"] /\ UNCHANGED <<row, ended>>
     ELSE req' = [req EXCEPT ![q] = Failed(r)] /\ Close({r.c.sid})
  /\ UNCHANGED <<active, used, cookie>>

\* get_impersonation_context; it may find the row dead by now.
ReadContext(q) ==
  LET r == req[q]
      t == r.c.sid
  IN
  /\ r.pc = "context"
  /\ req' = [req EXCEPT ![q].pc = "act",
                        ![q].admin = IF Live(t) /\ ~BoxOver(t) THEN row[t].by ELSE Nobody]
  /\ UNCHANGED <<active, row, used, cookie, ended>>

-----------------------------------------------------------------------------
(* Handlers.  An acting admin is one the handler's _require_admin lets in. *)

Done(r, c) == Fresh("respond", r.browser, c)

AsAdmin(r) == r.pc = "act" /\ r.who \in Admin

\* Any other page or API call, and a refused one.
Serve(q) ==
  /\ req[q].pc \in {"act", "refused"}
  /\ req' = [req EXCEPT ![q] = Done(@, @.c)]
  /\ UNCHANGED <<active, row, used, cookie, ended>>

\* Mutant of StartImpersonation: a second one may be stacked on the first.
StartStacked(q, u) ==
  LET r == req[q] IN
  /\ AsAdmin(r) /\ u # r.who /\ active[u]
  /\ req' = [req EXCEPT ![q].pc = "stand_in", ![q].target = u]
  /\ UNCHANGED <<active, row, used, cookie, ended>>

\* admin_start_impersonation up to the read of the target.
StartImpersonation(q, u) ==
  LET r == req[q] IN
  /\ AsAdmin(r) /\ u # r.who /\ active[u]
  /\ r.c.way = NoToken
  /\ req' = [req EXCEPT ![q].pc = "stand_in", ![q].target = u]
  /\ UNCHANGED <<active, row, used, cookie, ended>>

\* Mutant of StandIn: the cookie forgets the admin's session.
StandInForgets(q) ==
  LET r == req[q] IN
  /\ r.pc = "stand_in"
  /\ NewRow(r.target, r.who)
  /\ req' = [req EXCEPT ![q] = Done(r, [sid |-> used', way |-> NoToken])]
  /\ UNCHANGED <<active, cookie, ended>>

\* ... and its insert.
StandIn(q) ==
  LET r == req[q] IN
  /\ r.pc = "stand_in"
  /\ NewRow(r.target, r.who)
  /\ req' = [req EXCEPT ![q] = Done(r, [sid |-> used', way |-> r.c.sid])]
  /\ UNCHANGED <<active, cookie, ended>>

\* admin_stop_impersonation; a no-op (Serve) when there is nothing to stop.
StopImpersonation(q) ==
  LET r == req[q] IN
  /\ r.pc = "act" /\ r.c.way # NoToken /\ r.admin # Nobody
  /\ Close({r.c.sid})
  /\ req' = [req EXCEPT ![q] = Done(r, [sid |-> r.c.way, way |-> NoToken])]
  /\ UNCHANGED <<active, used, cookie>>

\* admin_deactivate_user: the flag first ...
Deactivate(q, u) ==
  LET r == req[q] IN
  /\ AsAdmin(r) /\ u # r.who
  /\ active' = [active EXCEPT ![u] = FALSE]
  /\ req' = [req EXCEPT ![q].pc = "cut", ![q].target = u]
  /\ UNCHANGED <<row, used, cookie, ended>>

\* Mutant of CutOff: sessions are left to the lazy check of is_active.
CutOffLazily(q) ==
  LET r == req[q] IN
  /\ r.pc = "cut"
  /\ ended' = ended \cup {t \in 1..used : row[t].user = r.target}
  /\ req' = [req EXCEPT ![q] = Done(r, r.c)]
  /\ UNCHANGED <<active, row, used, cookie>>

\* ... then revoke_all_sessions.
CutOff(q) ==
  LET r == req[q] IN
  /\ r.pc = "cut"
  /\ Close({t \in 1..used : row[t].user = r.target})
  /\ req' = [req EXCEPT ![q] = Done(r, r.c)]
  /\ UNCHANGED <<active, used, cookie>>

Reactivate(q, u) ==
  /\ AsAdmin(req[q])
  /\ active' = [active EXCEPT ![u] = TRUE]
  /\ req' = [req EXCEPT ![q] = Done(@, @.c)]
  /\ UNCHANGED <<row, used, cookie, ended>>

\* settings_revoke_session: one of the caller's own sessions; revoking the
\* current one clears the cookie.
RevokeSession(q, t) ==
  LET r == req[q] IN
  /\ r.pc = "act" /\ Live(t) /\ row[t].user = r.who
  /\ Close({t})
  /\ req' = [req EXCEPT ![q] = Done(r, IF t = r.c.sid THEN NoCookie ELSE r.c)]
  /\ UNCHANGED <<active, used, cookie>>

-----------------------------------------------------------------------------
(* Requests that do not look at the session first.                         *)

\* A login that passed all checks: is_active was read before the insert.
Login(q, b, u) ==
  /\ req[q].pc = "idle" /\ active[u]
  /\ req' = [req EXCEPT ![q] = [Fresh("insert", b, cookie[b]) EXCEPT !.target = u]]
  /\ UNCHANGED <<active, row, used, cookie, ended>>

\* _set_authenticated_session: only sid is replaced.
StartSession(q) ==
  LET r == req[q] IN
  /\ r.pc = "insert"
  /\ NewRow(r.target, Nobody)
  /\ req' = [req EXCEPT ![q] = Done(r, [r.c EXCEPT !.sid = used'])]
  /\ UNCHANGED <<active, cookie, ended>>

\* _end_session.
Logout(q, b) ==
  /\ req[q].pc = "idle" /\ cookie[b].sid # NoToken
  /\ Close({cookie[b].sid})
  /\ req' = [req EXCEPT ![q] = Fresh("respond", b, NoCookie)]
  /\ UNCHANGED <<active, used, cookie>>

\* SessionMiddleware writes the request's copy into the browser's cookie.
Respond(q) ==
  /\ req[q].pc = "respond"
  /\ cookie' = [cookie EXCEPT ![req[q].browser] = req[q].c]
  /\ req' = [req EXCEPT ![q] = Idle]
  /\ UNCHANGED <<active, row, used, ended>>

\* The process dies, or the answer is lost.
Abandon(q) ==
  /\ req[q].pc # "idle"
  /\ req' = [req EXCEPT ![q] = Idle]
  /\ UNCHANGED <<active, row, used, cookie, ended>>

-----------------------------------------------------------------------------
(* Time.                                                                   *)

Expire(t) ==
  /\ Live(t)
  /\ row' = [row EXCEPT ![t].live = FALSE]
  /\ ended' = ended \cup {t}
  /\ UNCHANGED <<active, used, cookie, req>>

BoxEnds(t) ==
  /\ Live(t) /\ Impersonation(t) /\ ~row[t].boxOver
  /\ row' = [row EXCEPT ![t].boxOver = TRUE]
  /\ ended' = ended \cup {t}
  /\ UNCHANGED <<active, used, cookie, req>>

Handle(q) ==
  \/ Resolve(q) \/ ReadUser(q) \/ ReadContext(q) \/ Serve(q)
  \/ \E u \in User : StartImpersonation(q, u) \/ Deactivate(q, u) \/ Reactivate(q, u)
  \/ StandIn(q) \/ StopImpersonation(q) \/ CutOff(q) \/ StartSession(q)
  \/ \E t \in Token : RevokeSession(q, t)
  \/ Respond(q) \/ Abandon(q)

Next ==
  \/ \E q \in Request : \/ Handle(q)
                        \/ \E b \in Browser : Arrive(q, b) \/ Logout(q, b) \/ \E u \in User : Login(q, b, u)
  \/ \E t \in Token : Expire(t) \/ BoxEnds(t)

Spec == Init /\ [][Next]_vars

-----------------------------------------------------------------------------
(* Properties.                                                             *)

\* Every variable holds a value of its type, and tokens in use have rows.
TypeOK ==
  /\ active \in [User -> BOOLEAN]
  /\ used \in 0..MaxSessions
  /\ row \in [1..used -> Row]
  /\ cookie \in [Browser -> Cookie]
  /\ req \in [Request -> Working \cup {Idle}]
  /\ ended \subseteq 1..used

\* The cookie copies in use: the browsers' and the requests'.
Copies == {cookie[b] : b \in Browser} \cup {req[q].c : q \in {p \in Request : req[p].pc # "idle"}}

HasWayBack(c) ==
  /\ Impersonation(c.sid) => Exists(c.way) /\ row[c.way].user = row[c.sid].by
  /\ c.way # NoToken => Exists(c.way) /\ row[c.way].by = Nobody

\* Whatever two tabs' answers do to the cookie, one that names an impersonation
\* also names a session of the admin who started it, and the way back is never an
\* impersonation itself (admin_start_impersonation: "never start an impersonation
\* session with no recorded way back").
WayBack == TypeOK /\ \A c \in Copies : HasWayBack(c)

\* A session that was logged out, stopped, revoked, cut off by a deactivation or
\* whose time or time box is over serves no request that begins afterwards, even
\* when the user is active again (resolve_session: "can never be resurrected").
EndedStaysEnded ==
  \A q \in Request : req[q].pc \in {"act", "stand_in", "cut"} => req[q].c.sid \notin req[q].barred

\* No request of an impersonating browser is turned away while the admin's own
\* session still lives ("no risk of getting stuck in the impersonated state").
NeverStuck ==
  \A q \in Request : req[q].pc = "refused" => ~Live(req[q].from.way)
=============================================================================
