---------------------------- MODULE SessionsProofs ----------------------------
(* Proofs, for every number of users, admins, browsers, requests and rows,   *)
(* that an impersonation always has a way back, that an ended session stays  *)
(* ended, and that an impersonating browser is never turned away.            *)
EXTENDS Sessions, TLAPS

(***************************************************************************)
(* The inductive invariant.  A cookie copy only names rows that exist; a   *)
(* request that resolved somebody works for the user its session row names, *)
(* and that row was not ended when the request began; before that it reads  *)
(* the cookie it arrived with, or the way back of that cookie.              *)
(***************************************************************************)
Known(c) == c.sid \in 0..used /\ c.way \in 0..used /\ HasWayBack(c)

Serving == {"user", "context", "act", "stand_in", "cut"}

RequestOK(r) ==
  /\ Known(r.c) /\ Known(r.from)
  /\ r.barred \subseteq ended
  /\ r.pc \in Serving => /\ Exists(r.c.sid) /\ r.who = row[r.c.sid].user
                         /\ r.c.sid \notin r.barred
  /\ r.pc = "stand_in" => r.c.way = NoToken
  /\ r.pc \in {"stand_in", "insert"} => r.target \in User
  /\ r.pc \in {"session", "user"} =>
       r.c = r.from \/ (r.from.way # NoToken /\ r.c = [sid |-> r.from.way, way |-> NoToken])
  /\ r.pc = "refused" => ~Live(r.from.way)

EndedDead == \A t \in ended : ~Live(t) \/ BoxOver(t)

CookiesKnown == \A c \in {cookie[b] : b \in Browser} : Known(c)

RequestsOK == \A r \in {req[q] : q \in Request} : r.pc # "idle" => RequestOK(r)

SInv == TypeOK /\ EndedDead /\ CookiesKnown /\ RequestsOK

-----------------------------------------------------------------------------
(* The sessions table only grows, and a row only dies.                     *)

TableStep ==
  /\ used \in Nat /\ used' \in Nat /\ used <= used' /\ ended \subseteq ended'
  /\ \A t \in 1..used : /\ row'[t].user = row[t].user /\ row'[t].by = row[t].by
                        /\ row'[t].live => row[t].live
                        /\ row[t].boxOver => row'[t].boxOver

LEMMA KnownStable ==
  ASSUME TableStep, NEW c, Known(c)
  PROVE  Known(c)'
BY DEF TableStep, Known, HasWayBack, Impersonation, Exists, NoToken

\* What holds of a request goes on holding whatever others do to the table.
LEMMA RequestStable ==
  ASSUME TableStep, NEW r, RequestOK(r)
  PROVE  RequestOK(r)'
<1>1. Known(r.c)' /\ Known(r.from)' BY KnownStable DEF RequestOK
<1>2. r.barred \subseteq ended' BY DEF RequestOK, TableStep
<1>3. r.pc \in Serving => Exists(r.c.sid)' /\ r.who = row'[r.c.sid].user /\ r.c.sid \notin r.barred
  BY DEF RequestOK, TableStep, Exists
<1>4. r.pc = "refused" => ~Live(r.from.way)'
  BY DEF RequestOK, TableStep, Live, Exists, Known
<1> QED BY <1>1, <1>2, <1>3, <1>4 DEF RequestOK

\* A step of one request (or of none) that leaves the cookies alone.
LEMMA RequestStep ==
  ASSUME SInv, TableStep, EndedDead', TypeOK', UNCHANGED cookie,
         NEW q \in Request, NEW x, req' = [req EXCEPT ![q] = x],
         x.pc # "idle" => RequestOK(x)'
  PROVE  SInv'
<1>1. CookiesKnown' BY KnownStable DEF CookiesKnown, SInv
<1>2. RequestsOK'
  <2> SUFFICES ASSUME NEW p \in Request, NEW r, r = req'[p], r.pc # "idle" PROVE RequestOK(r)'
    BY DEF RequestsOK
  <2>1. CASE p = q
    <3>1. r = x BY <2>1 DEF SInv, TypeOK
    <3> QED BY <3>1
  <2>2. CASE p # q
    <3>1. r = req[p] BY <2>2 DEF SInv, TypeOK
    <3> QED BY <3>1, RequestStable DEF SInv, RequestsOK
  <2> QED BY <2>1, <2>2
<1> QED BY <1>1, <1>2 DEF SInv

LEMMA UnchangedTable ==
  ASSUME SInv, UNCHANGED <<row, used, ended>>
  PROVE  TableStep /\ EndedDead'
BY BoundAssumption DEF SInv, TypeOK, TableStep, EndedDead, Live, BoxOver, Impersonation, Exists

LEMMA DeadRow ==
  ASSUME NEW x \in Row
  PROVE  /\ [x EXCEPT !.live = FALSE] \in Row
         /\ [x EXCEPT !.live = FALSE].user = x.user
         /\ [x EXCEPT !.live = FALSE].by = x.by
         /\ [x EXCEPT !.live = FALSE].boxOver = x.boxOver
         /\ [x EXCEPT !.live = FALSE].live = FALSE
BY DEF Row

LEMMA BoxedRow ==
  ASSUME NEW x \in Row
  PROVE  /\ [x EXCEPT !.boxOver = TRUE] \in Row
         /\ [x EXCEPT !.boxOver = TRUE].user = x.user
         /\ [x EXCEPT !.boxOver = TRUE].by = x.by
         /\ [x EXCEPT !.boxOver = TRUE].boxOver = TRUE
         /\ [x EXCEPT !.boxOver = TRUE].live = x.live
BY DEF Row

LEMMA CloseTable ==
  ASSUME SInv, NEW S, Close(S), used' = used
  PROVE  /\ TableStep /\ EndedDead'
         /\ row' \in [1..used -> Row] /\ ended' \subseteq 1..used
         /\ \A t \in S : ~Live(t)'
<1>1. /\ row \in [1..used -> Row] /\ ended \subseteq 1..used /\ used \in Nat /\ DOMAIN row = 1..used
      /\ row' = [t \in 1..used |-> IF t \in S THEN [row[t] EXCEPT !.live = FALSE] ELSE row[t]]
      /\ ended' = ended \cup (S \cap 1..used)
  BY BoundAssumption DEF SInv, TypeOK, Close, Revoked
<1>2. ASSUME NEW t \in 1..used
      PROVE  /\ row'[t] \in Row /\ row'[t].user = row[t].user /\ row'[t].by = row[t].by
             /\ row'[t].boxOver = row[t].boxOver
             /\ t \in S => row'[t].live = FALSE
             /\ t \notin S => row'[t] = row[t]
  BY <1>1, DeadRow
<1>3. row' \in [1..used -> Row] BY <1>1, <1>2
<1>4. TableStep BY <1>1, <1>2 DEF TableStep
<1>5. EndedDead'
  BY <1>1, <1>2 DEF SInv, EndedDead, Live, BoxOver, Impersonation, Exists
<1>6. \A t \in S : ~Live(t)' BY <1>1, <1>2 DEF Live, Exists
<1> QED BY <1>1, <1>3, <1>4, <1>5, <1>6

LEMMA NewTable ==
  ASSUME SInv, NEW u \in User, NEW by \in User \cup {Nobody}, NewRow(u, by), UNCHANGED ended
  PROVE  /\ TableStep /\ EndedDead'
         /\ used' \in 0..MaxSessions /\ row' \in [1..used' -> Row] /\ ended' \subseteq 1..used'
         /\ used' = used + 1 /\ used \in Nat
         /\ row'[used'].user = u /\ row'[used'].by = by
<1> DEFINE new == [user |-> u, by |-> by, live |-> TRUE, boxOver |-> FALSE]
<1>0. new \in Row /\ new.user = u /\ new.by = by BY DEF Row
<1> HIDE DEF new
<1>1. /\ row \in [1..used -> Row] /\ ended \subseteq 1..used /\ used \in Nat
      /\ used' = used + 1 /\ used < MaxSessions /\ MaxSessions \in Nat
      /\ row' = [t \in 1..(used + 1) |-> IF t = used + 1 THEN new ELSE row[t]]
  BY BoundAssumption DEF SInv, TypeOK, NewRow, new
<1>2. \A t \in 1..used : row'[t] = row[t] BY <1>1
<1>3. row' \in [1..used' -> Row] BY <1>0, <1>1
<1>4. row'[used'] = new BY <1>1
<1>5. EndedDead'
  BY <1>1, <1>2 DEF SInv, EndedDead, Live, BoxOver, Impersonation, Exists
<1> QED BY <1>0, <1>1, <1>2, <1>3, <1>4, <1>5 DEF TableStep

-----------------------------------------------------------------------------
(* Request records.                                                        *)

LEMMA WorkingType ==
  ASSUME SInv, NEW q \in Request, NEW r, r = req[q], r.pc # "idle"
  PROVE  r \in Working /\ RequestOK(r)
BY DEF SInv, TypeOK, RequestsOK, Idle

LEMMA PutRequest ==
  ASSUME SInv, NEW q \in Request, NEW x \in Working \cup {Idle}, req' = [req EXCEPT ![q] = x]
  PROVE  req' \in [Request -> Working \cup {Idle}]
BY DEF SInv, TypeOK

LEMMA NoCookieKnown == ASSUME TypeOK PROVE Known(NoCookie) /\ NoCookie \in Cookie
BY BoundAssumption DEF TypeOK, Known, NoCookie, NoToken, HasWayBack, Impersonation, Exists, Cookie

LEMMA FreshFields ==
  ASSUME NEW pc \in {"session", "refused", "insert", "respond"}, NEW b \in Browser, NEW c \in Cookie
  PROVE  /\ Fresh(pc, b, c) \in Working
         /\ Fresh(pc, b, c).pc = pc /\ Fresh(pc, b, c).c = c /\ Fresh(pc, b, c).from = NoCookie
         /\ Fresh(pc, b, c).barred = {} /\ Fresh(pc, b, c).browser = b
<1>1. NoCookie \in Cookie BY DEF NoCookie, Cookie
<1> QED BY <1>1 DEF Fresh, Working

LEMMA FailedFields ==
  ASSUME NEW r \in Working
  PROVE  /\ Failed(r) \in Working
         /\ Failed(r).barred = r.barred /\ Failed(r).from = r.from
         /\ r.c.way # NoToken => /\ Failed(r).pc = "session"
                                 /\ Failed(r).c = [sid |-> r.c.way, way |-> NoToken]
         /\ r.c.way = NoToken => Failed(r).pc = "refused" /\ Failed(r).c = NoCookie
<1>1. r.c \in Cookie BY DEF Working
<1>2. [sid |-> r.c.way, way |-> NoToken] \in Cookie /\ NoCookie \in Cookie
  BY <1>1 DEF Cookie, NoCookie
<1>3. CASE r.c.way # NoToken BY <1>2, <1>3 DEF Failed, Working
<1>4. CASE r.c.way = NoToken BY <1>2, <1>4 DEF Failed, Working
<1> QED BY <1>3, <1>4

\* The answer of a handler: a fresh record that only carries the cookie.
LEMMA AnswerOK ==
  ASSUME SInv, TableStep, TypeOK', NEW b \in Browser, NEW c \in Cookie, Known(c)'
  PROVE  RequestOK(Fresh("respond", b, c))'
<1>1. NoCookie \in Cookie /\ Known(NoCookie)'
  <2>1. Known(NoCookie) BY NoCookieKnown DEF SInv
  <2> QED BY <2>1, KnownStable DEF NoCookie, Cookie
<1> QED BY <1>1, FreshFields DEF RequestOK, Serving

LEMMA FailedOK ==
  ASSUME SInv, TableStep, TypeOK', NEW r \in Working, RequestOK(r), r.pc \in {"session", "user"},
         ~Live(r.c.sid)'
  PROVE  RequestOK(Failed(r))'
<1>1. /\ Known(r.c)' /\ Known(r.from)' /\ r.barred \subseteq ended'
  BY RequestStable DEF RequestOK
<1>2. Known(NoCookie)' BY NoCookieKnown, KnownStable DEF SInv
<1>3. used' \in Nat BY DEF TableStep
<1>4. CASE r.c.way # NoToken
  <2> DEFINE c == [sid |-> r.c.way, way |-> NoToken]
  <2>1. r.c = r.from BY <1>4 DEF RequestOK
  <2>2. Known(c)'
    BY <1>1, <1>3, <1>4 DEF Known, HasWayBack, Impersonation, NoToken
  <2>3. /\ Failed(r).pc = "session" /\ Failed(r).c = c
        /\ Failed(r).from = r.from /\ Failed(r).barred = r.barred
    BY <1>4, FailedFields
  <2>4. Failed(r).c = [sid |-> r.from.way, way |-> NoToken] /\ r.from.way # NoToken
    BY <1>4, <2>1, <2>3
  <2> HIDE DEF c
  <2> QED BY <1>1, <2>2, <2>3, <2>4 DEF RequestOK, Serving
<1>5. CASE r.c.way = NoToken
  <2>1. /\ Failed(r).pc = "refused" /\ Failed(r).c = NoCookie
        /\ Failed(r).from = r.from /\ Failed(r).barred = r.barred
    BY <1>5, FailedFields
  <2>2. ~Live(r.from.way)'
    <3>1. CASE r.c = r.from BY <1>5, <3>1 DEF Live, Exists, NoToken
    <3>2. CASE r.c = [sid |-> r.from.way, way |-> NoToken] BY <3>2
    <3> QED BY <3>1, <3>2 DEF RequestOK
  <2> QED BY <1>1, <1>2, <2>1, <2>2 DEF RequestOK, Serving
<1> QED BY <1>4, <1>5

-----------------------------------------------------------------------------
(* One lemma per group of actions.                                         *)

LEMMA ArriveInv == ASSUME SInv, NEW q \in Request, NEW b \in Browser, Arrive(q, b) PROVE SInv'
<1> DEFINE c == cookie[b]
<1>1. /\ c \in Cookie /\ Known(c) /\ TableStep /\ EndedDead' /\ UNCHANGED <<active, row, used, cookie, ended>>
  BY UnchangedTable DEF SInv, TypeOK, CookiesKnown, Arrive
<1>2. PICK x : x = [Fresh("session", b, c) EXCEPT !.from = c, !.barred = ended \cap {c.sid, c.way}]
  OBVIOUS
<1>3. /\ x.pc = "session" /\ x.c = c /\ x.from = c /\ x.barred \subseteq ended /\ x \in Working
  <2>1. NoCookie \in Cookie /\ ended \subseteq Token
    BY BoundAssumption DEF NoCookie, Cookie, SInv, TypeOK, Token
  <2> HIDE DEF c
  <2> QED BY <1>1, <1>2, <2>1 DEF Fresh, Working
<1>4. req' = [req EXCEPT ![q] = x] BY <1>2 DEF Arrive
<1>5. PICK d : d = c OBVIOUS
<1>6. RequestOK(x)'
  <2>1. Known(d)' BY <1>1, <1>5, KnownStable
  <2> QED BY <1>1, <1>3, <1>5, <2>1 DEF RequestOK, Serving
<1>7. TypeOK' BY <1>1, <1>3, <1>4, PutRequest DEF SInv, TypeOK
<1> QED BY <1>1, <1>4, <1>6, <1>7, RequestStep

LEMMA ResolveInv == ASSUME SInv, NEW q \in Request, Resolve(q) PROVE SInv'
<1>1. PICK r : r = req[q] OBVIOUS
<1>2. r \in Working /\ r.pc = "session" /\ RequestOK(r) BY <1>1, WorkingType DEF Resolve
<1>3. CASE Live(r.c.sid) /\ ~BoxOver(r.c.sid)
  <2>1. UNCHANGED <<active, row, used, cookie, ended>> /\ req' = [req EXCEPT ![q] = Found(r)]
    BY <1>1, <1>3 DEF Resolve
  <2>2. TableStep /\ EndedDead' BY <2>1, UnchangedTable
  <2>3. PICK x : x = Found(r) OBVIOUS
  <2>4. row[r.c.sid].user \in User BY <1>3 DEF Live, Exists, SInv, TypeOK, Row
  <2>5. /\ x \in Working /\ x.pc = "user" /\ x.c = r.c /\ x.from = r.from /\ x.barred = r.barred
        /\ x.who = row[r.c.sid].user
    BY <1>2, <2>3, <2>4 DEF Found, Working
  <2>6. r.c.sid \notin r.barred BY <1>2, <1>3 DEF RequestOK, SInv, EndedDead
  <2>7. Exists(r.c.sid) BY <1>3 DEF Live
  <2>8. RequestOK(r)' BY <1>2, <2>2, RequestStable
  <2>9. RequestOK(x)'
    BY <1>2, <2>1, <2>5, <2>6, <2>7, <2>8 DEF RequestOK, Serving, Exists
  <2>10. TypeOK' BY <2>1, <2>3, <2>5, PutRequest DEF SInv, TypeOK
  <2> QED BY <2>1, <2>2, <2>3, <2>9, <2>10, RequestStep
<1>4. CASE ~(Live(r.c.sid) /\ ~BoxOver(r.c.sid))
  <2>1. /\ UNCHANGED <<active, used, cookie>> /\ req' = [req EXCEPT ![q] = Failed(r)]
    BY <1>1, <1>4 DEF Resolve
  <2>2. /\ TableStep /\ EndedDead' /\ row' \in [1..used -> Row] /\ ended' \subseteq 1..used
        /\ ~Live(r.c.sid)'
    <3>1. CASE Live(r.c.sid)
      <4>1. Close({r.c.sid}) BY <1>1, <1>4, <3>1 DEF Resolve
      <4> QED BY <2>1, <4>1, CloseTable
    <3>2. CASE ~Live(r.c.sid)
      <4>1. UNCHANGED <<row, ended>> BY <1>1, <3>2 DEF Resolve
      <4> QED BY <2>1, <3>2, <4>1, UnchangedTable DEF SInv, TypeOK, Live, Exists
    <3> QED BY <3>1, <3>2
  <2>3. PICK x : x = Failed(r) OBVIOUS
  <2>4. x \in Working BY <1>2, <2>3, FailedFields
  <2>5. TypeOK' BY <2>1, <2>2, <2>3, <2>4, PutRequest DEF SInv, TypeOK
  <2>6. RequestOK(Failed(r))' BY <1>2, <2>2, <2>5, FailedOK
  <2> QED BY <2>1, <2>2, <2>5, <2>6, RequestStep
<1> QED BY <1>3, <1>4

LEMMA ReadUserInv == ASSUME SInv, NEW q \in Request, ReadUser(q) PROVE SInv'
<1>1. PICK r : r = req[q] OBVIOUS
<1>2. r \in Working /\ r.pc = "user" /\ RequestOK(r) BY <1>1, WorkingType DEF ReadUser
<1>3. CASE active[r.who]
  <2>1. PICK x : x = [r EXCEPT !.pc = "context"] OBVIOUS
  <2>2. UNCHANGED <<active, row, used, cookie, ended>> /\ req' = [req EXCEPT ![q] = x]
    BY <1>1, <1>3, <2>1 DEF ReadUser
  <2>3. TableStep /\ EndedDead' BY <2>2, UnchangedTable
  <2>4. /\ x \in Working /\ x.pc = "context" /\ x.c = r.c /\ x.from = r.from /\ x.barred = r.barred
        /\ x.who = r.who
    BY <1>2, <2>1 DEF Working
  <2>5. RequestOK(r)' BY <1>2, <2>3, RequestStable
  <2>6. RequestOK(x)' BY <1>2, <2>4, <2>5 DEF RequestOK, Serving
  <2>7. TypeOK' BY <2>2, <2>4, PutRequest DEF SInv, TypeOK
  <2> QED BY <2>2, <2>3, <2>6, <2>7, RequestStep
<1>4. CASE ~active[r.who]
  <2>1. /\ UNCHANGED <<active, used, cookie>> /\ req' = [req EXCEPT ![q] = Failed(r)]
        /\ Close({r.c.sid})
    BY <1>1, <1>4 DEF ReadUser
  <2>2. /\ TableStep /\ EndedDead' /\ row' \in [1..used -> Row] /\ ended' \subseteq 1..used
        /\ ~Live(r.c.sid)'
    BY <2>1, CloseTable
  <2>3. Failed(r) \in Working BY <1>2, FailedFields
  <2>4. TypeOK' BY <2>1, <2>2, <2>3, PutRequest DEF SInv, TypeOK
  <2>5. RequestOK(Failed(r))' BY <1>2, <2>2, <2>4, FailedOK
  <2> QED BY <2>1, <2>2, <2>4, <2>5, RequestStep
<1> QED BY <1>3, <1>4

LEMMA ReadContextInv == ASSUME SInv, NEW q \in Request, ReadContext(q) PROVE SInv'
<1>1. PICK r : r = req[q] OBVIOUS
<1>2. r \in Working /\ r.pc = "context" /\ RequestOK(r) BY <1>1, WorkingType DEF ReadContext
<1>3. PICK by : by = IF Live(r.c.sid) /\ ~BoxOver(r.c.sid) THEN row[r.c.sid].by ELSE Nobody
  OBVIOUS
<1>4. by \in User \cup {Nobody} BY <1>3 DEF Live, Exists, SInv, TypeOK, Row
<1>5. PICK x : x = [r EXCEPT !.pc = "act", !.admin = by] OBVIOUS
<1>6. UNCHANGED <<active, row, used, cookie, ended>> /\ req' = [req EXCEPT ![q] = x]
  BY <1>1, <1>3, <1>5 DEF ReadContext, SInv, TypeOK
<1>7. TableStep /\ EndedDead' BY <1>6, UnchangedTable
<1>8. /\ x \in Working /\ x.pc = "act" /\ x.c = r.c /\ x.from = r.from /\ x.barred = r.barred
      /\ x.who = r.who
  BY <1>2, <1>4, <1>5 DEF Working
<1>9. RequestOK(r)' BY <1>2, <1>7, RequestStable
<1>10. RequestOK(x)' BY <1>2, <1>8, <1>9 DEF RequestOK, Serving
<1>11. TypeOK' BY <1>6, <1>8, PutRequest DEF SInv, TypeOK
<1> QED BY <1>6, <1>7, <1>10, <1>11, RequestStep

\* A handler's only read before it writes: the user it is about to act on.
LEMMA TargetInv ==
  ASSUME SInv, NEW q \in Request, NEW u \in User, StartImpersonation(q, u) \/ Deactivate(q, u)
  PROVE  SInv'
<1>1. PICK r : r = req[q] OBVIOUS
<1>2. r \in Working /\ r.pc = "act" /\ RequestOK(r)
  BY <1>1, WorkingType DEF StartImpersonation, Deactivate, AsAdmin
<1>3. PICK pc \in {"stand_in", "cut"} :
        /\ req' = [req EXCEPT ![q].pc = pc, ![q].target = u]
        /\ pc = "stand_in" => r.c.way = NoToken
  BY <1>1 DEF StartImpersonation, Deactivate
<1>4. PICK x : x = [r EXCEPT !.pc = pc, !.target = u] OBVIOUS
<1>5. UNCHANGED <<row, used, cookie, ended>> /\ req' = [req EXCEPT ![q] = x]
  BY <1>1, <1>3, <1>4 DEF StartImpersonation, Deactivate, SInv, TypeOK
<1>6. TableStep /\ EndedDead' BY <1>5, UnchangedTable
<1>7. /\ x \in Working /\ x.pc = pc /\ x.c = r.c /\ x.from = r.from /\ x.barred = r.barred
      /\ x.who = r.who /\ x.target = u
  BY <1>2, <1>4 DEF Working
<1>8. RequestOK(r)' BY <1>2, <1>6, RequestStable
<1>9. RequestOK(x)' BY <1>2, <1>3, <1>7, <1>8 DEF RequestOK, Serving
<1>10. active' \in [User -> BOOLEAN] BY DEF StartImpersonation, Deactivate, SInv, TypeOK
<1>11. TypeOK' BY <1>5, <1>7, <1>10, PutRequest DEF SInv, TypeOK
<1> QED BY <1>5, <1>6, <1>9, <1>11, RequestStep

\* The last step of a handler: the table has changed, the cookie is ready.
LEMMA AnswerInv ==
  ASSUME SInv, NEW q \in Request, NEW b \in Browser, NEW c \in Cookie, UNCHANGED cookie,
         req' = [req EXCEPT ![q] = Fresh("respond", b, c)],
         TableStep, EndedDead', Known(c)',
         active' \in [User -> BOOLEAN], used' \in 0..MaxSessions,
         row' \in [1..used' -> Row], ended' \subseteq 1..used'
  PROVE  SInv'
<1>1. PICK x : x = Fresh("respond", b, c) OBVIOUS
<1>2. x \in Working BY <1>1, FreshFields
<1>3. TypeOK' BY <1>1, <1>2, PutRequest DEF SInv, TypeOK
<1>4. RequestOK(Fresh("respond", b, c))' BY <1>3, AnswerOK
<1> QED BY <1>3, <1>4, RequestStep

LEMMA ServeInv ==
  ASSUME SInv, NEW q \in Request, Serve(q) \/ \E u \in User : Reactivate(q, u)
  PROVE  SInv'
<1>1. PICK r : r = req[q] OBVIOUS
<1>2. r \in Working /\ RequestOK(r) BY <1>1, WorkingType DEF Serve, Reactivate, AsAdmin
<1>3. r.c \in Cookie /\ r.browser \in Browser BY <1>2 DEF Working
<1>4. /\ UNCHANGED <<row, used, cookie, ended>> /\ active' \in [User -> BOOLEAN]
      /\ req' = [req EXCEPT ![q] = Fresh("respond", r.browser, r.c)]
  BY <1>1 DEF Serve, Reactivate, Done, SInv, TypeOK
<1>5. TableStep /\ EndedDead' BY <1>4, UnchangedTable
<1>6. Known(r.c)' BY <1>2, <1>5, KnownStable DEF RequestOK
<1> QED BY <1>3, <1>4, <1>5, <1>6, AnswerInv DEF SInv, TypeOK

LEMMA StandInInv == ASSUME SInv, NEW q \in Request, StandIn(q) PROVE SInv'
<1>1. PICK r : r = req[q] OBVIOUS
<1>2. r \in Working /\ r.pc = "stand_in" /\ RequestOK(r) BY <1>1, WorkingType DEF StandIn
<1>3. /\ r.who \in User \cup {Nobody} /\ r.target \in User /\ r.c.way = NoToken /\ r.browser \in Browser
      /\ Exists(r.c.sid) /\ r.who = row[r.c.sid].user /\ HasWayBack(r.c)
  BY <1>2 DEF Working, RequestOK, Serving, Known
<1>4. NewRow(r.target, r.who) /\ UNCHANGED <<active, cookie, ended>> BY <1>1 DEF StandIn
<1>5. /\ TableStep /\ EndedDead'
      /\ used' \in 0..MaxSessions /\ row' \in [1..used' -> Row] /\ ended' \subseteq 1..used'
      /\ used' = used + 1 /\ used \in Nat
      /\ row'[used'].user = r.target /\ row'[used'].by = r.who
  BY <1>3, <1>4, NewTable
<1>6. PICK c : c = [sid |-> used', way |-> r.c.sid] OBVIOUS
<1>7. req' = [req EXCEPT ![q] = Fresh("respond", r.browser, c)] BY <1>1, <1>6 DEF StandIn, Done
<1>8. c \in Cookie BY <1>2, <1>5, <1>6, BoundAssumption DEF Cookie, Working, Token
<1>9. row[r.c.sid].by = Nobody
  BY <1>3, <1>5 DEF HasWayBack, Impersonation, Exists, NoToken
<1>10. Known(c)'
  <2>1. /\ c.sid = used' /\ c.way = r.c.sid /\ r.c.sid \in 1..used /\ r.c.sid \in 1..used'
        /\ row'[r.c.sid].by = Nobody /\ row'[r.c.sid].user = r.who
    BY <1>3, <1>5, <1>6, <1>9 DEF Exists, TableStep
  <2> QED BY <1>5, <2>1 DEF Known, HasWayBack, Impersonation, Exists
<1>11. active' \in [User -> BOOLEAN] BY <1>4 DEF SInv, TypeOK
<1> QED BY <1>3, <1>4, <1>5, <1>7, <1>8, <1>10, <1>11, AnswerInv

LEMMA StopInv == ASSUME SInv, NEW q \in Request, StopImpersonation(q) PROVE SInv'
<1>1. PICK r : r = req[q] OBVIOUS
<1>2. r \in Working /\ r.c.way # NoToken /\ RequestOK(r)
  BY <1>1, WorkingType DEF StopImpersonation
<1>3. Close({r.c.sid}) /\ UNCHANGED <<active, used, cookie>> BY <1>1 DEF StopImpersonation
<1>4. TableStep /\ EndedDead' /\ row' \in [1..used -> Row] /\ ended' \subseteq 1..used
  BY <1>3, CloseTable
<1>5. PICK c : c = [sid |-> r.c.way, way |-> NoToken] OBVIOUS
<1>6. req' = [req EXCEPT ![q] = Fresh("respond", r.browser, c)]
  BY <1>1, <1>5 DEF StopImpersonation, Done
<1>7. c \in Cookie /\ r.browser \in Browser BY <1>2, <1>5 DEF Cookie, Working
<1>8. Known(c)
  BY <1>2, <1>5, BoundAssumption
     DEF RequestOK, Known, HasWayBack, Impersonation, Exists, NoToken, SInv, TypeOK
<1>9. Known(c)' BY <1>4, <1>8, KnownStable
<1> QED BY <1>3, <1>4, <1>6, <1>7, <1>9, AnswerInv DEF SInv, TypeOK

\* CutOff, RevokeSession and Logout end sessions; the cookie stays or is cleared.
LEMMA CloseInv ==
  ASSUME SInv, NEW q \in Request, NEW b \in Browser, NEW c \in Cookie, Known(c), NEW S,
         Close(S), UNCHANGED <<active, used, cookie>>,
         req' = [req EXCEPT ![q] = Fresh("respond", b, c)]
  PROVE  SInv'
<1>1. TableStep /\ EndedDead' /\ row' \in [1..used -> Row] /\ ended' \subseteq 1..used
  BY CloseTable
<1>2. Known(c)' BY <1>1, KnownStable
<1> QED BY <1>1, <1>2, AnswerInv DEF SInv, TypeOK

LEMMA EndingInv ==
  ASSUME SInv, NEW q \in Request,
         CutOff(q) \/ (\E t \in Token : RevokeSession(q, t)) \/ (\E b \in Browser : Logout(q, b))
  PROVE  SInv'
<1>0. Known(NoCookie) /\ NoCookie \in Cookie BY NoCookieKnown DEF SInv
<1>1. CASE CutOff(q)
  <2>1. PICK r : r = req[q] OBVIOUS
  <2>2. r \in Working /\ RequestOK(r) BY <1>1, <2>1, WorkingType DEF CutOff
  <2>3. PICK S : Close(S) BY <1>1 DEF CutOff
  <2>4. /\ UNCHANGED <<active, used, cookie>>
        /\ req' = [req EXCEPT ![q] = Fresh("respond", r.browser, r.c)]
    BY <1>1, <2>1 DEF CutOff, Done
  <2> QED BY <2>2, <2>3, <2>4, CloseInv DEF Working, RequestOK
<1>2. ASSUME NEW t \in Token, RevokeSession(q, t) PROVE SInv'
  <2>1. PICK r : r = req[q] OBVIOUS
  <2>2. r \in Working /\ RequestOK(r) BY <1>2, <2>1, WorkingType DEF RevokeSession
  <2>3. PICK c : c = IF t = r.c.sid THEN NoCookie ELSE r.c OBVIOUS
  <2>4. c \in Cookie /\ Known(c) BY <1>0, <2>2, <2>3 DEF Working, RequestOK
  <2>5. /\ UNCHANGED <<active, used, cookie>> /\ Close({t})
        /\ req' = [req EXCEPT ![q] = Fresh("respond", r.browser, c)]
    BY <1>2, <2>1, <2>3 DEF RevokeSession, Done
  <2> QED BY <2>2, <2>4, <2>5, CloseInv DEF Working
<1>3. ASSUME NEW b \in Browser, Logout(q, b) PROVE SInv'
  BY <1>0, <1>3, CloseInv DEF Logout
<1> QED BY <1>1, <1>2, <1>3

LEMMA LoginInv ==
  ASSUME SInv, NEW q \in Request, NEW b \in Browser, NEW u \in User, Login(q, b, u)
  PROVE  SInv'
<1>1. PICK c : c = cookie[b] OBVIOUS
<1>2. /\ c \in Cookie /\ Known(c) /\ TableStep /\ EndedDead' /\ UNCHANGED <<active, row, used, cookie, ended>>
  BY <1>1, UnchangedTable DEF SInv, TypeOK, CookiesKnown, Login
<1>3. PICK x : x = [Fresh("insert", b, c) EXCEPT !.target = u] OBVIOUS
<1>4. /\ x \in Working /\ x.pc = "insert" /\ x.c = c /\ x.from = NoCookie /\ x.barred = {} /\ x.target = u
  <2>1. NoCookie \in Cookie BY DEF NoCookie, Cookie
  <2> QED BY <1>2, <1>3, <2>1 DEF Fresh, Working
<1>5. req' = [req EXCEPT ![q] = x] BY <1>1, <1>3 DEF Login
<1>6. Known(c)' /\ Known(NoCookie)' BY <1>2, NoCookieKnown, KnownStable DEF SInv
<1>7. RequestOK(x)' BY <1>4, <1>6 DEF RequestOK, Serving
<1>8. TypeOK' BY <1>2, <1>4, <1>5, PutRequest DEF SInv, TypeOK
<1> QED BY <1>2, <1>5, <1>7, <1>8, RequestStep

LEMMA StartSessionInv == ASSUME SInv, NEW q \in Request, StartSession(q) PROVE SInv'
<1>1. PICK r : r = req[q] OBVIOUS
<1>2. r \in Working /\ r.pc = "insert" /\ RequestOK(r) BY <1>1, WorkingType DEF StartSession
<1>3. /\ r.target \in User /\ r.browser \in Browser /\ r.c \in Cookie /\ Known(r.c)
  BY <1>2 DEF Working, RequestOK
<1>4. NewRow(r.target, Nobody) /\ UNCHANGED <<active, cookie, ended>> BY <1>1 DEF StartSession
<1>5. /\ TableStep /\ EndedDead'
      /\ used' \in 0..MaxSessions /\ row' \in [1..used' -> Row] /\ ended' \subseteq 1..used'
      /\ used' = used + 1 /\ used \in Nat
      /\ row'[used'].user = r.target /\ row'[used'].by = Nobody
  BY <1>3, <1>4, NewTable
<1>6. PICK c : c = [r.c EXCEPT !.sid = used'] OBVIOUS
<1>7. req' = [req EXCEPT ![q] = Fresh("respond", r.browser, c)] BY <1>1, <1>6 DEF StartSession, Done
<1>8. c \in Cookie /\ c.sid = used' /\ c.way = r.c.way
  BY <1>3, <1>5, <1>6, BoundAssumption DEF Cookie, Token
<1>9. Known(r.c)' BY <1>3, <1>5, KnownStable
<1>10. Known(c)' BY <1>5, <1>8, <1>9 DEF Known, HasWayBack, Impersonation
<1>11. active' \in [User -> BOOLEAN] BY <1>4 DEF SInv, TypeOK
<1> QED BY <1>3, <1>4, <1>5, <1>7, <1>8, <1>10, <1>11, AnswerInv

LEMMA RespondInv == ASSUME SInv, NEW q \in Request, Respond(q) PROVE SInv'
<1>1. PICK r : r = req[q] OBVIOUS
<1>2. r \in Working /\ RequestOK(r) BY <1>1, WorkingType DEF Respond
<1>3. /\ cookie' = [cookie EXCEPT ![r.browser] = r.c] /\ req' = [req EXCEPT ![q] = Idle]
      /\ UNCHANGED <<active, row, used, ended>>
  BY <1>1 DEF Respond
<1>4. TableStep /\ EndedDead' BY <1>3, UnchangedTable
<1>5. TypeOK' BY <1>2, <1>3 DEF SInv, TypeOK, Working
<1>6. CookiesKnown'
  <2> SUFFICES ASSUME NEW b \in Browser, NEW c, c = cookie'[b] PROVE Known(c)'
    BY DEF CookiesKnown
  <2>1. c = r.c \/ c = cookie[b] BY <1>3 DEF SInv, TypeOK
  <2>2. Known(c) BY <1>2, <2>1 DEF RequestOK, SInv, CookiesKnown
  <2> QED BY <1>4, <2>2, KnownStable
<1>7. RequestsOK'
  <2> SUFFICES ASSUME NEW p \in Request, NEW x, x = req'[p], x.pc # "idle" PROVE RequestOK(x)'
    BY DEF RequestsOK
  <2>1. x = req[p] BY <1>3 DEF SInv, TypeOK, Idle
  <2> QED BY <1>4, <2>1, RequestStable DEF SInv, RequestsOK
<1> QED BY <1>4, <1>5, <1>6, <1>7 DEF SInv

LEMMA AbandonInv == ASSUME SInv, NEW q \in Request, Abandon(q) PROVE SInv'
<1>1. UNCHANGED <<active, row, used, cookie, ended>> /\ req' = [req EXCEPT ![q] = Idle]
  BY DEF Abandon
<1>2. TableStep /\ EndedDead' BY <1>1, UnchangedTable
<1>3. TypeOK' BY <1>1, PutRequest DEF SInv, TypeOK
<1>4. Idle.pc = "idle" BY DEF Idle
<1> QED BY <1>1, <1>2, <1>3, <1>4, RequestStep

\* A row changes by itself: its time or its time box is over.
LEMMA TimeInv ==
  ASSUME SInv, NEW t \in Token, Expire(t) \/ BoxEnds(t)
  PROVE  SInv'
<1>1. /\ t \in 1..used /\ UNCHANGED <<active, used, cookie, req>> /\ ended' = ended \cup {t}
      /\ row \in [1..used -> Row] /\ used \in Nat
  BY BoundAssumption DEF Expire, BoxEnds, Live, Exists, SInv, TypeOK
<1>2. /\ row' \in [1..used -> Row]
      /\ \A s \in 1..used : s # t => row'[s] = row[s]
      /\ row'[t].user = row[t].user /\ row'[t].by = row[t].by
      /\ row'[t].live => row[t].live
      /\ row[t].boxOver => row'[t].boxOver
      /\ ~row'[t].live \/ (row'[t].boxOver /\ row'[t].by # Nobody)
  <2>1. CASE Expire(t) BY <1>1, <2>1, DeadRow DEF Expire
  <2>2. CASE BoxEnds(t) BY <1>1, <2>2, BoxedRow DEF BoxEnds, Impersonation
  <2> QED BY <2>1, <2>2
<1>3. TableStep BY <1>1, <1>2 DEF TableStep
<1>4. EndedDead'
  BY <1>1, <1>2 DEF SInv, EndedDead, Live, BoxOver, Impersonation, Exists
<1>5. TypeOK' BY <1>1, <1>2 DEF SInv, TypeOK
<1>6. CookiesKnown' BY <1>1, <1>3, KnownStable DEF SInv, CookiesKnown
<1>7. RequestsOK' BY <1>1, <1>3, RequestStable DEF SInv, RequestsOK
<1> QED BY <1>4, <1>5, <1>6, <1>7 DEF SInv

-----------------------------------------------------------------------------
(* The theorems.                                                           *)

LEMMA InitInv == Init => SInv
<1> SUFFICES ASSUME Init PROVE SInv
  OBVIOUS
<1>1. TypeOK BY BoundAssumption DEF Init, TypeOK, NoCookie, Cookie
<1>2. CookiesKnown BY <1>1, NoCookieKnown DEF Init, CookiesKnown
<1> QED BY <1>1, <1>2 DEF Init, SInv, EndedDead, RequestsOK, Idle

\* Every statement of a request, and what happens between requests, keeps the
\* invariant.
THEOREM StepInv == SInv /\ [Next]_vars => SInv'
<1> SUFFICES ASSUME SInv, [Next]_vars PROVE SInv'
  OBVIOUS
<1>1. ASSUME NEW q \in Request, Handle(q) PROVE SInv'
  <2>1. CASE Resolve(q) \/ ReadUser(q) \/ ReadContext(q)
    BY <2>1, ResolveInv, ReadUserInv, ReadContextInv
  <2>2. ASSUME NEW u \in User, StartImpersonation(q, u) \/ Deactivate(q, u) PROVE SInv'
    BY <2>2, TargetInv
  <2>3. CASE Serve(q) \/ \E u \in User : Reactivate(q, u) BY <2>3, ServeInv
  <2>4. CASE StandIn(q) \/ StopImpersonation(q) \/ StartSession(q)
    BY <2>4, StandInInv, StopInv, StartSessionInv
  <2>5. CASE CutOff(q) \/ \E t \in Token : RevokeSession(q, t) BY <2>5, EndingInv
  <2>6. CASE Respond(q) \/ Abandon(q) BY <2>6, RespondInv, AbandonInv
  <2> QED BY <1>1, <2>1, <2>2, <2>3, <2>4, <2>5, <2>6 DEF Handle
<1>2. ASSUME NEW q \in Request, NEW b \in Browser,
             Arrive(q, b) \/ Logout(q, b) \/ \E u \in User : Login(q, b, u)
      PROVE  SInv'
  BY <1>2, ArriveInv, EndingInv, LoginInv
<1>3. ASSUME NEW t \in Token, Expire(t) \/ BoxEnds(t) PROVE SInv'
  BY <1>3, TimeInv
<1>4. CASE UNCHANGED vars
  <2>1. UNCHANGED <<active, row, used, cookie, req, ended>> BY <1>4 DEF vars
  <2>2. TableStep /\ EndedDead' BY <2>1, UnchangedTable
  <2>3. CookiesKnown' BY <2>1, <2>2, KnownStable DEF SInv, CookiesKnown
  <2>4. RequestsOK' BY <2>1, <2>2, RequestStable DEF SInv, RequestsOK
  <2> QED BY <2>1, <2>2, <2>3, <2>4 DEF SInv, TypeOK
<1> QED BY <1>1, <1>2, <1>3, <1>4 DEF Next

\* It holds in every reachable state (sessions.py, get_current_user).
THEOREM Invariance == Spec => []SInv
BY InitInv, StepInv, PTL DEF Spec

\* A cookie copy that names an impersonation also names a session of the admin who
\* started it, whatever the answers of several tabs did to the cookie.
THEOREM AlwaysAWayBack == Spec => []WayBack
<1>1. SInv => WayBack
  <2> SUFFICES ASSUME SInv, NEW c \in Copies PROVE HasWayBack(c)
    BY DEF WayBack, SInv
  <2>1. CASE c \in {cookie[b] : b \in Browser} BY <2>1 DEF SInv, CookiesKnown, Known
  <2>2. CASE c \in {req[q].c : q \in {p \in Request : req[p].pc # "idle"}}
    BY <2>2 DEF SInv, RequestsOK, RequestOK, Known
  <2> QED BY <2>1, <2>2 DEF Copies
<1> QED BY <1>1, Invariance, PTL

\* No request that begins after a session was ended is served by it.
THEOREM EndedForGood == Spec => []EndedStaysEnded
<1>1. SInv => EndedStaysEnded
  <2> SUFFICES ASSUME SInv, NEW q \in Request, req[q].pc \in {"act", "stand_in", "cut"}
               PROVE  req[q].c.sid \notin req[q].barred
    BY DEF EndedStaysEnded
  <2> QED BY DEF SInv, RequestsOK, RequestOK, Serving
<1> QED BY <1>1, Invariance, PTL

\* A request is turned away only when the admin's session it could fall back on is
\* dead.
THEOREM FallsBack == Spec => []NeverStuck
<1>1. SInv => NeverStuck
  <2> SUFFICES ASSUME SInv, NEW q \in Request, req[q].pc = "refused"
               PROVE  ~Live(req[q].from.way)
    BY DEF NeverStuck
  <2> QED BY DEF SInv, RequestsOK, RequestOK
<1> QED BY <1>1, Invariance, PTL
=============================================================================
