------------------------------ MODULE Accounts ------------------------------
(***************************************************************************)
(* Who gets an account, and with which login methods (registration, OAuth  *)
(* callbacks, invites, linking and unlinking in app/main.py and            *)
(* app/routers/auth.py).                                                   *)
(*                                                                         *)
(* A person is an email address and owns one identity at every OAuth       *)
(* provider.  Each step is one statement, committed by itself: nothing in  *)
(* these handlers is a longer transaction.  Plain handlers run on threads  *)
(* and interleave anywhere; the OAuth callback looks up and creates its    *)
(* user on the event loop without an await in between, so its steps        *)
(* interleave with those of threads but never with another callback's.     *)
(***************************************************************************)
EXTENDS Integers, FiniteSets

CONSTANTS
  Person,
  Provider,    \* AUTH_PROVIDERS
  Request,     \* requests the server handles at a time
  MaxAccounts, \* model bound on users
  MaxChanges,  \* model bound on invite and settings changes
  MaxCrashes   \* model bound on restarts

None == "none"
ASSUME NoneAssumption  == None \notin Person
ASSUME LocalAssumption == "local" \notin Provider
ASSUME AccountsAssumption == {MaxAccounts, MaxChanges, MaxCrashes} \subseteq Nat

VARIABLES
  users,   \* the users table, by id
  invite,  \* the invites table, by email
  req,     \* the requests in progress
  stuck,   \* ghost: accounts a race or a restart may have left without a login method
  changes, \* invite and settings changes so far
  crashes  \* restarts so far

accounts == <<users, invite, req, stuck, changes, crashes>>

\* origin: auth_provider, whose auth_provider_id is the email or the identity of
\* owner; linked: google_id, discord_id; rivalled: a ghost, another request for the
\* same email or the first account was under way when the row was inserted.
Account == [email: Person, origin: Provider \cup {"local"}, linked: [Provider -> Person \cup {None}],
            password: BOOLEAN, admin: BOOLEAN, rivalled: BOOLEAN]

\* _invite_status; closed: revoked_at set or expires_at passed, which only matters
\* until accepted_at is set.
InviteState == {"none", "open", "closed", "accepted"}

Id == DOMAIN users

\* id: the account found or created; before: a ghost, the accounts at the request's
\* start; saw: the login methods the request counts on.
Idle    == [pc |-> "idle"]
Joining == [pc: {"identity", "email", "count", "insert", "accept", "password"},
            way: Provider \cup {"local"}, person: Person, id: 0..MaxAccounts, first: BOOLEAN,
            before: 0..MaxAccounts]
Editing == [pc: {"link", "unlink"}, way: Provider, person: Person \cup {None}, id: 1..MaxAccounts,
            saw: SUBSET (Provider \cup {"local"})]

AccountsInit ==
  /\ users = [i \in {} |-> None]
  /\ invite = [p \in Person |-> "none"]
  /\ req = [q \in Request |-> Idle]
  /\ stuck = {}
  /\ changes = 0 /\ crashes = 0

-----------------------------------------------------------------------------
(* The tables.                                                             *)

\* _find_user_by_provider_identity.
Identified(way, p) ==
  {i \in Id : IF way = "local" THEN users[i].origin = "local" /\ users[i].email = p
                               ELSE users[i].linked[way] = p}

Methods(a) == {w \in Provider : a.linked[w] # None} \cup (IF a.password THEN {"local"} ELSE {})

Usable(i) == i = "open"

\* Still on its way to an insert: past the lookup that would have found an account.
Rivals(q) == {r \in Request \ {q} : req[r].pc \in {"count", "insert"}}

NewAccount(q) ==
  LET r == req[q] IN
  [email |-> r.person, origin |-> r.way, admin |-> r.first, password |-> FALSE,
   linked |-> [w \in Provider |-> IF w = r.way THEN r.person ELSE None],
   rivalled |-> \E s \in Rivals(q) : r.first \/ req[s].person = r.person]

Change == changes < MaxChanges /\ changes' = changes + 1

Go(q, pc) == req' = [req EXCEPT ![q].pc = pc]
End(q)    == req' = [req EXCEPT ![q] = Idle]

-----------------------------------------------------------------------------
(* Registration and OAuth login.                                           *)

\* The event loop runs one callback at a time.
LoopFree == \A q \in Request : req[q].pc \in {"identity", "email", "count", "insert", "accept"}
                                 => req[q].way = "local"

Join(way, p) == [pc |-> "identity", way |-> way, person |-> p, id |-> 0, first |-> FALSE,
                 before |-> Cardinality(Id)]

\* Mutant of Register: it leaves the check for an existing account to
\* _resolve_or_create_user, which takes it for the one being registered.
RegisterUnchecked(q, p) ==
  /\ req[q].pc = "idle"
  /\ req' = [req EXCEPT ![q] = Join("local", p)]
  /\ UNCHANGED <<users, invite, stuck, changes, crashes>>

\* auth_register_submit: an existing local account ends it.
Register(q, p) ==
  /\ req[q].pc = "idle" /\ Identified("local", p) = {}
  /\ req' = [req EXCEPT ![q] = Join("local", p)]
  /\ UNCHANGED <<users, invite, stuck, changes, crashes>>

Callback(q, w, p) ==
  /\ req[q].pc = "idle" /\ LoopFree
  /\ req' = [req EXCEPT ![q] = Join(w, p)]
  /\ UNCHANGED <<users, invite, stuck, changes, crashes>>

\* An account with this identity is logged in to; a registration goes on to set
\* its password.
FindIdentity(q) ==
  /\ req[q].pc = "identity"
  /\ LET found == Identified(req[q].way, req[q].person) IN
     IF found = {} THEN Go(q, "email")
     ELSE IF req[q].way # "local" THEN End(q)
     ELSE \E i \in found : req' = [req EXCEPT ![q].pc = "password", ![q].id = i]
  /\ UNCHANGED <<users, invite, stuck, changes, crashes>>

\* Somebody else's account with this email: "log in that way, then connect".
FindEmail(q) ==
  /\ req[q].pc = "email"
  /\ IF \E i \in Id : users[i].email = req[q].person THEN End(q) ELSE Go(q, "count")
  /\ UNCHANGED <<users, invite, stuck, changes, crashes>>

\* Nobody there yet: the first account, an admin.  Otherwise an invite is needed.
Vet(q) ==
  /\ req[q].pc = "count"
  /\ \/ /\ Id = {}
        /\ req' = [req EXCEPT ![q].pc = "insert", ![q].first = TRUE]
     \/ Id # {} /\ (IF Usable(invite[req[q].person]) THEN Go(q, "insert") ELSE End(q))
  /\ UNCHANGED <<users, invite, stuck, changes, crashes>>

\* UNIQUE (auth_provider, auth_provider_id), google_id, discord_id: a second row of
\* one identity is an error, and the request ends.
Insert(q) ==
  /\ req[q].pc = "insert" /\ Cardinality(Id) < MaxAccounts
  /\ LET new == NewAccount(q)
         n   == Cardinality(Id) + 1
     IN IF Identified(new.origin, new.email) # {}
        THEN End(q) /\ UNCHANGED users
        ELSE /\ users' = [i \in Id \cup {n} |-> IF i = n THEN new ELSE users[i]]
             /\ IF new.admin /\ new.origin # "local" THEN End(q)
                ELSE req' = [req EXCEPT ![q].id = n,
                               ![q].pc = IF new.admin THEN "password" ELSE "accept"]
  /\ UNCHANGED <<invite, stuck, changes, crashes>>

\* The invite seen before the insert is accepted, whatever became of it since.
Accept(q) ==
  /\ req[q].pc = "accept"
  /\ invite' = [invite EXCEPT ![req[q].person] = "accepted"]
  /\ IF req[q].way = "local" THEN Go(q, "password") ELSE End(q)
  /\ UNCHANGED <<users, stuck, changes, crashes>>

SetOwnPassword(q) ==
  /\ req[q].pc = "password"
  /\ users' = [users EXCEPT ![req[q].id].password = TRUE]
  /\ stuck' = stuck \ {req[q].id}
  /\ End(q)
  /\ UNCHANGED <<invite, changes, crashes>>

-----------------------------------------------------------------------------
(* Invites: any admin, at any time.                                        *)

SomeAdmin == \E i \in Id : users[i].admin

Invited(p, from, to) ==
  /\ Change
  /\ invite[p] \in from /\ invite' = [invite EXCEPT ![p] = to]
  /\ UNCHANGED <<users, req, stuck, crashes>>

InviteCreate(p) == SomeAdmin /\ Invited(p, {"none"}, "open")

InviteResend(p) == SomeAdmin /\ Invited(p, {"open", "closed"}, "open")

InviteRevoke(p) == SomeAdmin /\ Invited(p, {"open"}, "closed")

InviteExpires(p) == Invited(p, {"open"}, "closed")

-----------------------------------------------------------------------------
(* Login methods of an account, from its own Settings page.                *)

\* The link callback has the provider's answer: the identity of person p.  Another
\* account's identity is refused, one's own is kept.
LinkLookup(q, i, w, p) ==
  /\ Change
  /\ req[q].pc = "idle" /\ Identified(w, p) = {}
  /\ req' = [req EXCEPT ![q] = [pc |-> "link", way |-> w, person |-> p, id |-> i, saw |-> {}]]
  /\ UNCHANGED <<users, invite, stuck, crashes>>

\* google_id is UNIQUE: an identity taken since is an error.
Link(q) ==
  /\ req[q].pc = "link"
  /\ LET r == req[q] IN
     IF Identified(r.way, r.person) \subseteq {r.id}
     THEN users' = [users EXCEPT ![r.id].linked[r.way] = r.person] /\ stuck' = stuck \ {r.id}
     ELSE UNCHANGED <<users, stuck>>
  /\ End(q)
  /\ UNCHANGED <<invite, changes, crashes>>

\* Mutant of UnlinkCheck: the method being disconnected counts as one left.
UnlinkCheckAny(q, i, w) ==
  /\ Change
  /\ req[q].pc = "idle" /\ Methods(users[i]) # {}
  /\ req' = [req EXCEPT ![q] = [pc |-> "unlink", way |-> w, person |-> None, id |-> i,
                                saw |-> Methods(users[i]) \ {w}]]
  /\ UNCHANGED <<users, invite, stuck, crashes>>

\* "Can't disconnect your only login method", on the row as re-fetched.
UnlinkCheck(q, i, w) ==
  /\ Change
  /\ req[q].pc = "idle" /\ Methods(users[i]) \ {w} # {}
  /\ req' = [req EXCEPT ![q] = [pc |-> "unlink", way |-> w, person |-> None, id |-> i,
                                saw |-> Methods(users[i]) \ {w}]]
  /\ UNCHANGED <<users, invite, stuck, crashes>>

\* Every method the check counted on was disconnected since, by another request.
Overtaken(q) == req[q].saw # {} /\ req[q].saw \cap Methods(users[req[q].id]) = {}

Unlink(q) ==
  /\ req[q].pc = "unlink"
  /\ users' = [users EXCEPT ![req[q].id].linked[req[q].way] = None]
  /\ stuck' = IF Overtaken(q) THEN stuck \cup {req[q].id} ELSE stuck
  /\ End(q)
  /\ UNCHANGED <<invite, changes, crashes>>

\* settings_set_password, or an admin's reset link.
SetPassword(i) ==
  /\ Change
  /\ ~users[i].password
  /\ users' = [users EXCEPT ![i].password = TRUE]
  /\ stuck' = stuck \ {i}
  /\ UNCHANGED <<invite, req, crashes>>

\* The process restarts: every request is gone, its statements so far are not.
AccountsRestart ==
  /\ crashes < MaxCrashes /\ crashes' = crashes + 1
  /\ stuck' = stuck \cup {req[q].id : q \in {r \in Request : req[r].pc \in {"accept", "password"}}}
  /\ req' = [q \in Request |-> Idle]
  /\ UNCHANGED <<users, invite, changes>>

-----------------------------------------------------------------------------
HandleAccount(q) ==
  \/ \E p \in Person : Register(q, p) \/ \E w \in Provider : Callback(q, w, p)
  \/ FindIdentity(q) \/ FindEmail(q) \/ Vet(q) \/ Insert(q) \/ Accept(q) \/ SetOwnPassword(q)
  \/ \E i \in Id, w \in Provider : UnlinkCheck(q, i, w) \/ \E p \in Person : LinkLookup(q, i, w, p)
  \/ Link(q) \/ Unlink(q)

AccountsNext ==
  \/ \E q \in Request : HandleAccount(q)
  \/ \E p \in Person : InviteCreate(p) \/ InviteResend(p) \/ InviteRevoke(p) \/ InviteExpires(p)
  \/ \E i \in Id : SetPassword(i)
  \/ AccountsRestart

AccountsSpec == AccountsInit /\ [][AccountsNext]_accounts

-----------------------------------------------------------------------------
(* What makes account keeping correct.                                     *)

\* Every variable holds a value of its type (a conjunct of Admitted).
AccountsTypeOK ==
  /\ Id = 1..Cardinality(Id) /\ Cardinality(Id) <= MaxAccounts
  /\ \A i \in Id : users[i] \in Account
  /\ invite \in [Person -> InviteState]
  /\ \A q \in Request : req[q].pc = "idle" \/ req[q] \in Joining \cup Editing
  /\ stuck \subseteq Id /\ changes \in 0..MaxChanges /\ crashes \in 0..MaxCrashes

\* Every account can be logged in to, except one whose registration is still under
\* way or was cut off by a restart, and one that lost its last two methods to two
\* overlapping disconnects (settings_unlink re-checks, but on a row read before).
AlwaysAWayIn ==
  \A i \in Id : Methods(users[i]) = {} =>
    i \in stuck \/ \E q \in Request : req[q].pc \in {"accept", "password"} /\ req[q].id = i

\* One account per person and, after the first, only for the invited; one admin from
\* the start; and a registration sets no password but that of an account made since
\* it began.  Two requests that are both past their checks can make two accounts or
\* two admins (nothing in the schema keeps an email unique), but two OAuth callbacks
\* never do.
Admitted ==
  /\ AccountsTypeOK
  /\ \A i, j \in Id :
       i # j /\ (users[i].email = users[j].email \/ (users[i].admin /\ users[j].admin)) =>
         /\ users[i].rivalled \/ users[j].rivalled
         /\ "local" \in {users[i].origin, users[j].origin}
  /\ Id # {} => users[1].admin
  /\ crashes = 0 => \A i \in Id : users[i].admin \/ invite[users[i].email] = "accepted"
       \/ \E q \in Request : req[q].pc = "accept" /\ req[q].id = i
  /\ \A q \in Request : req[q].pc = "password" => req[q].id > req[q].before
=============================================================================
