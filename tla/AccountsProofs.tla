---------------------------- MODULE AccountsProofs ----------------------------
(* Proofs, for every number of people, providers, requests, accounts,       *)
(* changes and restarts: who gets an account, and that an account keeps a    *)
(* way in.                                                                   *)
EXTENDS Accounts, FiniteSetTheorems, TLAPS

Size == Cardinality(Id)

ATInv ==
  /\ AccountsTypeOK
  /\ Size \in 0..MaxAccounts
  /\ users \in [1..Size -> Account]
  /\ req \in [Request -> {Idle} \cup Joining \cup Editing]

(***************************************************************************)
(* The inductive invariant.  The event loop has one callback in it.  A      *)
(* request past its look-ups only shares its email -- or, being the first,   *)
(* its admin flag -- with an account inserted meanwhile, which knows itself   *)
(* rivalled and, for a callback, is local.  A registration accepts and sets   *)
(* the password of an account younger than itself.  A disconnect counts on    *)
(* another method.                                                            *)
(***************************************************************************)
LoopPcs == {"identity", "email", "count", "insert", "accept"}

InLoop(r) == r.pc \in LoopPcs /\ r.way # "local"

OneCallback == \A p, q \in Request : InLoop(req[p]) /\ InLoop(req[q]) => p = q

Rivalry(j, r) == users[j].rivalled /\ "local" \in {users[j].origin, r.way}

JoinOK(r) ==
  /\ r.before <= Size
  /\ r.pc \in {"identity", "email", "count"} => ~r.first
  /\ r.pc = "identity" /\ r.way = "local" =>
       \A i \in Id : users[i].origin = "local" /\ users[i].email = r.person => i > r.before
  /\ r.pc = "insert" => Id # {} \/ r.first
  /\ r.pc \in {"count", "insert"} => \A j \in Id : users[j].email = r.person => Rivalry(j, r)
  /\ r.pc = "insert" /\ r.first => \A j \in Id : users[j].admin => Rivalry(j, r)
  /\ r.pc \in {"accept", "password"} => r.id \in Id /\ r.id > r.before
  /\ r.pc = "accept" => users[r.id].email = r.person

EditOK(r) ==
  /\ r.id \in Id
  /\ r.pc = "link" => r.person # None
  /\ r.pc = "unlink" => r.saw # {} /\ r.way \notin r.saw

RequestOK(r) == (r \in Joining => JoinOK(r)) /\ (r \in Editing => EditOK(r))

RequestsOK == \A q \in Request : \A r \in {req[q]} : RequestOK(r)

Registering(r, i) == r.pc \in {"accept", "password"} /\ r.way = "local" /\ r.id = i

WaysIn ==
  \A i \in Id : Methods(users[i]) = {} =>
    i \in stuck \/ \E q \in Request : \A r \in {req[q]} : Registering(r, i)

Apart ==
  \A i, j \in Id :
    i # j /\ (users[i].email = users[j].email \/ (users[i].admin /\ users[j].admin)) =>
      /\ users[i].rivalled \/ users[j].rivalled
      /\ "local" \in {users[i].origin, users[j].origin}

FirstAdmin == Id # {} => users[1].admin

Accepting(r, i) == r.pc = "accept" /\ r.id = i

Vetted ==
  crashes = 0 => \A i \in Id : users[i].admin \/ invite[users[i].email] = "accepted"
    \/ \E q \in Request : \A r \in {req[q]} : Accepting(r, i)

AInv == ATInv /\ OneCallback /\ RequestsOK /\ WaysIn /\ Apart /\ FirstAdmin /\ Vetted

-----------------------------------------------------------------------------
(* Types.                                                                  *)

LEMMA Bounds == MaxAccounts \in Nat /\ MaxChanges \in Nat /\ MaxCrashes \in Nat
BY AccountsAssumption

LEMMA Ids ==
  ASSUME ATInv
  PROVE  /\ Id = 1..Size /\ Size \in Nat /\ Size <= MaxAccounts
         /\ \A i \in Id : i \in 1..MaxAccounts /\ users[i] \in Account
         /\ (Id = {}) = (Size = 0)
BY Bounds DEF ATInv, AccountsTypeOK, Size

LEMMA JoiningFields ==
  ASSUME NEW r \in Joining
  PROVE  /\ r.pc \in {"identity", "email", "count", "insert", "accept", "password"}
         /\ r.way \in Provider \cup {"local"} /\ r.person \in Person /\ r.id \in 0..MaxAccounts
         /\ r.first \in BOOLEAN /\ r.before \in 0..MaxAccounts
BY DEF Joining

LEMMA EditingFields ==
  ASSUME NEW r \in Editing
  PROVE  /\ r.pc \in {"link", "unlink"} /\ r.way \in Provider /\ r.person \in Person \cup {None}
         /\ r.id \in 1..MaxAccounts /\ r.saw \subseteq Provider \cup {"local"}
BY DEF Editing

LEMMA Kinds ==
  ASSUME NEW r \in {Idle} \cup Joining \cup Editing
  PROVE  /\ r.pc \in {"identity", "email", "count", "insert", "accept", "password"} => r \in Joining
         /\ r.pc \in {"link", "unlink"} => r \in Editing
         /\ r.pc = "idle" => r = Idle
BY DEF Idle, Joining, Editing

LEMMA Idles == Idle.pc = "idle" /\ Idle \notin Joining /\ Idle \notin Editing
BY DEF Idle, Joining, Editing

LEMMA RequestType == ASSUME ATInv, NEW q \in Request PROVE req[q] \in {Idle} \cup Joining \cup Editing
BY DEF ATInv

LEMMA AccountFields ==
  ASSUME NEW a \in Account
  PROVE  /\ a.email \in Person /\ a.origin \in Provider \cup {"local"}
         /\ a.linked \in [Provider -> Person \cup {None}]
         /\ a.password \in BOOLEAN /\ a.admin \in BOOLEAN /\ a.rivalled \in BOOLEAN
BY DEF Account

LEMMA MethodsOf ==
  ASSUME NEW a
  PROVE  /\ Methods(a) = {} <=> ~a.password /\ \A w \in Provider : a.linked[w] = None
         /\ \A w \in Provider : w \in Methods(a) <=> a.linked[w] # None
         /\ "local" \in Methods(a) <=> a.password
         /\ Methods(a) \subseteq Provider \cup {"local"}
BY LocalAssumption DEF Methods

\* A request's move: one request is at x instead.
LEMMA Move ==
  ASSUME ATInv, NEW q \in Request, NEW x \in {Idle} \cup Joining \cup Editing, req' = [req EXCEPT ![q] = x]
  PROVE  /\ req' \in [Request -> {Idle} \cup Joining \cup Editing]
         /\ req'[q] = x /\ \A p \in Request \ {q} : req'[p] = req[p]
BY DEF ATInv

LEMMA TypesOf ==
  ASSUME ATInv, users' \in [1..Size -> Account], req' \in [Request -> {Idle} \cup Joining \cup Editing],
         invite' \in [Person -> InviteState], stuck' \subseteq Id,
         changes' \in 0..MaxChanges, crashes' \in 0..MaxCrashes
  PROVE  ATInv' /\ Id' = Id
<1>1. Id' = 1..Size /\ Id' = Id BY Ids DEF Id
<1>2. Size' = Size BY <1>1 DEF Size
<1>3. \A q \in Request : req'[q].pc = "idle" \/ req'[q] \in Joining \cup Editing
  BY Idles
<1>4. AccountsTypeOK'
  BY <1>1, <1>2, <1>3, Ids DEF AccountsTypeOK, Size
<1> QED BY <1>1, <1>2, <1>4 DEF ATInv

-----------------------------------------------------------------------------
(* A step that inserts no account.                                         *)

Same(a, b) == a.email = b.email /\ a.origin = b.origin /\ a.admin = b.admin /\ a.rivalled = b.rivalled

TableEdit ==
  \A i \in Id : /\ Same(users'[i], users[i])
                /\ Methods(users'[i]) = {} => Methods(users[i]) = {} \/ i \in stuck'
                /\ i \in stuck => i \in stuck' \/ Methods(users'[i]) # {}

InvitesKept == \A p \in Person : invite[p] = "accepted" => invite'[p] = "accepted"

\* What a request may become.
Fine(r, x) ==
  /\ RequestOK(x)
  /\ \A i \in Id : Registering(r, i) => Registering(x, i) \/ Methods(users'[i]) # {} \/ i \in stuck'
  /\ \A i \in Id : Accepting(r, i) => Accepting(x, i) \/ crashes' # 0 \/ invite'[users[i].email] = "accepted"

LEMMA RequestStable ==
  ASSUME ATInv, Id' = Id, \A i \in Id : Same(users'[i], users[i]), NEW r, RequestOK(r)
  PROVE  RequestOK(r)'
<1>1. Size' = Size BY DEF Size
<1>2. ASSUME r \in Joining, JoinOK(r) PROVE JoinOK(r)'
  BY <1>1, <1>2 DEF JoinOK, Rivalry, Same
<1>3. ASSUME r \in Editing, EditOK(r) PROVE EditOK(r)'
  BY <1>3 DEF EditOK
<1> QED BY <1>2, <1>3 DEF RequestOK

LEMMA EditStep ==
  ASSUME AInv, ATInv', Id' = Id, TableEdit, InvitesKept, crashes' = 0 => crashes = 0, OneCallback',
         \A p \in Request : \A r \in {req[p]}, x \in {req'[p]} : x = r \/ Fine(r, x)
  PROVE  AInv'
<1>1. \A i \in Id : Same(users'[i], users[i]) BY DEF TableEdit
<1>2. RequestsOK'
  <2> SUFFICES ASSUME NEW p \in Request, NEW x \in {req'[p]} PROVE RequestOK(x)' BY DEF RequestsOK
  <2>1. RequestOK(x) BY DEF Fine, AInv, RequestsOK
  <2> QED BY <2>1, <1>1, RequestStable DEF AInv
<1>3. WaysIn'
  <2> SUFFICES ASSUME NEW i \in Id, Methods(users'[i]) = {}, i \notin stuck'
               PROVE  \E q \in Request : \A r \in {req'[q]} : Registering(r, i)
    BY DEF WaysIn
  <2>1. Methods(users[i]) = {} /\ i \notin stuck BY DEF TableEdit
  <2>2. PICK q \in Request : \A r \in {req[q]} : Registering(r, i) BY <2>1 DEF AInv, WaysIn
  <2>3. \A x \in {req'[q]} : Registering(x, i) BY <2>2 DEF Fine
  <2> QED BY <2>3
<1>4. Apart' BY <1>1 DEF AInv, Apart, Same
<1>5. FirstAdmin'
  <2>1. Id # {} => 1 \in Id BY Ids DEF AInv
  <2> QED BY <1>1, <2>1 DEF AInv, FirstAdmin, Same
<1>6. Vetted'
  <2> SUFFICES ASSUME crashes' = 0, NEW i \in Id, ~users'[i].admin, invite'[users'[i].email] # "accepted"
               PROVE  \E q \in Request : \A r \in {req'[q]} : Accepting(r, i)
    BY DEF Vetted
  <2>1. users[i].email \in Person BY Ids, AccountFields DEF AInv
  <2>2. crashes = 0 /\ ~users[i].admin /\ invite[users[i].email] # "accepted" BY <1>1, <2>1 DEF Same, InvitesKept
  <2>3. PICK q \in Request : \A r \in {req[q]} : Accepting(r, i) BY <2>2 DEF AInv, Vetted
  <2>4. invite'[users[i].email] # "accepted" BY <1>1 DEF Same
  <2>5. \A x \in {req'[q]} : Accepting(x, i) BY <2>3, <2>4 DEF Fine
  <2> QED BY <2>5
<1> QED BY <1>2, <1>3, <1>4, <1>5, <1>6 DEF AInv

\* A request that stays in the loop, or enters it when nobody is there.
LEMMA LoopStep ==
  ASSUME ATInv, OneCallback, NEW q \in Request, NEW x \in {Idle} \cup Joining \cup Editing,
         req' = [req EXCEPT ![q] = x], InLoop(x) => InLoop(req[q]) \/ LoopFree
  PROVE  OneCallback'
<1>1. \A p \in Request : req'[p] = IF p = q THEN x ELSE req[p] BY Move
<1>2. ASSUME NEW p \in Request \ {q}, InLoop(req[p]), InLoop(x) PROVE FALSE
  <2>1. CASE InLoop(req[q]) BY <1>2, <2>1 DEF OneCallback
  <2>2. CASE LoopFree BY <1>2, <2>2 DEF LoopFree, InLoop, LoopPcs
  <2> QED BY <1>2, <2>1, <2>2
<1> QED BY <1>1, <1>2 DEF OneCallback

\* A request's step that only reads the tables.
LEMMA ReadStep ==
  ASSUME AInv, NEW q \in Request, NEW x \in {Idle} \cup Joining \cup Editing,
         req' = [req EXCEPT ![q] = x], UNCHANGED <<users, invite, stuck, crashes>>, changes' \in 0..MaxChanges,
         req[q].pc \notin {"accept", "password"},
         RequestOK(x), InLoop(x) => InLoop(req[q]) \/ LoopFree
  PROVE  AInv'
<1>1. ATInv' /\ Id' = Id
  BY Move, TypesOf DEF AInv, ATInv, AccountsTypeOK
<1>2. OneCallback' BY LoopStep DEF AInv
<1>3. TableEdit BY DEF TableEdit, Same
<1>4. InvitesKept BY DEF InvitesKept
<1>5. \A p \in Request : \A r \in {req[p]}, y \in {req'[p]} : y = r \/ Fine(r, y)
  BY Move DEF AInv, Fine, Registering, Accepting
<1> QED BY <1>1, <1>2, <1>3, <1>4, <1>5, EditStep

LEMMA JoinType ==
  ASSUME ATInv, NEW w \in Provider \cup {"local"}, NEW p \in Person
  PROVE  LET x == Join(w, p) IN
         /\ x \in Joining /\ x.pc = "identity" /\ x.way = w /\ x.person = p
         /\ x.before = Size /\ ~x.first
<1>1. Size \in 0..MaxAccounts /\ 0 \in 0..MaxAccounts BY Bounds DEF ATInv
<1>2. PICK x : x = Join(w, p) OBVIOUS
<1>3. x = [pc |-> "identity", way |-> w, person |-> p, id |-> 0, first |-> FALSE, before |-> Size]
  BY <1>2 DEF Join, Size
<1>4. x \in Joining BY <1>1, <1>3 DEF Joining
<1>5. x.pc = "identity" /\ x.way = w /\ x.person = p /\ x.before = Size /\ ~x.first BY <1>3
<1> QED BY <1>2, <1>4, <1>5

LEMMA EndOf == ASSUME NEW q, End(q) PROVE req' = [req EXCEPT ![q] = Idle]
BY DEF End

LEMMA IdleOK == RequestOK(Idle) /\ ~InLoop(Idle) /\ Idle \in {Idle} \cup Joining \cup Editing
BY Idles DEF RequestOK, InLoop, LoopPcs

\* A request that ends having only read.
LEMMA EndStep ==
  ASSUME AInv, NEW q \in Request, End(q), UNCHANGED <<users, invite, stuck, changes, crashes>>,
         req[q].pc \notin {"accept", "password"}
  PROVE  AInv'
<1>1. changes' \in 0..MaxChanges BY DEF AInv, ATInv, AccountsTypeOK
<1> QED BY <1>1, ReadStep, IdleOK, EndOf

LEMMA RegisterStep ==
  ASSUME AInv, NEW q \in Request, NEW p \in Person, Register(q, p)
  PROVE  AInv'
<1>1. PICK x : x = Join("local", p) OBVIOUS
<1>2. x \in Joining /\ x.pc = "identity" /\ x.way = "local" /\ x.person = p /\ x.before = Size /\ ~x.first
  BY <1>1, JoinType DEF AInv
<1>3. ASSUME NEW i \in Id, users[i].origin = "local", users[i].email = p PROVE FALSE
  BY <1>3 DEF Register, Identified
<1>4. Size \in Nat BY Ids DEF AInv
<1>5. RequestOK(x) BY <1>2, <1>3, <1>4, EditingFields DEF RequestOK, JoinOK
<1>6. ~InLoop(x) BY <1>2 DEF InLoop
<1>7. changes' \in 0..MaxChanges BY DEF AInv, ATInv, AccountsTypeOK, Register
<1>8. req' = [req EXCEPT ![q] = x] BY <1>1 DEF Register
<1> QED BY <1>2, <1>5, <1>6, <1>7, <1>8, ReadStep DEF Register

LEMMA CallbackStep ==
  ASSUME AInv, NEW q \in Request, NEW w \in Provider, NEW p \in Person, Callback(q, w, p)
  PROVE  AInv'
<1>1. PICK x : x = Join(w, p) OBVIOUS
<1>2. x \in Joining /\ x.pc = "identity" /\ x.way = w /\ x.person = p /\ x.before = Size /\ ~x.first
  BY <1>1, JoinType DEF AInv
<1>3. w # "local" BY LocalAssumption
<1>4. Size \in Nat BY Ids DEF AInv
<1>5. RequestOK(x) BY <1>2, <1>3, <1>4, EditingFields DEF RequestOK, JoinOK
<1>7. changes' \in 0..MaxChanges BY DEF AInv, ATInv, AccountsTypeOK, Callback
<1>8. req' = [req EXCEPT ![q] = x] /\ LoopFree BY <1>1 DEF Callback
<1> QED BY <1>2, <1>5, <1>7, <1>8, ReadStep DEF Callback

\* A request of this kind, as it stands.
LEMMA Stands ==
  ASSUME AInv, NEW q \in Request, req[q].pc \in {"identity", "email", "count", "insert", "accept", "password"}
  PROVE  req[q] \in Joining /\ JoinOK(req[q])
<1>1. PICK r \in {Idle} \cup Joining \cup Editing : r = req[q] BY RequestType DEF AInv
<1>2. r \in Joining BY <1>1, Kinds
<1>3. RequestOK(r) BY <1>1 DEF AInv, RequestsOK
<1> QED BY <1>1, <1>2, <1>3 DEF RequestOK

LEMMA StandsEditing ==
  ASSUME AInv, NEW q \in Request, req[q].pc \in {"link", "unlink"}
  PROVE  req[q] \in Editing /\ EditOK(req[q])
<1>1. PICK r \in {Idle} \cup Joining \cup Editing : r = req[q] BY RequestType DEF AInv
<1>2. r \in Editing BY <1>1, Kinds
<1>3. RequestOK(r) BY <1>1 DEF AInv, RequestsOK
<1> QED BY <1>1, <1>2, <1>3 DEF RequestOK

LEMMA Advanced ==
  ASSUME NEW r \in Joining, NEW pc \in {"identity", "email", "count", "insert", "accept", "password"},
         NEW x, x = [r EXCEPT !.pc = pc]
  PROVE  /\ x \in Joining /\ x.pc = pc
         /\ x.way = r.way /\ x.person = r.person /\ x.id = r.id /\ x.first = r.first /\ x.before = r.before
         /\ x \notin Editing
<1>1. /\ x \in Joining /\ x.pc = pc
      /\ x.way = r.way /\ x.person = r.person /\ x.id = r.id /\ x.first = r.first /\ x.before = r.before
  BY DEF Joining
<1> QED BY <1>1, EditingFields

LEMMA FindIdentityStep ==
  ASSUME AInv, NEW q \in Request, FindIdentity(q)
  PROVE  AInv'
<1>0. /\ UNCHANGED <<users, invite, stuck, changes, crashes>> /\ req[q].pc = "identity"
      /\ changes' \in 0..MaxChanges
  BY DEF AInv, ATInv, AccountsTypeOK, FindIdentity
<1>1. PICK r \in Joining : r = req[q] BY <1>0, Stands
<1>2. JoinOK(r) BY <1>0, <1>1, Stands
<1>3. CASE Go(q, "email")
  <2>1. PICK x : x = [r EXCEPT !.pc = "email"] OBVIOUS
  <2>2. req' = [req EXCEPT ![q] = x] BY <1>1, <1>3, <2>1 DEF Go
  <2>3. /\ x \in Joining /\ x.pc = "email" /\ x.way = r.way /\ x.first = r.first /\ x.before = r.before
        /\ x \notin Editing
    BY <2>1, Advanced
  <2>4. RequestOK(x) BY <1>0, <1>1, <1>2, <2>3 DEF JoinOK, RequestOK
  <2>5. InLoop(x) => InLoop(req[q]) BY <1>0, <1>1, <2>3 DEF InLoop, LoopPcs
  <2> QED BY <1>0, <2>2, <2>3, <2>4, <2>5, ReadStep
<1>4. CASE End(q) BY <1>0, <1>4, EndStep
<1>5. ASSUME r.way = "local", NEW i \in Identified(r.way, r.person),
             req' = [req EXCEPT ![q].pc = "password", ![q].id = i]
      PROVE  AInv'
  <2>1. PICK x : x = [r EXCEPT !.pc = "password", !.id = i] OBVIOUS
  <2>2. req' = [req EXCEPT ![q] = x] BY <1>1, <1>5, <2>1, Move DEF AInv, ATInv
  <2>3. i \in Id /\ users[i].origin = "local" /\ users[i].email = r.person BY <1>5 DEF Identified
  <2>4. i \in 0..MaxAccounts BY <2>3, Ids, Bounds DEF AInv
  <2>5. x \in Joining /\ x.pc = "password" /\ x.id = i /\ x.way = r.way /\ x.before = r.before
    BY <2>1, <2>4 DEF Joining
  <2>6. i > r.before BY <1>0, <1>1, <1>2, <1>5, <2>3 DEF JoinOK
  <2>7. JoinOK(x) BY <1>2, <2>3, <2>5, <2>6 DEF JoinOK
  <2>8. RequestOK(x) BY <2>5, <2>7, EditingFields DEF RequestOK
  <2>9. ~InLoop(x) BY <2>5 DEF InLoop, LoopPcs
  <2> QED BY <1>0, <2>2, <2>5, <2>8, <2>9, ReadStep
<1>6. \/ Go(q, "email") \/ End(q)
      \/ r.way = "local" /\ \E i \in Identified(r.way, r.person) : req' = [req EXCEPT ![q].pc = "password", ![q].id = i]
  BY <1>1 DEF FindIdentity
<1> QED BY <1>3, <1>4, <1>5, <1>6

LEMMA FindEmailStep ==
  ASSUME AInv, NEW q \in Request, FindEmail(q)
  PROVE  AInv'
<1>0. /\ UNCHANGED <<users, invite, stuck, changes, crashes>> /\ req[q].pc = "email"
      /\ changes' \in 0..MaxChanges
  BY DEF AInv, ATInv, AccountsTypeOK, FindEmail
<1>1. PICK r \in Joining : r = req[q] BY <1>0, Stands
<1>2. JoinOK(r) BY <1>0, <1>1, Stands
<1>3. CASE End(q) BY <1>0, <1>3, EndStep
<1>4. CASE Go(q, "count") /\ \A i \in Id : users[i].email # r.person
  <2>1. PICK x : x = [r EXCEPT !.pc = "count"] OBVIOUS
  <2>2. req' = [req EXCEPT ![q] = x] BY <1>1, <1>4, <2>1 DEF Go
  <2>3. /\ x \in Joining /\ x.pc = "count" /\ x.way = r.way /\ x.first = r.first /\ x.before = r.before
        /\ x.person = r.person /\ x \notin Editing
    BY <2>1, Advanced
  <2>4. RequestOK(x) BY <1>0, <1>1, <1>2, <1>4, <2>3 DEF JoinOK, RequestOK
  <2>5. InLoop(x) => InLoop(req[q]) BY <1>0, <1>1, <2>3 DEF InLoop, LoopPcs
  <2> QED BY <1>0, <2>2, <2>3, <2>4, <2>5, ReadStep
<1> QED BY <1>1, <1>3, <1>4 DEF FindEmail

LEMMA VetStep ==
  ASSUME AInv, NEW q \in Request, Vet(q)
  PROVE  AInv'
<1>0. /\ UNCHANGED <<users, invite, stuck, changes, crashes>> /\ req[q].pc = "count"
      /\ changes' \in 0..MaxChanges
  BY DEF AInv, ATInv, AccountsTypeOK, Vet
<1>1. PICK r \in Joining : r = req[q] BY <1>0, Stands
<1>2. JoinOK(r) BY <1>0, <1>1, Stands
<1>3. CASE End(q) BY <1>0, <1>3, EndStep
<1>4. CASE Id = {} /\ req' = [req EXCEPT ![q].pc = "insert", ![q].first = TRUE]
  <2>1. PICK x : x = [r EXCEPT !.pc = "insert", !.first = TRUE] OBVIOUS
  <2>2. req' = [req EXCEPT ![q] = x] BY <1>1, <1>4, <2>1, Move DEF AInv, ATInv
  <2>3. /\ x \in Joining /\ x.pc = "insert" /\ x.way = r.way /\ x.first /\ x.before = r.before
        /\ x.person = r.person
    BY <2>1 DEF Joining
  <2>4. JoinOK(x) BY <1>2, <1>4, <2>3 DEF JoinOK
  <2>5. RequestOK(x) BY <2>3, <2>4, EditingFields DEF RequestOK
  <2>6. InLoop(x) => InLoop(req[q]) BY <1>0, <1>1, <2>3 DEF InLoop, LoopPcs
  <2> QED BY <1>0, <2>2, <2>3, <2>5, <2>6, ReadStep
<1>5. CASE Id # {} /\ Go(q, "insert")
  <2>1. PICK x : x = [r EXCEPT !.pc = "insert"] OBVIOUS
  <2>2. req' = [req EXCEPT ![q] = x] BY <1>1, <1>5, <2>1 DEF Go
  <2>3. /\ x \in Joining /\ x.pc = "insert" /\ x.way = r.way /\ x.first = r.first /\ x.before = r.before
        /\ x.person = r.person /\ x \notin Editing
    BY <2>1, Advanced
  <2>4. RequestOK(x) BY <1>0, <1>1, <1>2, <1>5, <2>3 DEF JoinOK, RequestOK, Rivalry
  <2>5. InLoop(x) => InLoop(req[q]) BY <1>0, <1>1, <2>3 DEF InLoop, LoopPcs
  <2> QED BY <1>0, <2>2, <2>3, <2>4, <2>5, ReadStep
<1> QED BY <1>3, <1>4, <1>5 DEF Vet

-----------------------------------------------------------------------------
(* Steps that write a row or an invite.                                    *)

LEMMA RowEdit ==
  ASSUME AInv, NEW i \in Id, NEW b \in Account, Same(b, users[i]), users' = [users EXCEPT ![i] = b],
         Methods(b) = {} => i \in stuck',
         \A j \in stuck : j \in stuck' \/ (j = i /\ Methods(b) # {})
  PROVE  TableEdit /\ users' \in [1..Size -> Account] /\ Methods(users'[i]) = Methods(b)
<1>1. users \in [1..Size -> Account] /\ Id = 1..Size BY Ids DEF AInv, ATInv
<1>2. users' \in [1..Size -> Account] /\ users'[i] = b /\ \A j \in Id \ {i} : users'[j] = users[j]
  BY <1>1
<1>3. TableEdit BY <1>2 DEF TableEdit, Same
<1> QED BY <1>2, <1>3

LEMMA AcceptStep ==
  ASSUME AInv, NEW q \in Request, Accept(q)
  PROVE  AInv'
<1>1. PICK r \in Joining : r = req[q] BY Stands DEF Accept
<1>2. JoinOK(r) /\ r.pc = "accept" BY <1>1, Stands DEF Accept
<1>3. r.id \in Id /\ r.id > r.before /\ users[r.id].email = r.person /\ r.person \in Person
  BY <1>2, JoiningFields DEF JoinOK
<1>4. PICK x \in {Idle} \cup Joining \cup Editing :
        /\ req' = [req EXCEPT ![q] = x] /\ ~InLoop(x) /\ RequestOK(x)
        /\ \A i \in Id : Registering(r, i) => Registering(x, i)
  <2>1. CASE r.way = "local"
    <3>1. PICK x : x = [r EXCEPT !.pc = "password"] OBVIOUS
    <3>2. /\ x \in Joining /\ x.pc = "password" /\ x.way = r.way /\ x.id = r.id /\ x.before = r.before
          /\ x \notin Editing
      BY <3>1, Advanced
    <3>3. req' = [req EXCEPT ![q] = x] BY <1>1, <2>1, <3>1 DEF Accept, Go
    <3>4. RequestOK(x) BY <1>2, <1>3, <3>2 DEF RequestOK, JoinOK
    <3> QED BY <3>2, <3>3, <3>4 DEF InLoop, LoopPcs, Registering
  <2>2. CASE r.way # "local"
    <3>1. req' = [req EXCEPT ![q] = Idle] BY <1>1, <2>2 DEF Accept, End
    <3> QED BY <2>2, <3>1, IdleOK DEF Registering
  <2> QED BY <2>1, <2>2
<1>5. /\ invite' = [invite EXCEPT ![r.person] = "accepted"] /\ UNCHANGED <<users, stuck, changes, crashes>>
      /\ invite \in [Person -> InviteState]
  BY <1>1 DEF Accept, AInv, ATInv, AccountsTypeOK
<1>6. invite' \in [Person -> InviteState] BY <1>5 DEF InviteState
<1>7. ATInv' /\ Id' = Id
  BY <1>4, <1>5, <1>6, Move, TypesOf DEF AInv, ATInv, AccountsTypeOK
<1>8. OneCallback' BY <1>4, LoopStep DEF AInv
<1>9. TableEdit BY <1>5 DEF TableEdit, Same
<1>10. InvitesKept BY <1>5 DEF InvitesKept
<1>11. invite'[users[r.id].email] = "accepted" BY <1>3, <1>5
<1>12. Fine(r, x) BY <1>4, <1>11 DEF Fine, Accepting
<1>13. \A p \in Request : \A s \in {req[p]}, y \in {req'[p]} : y = s \/ Fine(s, y)
  BY <1>1, <1>4, <1>12, Move DEF AInv
<1> QED BY <1>5, <1>7, <1>8, <1>9, <1>10, <1>13, EditStep

\* A request ends with a write to the row of its account.
LEMMA WriteStep ==
  ASSUME AInv, NEW q \in Request, End(q), TableEdit, users' \in [1..Size -> Account],
         stuck' \subseteq Id, UNCHANGED <<invite, changes, crashes>>,
         req[q].pc # "accept", req[q].pc = "password" => req[q].id \in Id /\ Methods(users'[req[q].id]) # {}
  PROVE  AInv'
<1>1. ATInv' /\ Id' = Id
  BY EndOf, IdleOK, Move, TypesOf DEF AInv, ATInv, AccountsTypeOK
<1>2. OneCallback' BY EndOf, IdleOK, LoopStep DEF AInv
<1>3. InvitesKept BY DEF InvitesKept
<1>4. \A p \in Request : \A s \in {req[p]}, y \in {req'[p]} : y = s \/ Fine(s, y)
  BY EndOf, IdleOK, Move DEF AInv, Fine, Registering, Accepting
<1> QED BY <1>1, <1>2, <1>3, <1>4, EditStep

LEMMA PasswordSet ==
  ASSUME NEW a \in Account, NEW b, b = [a EXCEPT !.password = TRUE]
  PROVE  b \in Account /\ Same(b, a) /\ Methods(b) # {}
<1>1. b \in Account /\ Same(b, a) /\ b.password BY DEF Account, Same
<1> QED BY <1>1, MethodsOf

LEMMA Linked ==
  ASSUME NEW a \in Account, NEW w \in Provider, NEW p \in Person \cup {None}, NEW b, b = [a EXCEPT !.linked[w] = p]
  PROVE  /\ b \in Account /\ Same(b, a)
         /\ p # None => Methods(b) # {}
         /\ p = None => Methods(a) \ {w} \subseteq Methods(b)
<1>1. PICK l : l = [a.linked EXCEPT ![w] = p] OBVIOUS
<1>2. l \in [Provider -> Person \cup {None}] /\ l[w] = p /\ \A v \in Provider \ {w} : l[v] = a.linked[v]
  BY <1>1, AccountFields
<1>3. b = [a EXCEPT !.linked = l] BY <1>1
<1>4. b \in Account /\ Same(b, a) /\ b.linked = l /\ b.password = a.password BY <1>2, <1>3 DEF Account, Same
<1>5. p # None => w \in Methods(b) BY <1>2, <1>4 DEF Methods
<1>6. ASSUME NEW m \in Methods(a) \ {w} PROVE m \in Methods(b)
  <2>1. m \in Provider \cup {"local"} BY MethodsOf
  <2>2. CASE m \in Provider
    <3>1. a.linked[m] # None BY <1>6, <2>2, LocalAssumption DEF Methods
    <3>2. b.linked[m] # None BY <1>2, <1>4, <1>6, <2>2, <3>1
    <3> QED BY <2>2, <3>2 DEF Methods
  <2>3. CASE m = "local" BY <1>4, <1>6, <2>3, MethodsOf
  <2> QED BY <2>1, <2>2, <2>3
<1> QED BY <1>4, <1>5, <1>6

LEMMA SetOwnPasswordStep ==
  ASSUME AInv, NEW q \in Request, SetOwnPassword(q)
  PROVE  AInv'
<1>1. PICK r \in Joining : r = req[q] BY Stands DEF SetOwnPassword
<1>2. JoinOK(r) /\ r.pc = "password" BY <1>1, Stands DEF SetOwnPassword
<1>3. PICK i \in Id : i = r.id BY <1>2 DEF JoinOK
<1>4. PICK a \in Account : a = users[i] BY Ids DEF AInv
<1>5. PICK b : b = [a EXCEPT !.password = TRUE] OBVIOUS
<1>6. users' = [users EXCEPT ![i] = b] /\ stuck' = stuck \ {i} /\ End(q) /\ UNCHANGED <<invite, changes, crashes>>
  BY <1>1, <1>3, <1>4, <1>5 DEF SetOwnPassword
<1>7. b \in Account /\ Same(b, a) /\ Methods(b) # {} BY <1>5, PasswordSet
<1>8. TableEdit /\ users' \in [1..Size -> Account] /\ Methods(users'[i]) # {} BY <1>4, <1>6, <1>7, RowEdit
<1>9. stuck' \subseteq Id BY <1>6 DEF AInv, ATInv, AccountsTypeOK
<1> QED BY <1>1, <1>2, <1>3, <1>6, <1>8, <1>9, WriteStep

LEMMA LinkStep ==
  ASSUME AInv, NEW q \in Request, Link(q)
  PROVE  AInv'
<1>1. PICK r \in Editing : r = req[q] BY StandsEditing DEF Link
<1>2. EditOK(r) /\ r.pc = "link" BY <1>1, StandsEditing DEF Link
<1>3. PICK i \in Id : i = r.id BY <1>2 DEF EditOK
<1>4. PICK a \in Account : a = users[i] BY Ids DEF AInv
<1>5. PICK b : b = [a EXCEPT !.linked[r.way] = r.person] OBVIOUS
<1>6. End(q) /\ UNCHANGED <<invite, changes, crashes>> BY DEF Link
<1>7. CASE UNCHANGED <<users, stuck>> BY <1>1, <1>2, <1>6, <1>7, EndStep
<1>8. CASE users' = [users EXCEPT ![r.id].linked[r.way] = r.person] /\ stuck' = stuck \ {r.id}
  <2>1. users' = [users EXCEPT ![i] = b] BY <1>3, <1>4, <1>5, <1>8
  <2>2. b \in Account /\ Same(b, a) /\ Methods(b) # {} BY <1>2, <1>5, Linked, EditingFields DEF EditOK
  <2>3. TableEdit /\ users' \in [1..Size -> Account] BY <1>3, <1>4, <1>8, <2>1, <2>2, RowEdit
  <2>4. stuck' \subseteq Id BY <1>8 DEF AInv, ATInv, AccountsTypeOK
  <2> QED BY <1>1, <1>2, <1>6, <2>3, <2>4, WriteStep
<1> QED BY <1>1, <1>7, <1>8 DEF Link

LEMMA UnlinkStep ==
  ASSUME AInv, NEW q \in Request, Unlink(q)
  PROVE  AInv'
<1>1. PICK r \in Editing : r = req[q] BY StandsEditing DEF Unlink
<1>2. EditOK(r) /\ r.pc = "unlink" BY <1>1, StandsEditing DEF Unlink
<1>3. PICK i \in Id : i = r.id BY <1>2 DEF EditOK
<1>4. PICK a \in Account : a = users[i] BY Ids DEF AInv
<1>5. PICK b : b = [a EXCEPT !.linked[r.way] = None] OBVIOUS
<1>6. /\ End(q) /\ UNCHANGED <<invite, changes, crashes>> /\ users' = [users EXCEPT ![i] = b]
      /\ stuck' = IF Overtaken(q) THEN stuck \cup {i} ELSE stuck
  BY <1>1, <1>3, <1>4, <1>5 DEF Unlink
<1>7. b \in Account /\ Same(b, a) /\ Methods(a) \ {r.way} \subseteq Methods(b)
  BY <1>5, Linked, EditingFields
<1>8. ASSUME ~Overtaken(q) PROVE Methods(b) # {}
  <2>1. PICK m \in r.saw : m \in Methods(a) BY <1>1, <1>2, <1>3, <1>4, <1>8 DEF Overtaken, EditOK
  <2>2. m # r.way BY <1>2, <2>1 DEF EditOK
  <2> QED BY <1>7, <2>1, <2>2
<1>9. TableEdit /\ users' \in [1..Size -> Account] BY <1>4, <1>6, <1>7, <1>8, RowEdit
<1>10. stuck' \subseteq Id BY <1>6 DEF AInv, ATInv, AccountsTypeOK
<1> QED BY <1>1, <1>2, <1>6, <1>9, <1>10, WriteStep

LEMMA ChangeType == ASSUME ATInv, Change PROVE changes' \in 0..MaxChanges
BY Bounds DEF ATInv, AccountsTypeOK, Change

LEMMA LinkLookupStep ==
  ASSUME AInv, NEW q \in Request, NEW i \in Id, NEW w \in Provider, NEW p \in Person, LinkLookup(q, i, w, p)
  PROVE  AInv'
<1>1. PICK x : x = [pc |-> "link", way |-> w, person |-> p, id |-> i, saw |-> {}] OBVIOUS
<1>2. x \in Editing /\ x.pc = "link" /\ x.person = p /\ x.id = i BY <1>1, Ids DEF Editing, AInv
<1>3. RequestOK(x) BY <1>2, JoiningFields, NoneAssumption DEF RequestOK, EditOK
<1>4. ~InLoop(x) BY <1>2 DEF InLoop, LoopPcs
<1>5. changes' \in 0..MaxChanges BY ChangeType DEF AInv, LinkLookup
<1>6. req' = [req EXCEPT ![q] = x] BY <1>1 DEF LinkLookup
<1> QED BY <1>2, <1>3, <1>4, <1>5, <1>6, ReadStep DEF LinkLookup

LEMMA UnlinkCheckStep ==
  ASSUME AInv, NEW q \in Request, NEW i \in Id, NEW w \in Provider, UnlinkCheck(q, i, w)
  PROVE  AInv'
<1>1. PICK S : S = Methods(users[i]) \ {w} OBVIOUS
<1>2. S \subseteq Provider \cup {"local"} /\ S # {} /\ w \notin S BY <1>1, MethodsOf DEF UnlinkCheck
<1>3. PICK x : x = [pc |-> "unlink", way |-> w, person |-> None, id |-> i, saw |-> S] OBVIOUS
<1>4. x \in Editing /\ x.pc = "unlink" /\ x.way = w /\ x.id = i /\ x.saw = S
  BY <1>2, <1>3, Ids DEF Editing, AInv
<1>5. RequestOK(x) BY <1>2, <1>4, JoiningFields DEF RequestOK, EditOK
<1>6. ~InLoop(x) BY <1>4 DEF InLoop, LoopPcs
<1>7. changes' \in 0..MaxChanges BY ChangeType DEF AInv, UnlinkCheck
<1>8. req' = [req EXCEPT ![q] = x] BY <1>1, <1>3 DEF UnlinkCheck
<1> QED BY <1>4, <1>5, <1>6, <1>7, <1>8, ReadStep DEF UnlinkCheck

LEMMA SetPasswordStep ==
  ASSUME AInv, NEW i \in Id, SetPassword(i)
  PROVE  AInv'
<1>1. PICK a \in Account : a = users[i] BY Ids DEF AInv
<1>2. PICK b : b = [a EXCEPT !.password = TRUE] OBVIOUS
<1>3. users' = [users EXCEPT ![i] = b] /\ stuck' = stuck \ {i} /\ UNCHANGED <<invite, req, crashes>>
  BY <1>1, <1>2 DEF SetPassword
<1>4. b \in Account /\ Same(b, a) /\ Methods(b) # {} BY <1>2, PasswordSet
<1>5. TableEdit /\ users' \in [1..Size -> Account] BY <1>1, <1>3, <1>4, RowEdit
<1>6. changes' \in 0..MaxChanges /\ stuck' \subseteq Id
  BY <1>3, ChangeType DEF AInv, SetPassword, ATInv, AccountsTypeOK
<1>7. ATInv' /\ Id' = Id BY <1>3, <1>5, <1>6, TypesOf DEF AInv, ATInv, AccountsTypeOK
<1>8. OneCallback' BY <1>3 DEF OneCallback, AInv
<1>9. InvitesKept BY <1>3 DEF InvitesKept
<1> QED BY <1>3, <1>5, <1>7, <1>8, <1>9, EditStep

LEMMA InvitedStep ==
  ASSUME AInv, NEW p \in Person, NEW from, NEW to \in InviteState, "accepted" \notin from, Invited(p, from, to)
  PROVE  AInv'
<1>1. /\ invite[p] \in from /\ invite' = [invite EXCEPT ![p] = to] /\ UNCHANGED <<users, req, stuck, crashes>>
      /\ invite \in [Person -> InviteState] /\ changes' \in 0..MaxChanges
  BY ChangeType DEF Invited, AInv, ATInv, AccountsTypeOK
<1>2. invite' \in [Person -> InviteState] /\ InvitesKept BY <1>1 DEF InvitesKept
<1>3. ATInv' /\ Id' = Id BY <1>1, <1>2, TypesOf DEF AInv, ATInv, AccountsTypeOK
<1>4. OneCallback' BY <1>1 DEF OneCallback, AInv
<1>5. TableEdit BY <1>1 DEF TableEdit, Same
<1> QED BY <1>1, <1>2, <1>3, <1>4, <1>5, EditStep

LEMMA RestartStep ==
  ASSUME AInv, AccountsRestart
  PROVE  AInv'
<1>1. PICK S : S = {q \in Request : req[q].pc \in {"accept", "password"}} OBVIOUS
<1>2. \A q \in S : q \in Request /\ req[q].id \in Id BY <1>1, Stands DEF JoinOK
<1>3. /\ crashes' = crashes + 1 /\ crashes' \in 0..MaxCrashes /\ crashes' # 0
      /\ stuck' = stuck \cup {req[q].id : q \in S}
      /\ req' = [q \in Request |-> Idle] /\ UNCHANGED <<users, invite, changes>>
  BY <1>1, Bounds DEF AccountsRestart, AInv, ATInv, AccountsTypeOK
<1>4. stuck' \subseteq Id BY <1>2, <1>3 DEF AInv, ATInv, AccountsTypeOK
<1>5. ATInv' /\ Id' = Id BY <1>3, <1>4, TypesOf DEF AInv, ATInv, AccountsTypeOK
<1>6. OneCallback' BY <1>3, IdleOK DEF OneCallback
<1>7. TableEdit BY <1>3 DEF TableEdit, Same
<1>8. InvitesKept BY <1>3 DEF InvitesKept
<1>9. ASSUME NEW p \in Request, NEW r \in {req[p]}, NEW x \in {req'[p]} PROVE Fine(r, x)
  <2>1. x = Idle BY <1>3
  <2>2. \A i \in Id : Registering(r, i) => i \in stuck' BY <1>1, <1>3 DEF Registering
  <2> QED BY <1>3, <2>1, <2>2, IdleOK DEF Fine
<1> QED BY <1>3, <1>5, <1>6, <1>7, <1>8, <1>9, EditStep

-----------------------------------------------------------------------------
(* The step that inserts an account.                                       *)

LEMMA NewRow ==
  ASSUME AInv, NEW q \in Request, NEW r \in Joining, r = req[q], NEW a, a = NewAccount(q)
  PROVE  /\ a \in Account /\ a.email = r.person /\ a.origin = r.way /\ a.admin = r.first
         /\ \A s \in Rivals(q) : r.first \/ req[s].person = r.person => a.rivalled
         /\ r.way # "local" => Methods(a) # {}
<1>1. PICK v \in BOOLEAN : v = \E s \in Rivals(q) : r.first \/ req[s].person = r.person OBVIOUS
<1>2. PICK l : l = [w \in Provider |-> IF w = r.way THEN r.person ELSE None] OBVIOUS
<1>3. a = [email |-> r.person, origin |-> r.way, admin |-> r.first, password |-> FALSE, linked |-> l, rivalled |-> v]
  BY <1>1, <1>2 DEF NewAccount
<1>4. l \in [Provider -> Person \cup {None}] BY <1>2, JoiningFields
<1>5. a \in Account BY <1>1, <1>3, <1>4, JoiningFields DEF Account
<1>6. a.email = r.person /\ a.origin = r.way /\ a.admin = r.first /\ a.rivalled = v /\ a.linked = l BY <1>3
<1>7. ASSUME r.way # "local" PROVE Methods(a) # {}
  <2>1. r.way \in Provider BY <1>7, JoiningFields
  <2>2. l[r.way] = r.person /\ r.person # None BY <1>2, <2>1, JoiningFields, NoneAssumption
  <2>3. r.way \in Methods(a) BY <1>6, <2>1, <2>2 DEF Methods
  <2> QED BY <2>3
<1> QED BY <1>1, <1>5, <1>6, <1>7

\* Where request r, having inserted row a under the id n, goes on.
GoesTo(r, a, n, x) ==
  \/ x = Idle /\ a.admin /\ a.origin # "local"
  \/ /\ x \in Joining /\ x.id = n /\ x.way = r.way /\ x.person = r.person /\ x.before = r.before
     /\ x.pc = IF a.admin THEN "password" ELSE "accept"
     /\ ~(a.admin /\ a.origin # "local")

LEMMA Inserted ==
  ASSUME AInv, NEW q \in Request, NEW r \in Joining, r = req[q], r.pc = "insert", JoinOK(r),
         Size < MaxAccounts, NEW n, n = Size + 1, NEW a, a = NewAccount(q),
         users' = [i \in Id \cup {n} |-> IF i = n THEN a ELSE users[i]],
         NEW x \in {Idle} \cup Joining, req' = [req EXCEPT ![q] = x],
         GoesTo(r, a, n, x),
         UNCHANGED <<invite, stuck, changes, crashes>>
  PROVE  AInv'
<1>1. Id = 1..Size /\ Size \in Nat /\ n \in 1..MaxAccounts /\ n \notin Id BY Ids, Bounds DEF AInv
<1>2. Id' = 1..n /\ Id' = Id \cup {n} BY <1>1 DEF Id
<1>3. Size' = n
  <2>1. Cardinality(1..n) = n BY <1>1, FS_Interval
  <2> QED BY <1>2, <2>1 DEF Size
<1>4. users'[n] = a /\ \A i \in Id : users'[i] = users[i] BY <1>1
<1>5. /\ a \in Account /\ a.email = r.person /\ a.origin = r.way /\ a.admin = r.first
      /\ \A s \in Rivals(q) : r.first \/ req[s].person = r.person => a.rivalled
      /\ r.way # "local" => Methods(a) # {}
  BY NewRow
<1>6. x \in {Idle} \cup Joining \cup Editing OBVIOUS
<1>7. /\ req' \in [Request -> {Idle} \cup Joining \cup Editing]
      /\ req'[q] = x /\ \A p \in Request \ {q} : req'[p] = req[p]
  BY <1>6, Move DEF AInv
<1>8. ATInv'
  <2>1. users' \in [1..n -> Account] BY <1>1, <1>2, <1>5, Ids DEF AInv
  <2>2. \A i \in Id' : users'[i] \in Account BY <1>2, <2>1
  <2>3. \A p \in Request : req'[p].pc = "idle" \/ req'[p] \in Joining \cup Editing BY <1>7, Idles
  <2>4. Id' = 1..Cardinality(Id)' /\ Cardinality(Id)' <= MaxAccounts BY <1>1, <1>2, <1>3, Bounds DEF Size
  <2>5. AccountsTypeOK' BY <1>2, <2>2, <2>3, <2>4 DEF AInv, ATInv, AccountsTypeOK
  <2>6. n \in 0..MaxAccounts BY <1>1
  <2> QED BY <1>3, <1>7, <2>1, <2>5, <2>6 DEF ATInv
<1>9. InLoop(x) => InLoop(r)
  BY <1>5, IdleOK DEF InLoop, LoopPcs, GoesTo
<1>10. OneCallback' BY <1>6, <1>9, LoopStep DEF AInv
<1>11. r.before <= Size /\ r.before \in Nat BY JoiningFields DEF JoinOK
<1>12. RequestOK(x)'
  <2>1. CASE x = Idle BY <2>1, Idles DEF RequestOK
  <2>2. CASE x # Idle
    <3>1. /\ x \in Joining /\ x.id = n /\ x.person = r.person /\ x.before = r.before
          /\ x.pc \in {"password", "accept"}
      BY <2>2 DEF GoesTo
    <3>2. x.id \in Id' /\ x.id > x.before /\ x.before <= n BY <1>1, <1>2, <1>11, <3>1
    <3>3. users'[x.id].email = x.person BY <1>4, <1>5, <3>1
    <3>4. JoinOK(x)' BY <1>3, <3>1, <3>2, <3>3 DEF JoinOK
    <3> QED BY <3>1, <3>4, EditingFields DEF RequestOK
  <2> QED BY <2>1, <2>2
<1>13. ASSUME NEW p \in Request \ {q}, NEW s, s = req[p] PROVE RequestOK(s)'
  <2>1. s \in {Idle} \cup Joining \cup Editing /\ RequestOK(s) BY <1>13, RequestType DEF AInv, RequestsOK
  <2>2. ASSUME s \in Joining PROVE JoinOK(s)'
    <3>1. JoinOK(s) BY <2>1, <2>2 DEF RequestOK
    <3>2. s.before \in Nat /\ s.before <= Size BY <2>2, <3>1, JoiningFields DEF JoinOK
    <3>3. ASSUME s.pc \in {"count", "insert"} PROVE "local" \in {r.way, s.way}
      <4>1. ~(InLoop(s) /\ InLoop(r)) BY <1>13 DEF AInv, OneCallback
      <4> QED BY <3>3, <4>1 DEF InLoop, LoopPcs
    <3>4. s.pc \in {"count", "insert"} => p \in Rivals(q) BY <1>13 DEF Rivals
    <3>5. s.pc \in {"count", "insert"} /\ r.person = s.person => Rivalry(n, s)'
      BY <1>4, <1>5, <1>13, <3>3, <3>4 DEF Rivalry
    <3>6. s.pc = "insert" /\ a.admin => Rivalry(n, s)'
      BY <1>4, <1>5, <3>3, <3>4 DEF Rivalry
    <3>7. \A j \in Id : Rivalry(j, s) => Rivalry(j, s)' BY <1>4 DEF Rivalry
    <3>8. s.before <= Size' BY <1>1, <1>3, <3>2
    <3>9. s.pc = "identity" /\ s.way = "local" =>
            \A i \in Id' : users'[i].origin = "local" /\ users'[i].email = s.person => i > s.before
      BY <1>1, <1>2, <1>4, <3>1, <3>2 DEF JoinOK
    <3>10. s.pc \in {"count", "insert"} => \A j \in Id' : users'[j].email = s.person => Rivalry(j, s)'
      BY <1>2, <1>4, <1>5, <3>1, <3>5, <3>7 DEF JoinOK
    <3>11. s.pc = "insert" /\ s.first => \A j \in Id' : users'[j].admin => Rivalry(j, s)'
      BY <1>2, <1>4, <3>1, <3>6, <3>7 DEF JoinOK
    <3>12. s.pc \in {"accept", "password"} => s.id \in Id' /\ s.id > s.before BY <1>2, <3>1 DEF JoinOK
    <3>13. s.pc = "accept" => users'[s.id].email = s.person BY <1>4, <3>1 DEF JoinOK
    <3>14. s.pc = "insert" => Id' # {} BY <1>2
    <3> QED BY <3>1, <3>8, <3>9, <3>10, <3>11, <3>12, <3>13, <3>14 DEF JoinOK
  <2>3. ASSUME s \in Editing PROVE EditOK(s)' BY <1>2, <2>1, <2>3 DEF RequestOK, EditOK
  <2> QED BY <2>2, <2>3 DEF RequestOK
<1>14. RequestsOK' BY <1>7, <1>12, <1>13 DEF RequestsOK
<1>15. WaysIn'
  <2> SUFFICES ASSUME NEW i \in Id', Methods(users'[i]) = {}, i \notin stuck
               PROVE  \E p \in Request : \A s \in {req'[p]} : Registering(s, i)
    BY DEF WaysIn
  <2>1. CASE i = n
    <3>1. r.way = "local" BY <1>4, <1>5, <2>1
    <3>2. Registering(x, n) BY <1>5, <3>1 DEF Registering, GoesTo
    <3> QED BY <1>7, <2>1, <3>2
  <2>2. CASE i \in Id
    <3>1. PICK p \in Request : \A s \in {req[p]} : Registering(s, i)
      BY <1>4, <2>2 DEF AInv, WaysIn
    <3>2. p # q BY <3>1 DEF Registering
    <3> QED BY <1>7, <3>1, <3>2
  <2> QED BY <1>2, <2>1, <2>2
<1>16. Apart'
  <2>1. ASSUME NEW j \in Id, users[j].email = a.email \/ (users[j].admin /\ a.admin)
        PROVE  users[j].rivalled /\ "local" \in {users[j].origin, a.origin}
    BY <1>5, <2>1 DEF JoinOK, Rivalry
  <2> SUFFICES ASSUME NEW i \in Id', NEW j \in Id', i # j,
                      users'[i].email = users'[j].email \/ (users'[i].admin /\ users'[j].admin)
               PROVE  /\ users'[i].rivalled \/ users'[j].rivalled
                      /\ "local" \in {users'[i].origin, users'[j].origin}
    BY DEF Apart
  <2>2. CASE i = n
    <3>1. j \in Id /\ users'[i] = a /\ users'[j] = users[j] BY <1>2, <1>4, <2>2
    <3> QED BY <2>1, <3>1
  <2>3. CASE j = n
    <3>1. i \in Id /\ users'[j] = a /\ users'[i] = users[i] BY <1>2, <1>4, <2>3
    <3> QED BY <2>1, <3>1
  <2>4. CASE i # n /\ j # n
    <3>1. i \in Id /\ j \in Id /\ users'[j] = users[j] /\ users'[i] = users[i] BY <1>2, <1>4, <2>4
    <3> QED BY <3>1 DEF AInv, Apart
  <2> QED BY <2>2, <2>3, <2>4
<1>17. FirstAdmin'
  <2>1. CASE Id = {}
    <3>1. n = 1 BY <1>1, <2>1, Ids DEF AInv
    <3>2. r.first BY <2>1 DEF JoinOK
    <3> QED BY <1>4, <1>5, <3>1, <3>2 DEF FirstAdmin
  <2>2. CASE Id # {}
    <3>1. 1 \in Id BY <1>1, <2>2
    <3> QED BY <1>4, <2>2, <3>1 DEF FirstAdmin, AInv
  <2> QED BY <2>1, <2>2
<1>18. Vetted'
  <2> SUFFICES ASSUME crashes = 0, NEW i \in Id', ~users'[i].admin, invite[users'[i].email] # "accepted"
               PROVE  \E p \in Request : \A s \in {req'[p]} : Accepting(s, i)
    BY DEF Vetted
  <2>1. CASE i = n
    <3>1. Accepting(x, n) BY <1>4, <2>1 DEF Accepting, GoesTo
    <3> QED BY <1>7, <2>1, <3>1
  <2>2. CASE i \in Id
    <3>1. PICK p \in Request : \A s \in {req[p]} : Accepting(s, i)
      BY <1>4, <2>2 DEF AInv, Vetted
    <3>2. p # q BY <3>1 DEF Accepting
    <3> QED BY <1>7, <3>1, <3>2
  <2> QED BY <1>2, <2>1, <2>2
<1> QED BY <1>8, <1>10, <1>14, <1>15, <1>16, <1>17, <1>18 DEF AInv

LEMMA InsertStep ==
  ASSUME AInv, NEW q \in Request, Insert(q)
  PROVE  AInv'
<1>1. PICK r \in Joining : r = req[q] BY Stands DEF Insert
<1>2. JoinOK(r) /\ r.pc = "insert" BY <1>1, Stands DEF Insert
<1>3. PICK a : a = NewAccount(q) OBVIOUS
<1>4. PICK n : n = Size + 1 OBVIOUS
<1>5. n \in 0..MaxAccounts /\ Size < MaxAccounts BY <1>4, Ids, Bounds DEF AInv, Insert, Size
<1>6. UNCHANGED <<invite, stuck, changes, crashes>> BY DEF Insert
<1>7. CASE End(q) /\ UNCHANGED users BY <1>1, <1>2, <1>6, <1>7, EndStep
<1>8. CASE /\ users' = [i \in Id \cup {n} |-> IF i = n THEN a ELSE users[i]]
           /\ IF a.admin /\ a.origin # "local" THEN End(q)
              ELSE req' = [req EXCEPT ![q].id = n, ![q].pc = IF a.admin THEN "password" ELSE "accept"]
  <2>1. CASE a.admin /\ a.origin # "local"
    <3>1. req' = [req EXCEPT ![q] = Idle] BY <1>8, <2>1, EndOf
    <3>2. PICK x \in {Idle} \cup Joining : x = Idle OBVIOUS
    <3>3. GoesTo(r, a, n, x) BY <2>1, <3>2 DEF GoesTo
    <3> QED BY <1>1, <1>2, <1>3, <1>4, <1>5, <1>6, <1>8, <3>1, <3>2, <3>3, Inserted
  <2>2. CASE ~(a.admin /\ a.origin # "local")
    <3>1. PICK pc \in {"password", "accept"} : pc = IF a.admin THEN "password" ELSE "accept" OBVIOUS
    <3>2. PICK x : x = [r EXCEPT !.id = n, !.pc = pc] OBVIOUS
    <3>3. /\ x \in Joining /\ x.id = n /\ x.pc = pc /\ x.way = r.way /\ x.person = r.person
          /\ x.before = r.before
      BY <1>5, <3>2 DEF Joining
    <3>4. req' = [req EXCEPT ![q] = x] BY <1>1, <1>8, <2>2, <3>1, <3>2, Move DEF AInv, ATInv
    <3>5. GoesTo(r, a, n, x) BY <2>2, <3>1, <3>3 DEF GoesTo
    <3>6. x \in {Idle} \cup Joining BY <3>3
    <3> QED BY <1>1, <1>2, <1>3, <1>4, <1>5, <1>6, <1>8, <3>4, <3>5, <3>6, Inserted
  <2> QED BY <2>1, <2>2
<1> QED BY <1>3, <1>4, <1>7, <1>8 DEF Insert, Size

-----------------------------------------------------------------------------
(* The theorems.                                                           *)

LEMMA AccountsInitInv == ASSUME AccountsInit PROVE AInv
<1>1. Id = {} BY DEF AccountsInit, Id
<1>2. Size = 0 BY <1>1, FS_EmptySet DEF Size
<1>3. 1..0 = {} OBVIOUS
<1>4. \A q \in Request : req[q] = Idle BY DEF AccountsInit
<1>5. ATInv
  <2>1. users \in [1..Size -> Account] BY <1>2, <1>3 DEF AccountsInit
  <2> QED BY <1>1, <1>2, <1>3, <1>4, <2>1, Idles, Bounds
          DEF ATInv, AccountsTypeOK, AccountsInit, InviteState, Size
<1> QED BY <1>1, <1>4, <1>5, IdleOK
        DEF AInv, OneCallback, RequestsOK, WaysIn, Apart, FirstAdmin, Vetted

LEMMA AccountStep == ASSUME AInv, NEW q \in Request, HandleAccount(q) PROVE AInv'
<1>1. ASSUME NEW p \in Person, Register(q, p) PROVE AInv' BY <1>1, RegisterStep
<1>2. ASSUME NEW p \in Person, NEW w \in Provider, Callback(q, w, p) PROVE AInv' BY <1>2, CallbackStep
<1>3. CASE FindIdentity(q) \/ FindEmail(q) \/ Vet(q) BY <1>3, FindIdentityStep, FindEmailStep, VetStep
<1>4. CASE Insert(q) \/ Accept(q) \/ SetOwnPassword(q) BY <1>4, InsertStep, AcceptStep, SetOwnPasswordStep
<1>5. ASSUME NEW i \in Id, NEW w \in Provider, UnlinkCheck(q, i, w) PROVE AInv' BY <1>5, UnlinkCheckStep
<1>6. ASSUME NEW i \in Id, NEW w \in Provider, NEW p \in Person, LinkLookup(q, i, w, p) PROVE AInv'
  BY <1>6, LinkLookupStep
<1>7. CASE Link(q) \/ Unlink(q) BY <1>7, LinkStep, UnlinkStep
<1> QED BY <1>1, <1>2, <1>3, <1>4, <1>5, <1>6, <1>7 DEF HandleAccount

LEMMA InviteSteps ==
  ASSUME AInv, NEW p \in Person, InviteCreate(p) \/ InviteResend(p) \/ InviteRevoke(p) \/ InviteExpires(p)
  PROVE  AInv'
<1>1. "open" \in InviteState /\ "closed" \in InviteState BY DEF InviteState
<1>2. \/ Invited(p, {"none"}, "open") \/ Invited(p, {"open", "closed"}, "open")
      \/ Invited(p, {"open"}, "closed")
  BY DEF InviteCreate, InviteResend, InviteRevoke, InviteExpires
<1> QED BY <1>1, <1>2, InvitedStep

LEMMA StutterStep == ASSUME AInv, UNCHANGED accounts PROVE AInv'
<1>1. Id' = Id BY DEF accounts, Id
<1>2. Size' = Size BY <1>1 DEF Size
<1>3. ATInv' BY <1>1, <1>2 DEF AInv, ATInv, AccountsTypeOK, accounts, Size
<1>4. OneCallback' BY DEF AInv, OneCallback, accounts
<1>5. TableEdit /\ InvitesKept BY DEF TableEdit, InvitesKept, Same, accounts
<1> QED BY <1>1, <1>3, <1>4, <1>5, EditStep DEF accounts

\* Every step keeps the inductive invariant.
THEOREM AccountsKept == ASSUME AInv, [AccountsNext]_accounts PROVE AInv'
<1>1. ASSUME NEW q \in Request, HandleAccount(q) PROVE AInv' BY <1>1, AccountStep
<1>2. ASSUME NEW p \in Person,
             InviteCreate(p) \/ InviteResend(p) \/ InviteRevoke(p) \/ InviteExpires(p)
      PROVE  AInv'
  BY <1>2, InviteSteps
<1>3. ASSUME NEW i \in Id, SetPassword(i) PROVE AInv' BY <1>3, SetPasswordStep
<1>4. CASE AccountsRestart BY <1>4, RestartStep
<1>5. CASE UNCHANGED accounts BY <1>5, StutterStep
<1> QED BY <1>1, <1>2, <1>3, <1>4, <1>5 DEF AccountsNext

\* Every account can be logged in to, except one whose registration is under way or
\* was cut off by a restart, and one that two overlapping disconnects left without a
\* method.
THEOREM AWayIn == AccountsSpec => []AlwaysAWayIn
<1>1. AccountsInit => AInv BY AccountsInitInv
<1>2. AInv /\ [AccountsNext]_accounts => AInv' BY AccountsKept
<1>3. AInv => AlwaysAWayIn BY DEF AInv, WaysIn, AlwaysAWayIn, Registering
<1> QED BY <1>1, <1>2, <1>3, PTL DEF AccountsSpec

\* Two accounts only share an email, or the admin flag of a first account, when two
\* requests raced for them, one of them not an OAuth callback; the first account is
\* an admin's and the others are the invited's; and a registration sets no password
\* but that of an account made since it began.
THEOREM OnlyTheAdmitted == AccountsSpec => []Admitted
<1>1. AccountsInit => AInv BY AccountsInitInv
<1>2. AInv /\ [AccountsNext]_accounts => AInv' BY AccountsKept
<1>3. ASSUME AInv PROVE Admitted
  <2>1. AccountsTypeOK /\ Apart /\ FirstAdmin /\ Vetted BY <1>3 DEF AInv, ATInv
  <2>2. ASSUME NEW q \in Request, req[q].pc = "password" PROVE req[q].id > req[q].before
    BY <1>3, <2>2, Stands DEF JoinOK
  <2> QED BY <2>1, <2>2 DEF Admitted, Apart, FirstAdmin, Vetted, Accepting
<1> QED BY <1>1, <1>2, <1>3, PTL DEF AccountsSpec
=============================================================================
