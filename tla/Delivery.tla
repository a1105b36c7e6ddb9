------------------------------ MODULE Delivery ------------------------------
(***************************************************************************)
(* What local-first delivery promises, without saying how: an update a     *)
(* user or a provider sync makes is owed to AniList until AniList has it   *)
(* or a newer one, a newer update replaces it, a confirmed card edit       *)
(* clears it, or it is put aside as failed for the user to revive.         *)
(* Attempts, batches, the worker's program point, requests in progress and *)
(* crashes are not part of the promise.  OutboxHistory implements it.      *)
(***************************************************************************)
EXTENDS Integers

CONSTANTS Anime, Field, Edit, Editors   \* as in Outbox: Edit numbers the updates

VARIABLES
  owed,  \* updates queued or being pushed: [anime, at, fields]
  shelf, \* updates put aside as failed
  held,  \* per anime and field, the edit whose value AniList holds
  card   \* per editor: the anime whose status edit AniList just confirmed, or none

dvars == <<owed, shelf, held, card>>

NoCard == [anime |-> "none"]
Card(a) == [anime |-> a]

Update == [anime: Anime, at: Edit, fields: (SUBSET Field) \ {{}}]

DInit == /\ owed = {} /\ shelf = {} /\ held \in [Anime -> [Field -> Edit]]
         /\ card = [e \in Editors |-> NoCard]

\* One new update for each of some animes takes the place of their older ones; of
\* those, some may already be on their way to AniList and stay owed.
Queue ==
  LET new == owed' \ owed
      of(u) == {v \in new : v.anime = u.anime}
      others(U) == {u \in U : of(u) = {}}
  IN /\ new # {} /\ UNCHANGED <<held, card>>
     /\ \A u, v \in new : u.at = v.at /\ u.fields = v.fields
     /\ \A u \in new, v \in owed \cup shelf : v.at < u.at
     /\ others(owed) \subseteq owed' /\ shelf' = others(shelf)

\* AniList takes an edit of one anime: a pushed update, possibly one that is owed
\* no more, a card edit, or an edit made elsewhere.
Accept ==
  /\ UNCHANGED <<owed, shelf>>
  /\ \E a \in Anime, n \in Edit :
       /\ \A b \in Anime, f \in Field : held'[b][f] \in {held[b][f]} \cup (IF b = a THEN {n} ELSE {})
       /\ \/ UNCHANGED card
          \/ \E e \in Editors : card[e] = NoCard /\ card' = [card EXCEPT ![e] = Card(a)]

\* An update is settled when AniList holds its values or newer ones.
Settle(u) ==
  /\ \A f \in u.fields : held[u.anime][f] >= u.at
  /\ owed' = owed \ {u}
  /\ UNCHANGED <<shelf, held, card>>

GiveUp(u) == owed' = owed \ {u} /\ shelf' = shelf \cup {u} /\ UNCHANGED <<held, card>>

Revive(a) ==
  /\ owed' = owed \cup {u \in shelf : u.anime = a}
  /\ shelf' = {u \in shelf : u.anime # a}
  /\ UNCHANGED <<held, card>>

\* The confirmed card edit clears what is owed for its anime.
Clear(e) ==
  /\ card[e] # NoCard /\ card' = [card EXCEPT ![e] = NoCard]
  /\ owed' = {u \in owed : u.anime # card[e].anime}
  /\ shelf' = {u \in shelf : u.anime # card[e].anime}
  /\ UNCHANGED held

\* A card edit cut short by a restart clears nothing.
Abandon == card' = [e \in Editors |-> NoCard] /\ UNCHANGED <<owed, shelf, held>>

DNext ==
  \/ Queue \/ Accept \/ Abandon
  \/ \E u \in owed : Settle(u) \/ GiveUp(u)
  \/ \E a \in Anime : Revive(a)
  \/ \E e \in Editors : Clear(e)

DSpec == DInit /\ [][DNext]_dvars
=============================================================================
