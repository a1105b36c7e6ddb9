------------------------------- MODULE WebPush -------------------------------
(***************************************************************************)
(* Web Push (app/vapid.py, app/notify.py, app/main.py): the instance's key *)
(* pair, made by whoever first finds it missing and stored as two settings *)
(* in two statements, the browsers that subscribe with the public half a   *)
(* settings page gave them, and the sender that signs with the private     *)
(* half and deletes the subscriptions the push service no longer knows.    *)
(***************************************************************************)
EXTENDS Integers, Sequences, FiniteSets

CONSTANTS
  Browser,   \* browsers, each with its settings page
  Sender,    \* threads that call notify
  MaxPairs,  \* model bound on key pairs generated
  MaxSubs,   \* model bound on subscriptions of a browser, each with an endpoint of its own
  MaxStops   \* model bound on restarts of the app

ASSUME PushAssumption == {MaxPairs, MaxSubs, MaxStops} \subseteq Nat /\ Browser \cap Sender = {}

Caller == Browser \cup Sender
None == 0
Pair == 1..MaxPairs
Half == Pair \cup {None}
Endpoint == Browser \X (1..MaxSubs)

VARIABLES
  stored,  \* instance_config: the pair each stored half is of
  pairs,   \* pairs generated so far
  calls,   \* get_or_create_keypair in each caller
  pages,   \* the public half each open settings page holds
  sound,   \* ghost: pages opened when both halves were of one pair nobody was replacing
  bound,   \* the browser's subscription: an endpoint and the public half it is for
  made,    \* subscriptions made so far
  rows,    \* push_subscriptions, by endpoint
  sending, \* the subscriptions each sender has still to send to, and its private half
  stops

push == <<stored, pairs, calls, pages, sound, bound, made, rows, sending, stops>>

NoCall == [pc |-> "idle"]
NotBound == [n |-> 0, key |-> None, sound |-> FALSE]

PushTypeOK ==
  /\ stored \in [private: Half, public: Half] /\ pairs \in 0..MaxPairs
  /\ \A c \in Caller : calls[c].pc \in {"idle", "private", "decide", "storePrivate", "storePublic", "return"}
  /\ pages \in [Browser -> Half] /\ sound \subseteq Browser
  /\ bound \in [Browser -> [n: 0..MaxSubs, key: Half, sound: BOOLEAN]] /\ made \in [Browser -> 0..MaxSubs]
  /\ rows \subseteq Endpoint

PushInit ==
  /\ stored = [private |-> None, public |-> None] /\ pairs = 0
  /\ calls = [c \in Caller |-> NoCall]
  /\ pages = [b \in Browser |-> None] /\ sound = {}
  /\ bound = [b \in Browser |-> NotBound] /\ made = [b \in Browser |-> 0]
  /\ rows = {} /\ sending = [s \in Sender |-> [todo |-> {}, key |-> None]]
  /\ stops = 0

-----------------------------------------------------------------------------
\* get_or_create_keypair, a statement a step.
Goes(c, call) ==
  /\ calls' = [calls EXCEPT ![c] = call]
  /\ UNCHANGED <<pages, sound, bound, made, rows, sending, stops>>

Call(c) ==
  /\ calls[c] = NoCall /\ (c \in Sender => sending[c].todo = {})
  /\ Goes(c, [pc |-> "private"]) /\ UNCHANGED <<stored, pairs>>

ReadPrivate(c) ==
  /\ calls[c].pc = "private"
  /\ Goes(c, [pc |-> "decide", private |-> stored.private]) /\ UNCHANGED <<stored, pairs>>

\* Both halves there: they are used as read.  Otherwise a new pair is generated.
ReadPublic(c) ==
  /\ calls[c].pc = "decide"
  /\ UNCHANGED stored
  /\ IF calls[c].private # None /\ stored.public # None
     THEN /\ Goes(c, [pc |-> "return", private |-> calls[c].private, public |-> stored.public])
          /\ UNCHANGED pairs
     ELSE /\ pairs < MaxPairs /\ pairs' = pairs + 1
          /\ Goes(c, [pc |-> "storePrivate", private |-> pairs + 1, public |-> pairs + 1])

StorePrivate(c) ==
  /\ calls[c].pc = "storePrivate"
  /\ stored' = [stored EXCEPT !.private = calls[c].private]
  /\ Goes(c, [calls[c] EXCEPT !.pc = "storePublic"]) /\ UNCHANGED pairs

StorePublic(c) ==
  /\ calls[c].pc = "storePublic"
  /\ stored' = [stored EXCEPT !.public = calls[c].public]
  /\ Goes(c, [calls[c] EXCEPT !.pc = "return"]) /\ UNCHANGED pairs

\* Nobody is about to store a half, and those stored belong together.
Settled == /\ stored.private = stored.public /\ stored.private # None
           /\ \A c \in Caller : calls[c].pc \notin {"storePrivate", "storePublic"}
           /\ \A c \in Caller : calls[c].pc = "decide" => calls[c].private # None

\* settings_page renders the public half into the page.
PageShown(b) ==
  /\ calls[b].pc = "return"
  /\ pages' = [pages EXCEPT ![b] = calls[b].public]
  /\ sound' = IF Settled /\ calls[b].public = stored.public THEN sound \cup {b} ELSE sound \ {b}
  /\ calls' = [calls EXCEPT ![b] = NoCall]
  /\ UNCHANGED <<stored, pairs, bound, made, rows, sending, stops>>

-----------------------------------------------------------------------------
\* The button on the settings page.

\* PushManager.subscribe, then settings_push_subscribe; when that is lost the
\* browser stays subscribed without a row.
Subscribe(b) ==
  /\ pages[b] # None /\ bound[b] = NotBound /\ made[b] < MaxSubs
  /\ made' = [made EXCEPT ![b] = @ + 1]
  /\ \/ /\ rows' = rows \cup {<<b, made[b] + 1>>}
        /\ bound' = [bound EXCEPT ![b] = [n |-> made[b] + 1, key |-> pages[b], sound |-> b \in sound]]
     \/ /\ UNCHANGED rows
        /\ bound' = [bound EXCEPT ![b] = [n |-> made[b] + 1, key |-> pages[b], sound |-> FALSE]]
  /\ UNCHANGED <<stored, pairs, calls, pages, sound, sending, stops>>

\* The browser first, then settings_push_unsubscribe, which may be lost.
Unsubscribe(b) ==
  /\ pages[b] # None /\ bound[b] # NotBound
  /\ bound' = [bound EXCEPT ![b] = NotBound]
  /\ rows' \in {rows, rows \ {<<b, bound[b].n>>}}
  /\ UNCHANGED <<stored, pairs, calls, pages, sound, made, sending, stops>>

\* The push service discards the subscription: browser data cleared, say.
Discard(b) ==
  /\ bound[b] # NotBound
  /\ bound' = [bound EXCEPT ![b] = NotBound]
  /\ UNCHANGED <<stored, pairs, calls, pages, sound, made, rows, sending, stops>>

-----------------------------------------------------------------------------
\* WebPushChannel.send, the subscriptions read at once.
Sends(s) ==
  /\ s \in Sender /\ calls[s].pc = "return" /\ rows # {}
  /\ sending' = [sending EXCEPT ![s] = [todo |-> rows, key |-> calls[s].private]]
  /\ calls' = [calls EXCEPT ![s] = NoCall]
  /\ UNCHANGED <<stored, pairs, pages, sound, bound, made, rows, stops>>

\* What the push service answers to a push for endpoint e signed with key.
Answer(e, key) ==
  IF bound[e[1]].n # e[2] THEN "gone" ELSE IF bound[e[1]].key # key THEN "forbidden" ELSE "ok"

\* Mutant of Push: a refused push deletes the row too.
PushOrForget(s, e) ==
  /\ e \in sending[s].todo
  /\ sending' = [sending EXCEPT ![s].todo = @ \ {e}]
  /\ rows' = IF Answer(e, sending[s].key) = "ok" THEN rows ELSE rows \ {e}
  /\ UNCHANGED <<stored, pairs, calls, pages, sound, bound, made, stops>>

\* Only 404 and 410 delete the row; anything else is logged.
Push(s, e) ==
  /\ e \in sending[s].todo
  /\ sending' = [sending EXCEPT ![s].todo = @ \ {e}]
  /\ rows' \in {rows, IF Answer(e, sending[s].key) = "gone" THEN rows \ {e} ELSE rows}
  /\ UNCHANGED <<stored, pairs, calls, pages, sound, bound, made, stops>>

\* The app restarts: calls and sends end where they are, pages stay open.
Stop ==
  /\ stops < MaxStops /\ stops' = stops + 1
  /\ calls' = [c \in Caller |-> NoCall]
  /\ sending' = [s \in Sender |-> [todo |-> {}, key |-> None]]
  /\ UNCHANGED <<stored, pairs, pages, sound, bound, made, rows>>

PushNext ==
  \/ \E c \in Caller : Call(c) \/ ReadPrivate(c) \/ ReadPublic(c) \/ StorePrivate(c) \/ StorePublic(c)
  \/ \E b \in Browser : PageShown(b) \/ Subscribe(b) \/ Unsubscribe(b) \/ Discard(b)
  \/ \E s \in Sender : Sends(s) \/ \E e \in rows \cup sending[s].todo : Push(s, e)
  \/ Stop

PushSpec == PushInit /\ [][PushNext]_push

-----------------------------------------------------------------------------
\* A browser that subscribed from a page opened once the key pair had settled gets
\* what is sent to it for as long as it is subscribed: its row stays, whatever the
\* answers for other rows, and the pair that signs stays the one it trusts
\* (get_or_create_keypair, WebPushChannel.send).
Reachable ==
  \A b \in Browser : bound[b].sound => <<b, bound[b].n>> \in rows /\ stored.private = bound[b].key
=============================================================================
