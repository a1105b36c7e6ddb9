------------------------------- MODULE Signals -------------------------------
(***************************************************************************)
(* Alerts on a change of a polled condition (app/main.py).                 *)
(*                                                                         *)
(* _check_streaming_availability runs at the end of a user's sync, after   *)
(* the sync's single-flight flag is free, so two of them may overlap.  It  *)
(* compares what the library says of each Planning title with the row of   *)
(* planning_availability_state left by earlier checks.  One user: the rows *)
(* of users are apart.                                                     *)
(*                                                                         *)
(* _check_health_signals runs hourly, one at a time, and compares the      *)
(* pending migrations and the last AniList rate limit with what            *)
(* instance_config says was alerted last.                                  *)
(***************************************************************************)
EXTENDS Integers, FiniteSets

CONSTANTS
  Title,      \* titles of the user
  Checker,    \* availability checks that may be under way
  MaxFlips,   \* model bound on changes of the polled conditions
  MaxChecks,  \* model bound on checks
  MaxCrashes  \* model bound on database errors and restarts

ASSUME SignalsAssumption == {MaxFlips, MaxChecks, MaxCrashes} \subseteq Nat

VARIABLES
  planning,  \* titles with status PLANNING
  streams,   \* titles with a streaming link in anime.external_links
  ledger,    \* planning_availability_state: had_availability, or "none"
  scan,      \* the availability checks: rows of their query still to handle
  pending,   \* pending migrations (0: none)
  limit,     \* the last rate limit: its number and whether it is active
  alarm,     \* the two values in instance_config, 0 for the empty string
  health,    \* _check_health_signals: program point and values read
  gains,     \* ghost: how often a title gained its link
  alerts,    \* ghost: how often the user was alerted of a title
  overlaps,  \* ghost: checks begun while another was under way
  fresh,     \* ghost: conditions that changed since their last alert
  repeats,   \* ghost: alerts of a condition that had not changed
  flips, checks, crashes

avail == <<planning, streams, ledger, scan, gains, alerts, overlaps>>
status == <<pending, limit, alarm, health, fresh, repeats>>
signals == <<avail, status, flips, checks, crashes>>

Signal == {"migrations", "rate_limit"}
Had == {"none", "no", "yes"}
YesNo(b) == IF b THEN "yes" ELSE "no"

SignalsTypeOK ==
  /\ planning \subseteq Title /\ streams \subseteq Title
  /\ ledger \in [Title -> Had]
  /\ scan \in [Checker -> SUBSET [title: Title, has: BOOLEAN, had: Had, sent: BOOLEAN]]
  /\ pending \in Nat /\ limit \in [id: Nat, active: BOOLEAN]
  /\ alarm \in [Signal -> Nat]
  /\ health \in [pc: {"idle", "migrations", "rate_limit", "store"}, at: Signal, value: Nat]

SignalsInit ==
  /\ planning = Title /\ streams \in SUBSET Title
  /\ ledger = [t \in Title |-> "none"]
  /\ scan = [c \in Checker |-> {}]
  /\ pending = 0 /\ limit = [id |-> 0, active |-> FALSE]
  /\ alarm = [s \in Signal |-> 0]
  /\ health = [pc |-> "idle", at |-> "migrations", value |-> 0]
  /\ gains = [t \in Title |-> 0] /\ alerts = [t \in Title |-> 0]
  /\ overlaps = 0 /\ fresh = {} /\ repeats = 0
  /\ flips = 0 /\ checks = 0 /\ crashes = 0

Flip == flips < MaxFlips /\ flips' = flips + 1

-----------------------------------------------------------------------------
(* Streaming availability.                                                 *)

\* A sync finds a link added or gone (refresh_external_links, anime upsert).
LinkChanges(t) ==
  /\ Flip
  /\ streams' = IF t \in streams THEN streams \ {t} ELSE streams \cup {t}
  /\ gains' = IF t \in streams THEN gains ELSE [gains EXCEPT ![t] = @ + 1]
  /\ UNCHANGED <<planning, ledger, scan, alerts, overlaps, checks, crashes, status>>

PlanChanges(t) ==
  /\ Flip
  /\ planning' = IF t \in planning THEN planning \ {t} ELSE planning \cup {t}
  /\ UNCHANGED <<streams, ledger, scan, gains, alerts, overlaps, checks, crashes, status>>

\* The query, read as a whole before the loop.
ScanBegins(c) ==
  /\ checks < MaxChecks /\ checks' = checks + 1
  /\ scan[c] = {}
  /\ scan' = [scan EXCEPT ![c] =
       {[title |-> t, has |-> t \in streams, had |-> ledger[t], sent |-> FALSE] : t \in planning}]
  /\ overlaps' = IF \E d \in Checker : scan[d] # {} THEN overlaps + 1 ELSE overlaps
  /\ UNCHANGED <<planning, streams, ledger, gains, alerts, flips, crashes, status>>

Handled(c, r) == [scan EXCEPT ![c] = @ \ {r}]

\* INSERT ... ON CONFLICT DO NOTHING for a title seen for the first time.
Baseline(c, r) ==
  /\ r.had = "none"
  /\ ledger' = [ledger EXCEPT ![r.title] = IF @ = "none" THEN YesNo(r.has) ELSE @]
  /\ scan' = Handled(c, r)
  /\ UNCHANGED alerts

NoTransition(c, r) ==
  /\ r.had = YesNo(r.has)
  /\ scan' = Handled(c, r)
  /\ UNCHANGED <<ledger, alerts>>

Lost(c, r) ==
  /\ r.had = "yes" /\ ~r.has
  /\ ledger' = [ledger EXCEPT ![r.title] = "no"]
  /\ scan' = Handled(c, r)
  /\ UNCHANGED alerts

\* Mutant of Gained: the transition is not recorded.
GainedUnrecorded(c, r) ==
  /\ r.had = "no" /\ r.has
  /\ alerts' = [alerts EXCEPT ![r.title] = @ + 1]
  /\ scan' = Handled(c, r)
  /\ UNCHANGED ledger

\* notify(), then the update.
Gained(c, r) ==
  /\ r.had = "no" /\ r.has
  /\ IF r.sent
     THEN /\ ledger' = [ledger EXCEPT ![r.title] = "yes"]
          /\ scan' = Handled(c, r)
          /\ UNCHANGED alerts
     ELSE /\ alerts' = [alerts EXCEPT ![r.title] = @ + 1]
          /\ scan' = [scan EXCEPT ![c] = (@ \ {r}) \cup {[r EXCEPT !.sent = TRUE]}]
          /\ UNCHANGED ledger

\* One row of the loop; a row whose alert is out is finished first.
ScanRow(c, r) ==
  /\ r \in scan[c] /\ (r.sent \/ \A q \in scan[c] : ~q.sent)
  /\ Baseline(c, r) \/ NoTransition(c, r) \/ Lost(c, r) \/ Gained(c, r)
  /\ UNCHANGED <<planning, streams, gains, overlaps, flips, checks, crashes, status>>

\* An exception or a restart ends the check where it is.
ScanDies(c) ==
  /\ scan[c] # {} /\ crashes < MaxCrashes /\ crashes' = crashes + 1
  /\ scan' = [scan EXCEPT ![c] = {}]
  /\ UNCHANGED <<planning, streams, ledger, gains, alerts, overlaps, flips, checks, status>>

-----------------------------------------------------------------------------
(* Health signals.                                                         *)

\* A deploy raises, an applied migration lowers the number of pending ones.
PendingChanges(n) ==
  /\ Flip /\ n # pending
  /\ pending' = n /\ fresh' = fresh \cup {"migrations"}
  /\ UNCHANGED <<limit, alarm, health, repeats, checks, crashes, avail>>

\* A 429 is recorded (anilist_rate_limit_state), or its window passes.
Limited ==
  /\ Flip
  /\ limit' = [id |-> limit.id + 1, active |-> TRUE] /\ fresh' = fresh \cup {"rate_limit"}
  /\ UNCHANGED <<pending, alarm, health, repeats, checks, crashes, avail>>

Resumed ==
  /\ limit.active /\ limit' = [limit EXCEPT !.active = FALSE]
  /\ UNCHANGED <<pending, alarm, health, fresh, repeats, flips, checks, crashes, avail>>

HealthBegins ==
  /\ checks < MaxChecks /\ checks' = checks + 1
  /\ health.pc = "idle" /\ health' = [health EXCEPT !.pc = "migrations"]
  /\ UNCHANGED <<pending, limit, alarm, fresh, repeats, flips, crashes, avail>>

\* The signal's present value, 0 when all is well.
Value(s) == IF s = "migrations" THEN pending ELSE IF limit.active THEN limit.id ELSE 0

\* Where the check goes on after signal s.
After(s) == IF s = "migrations" THEN "rate_limit" ELSE "idle"

\* Mutant of Compare: a signal that is still bad counts as new.
CompareBad(s) == Value(s) # 0

\* "a repeat alert only fires when that value actually changes".
Compare(s) == Value(s) # 0 /\ Value(s) # alarm[s]

\* One signal: alert the admins, or forget a signal that has cleared, or nothing.
HealthReads(s) ==
  /\ health.pc = s
  /\ \/ /\ Compare(s)
        /\ health' = [pc |-> "store", at |-> s, value |-> Value(s)]
        /\ repeats' = IF s \in fresh THEN repeats ELSE repeats + 1
        /\ fresh' = fresh \ {s} /\ UNCHANGED alarm
     \/ /\ ~Compare(s)
        /\ health' = [health EXCEPT !.pc = After(s)]
        /\ alarm' = IF Value(s) = 0 THEN [alarm EXCEPT ![s] = 0] ELSE alarm
        /\ UNCHANGED <<fresh, repeats>>
  /\ UNCHANGED <<pending, limit, flips, checks, crashes, avail>>

\* _instance_config_set after the alerts.
HealthStores ==
  /\ health.pc = "store"
  /\ alarm' = [alarm EXCEPT ![health.at] = health.value]
  /\ health' = [health EXCEPT !.pc = After(health.at), !.value = 0]
  /\ UNCHANGED <<pending, limit, fresh, repeats, flips, checks, crashes, avail>>

\* _pending_migration_count takes a database error for "nothing pending".
PendingUnknown ==
  /\ health.pc = "migrations" /\ crashes < MaxCrashes /\ crashes' = crashes + 1
  /\ alarm' = [alarm EXCEPT !["migrations"] = 0]
  /\ health' = [health EXCEPT !.pc = "rate_limit"]
  /\ UNCHANGED <<pending, limit, fresh, repeats, flips, checks, avail>>

HealthDies ==
  /\ health.pc # "idle" /\ crashes < MaxCrashes /\ crashes' = crashes + 1
  /\ health' = [pc |-> "idle", at |-> "migrations", value |-> 0]
  /\ UNCHANGED <<pending, limit, alarm, fresh, repeats, flips, checks, avail>>

AvailabilityNext ==
  \/ \E t \in Title : LinkChanges(t) \/ PlanChanges(t)
  \/ \E c \in Checker : ScanBegins(c) \/ ScanDies(c) \/ \E r \in scan[c] : ScanRow(c, r)

HealthNext ==
  \/ \E n \in 0..2 : PendingChanges(n)
  \/ Limited \/ Resumed \/ HealthBegins \/ HealthStores \/ PendingUnknown \/ HealthDies
  \/ \E s \in Signal : HealthReads(s)

-----------------------------------------------------------------------------
(* Properties.                                                             *)

\* "a false -> true flip fires exactly one notification": titles available when
\* first seen raise none, a link that comes back raises a new one, and only a
\* check that overlapped another or died between alert and row repeats one.  An
\* admin is told again of a health signal only when it changed, unless a
\* failure hid that it was known.
SignalledOnce ==
  /\ SignalsTypeOK
  /\ \A t \in Title : alerts[t] <= gains[t] + overlaps + crashes
  /\ repeats <= crashes
=============================================================================
