------------------------------ MODULE MCAlerts ------------------------------
(***************************************************************************)
(* The hourly and daily jobs for model checking.  Their components share   *)
(* no variable, so a behaviour of all of them is an interleaving of        *)
(* behaviours of each: one run checks them one at a time, the one that     *)
(* moves chosen at the start and named by focus.                           *)
(***************************************************************************)
EXTENDS AiringAlerts, Signals, Catalogue

VARIABLE focus

vars == <<focus, airing, signals, catalogue>>

\* What a component does not move starts in one of its initial states.
Init ==
  /\ focus \in {"airing", "availability", "health", "catalogue"}
  /\ AiringInit /\ SignalsInit /\ CatalogueInit
  /\ focus # "airing" => (\A k \in Key : airsAt[k] = 0) /\ \A u \in Follower : seen[u] = NoVisit
  /\ focus # "availability" => streams = {}
  /\ focus # "catalogue" => script = "filler" /\ \A t \in Id : remote[t]["EPISODES"] = Absent

Next ==
  \/ focus = "airing" /\ AiringNext /\ UNCHANGED <<focus, signals, catalogue>>
  \/ focus = "availability" /\ AvailabilityNext /\ UNCHANGED <<focus, airing, catalogue>>
  \/ focus = "health" /\ HealthNext /\ UNCHANGED <<focus, airing, catalogue>>
  \/ focus = "catalogue" /\ CatalogueNext /\ UNCHANGED <<focus, airing, signals>>

Spec == Init /\ [][Next]_vars

\* The hourly job runs to its end and so do the scripts; when users come and when
\* jobs fail is left open.
FairSpec ==
  /\ Spec
  /\ WF_vars(focus = "airing" /\ CheckStep /\ UNCHANGED <<focus, signals, catalogue>>)
  /\ WF_vars(focus = "catalogue" /\ CatalogueStep /\ UNCHANGED <<focus, airing, signals>>)

\* TitlesRechecked, in the behaviours whose catalogue scripts run
\* (_sync_filler_data, _sync_manga_data).
CatalogueRechecked == focus = "catalogue" => TitlesRechecked
=============================================================================
