----------------------------- MODULE MCLibrary -----------------------------
(***************************************************************************)
(* What the app keeps about one user's library, for model checking: the    *)
(* progress of a series, the personal layer and its backups, the weekly    *)
(* recommendations and the push subscriptions.  The components share no    *)
(* variable, so a behaviour of all of them is an interleaving of           *)
(* behaviours of each: one run checks them one at a time, the one that     *)
(* moves chosen at the start and named by focus.                           *)
(***************************************************************************)
EXTENDS SeriesProgress, Library, Recommender, WebPush

CONSTANT Focus

VARIABLE focus

vars == <<focus, series, library, recommender, push>>

LowerCase == [comfort |-> "comfort", Comfort |-> "comfort", long |-> "long"]
Bulk == {<<"Comfort", "long">>}
Submitted ==
  {[text |-> Blank, tags |-> <<>>, priority |-> Unset],
   [text |-> "drop", tags |-> <<"comfort">>, priority |-> 1],
   [text |-> Blank, tags |-> <<"comfort", "Comfort">>, priority |-> Unset]}

\* All prequel graphs of up to four relations, every library that lacks title 1.
Graphs == {f \in [Anime -> SUBSET Anime] :
             /\ \A a \in Anime : a \notin f[a]
             /\ Cardinality(UNION {{a} \X f[a] : a \in Anime}) <= 4}
Libraries == {f \in [Anime -> {"NONE", "COMPLETED", "PAUSED"}] : f[1] = "NONE"}
OneSequel == [a \in Anime |-> IF a = 1 THEN {4} ELSE {}]
NothingListed == [a \in Anime |-> "NONE"]
GenresOf == [a \in Anime |-> IF a = 1 THEN {"g"} ELSE IF a = 2 THEN {"g", "h"} ELSE {"h"}]
Known == {Anime, Anime \ {2}}

\* What a component does not move starts in one of its initial states.
Init ==
  /\ focus \in Focus
  /\ script \in IF focus = "progress" THEN Script ELSE {"plex"}
  /\ total \in IF focus = "progress" THEN Totals ELSE {0}
  /\ ProgressInit
  /\ focus # "progress" => entry = Untracked
  /\ LibraryInit
  /\ prequels \in IF focus = "walk" THEN Franchises ELSE {OneSequel}
  /\ standing \in IF focus = "walk" THEN Listed ELSE {NothingListed}
  /\ RecommenderInit
  /\ DOMAIN recs \subseteq IF focus = "run" THEN {2} ELSE {}
  /\ PushInit

Next ==
  \/ focus = "progress" /\ ProgressNext /\ forced' + kills' <= 1 /\ UNCHANGED <<focus, library, recommender, push>>
  \/ focus = "personal" /\ PersonalNext /\ UNCHANGED <<focus, series, recommender, push>>
  \/ focus = "noting" /\ NotingNext /\ UNCHANGED <<focus, series, recommender, push>>
  \/ focus = "backup" /\ BackupNext /\ writes' < MaxWrites /\ UNCHANGED <<focus, series, recommender, push>>
  \/ focus = "walk" /\ (Discover({1}, {}) \/ ScoreCandidates \/ \E known \in Lookups : Fetch(known)) /\ UNCHANGED <<focus, series, library, push>>
  \/ focus = "run" /\ RecommenderNext /\ UNCHANGED <<focus, series, library, push>>
  \/ focus = "push" /\ PushNext /\ UNCHANGED <<focus, series, library, recommender>>

Spec == Init /\ [][Next]_vars
=============================================================================
