----------------------------- MODULE Recommender -----------------------------
(***************************************************************************)
(* The weekly recommender (scripts/run_recommender.py) and the user's      *)
(* decisions about what it shows (app/main.py).  A run reads the library,  *)
(* asks AniList for candidates for minutes, reads the library again to     *)
(* hold back sequels of what is not finished, scores the others, ranks     *)
(* them together with the rows of earlier runs and commits once.           *)
(*                                                                         *)
(* How a score comes about is left open: a candidate gets one of Score.    *)
(* What a run knows of prequel relations (a local row, a lookup, nothing   *)
(* after a failed lookup) is a set of titles drawn per run.                *)
(***************************************************************************)
EXTENDS Integers, Sequences, FiniteSets, SequencesExt

CONSTANTS
  Anime,      \* the titles
  Franchises, \* prequel relations considered: functions from Anime to sets of titles
  Listed,     \* libraries considered at the start: functions from Anime to Standing
  Moves,      \* statuses the user moves titles to
  Suggested,  \* what AniList recommends to who liked what this user liked
  Season,     \* what AniList lists for the season
  Lookups,    \* sets of titles whose relations a run may get to know
  Genres,     \* Genres[a]: the genres of a
  Score,      \* scores of candidates, the best 100
  MaxHops,    \* MAX_PREQUEL_CHAIN_HOPS
  Pool,       \* DIVERSITY_POOL
  MaxRuns,    \* model bound on runs
  MaxActs     \* model bound on what the user does

Hide == {"WATCHING", "PLANNING", "PAUSED", "DROPPED"}
Standing == Hide \cup {"COMPLETED", "REPEATING", "NONE"}

ASSUME RecommenderAssumption ==
  /\ IsFiniteSet(Anime)
  /\ Franchises \subseteq [Anime -> SUBSET Anime] /\ Listed \subseteq [Anime -> Standing] /\ Moves \subseteq Standing
  /\ Suggested \cup Season \subseteq Anime /\ Lookups \subseteq SUBSET Anime
  /\ Score \subseteq 0..100 /\ 100 \in Score
  /\ {MaxHops, Pool, MaxRuns, MaxActs} \subseteq Nat

VARIABLES
  prequels, \* the PREQUEL relations
  standing, \* status of each title in library_entries
  recs,     \* recommendation_scores of the user
  job,      \* the run under way
  ranked,   \* ghost: a run has ended well
  runs, acts

recommender == <<prequels, standing, recs, job, ranked, runs, acts>>

NoRank == 0
Rec == [score: 0..100, source: {"similarity", "seasonal"}, rank: Nat, dismissed: BOOLEAN, snoozed: BOOLEAN]
NotRunning == [pc |-> "idle"]

RecommenderTypeOK ==
  /\ standing \in [Anime -> Standing]
  /\ DOMAIN recs \subseteq Anime /\ \A a \in DOMAIN recs : recs[a] \in Rec
  /\ job.pc \in {"idle", "fetch", "score", "rank", "store"}

\* Rows of runs before diversity_rank was added have none.
RecommenderInit ==
  /\ prequels \in Franchises /\ standing \in Listed
  /\ recs \in {[a \in old |-> [score |-> 100, source |-> "similarity", rank |-> NoRank, dismissed |-> FALSE, snoozed |-> FALSE]] :
                 old \in {{}} \cup {{a} : a \in Anime}}
  /\ job = NotRunning /\ ranked = FALSE /\ runs = 0 /\ acts = 0

-----------------------------------------------------------------------------
\* Step 1 to 3: the planned titles, and what AniList recommends or lists for the
\* season and the library does not have.
Planned == {a \in Anime : standing[a] = "PLANNING"}
Similar == {a \in Suggested : standing[a] = "NONE"}
Seasonal == {a \in Season : standing[a] = "NONE"}

Discover(similar, seasonal) ==
  /\ job = NotRunning /\ runs < MaxRuns
  /\ similar \subseteq Similar /\ seasonal \subseteq Seasonal
  /\ job' = [pc |-> "fetch", candidates |-> similar \cup Planned \cup seasonal, seasonal |-> seasonal]
  /\ runs' = runs + 1
  /\ UNCHANGED <<prequels, standing, recs, ranked, acts>>

\* Step 4: details, with relations, of candidates that have none or old ones.
Fetch(known) ==
  /\ job.pc = "fetch"
  /\ job' = [pc |-> "score", candidates |-> job.candidates, seasonal |-> job.seasonal, known |-> known]
  /\ UNCHANGED <<prequels, standing, recs, ranked, runs, acts>>

\* _has_unwatched_prequel: a walk over the relations the run knows, nearest first,
\* that stops at what is finished and goes on past what is not in the library.
Prequels(a, known) == IF a \in known THEN prequels[a] ELSE {}

\* A walk under way: what it has yet to look at, and has seen, of what the run knows.
Visit == [id: Anime, hops: 0..MaxHops]
Walks == [queue: Seq(Visit), visited: SUBSET Anime, known: SUBSET Anime]

\* What the front of the queue leads to, and the walk after it.
Found(w) ==
  LET at == Head(w.queue) IN IF at.hops >= MaxHops THEN {} ELSE Prequels(at.id, w.known) \ w.visited

Onward(w) ==
  LET on == SetToSeq({p \in Found(w) : standing[p] # "COMPLETED"})
      hops == Head(w.queue).hops + 1
  IN [queue |-> Tail(w.queue) \o [i \in DOMAIN on |-> [id |-> on[i], hops |-> hops]],
      visited |-> w.visited \cup Found(w), known |-> w.known]

Walk[w \in Walks] ==
  IF w.queue = <<>> THEN FALSE
  ELSE (\E p \in Found(w) : standing[p] \in Hide) \/ Walk[Onward(w)]

\* Mutant of HasUnwatchedPrequel: the direct prequels only.
DirectPrequelUnwatched(a, known) == \E p \in Prequels(a, known) : standing[p] \in Hide

HasUnwatchedPrequel(a, known) == Walk[[queue |-> <<[id |-> a, hops |-> 0]>>, visited |-> {a}, known |-> known]]

\* What score_candidate may make of them, the best brought to 100.
Scored(candidates) ==
  {s \in [candidates -> Score] : candidates # {} => \E a \in candidates : s[a] = 100}

\* Step 5, the first half of score_and_store, on the library as it is by now.
ScoreCandidates ==
  /\ job.pc = "score"
  /\ \E scores \in Scored({a \in job.candidates : ~HasUnwatchedPrequel(a, job.known)}) :
       job' = [pc |-> "rank", scores |-> scores, seasonal |-> job.seasonal,
               candidates |-> job.candidates, known |-> job.known, saw |-> standing]
  /\ UNCHANGED <<prequels, standing, recs, ranked, runs, acts>>

\* 12000 times the value _diversity_rerank maximises: 0.7 of the score over 100 less
\* 0.3 of the largest overlap with a title chosen before.
Overlap(a, b) == IF Genres[a] \cup Genres[b] = {} THEN 0
                 ELSE (3600 * Cardinality(Genres[a] \cap Genres[b])) \div Cardinality(Genres[a] \cup Genres[b])
Value(a, score, chosen) == 84 * score - (IF chosen = {} THEN 0 ELSE Max({Overlap(a, b) : b \in chosen}))

\* The orders _diversity_rerank may return; which of equals comes first is up to the
\* order of the rows.
Rankings(scores) ==
  LET all == DOMAIN scores
      n == Cardinality(all)
      Before(r, a) == {b \in all : r[b] < r[a]}
  IN {r \in [all -> 1..n] :
        /\ \A a, b \in all : a # b => r[a] # r[b]
        /\ \A a, b \in all : r[a] < r[b] /\ r[b] > Pool => scores[a] >= scores[b]
        /\ \A a, b \in all : r[a] < r[b] /\ r[b] <= Pool =>
             Value(a, scores[a], Before(r, a)) >= Value(b, scores[b], Before(r, a))}

\* Mutant of Carried: what is put off is left out.
CarriedAwake == {a \in DOMAIN recs \ DOMAIN job.scores : ~recs[a].dismissed /\ ~recs[a].snoozed}

\* The rows of earlier runs that are not dismissed are ranked together with the
\* scored candidates, snoozed ones included.
Carried == {a \in DOMAIN recs \ DOMAIN job.scores : ~recs[a].dismissed}

Rank ==
  /\ job.pc = "rank"
  /\ \E r \in Rankings([a \in Carried \cup DOMAIN job.scores |-> IF a \in Carried THEN recs[a].score ELSE job.scores[a]]) :
       job' = [pc |-> "store", scores |-> job.scores, seasonal |-> job.seasonal, carried |-> Carried, ranks |-> r]
  /\ UNCHANGED <<prequels, standing, recs, ranked, runs, acts>>

\* Mutant of Upserted: a title found again starts afresh.
UpsertedAfresh(a) == [score |-> job.scores[a], source |-> "similarity", rank |-> job.ranks[a], dismissed |-> FALSE, snoozed |-> FALSE]

\* The upsert and the update of the carried rows leave dismissed and snoozed_until.
Upserted(a) ==
  LET source == IF a \in job.seasonal THEN "seasonal" ELSE "similarity"
      new == [score |-> job.scores[a], source |-> source, rank |-> job.ranks[a], dismissed |-> FALSE, snoozed |-> FALSE]
  IN IF a \in DOMAIN recs
     THEN [new EXCEPT !.dismissed = recs[a].dismissed, !.snoozed = recs[a].snoozed]
     ELSE new

Store ==
  /\ job.pc = "store"
  /\ recs' = [a \in DOMAIN job.scores \cup DOMAIN recs |->
                IF a \in DOMAIN job.scores THEN Upserted(a)
                ELSE IF a \in job.carried THEN [recs[a] EXCEPT !.rank = job.ranks[a]]
                ELSE recs[a]]
  /\ job' = NotRunning /\ ranked' = TRUE
  /\ UNCHANGED <<prequels, standing, runs, acts>>

\* An error, the timeout of 600 s or a restart: nothing of the run is kept.
RunFails ==
  /\ job # NotRunning
  /\ job' = NotRunning
  /\ UNCHANGED <<prequels, standing, recs, ranked, runs, acts>>

-----------------------------------------------------------------------------
\* The user.
Moved(a, status) ==
  /\ acts < MaxActs /\ acts' = acts + 1
  /\ standing[a] # status
  /\ standing' = [standing EXCEPT ![a] = status]
  /\ UNCHANGED <<prequels, recs, job, ranked, runs>>

Dismiss(a) ==
  /\ acts < MaxActs /\ acts' = acts + 1
  /\ a \in DOMAIN recs
  /\ recs' = [recs EXCEPT ![a].dismissed = TRUE]
  /\ UNCHANGED <<prequels, standing, job, ranked, runs>>

Snooze(a) ==
  /\ acts < MaxActs /\ acts' = acts + 1
  /\ a \in DOMAIN recs
  /\ recs' = [recs EXCEPT ![a].snoozed = TRUE]
  /\ UNCHANGED <<prequels, standing, job, ranked, runs>>

\* snoozed_until passes.
SnoozeEnds(a) ==
  /\ a \in DOMAIN recs /\ recs[a].snoozed
  /\ recs' = [recs EXCEPT ![a].snoozed = FALSE]
  /\ UNCHANGED <<prequels, standing, job, ranked, runs, acts>>

\* _fetch_visible_recommendations.
Visible == {a \in DOMAIN recs : ~recs[a].dismissed /\ ~recs[a].snoozed}

RecommenderNext ==
  \/ \E similar \in SUBSET Similar, seasonal \in SUBSET Seasonal : Discover(similar, seasonal)
  \/ \E known \in Lookups : Fetch(known)
  \/ ScoreCandidates \/ Rank \/ Store \/ RunFails
  \/ \E a \in Anime : \/ \E status \in Moves : Moved(a, status)
                      \/ Dismiss(a) \/ Snooze(a) \/ SnoozeEnds(a)

RecommenderSpec == RecommenderInit /\ [][RecommenderNext]_recommender

-----------------------------------------------------------------------------
\* A candidate is held back exactly when a chain of prequels of at most MaxHops hops
\* the run knows of leads, past titles that are neither finished nor given up, to one
\* that is in the library unfinished (_has_unwatched_prequel).
Unfinished(a) ==
  \E n \in 1..MaxHops : \E path \in [0..n -> Anime] :
    /\ path[0] = a /\ path[n] # a /\ job.saw[path[n]] \in Hide
    /\ \A i \in 0..(n - 1) : path[i] \in job.known /\ path[i + 1] \in prequels[path[i]]
    /\ \A i \in 1..(n - 1) : job.saw[path[i]] \notin Hide \cup {"COMPLETED"}

SequelsHeldBack ==
  job.pc = "rank" => \A a \in job.candidates : a \in DOMAIN job.scores <=> ~Unfinished(a)

\* Once a run has ended well, every row that is shown, or will be when its snooze
\* ends, has a rank of its own, however many runs ago it was found (score_and_store,
\* issue 529).
RankedOnce ==
  LET live == {a \in DOMAIN recs : ~recs[a].dismissed}
  IN ranked => /\ \A a \in live : recs[a].rank # NoRank
               /\ \A a, b \in live : a # b => recs[a].rank # recs[b].rank

\* What the user dismissed is never shown again and what was put off is shown again
\* only when its time has passed, whatever runs that began before or after store
\* (dismiss, snooze, score_and_store).
DecisionsKept ==
  [][\A a \in DOMAIN recs : a \in DOMAIN recs' /\ a \notin Visible =>
       \/ a \notin Visible'
       \/ ~recs[a].dismissed /\ SnoozeEnds(a)]_recommender
=============================================================================
