---------------------------- MODULE TrainingData ----------------------------
(* From the logs in PostgreSQL to a model: the interactions a bundle is      *)
(* trained from, the popularity ranking built beside it, and the decision    *)
(* whether to train again.                                                   *)
(*                                                                           *)
(* A row of logs is [id, user, film, rating] with the rating in half stars;  *)
(* a training universe is [users, interactions, films]: two counters and the *)
(* ids of its films.  Time is counted in days.                               *)
EXTENDS FiniteSets, Integers

CONSTANTS
    Unrated,            \* the rating of a film that was only watched
    NoBaseline,         \* a legacy layout that cannot be read
    NewUsersThreshold,  \* NEW_ELIGIBLE_USERS_THRESHOLD
    NewFilmsThreshold,  \* NEW_MODEL_FILMS_THRESHOLD
    MaxModelAge         \* MAX_MODEL_AGE_DAYS

(* Settings gives each trigger a lower bound of one.                         *)
ASSUME ThresholdAssumption ==
    {NewUsersThreshold, NewFilmsThreshold, MaxModelAge} \subseteq Nat \ {0}

Baselines == [users : Int, interactions : Int, films : SUBSET Nat, trained : Nat]

ASSUME BaselineAssumption == NoBaseline \notin Baselines

-----------------------------------------------------------------------------
(* load_production_training_data and measure_production_training_data        *)

RatedRows(logs) == {r \in logs : r.rating # Unrated}

(* Of the rated rows of one user and film the one with the lowest id stays.  *)
Interactions(logs) ==
    {r \in RatedRows(logs) :
        \A q \in RatedRows(logs) : q.user = r.user /\ q.film = r.film => r.id <= q.id}

(* What the training reads, counted after the fact.                          *)
Snapshot(logs) ==
    [users        |-> Cardinality({r.user : r \in Interactions(logs)}),
     interactions |-> Cardinality(Interactions(logs)),
     films        |-> {r.film : r \in Interactions(logs)}]

(* What the cheap aggregate query counts, without reading a rating.          *)
Measured(logs) ==
    LET pairs == {<<r.user, r.film>> : r \in RatedRows(logs)}
    IN  [users        |-> Cardinality({p[1] : p \in pairs}),
         interactions |-> Cardinality(pairs),
         films        |-> {p[2] : p \in pairs}]

-----------------------------------------------------------------------------
(* The popularity ranking                                                    *)

(* POPULARITY_RATING_THRESHOLD, in half stars.                               *)
PositiveRating == 7

PositiveCount(rows, f) ==
    Cardinality({r \in rows : r.film = f /\ r.rating >= PositiveRating})

(* More positive ratings first, then the lower id.                           *)
MorePopular(count, f, g) ==
    count[f] > count[g] \/ (count[f] = count[g] /\ f < g)

PopularityCounts(logs) ==
    [f \in Snapshot(logs).films |-> PositiveCount(Interactions(logs), f)]

RanksOf(count) ==
    [f \in DOMAIN count |-> 1 + Cardinality({g \in DOMAIN count : MorePopular(count, g, f)})]

(* Every rated film is ranked, those nobody liked too.                       *)
PopularityRanks(logs) == RanksOf(PopularityCounts(logs))

(* validate_popularity_artifact: not empty, positive ids, ranks from one on  *)
(* without a gap, counts that are no less than zero, in the one order.       *)
ValidPopularity(rank, count) ==
    /\ DOMAIN rank # {} /\ DOMAIN rank \subseteq Nat \ {0} /\ DOMAIN count = DOMAIN rank
    /\ {rank[f] : f \in DOMAIN rank} = 1 .. Cardinality(DOMAIN rank)
    /\ \A f \in DOMAIN rank : count[f] \in Nat
    /\ \A f, g \in DOMAIN rank : rank[f] < rank[g] <=> MorePopular(count, f, g)

-----------------------------------------------------------------------------
(* decide_retraining                                                         *)

(* What the selected model was trained from: the counters of a manifest; of  *)
(* a legacy layout, the film ids and no counters.                            *)
ManifestBaseline(logs, day) ==
    [users |-> Snapshot(logs).users, interactions |-> Snapshot(logs).interactions,
     films |-> Snapshot(logs).films, trained |-> day]

LegacyBaseline(films, day) ==
    [users |-> -1, interactions |-> -1, films |-> films, trained |-> day]

IsLegacy(baseline) ==
    baseline # NoBaseline /\ (baseline.users < 0 \/ baseline.interactions < 0)

NewUsers(current, baseline) ==
    IF baseline = NoBaseline THEN current.users
    ELSE IF current.users > baseline.users THEN current.users - baseline.users ELSE 0

NewFilms(current, baseline) ==
    Cardinality(IF baseline = NoBaseline THEN current.films
                                         ELSE current.films \ baseline.films)

(* Growth and age count only against a baseline with counters; users that    *)
(* left are no growth.                                                       *)
Growth(current, baseline, today) ==
    {r \in {"NEW_USERS_THRESHOLD"} : NewUsers(current, baseline) >= NewUsersThreshold}
    \cup {r \in {"NEW_FILMS_THRESHOLD"} : NewFilms(current, baseline) >= NewFilmsThreshold}
    \cup {r \in {"MODEL_AGE_THRESHOLD"} :
             baseline # NoBaseline /\ today - baseline.trained >= MaxModelAge}

Reasons(current, baseline, forced, today) ==
    {r \in {"FORCED"} : forced}
    \cup IF IsLegacy(baseline) THEN {"LEGACY_MODEL_BOOTSTRAP"}
         ELSE Growth(current, baseline, today)

ShouldRetrain(current, baseline, forced, today) ==
    Reasons(current, baseline, forced, today) # {}
=============================================================================
