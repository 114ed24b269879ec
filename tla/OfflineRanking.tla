--------------------------- MODULE OfflineRanking ---------------------------
(* What one fold of the offline benchmarks computes: the artifacts fitted on  *)
(* its training users, the candidates and ranking groups of every partition,  *)
(* the metrics of a strategy and the choice of a fusion configuration.        *)
EXTENDS OfflineSplits, SequencesExt

CONSTANTS
    SvdDepth, PopularityDepth,  \* candidates each source may retrieve
    GroupCap, TopRank,          \* rows of a training group; the top-500 stratum
    Cutoff,                     \* of the metrics: @20
    Prediction,                 \* what a LightGBM model predicts: model -> film -> score
    Weights, RrfK,              \* the calibration grid: a sequence of <<svd, popularity>>, and k
    DefaultConfiguration,
    PlateauWidth                \* VALIDATION_PLATEAU_ABSOLUTE_NDCG

ASSUME RankingAssumption ==
    /\ {SvdDepth, PopularityDepth, GroupCap, TopRank, PlateauWidth} \subseteq Nat
    /\ Cutoff \in 0 .. 20 /\ HoldoutLimit <= GroupCap
    /\ \A name \in DOMAIN Prediction : \A slug \in DOMAIN FilmOf : Prediction[name][FilmOf[slug]] \in Int
    /\ Weights \in Seq(Nat \X Nat) /\ RrfK \subseteq Nat /\ IsFiniteSet(RrfK)
    /\ DefaultConfiguration \in [weight : DOMAIN Weights, k : RrfK]

(* Metrics are counted in thousandths of a hit, and the mean over the users   *)
(* of a fold in sixtieths of that: exact for up to six users.                 *)
Scale == 60

Parts == {"train", "validation", "test"}

-----------------------------------------------------------------------------
(* build_fold_artifacts: contexts of training users only.                     *)

Contexts(splits, holdouts, users) == [u \in users |-> holdouts[u].context]

Fittable(contexts) == \E u \in DOMAIN contexts : contexts[u] # << >>

(* TruncatedSVD: two films are as close as their ratings by the same users.   *)
Closeness(contexts, f, g) ==
    MapThenSumSet(LAMBDA u : (contexts[u][f] + 1) * (contexts[u][g] + 1),
                  {u \in DOMAIN contexts : {f, g} \subseteq DOMAIN contexts[u]})

Artifacts(contexts, films) ==
    LET positive == Table([f \in films |->
                        Cardinality({u \in DOMAIN contexts : f \in Positives(contexts[u])})])
    IN  [fitted    |-> UNION {{u} \X DOMAIN contexts[u] : u \in DOMAIN contexts},
         closeness |-> Table([f \in films |-> Table([g \in films |-> Closeness(contexts, f, g)])]),
         positive  |-> positive,
         order     |-> PopularFirst(positive),
         strata    |-> Strata(positive)]

-----------------------------------------------------------------------------
(* generate_fold_candidates.                                                  *)

PositiveWeights(context) == Table([f \in DOMAIN context |-> Max({context[f] - 5, 0})])
MeanWeights(context)     == Table([f \in DOMAIN context |-> 1])

Similar(weight, art, f) ==
    MapThenSumSet(LAMBDA g : weight[g] * art.closeness[g][f], DOMAIN weight)

HasProfile(weight, art) ==
    MapThenSumSet(LAMBDA f : weight[f] * Similar(weight, art, f), DOMAIN weight) > 0

First(order, n) == Restrict(order, {g \in DOMAIN order : order[g] <= n})

Nearest(score) == Place(DOMAIN score, LAMBDA f, g : Lower(<<-score[f], f>>, <<-score[g], g>>))

Found(svd, popular, score) ==
    [svd |-> svd, popular |-> popular, films |-> DOMAIN svd \cup DOMAIN popular,
     score |-> Restrict(score, DOMAIN svd)]

CandidatesAmong(left, weight, art) ==
    LET score == Table([f \in left |-> Similar(weight, art, f)])
    IN  Found(IF HasProfile(weight, art) THEN First(Nearest(score), SvdDepth) ELSE << >>,
              First(Place(left, LAMBDA f, g : art.order[f] < art.order[g]), PopularityDepth),
              score)

Candidates(context, art) ==
    CandidatesAmong(DOMAIN art.order \ DOMAIN context, PositiveWeights(context), art)

Source(found, f) ==
    CASE f \notin found.films -> "missed"
      [] f \in DOMAIN found.svd \cap DOMAIN found.popular -> "both"
      [] f \in DOMAIN found.svd \ DOMAIN found.popular -> "svd_only"
      [] OTHER -> "popularity_only"

-----------------------------------------------------------------------------
(* Ranking groups: the films of a group, each with its sampling stratum.      *)

FullGroup(found, labels, forbidden) ==
    [f \in found.films \ forbidden |->
        IF f \in DOMAIN labels THEN "positive" ELSE "full_pool_candidate"]

Absent == 1000000000

RankIn(order, f) == IF f \in DOMAIN order THEN order[f] ELSE Absent
BestRank(found, f) == Min({RankIn(found.svd, f), RankIn(found.popular, f)})

RankKey(found, f) == <<BestRank(found, f), RankIn(found.svd, f), RankIn(found.popular, f), f>>

(* _negative_quotas: 25, 25, 20, 12.5 and 10 percent, each rounded down.      *)
Quota(limit, stratum) ==
    CASE stratum \in {"both_source", "svd_only"} -> limit \div 4
      [] stratum = "popularity_only" -> limit \div 5
      [] stratum = "additional_top_500" -> limit \div 8
      [] stratum = "source_tail" -> limit \div 10
      [] OTHER -> limit - (2 * (limit \div 4) + limit \div 5 + limit \div 8 + limit \div 10)

Negatives == <<"both_source", "svd_only", "popularity_only", "additional_top_500", "source_tail",
               "uniform_remainder", "deterministic_fill">>

Reaches(found, f, stratum) ==
    CASE stratum = "both_source" -> Source(found, f) = "both"
      [] stratum \in {"svd_only", "popularity_only"} -> Source(found, f) = stratum
      [] stratum = "additional_top_500" -> BestRank(found, f) <= TopRank
      [] stratum = "source_tail" -> BestRank(found, f) > TopRank
      [] OTHER -> TRUE

Fill(group, left, order, quota, stratum) ==
    LET place == Place(left, LAMBDA f, g : Lower(order[f], order[g]))
        taken == {f \in left : place[f] <= quota}
    IN  Table([f \in DOMAIN group \cup taken |-> IF f \in taken THEN stratum ELSE group[f]])

(* One pass over what is left of the pool, until the group is full.           *)
TakeFrom(seed, u, found, group, pool, limit, stratum) ==
    LET left == {f \in pool \ DOMAIN group : Reaches(found, f, stratum)} IN
    Fill(group, left,
         Table([f \in left |-> IF stratum = "uniform_remainder"
                               THEN <<Shuffled(<<seed, u, 512>>, left)[f]>>
                               ELSE RankKey(found, f)]),
         IF stratum = "deterministic_fill" THEN GroupCap - Cardinality(DOMAIN group)
                                           ELSE Quota(limit, stratum),
         stratum)

Sampled(seed, u, found, kept, pool) ==
    LET limit == Max({0, GroupCap - Cardinality(DOMAIN kept)})
        pass[i \in 0 .. Len(Negatives)] ==
            IF i = 0 THEN kept
            ELSE TakeFrom(seed, u, found, pass[i - 1], pool, limit, Negatives[i])
    IN  pass[Len(Negatives)]

SampledUnforbidden(seed, u, found, labels, forbidden) ==   \* mutant of SampledGroup
    Sampled(seed, u, found, [f \in found.films \cap DOMAIN labels |-> "positive"],
            found.films \ DOMAIN labels)

(* sample_ranker_group.                                                       *)
SampledGroup(seed, u, found, labels, forbidden) ==
    Sampled(seed, u, found, [f \in found.films \cap DOMAIN labels |-> "positive"],
            found.films \ (DOMAIN labels \cup forbidden))

-----------------------------------------------------------------------------
(* build_user_examples and build_partition_dataset.                           *)

Example(part, split, holdout) ==
    LET target == IF part = "validation" THEN split.validation ELSE split.test
    IN  IF part = "train"
        THEN [labels |-> holdout.label, context |-> holdout.context,
              forbidden |-> Canonical(split), target |-> NoTarget]
        ELSE [labels |-> [f \in {target} \ {NoTarget} |-> Label(split.all[f])],
              context |-> split.context,
              forbidden |-> Canonical(split) \ {target}, target |-> target]

Group(seed, part, u, example, found) ==
    IF part = "train"
    THEN SampledGroup(seed, u, found, example.labels, example.forbidden)
    ELSE FullGroup(found, example.labels, example.forbidden)

(* The group and the audit of a user: QueryAudit.                             *)
QueryOver(seed, part, u, example, found, art, quart) ==
    [example |-> example, found |-> found, group |-> Group(seed, part, u, example, found),
     stratum |-> IF part = "train" THEN "NONE" ELSE StratumOf(art.strata, example.target),
     depth   |-> DepthBucket(quart, Cardinality(DOMAIN example.context)),
     source  |-> Source(found, example.target)]

QueryFor(seed, part, u, example, art, quart) ==
    QueryOver(seed, part, u, example, Candidates(example.context, art), art, quart)

Query(seed, part, u, split, holdout, art, quart) ==
    QueryFor(seed, part, u, Example(part, split, holdout), art, quart)

(* A training group without a retrieved positive is left out of the matrix.   *)
HasGroup(part, query) ==
    part = "train" => DOMAIN query.group \cap DOMAIN query.example.labels # {}

Groups(part, queries) == {u \in DOMAIN queries : HasGroup(part, queries[u])}

(* PartitionDataset.validate: an empty evaluation group is no query.          *)
Valid(part, queries) == \A u \in Groups(part, queries) : queries[u].group # << >>

EligibleRetrieved(queries) ==   \* mutant of Eligible
    {u \in DOMAIN queries : queries[u].example.labels # << >> /\ queries[u].source # "missed"}

Eligible(queries) == {u \in DOMAIN queries : queries[u].example.labels # << >>}

(* _shuffled_profile_donors                                                   *)
Donors(seed, fold, users) ==
    LET n     == Cardinality(users)
        order == Ascending(users)
        shift == 1 + Draw(<<seed, fold, 991>>, n - 1)
    IN  [u \in users |->
            IF n <= 1 THEN u
            ELSE CHOOSE v \in users : order[v] = 1 + ((order[u] - 1 + n - shift) % n)]

-----------------------------------------------------------------------------
(* Strategies and metrics.  A score is a fraction; rank 0 is no rank.         *)

Fraction(n, d) == [num |-> n, den |-> d]
Below(x, y)    == x.num * y.den < y.num * x.den
Infinity       == 1000000

(* One grid point: popularity and SVD rank fused with its weights and its k.  *)
Fused(found, conf, f) ==
    LET a == conf.k + RankIn(found.svd, f)
        b == conf.k + RankIn(found.popular, f)
        w == Weights[conf.weight]
    IN  CASE Source(found, f) = "both"     -> Fraction(w[1] * b + w[2] * a, a * b)
          [] Source(found, f) = "svd_only" -> Fraction(w[1], a)
          [] OTHER                         -> Fraction(w[2], b)

Baselines == {"popularity", "positive_weighted_svd", "rrf", "svd_mean_pooling", "candidate_oracle"}

BaselineScore(name, query, art, f) ==
    LET mean == MeanWeights(query.example.context) IN
    CASE name = "popularity" /\ f \in DOMAIN query.found.popular ->
             Fraction(-query.found.popular[f], 1)
      [] name = "positive_weighted_svd" /\ f \in DOMAIN query.found.svd ->
             Fraction(query.found.score[f], 1)
      [] name = "rrf" -> Fused(query.found, DefaultConfiguration, f)
      [] name = "svd_mean_pooling" /\ HasProfile(mean, art) -> Fraction(Similar(mean, art, f), 1)
      [] name = "candidate_oracle" ->
             Fraction(IF f \in DOMAIN query.example.labels THEN query.example.labels[f] ELSE 0, 1)
      [] OTHER -> Fraction(-Infinity, 1)

(* target_rank: ties go to the smaller film id.                               *)
TargetRank(films, score, target) ==
    IF target \notin films THEN 0
    ELSE 1 + Cardinality({f \in films : \/ Below(score[target], score[f])
                                        \/ /\ ~Below(score[f], score[target])
                                           /\ f < target})

(* evaluate_ranking_scores: every eligible user is a row, a miss has rank 0.  *)
Ranks(queries, Score(_, _)) ==
    Table([u \in Eligible(queries) |->
        TargetRank(DOMAIN queries[u].group,
                   Table([f \in DOMAIN queries[u].group |-> Score(u, f)]),
                   queries[u].example.target)])

(* 1 / log2(rank + 1), in thousandths.                                        *)
Gain(rank) ==
    IF rank \notin 1 .. Cutoff THEN 0
    ELSE <<1000, 631, 500, 431, 387, 356, 333, 315, 301, 289,
           279, 270, 263, 256, 250, 245, 240, 235, 231, 228>>[rank]

View(ranks) ==
    LET users == DOMAIN ranks
        mean(value(_)) == IF users = {} THEN 0
                          ELSE (Scale * MapThenSumSet(value, users)) \div Cardinality(users)
    IN  [users  |-> Cardinality(users),
         recall |-> mean(LAMBDA u : IF ranks[u] \in 1 .. Cutoff THEN 1000 ELSE 0),
         ndcg   |-> mean(LAMBDA u : Gain(ranks[u]))]

Hits(ranks) == {u \in DOMAIN ranks : ranks[u] # 0}

StrategyReport(ranks) ==
    [ranks |-> ranks, eligible |-> Cardinality(DOMAIN ranks), retrieved |-> Cardinality(Hits(ranks)),
     global |-> View(ranks), conditional |-> View(Restrict(ranks, Hits(ranks)))]

DepthName(bucket) == CASE bucket = 0 -> "bottom_quartile"
                       [] bucket = 3 -> "top_quartile"
                       [] OTHER -> "middle_50_percent"

Segment(query, dimension) ==
    CASE dimension = "target_stratum" -> query.stratum
      [] dimension = "history_depth" -> DepthName(query.depth)
      [] dimension = "target_source" -> query.source

Segments(queries, ranks) ==
    [dimension \in {"target_stratum", "history_depth", "target_source"} |->
        [name \in {Segment(queries[u], dimension) : u \in DOMAIN ranks} |->
            StrategyReport(Restrict(ranks, {u \in DOMAIN ranks : Segment(queries[u], dimension) = name}))]]

(* _full_pool_global_ndcg_at_20: what early stopping maximizes.               *)
Checkpoint(queries, Score(_, _)) ==
    LET counted == {u \in Groups("validation", queries) : queries[u].example.target # NoTarget}
        best(u) == LET films == DOMAIN queries[u].group
                       order == Place(films, LAMBDA f, g :
                                    \/ Below(Score(u, g), Score(u, f))
                                    \/ ~Below(Score(u, f), Score(u, g)) /\ f < g)
                       hit   == films \cap DOMAIN queries[u].example.labels
                   IN  IF hit = {} THEN 0 ELSE Gain(Min({order[f] : f \in hit}))
    IN  IF counted = {} THEN 0
        ELSE (Scale * MapThenSumSet(best, counted)) \div Cardinality(counted)

-----------------------------------------------------------------------------
(* rrf_calibration.                                                           *)

Configurations == [weight : DOMAIN Weights, k : RrfK]

Distance(a, b) == Max({a - b, b - a})

(* _simplicity_key, then the order of the grid.                               *)
Simplicity(conf) ==
    <<IF conf = DefaultConfiguration THEN 0 ELSE 1, Distance(Weights[conf.weight][1], 50),
      Distance(conf.k, DefaultConfiguration.k), conf.k, conf.weight>>

(* select_validation_configuration                                            *)
Selected(reports) ==
    LET key(conf) == <<-reports[conf].global.ndcg, -reports[conf].global.recall,
                       -reports[conf].conditional.ndcg>> \o Simplicity(conf)
    IN  CHOOSE conf \in Configurations :
            \A other \in Configurations \ {conf} : Lower(key(conf), key(other))

GridTotals(foldReports) ==
    Table([conf \in Configurations |->
        MapThenSumSet(LAMBDA k : foldReports[k][conf].global.ndcg, DOMAIN foldReports)])

(* recommend_fixed_configuration: the simplest within the plateau of the best *)
(* mean over the folds.                                                       *)
Recommended(foldReports) ==
    LET total   == GridTotals(foldReports)
        best    == Max({total[conf] : conf \in Configurations})
        plateau == {conf \in Configurations :
                       best - total[conf] <= PlateauWidth * Cardinality(DOMAIN foldReports)}
    IN  CHOOSE conf \in plateau :
            \A other \in plateau \ {conf} : Lower(Simplicity(conf), Simplicity(other))

(* user_clustered_ndcg_at_20_comparison: the paired deltas of a user over the *)
(* seeds, as their sum and their number.  Rows are <<seed, fold>> -> ranks.   *)
Clustered(strategy, baseline) ==
    LET seen(u) == {k \in DOMAIN strategy : u \in DOMAIN strategy[k]}
    IN  [u \in UNION {DOMAIN strategy[k] : k \in DOMAIN strategy} |->
            [sum |-> MapThenSumSet(LAMBDA k : Gain(strategy[k][u]) - Gain(baseline[k][u]), seen(u)),
             observations |-> Cardinality(seen(u))]]
=============================================================================
