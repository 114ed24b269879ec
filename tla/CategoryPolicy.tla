--------------------------- MODULE CategoryPolicy ---------------------------
(* The pure half of the categorized feed: candidate retrieval, reciprocal    *)
(* rank fusion, the user's preferences and the proposals built from them.    *)
(*                                                                           *)
(* A rating is counted in half stars, 1 .. 10, and an order is a function    *)
(* from films to numbers: the list the code sorts, and its length, are read  *)
(* off it.  A float is an exact fraction here.                               *)
EXTENDS FiniteSetsExt, Integers

CONSTANTS
    Artifact,    \* film ids of the model bundle
    Popularity,  \* popularity.json: its films and their ranks
    Similarity,  \* inner products of the item vectors
    Catalog,     \* metadata of the artifact films the database knows
    Names,       \* the entity ids that carry the names the policy tests
    Policy,      \* CategoryPolicyConfig
    Unknown      \* no release year

(* load_artifacts refuses popularity that is not contained in the SVD films, *)
(* validate_popularity_artifact a rank given twice.  Ids are integers.       *)
ASSUME BundleAssumption ==
    /\ Artifact \subseteq Nat \ {0} /\ IsFiniteSet(Artifact)
    /\ DOMAIN Popularity \subseteq Artifact
    /\ Popularity \in [DOMAIN Popularity -> Nat \ {0}]
    /\ \A f, g \in DOMAIN Popularity : Popularity[f] = Popularity[g] => f = g
    /\ Similarity \in [Artifact -> [Artifact -> Int]]
    /\ DOMAIN Catalog \subseteq Artifact
    /\ \A f \in DOMAIN Catalog : \A family \in {"director", "genre", "country", "language"} :
           IsFiniteSet(Catalog[f][family]) /\ Catalog[f][family] \subseteq Int
    /\ \A f \in DOMAIN Catalog : Catalog[f].year = Unknown \/ Catalog[f].year \in Int

(* A feed has room for Top Picks, a film may be shown, and depths, caps,     *)
(* minima and maxima are counts.  A loop that stops once its list has the    *)
(* configured length would not stop at 0; the defaults are 2000, 500 and 10. *)
ASSUME PolicyAssumption ==
    /\ {Policy.rrf_k, Policy.svd_depth, Policy.popularity_depth,
        Policy.retrieval_top_k, Policy.list_size} \subseteq Nat
    /\ 0 \notin {Policy.popularity_depth, Policy.retrieval_top_k, Policy.list_size}
    /\ {Policy.top_picks_maximum, Policy.default_maximum, Policy.anchor_maximum} \subseteq Nat
    /\ Policy.maximum_categories \in Nat \ {0}
    /\ Policy.maximum_film_appearances \in Nat \ {0}
    /\ \A cap \in {Policy.director_film_cap, Policy.generic_director_cap,
                   Policy.generic_decade_cap, Policy.generic_genre_cap,
                   Policy.world_country_cap, Policy.world_head_cap,
                   Policy.outside_lower_head_cap, Policy.classic_head_cap} : cap \in Nat
    /\ \A minimum \in {Policy.hidden_minimum, Policy.brazilian_minimum,
                       Policy.directors_minimum, Policy.genre_minimum,
                       Policy.decade_minimum, Policy.world_minimum,
                       Policy.outside_minimum, Policy.classic_minimum,
                       Policy.anchor_minimum} : minimum \in Nat

(* load_policy_catalog, once at startup: of the artifact films the ones the  *)
(* database has, with the entities linked to them, each id once.             *)
Linked(links, f) == {l[2] : l \in {k \in links : k[1] = f}}

LoadedCatalog(years, directors, genres, countries, languages) ==
    [f \in DOMAIN years \cap Artifact |->
        [year |-> years[f],
         director |-> Linked(directors, f), genre |-> Linked(genres, f),
         country |-> Linked(countries, f), language |-> Linked(languages, f)]]

Fraction(n, d) == [num |-> n, den |-> d]
Below(x, y)    == x.num * y.den < y.num * x.den

(* Python's order of tuples.                                                 *)
Lower(s, t) == \E i \in DOMAIN s : /\ s[i] < t[i]
                                   /\ \A j \in 1 .. i - 1 : s[j] = t[j]

Place(S, Ahead(_, _)) ==
    [x \in S |-> 1 + Cardinality({y \in S : Ahead(y, x)})]

Sum(value, S) == MapThenSumSet(LAMBDA x : value[x], S)

-----------------------------------------------------------------------------
(* Candidates.  A history is the set of watched films and the ratings.       *)

(* A rating that is not one of the ten half stars is ignored.                *)
PositiveWeight(history) ==
    [f \in {g \in DOMAIN history.rating \cap Artifact : history.rating[g] \in 1 .. 10}
        |-> Max({history.rating[f] - 6, 0})]

MeanWeight(history) == [f \in DOMAIN history.rating \cap Artifact |-> 1]

Score(weight, f) ==
    MapThenSumSet(LAMBDA g : weight[g] * Similarity[g][f], DOMAIN weight)

(* The query vector is not zero.                                             *)
ProfileAvailable(weight) ==
    MapThenSumSet(LAMBDA f : weight[f] * Score(weight, f), DOMAIN weight) > 0

(* The best of the requested neighbours that are not excluded.  The index    *)
(* orders equal scores as it likes: by tie.                                  *)
Retrieve(weight, tie, excluded, requested, depth) ==
    LET score == [f \in Artifact |-> Score(weight, f)]
        place == Place(Artifact,
                       LAMBDA f, g : Lower(<<-score[f], tie[f]>>, <<-score[g], tie[g]>>))
        found == {f \in Artifact \ excluded : place[f] <= requested}
        rank  == Place(found, LAMBDA f, g : place[f] < place[g])
    IN  [f \in {g \in found : rank[g] <= depth} |-> rank[f]]

RetrieveDepth(weight, tie, excluded, depth) ==   \* mutant of RetrieveExact
    Retrieve(weight, tie, excluded, depth, depth)

(* One more neighbour is requested for every film that may be excluded.      *)
RetrieveExact(weight, tie, excluded, depth) ==
    Retrieve(weight, tie, excluded, depth + Cardinality(excluded), depth)

PopularAnyway(watched) ==                        \* mutant of PopularUnwatched
    {f \in DOMAIN Popularity : Popularity[f] <= Policy.popularity_depth}

PopularUnwatched(watched) ==
    LET left == DOMAIN Popularity \ watched
        rank == Place(left, LAMBDA f, g : Popularity[f] < Popularity[g])
    IN  {f \in left : rank[f] <= Policy.popularity_depth}

AbsentFirst(svd, popular, f) ==                  \* mutant of RrfScore
    LET a == Policy.rrf_k + (IF f \in DOMAIN svd THEN svd[f] ELSE 0)
        b == Policy.rrf_k + (IF f \in popular THEN Popularity[f] ELSE 0)
    IN  Fraction(a + b, a * b)

(* Equal-weight fusion; a source that misses the film contributes nothing.   *)
RrfScore(svd, popular, f) ==
    LET a == IF f \in DOMAIN svd THEN Policy.rrf_k + svd[f] ELSE 1
        b == IF f \in popular THEN Policy.rrf_k + Popularity[f] ELSE 1
    IN  Fraction((IF f \in DOMAIN svd THEN b ELSE 0) + (IF f \in popular THEN a ELSE 0),
                 a * b)

RrfAhead(svd, popular, f, g) ==
    LET x == RrfScore(svd, popular, f)
        y == RrfScore(svd, popular, g)
    IN  Below(y, x) \/ (~Below(x, y) /\ f < g)

RankByRrf(svd, popular) ==
    Place(DOMAIN svd \cup popular, LAMBDA f, g : RrfAhead(svd, popular, f, g))

(* generate_from_history and rank_candidates_by_rrf.  positive: the films    *)
(* whose SVD score is above zero.                                            *)
Inventory(history, tie) ==
    LET weight  == PositiveWeight(history)
        svd     == IF ProfileAvailable(weight)
                   THEN RetrieveExact(weight, tie, history.watched, Policy.svd_depth)
                   ELSE [f \in {} |-> 0]
        popular == PopularUnwatched(history.watched)
    IN  [svd |-> svd, popular |-> popular, rank |-> RankByRrf(svd, popular),
         positive |-> {f \in DOMAIN svd : Score(weight, f) > 0}]

(* The 10/40/50 percent bands of the popularity ranking.                     *)
Stratum(f) ==
    LET count == Cardinality(DOMAIN Popularity)
        rank  == IF f \in DOMAIN Popularity THEN Popularity[f] ELSE count
    IN  CASE rank <= (count + 9) \div 10 -> "HEAD"
          [] rank > (count + 9) \div 10 /\ rank <= (count + 1) \div 2 -> "MID"
          [] OTHER -> "TAIL"

-----------------------------------------------------------------------------
(* The user's preferences.                                                   *)

Families == {"director", "genre", "decade", "country", "language"}

Decade(f) == IF Catalog[f].year = Unknown THEN {}
             ELSE {10 * (Catalog[f].year \div 10)}

Entities(f, family) == IF family = "decade" THEN Decade(f) ELSE Catalog[f][family]

(* Only explicit ratings of films in the catalog are evidence.               *)
Rated(history) == DOMAIN history.rating \cap DOMAIN Catalog

RatedFrom(history, films, rating) == {f \in films : history.rating[f] >= rating}

IndexedPositive(history) ==
    Cardinality(RatedFrom(history, Rated(history), Policy.positive_rating))

HistoryBand(history) ==
    CASE Cardinality(Rated(history)) < Policy.sparse_rated_threshold -> "sparse"
      [] /\ Cardinality(Rated(history)) >= Policy.sparse_rated_threshold
         /\ Cardinality(history.watched) >= Policy.deep_watched_threshold -> "deep"
      [] OTHER -> "established"

(* affinity is the smoothed deviation from the user's mean, times the number *)
(* of rated films, which all preferences of a user share.                    *)
Preference(history, family, entity) ==
    LET rated == Rated(history)
        films == {f \in rated : entity \in Entities(f, family)}
        support   == Cardinality(films)
        smoothing == IF family = "director" THEN Policy.director_smoothing
                                            ELSE Policy.broad_entity_smoothing
    IN  [family   |-> family,
         entity   |-> entity,
         support  |-> support,
         total    |-> Sum(history.rating, films),
         positive |-> Cardinality(RatedFrom(history, films, Policy.positive_rating)),
         high     |-> Cardinality(RatedFrom(history, films, Policy.high_rating)),
         negative |-> Cardinality({f \in films : history.rating[f] <= Policy.negative_rating}),
         affinity |-> Fraction(Sum(history.rating, films) * Cardinality(rated)
                                   - support * Sum(history.rating, rated),
                               support + smoothing)]

Stronger(p, q) ==
    \/ Below(q.affinity, p.affinity)
    \/ /\ ~Below(p.affinity, q.affinity)
       /\ Lower(<<-p.support, -p.total, p.entity>>, <<-q.support, -q.total, q.entity>>)

MinimumSupport(family) == IF family = "director" THEN Policy.director_minimum_support
                                                 ELSE Policy.broad_minimum_support

StrongEvidence(p) == p.support >= 2 * MinimumSupport(p.family)

Qualifies(p) ==
    /\ p.affinity.num > 0
    /\ p.support >= MinimumSupport(p.family)
    /\ \/ /\ p.family = "director"
          /\ p.positive >= Policy.director_minimum_positive
          /\ p.high >= Policy.director_minimum_high
          /\ 100 * p.negative <= Policy.director_maximum_negative_percent * p.support
       \/ /\ p.family # "director"
          /\ 100 * p.positive >= Policy.broad_minimum_positive_percent * p.support
          /\ p.high >= Policy.broad_minimum_high

Qualifying(history, family) ==
    {p \in {Preference(history, family, e) :
               e \in UNION {Entities(f, family) : f \in Rated(history)}} : Qualifies(p)}

Strongest(n, preferences) ==
    {p \in preferences : Cardinality({q \in preferences : Stronger(q, p)}) < n}

-----------------------------------------------------------------------------
(* Proposals.  A builder returns the set of its proposal, empty when the     *)
(* category is not viable.  heads are the films its head cap counts.         *)

Proposal(key, role, strong, support, order, minimum) ==
    [key |-> key, role |-> role, strong |-> strong, support |-> support,
     order |-> order, minimum |-> minimum, maximum |-> Policy.default_maximum,
     heads |-> {}, head_cap |-> 0]

Viable(p) == {q \in {p} : Cardinality(DOMAIN q.order) >= q.minimum}

WithHeadCap(p, cap) ==
    [p EXCEPT !.heads = {f \in DOMAIN p.order : Stratum(f) = "HEAD"}, !.head_cap = cap]

ByRrf(inventory, films) == [f \in films |-> inventory.rank[f]]

TopPicks(inventory) ==
    LET films == DOMAIN inventory.rank
    IN  Viable([Proposal("top_picks", "general", TRUE, Cardinality(films),
                         inventory.rank, 1) EXCEPT !.maximum = Policy.top_picks_maximum])

HiddenNeighborhood(inventory, history) ==
    {f \in inventory.positive :
        /\ IndexedPositive(history) >= Policy.hidden_minimum_indexed_positives
        /\ \/ Stratum(f) = "MID" /\ inventory.svd[f] <= Policy.hidden_mid_svd_rank
           \/ Stratum(f) = "TAIL" /\ inventory.svd[f] <= Policy.hidden_tail_svd_rank}

HiddenGems(inventory, history) ==
    LET positives == IndexedPositive(history)
    IN  IF positives < Policy.hidden_minimum_indexed_positives THEN {}
        ELSE Viable(Proposal("hidden_gems", "discovery", positives >= 6, positives,
                             ByRrf(inventory, HiddenNeighborhood(inventory, history)),
                             Policy.hidden_minimum))

BrazilianCinema(inventory) ==
    LET films == {f \in inventory.positive \cap DOMAIN Catalog :
                     /\ Catalog[f].country \cap Names.brazil # {}
                     /\ Catalog[f].language \cap Names.brazilian_language # {}}
    IN  Viable(Proposal("brazilian_cinema", "cultural", FALSE, Cardinality(films),
                        ByRrf(inventory, films), Policy.brazilian_minimum))

(* A film counts against the cap of the strongest of its loved directors.    *)
DirectorsYouLove(inventory, history) ==
    LET pool == Strongest(Policy.director_pool_size, Qualifying(history, "director"))
        Matches(f) == {p \in pool : p.entity \in Catalog[f].director}
        matched == {f \in DOMAIN inventory.rank \cap DOMAIN Catalog : Matches(f) # {}}
        loved == [f \in matched |-> CHOOSE p \in Strongest(1, Matches(f)) : TRUE]
        films == {f \in matched :
                     Cardinality({g \in matched : /\ loved[g] = loved[f]
                                                  /\ inventory.rank[g] < inventory.rank[f]})
                         < Policy.director_film_cap}
    IN  IF pool = {} THEN {}
        ELSE Viable(Proposal("directors_you_love", "personalized",
                             \E p \in pool : StrongEvidence(p),
                             MapThenSumSet(LAMBDA p : p.support, pool),
                             ByRrf(inventory, films), Policy.directors_minimum))

(* favorite_genre and favorite_decade.                                       *)
SingleEntity(inventory, history, key, family, minimum) ==
    UNION {Viable(Proposal(key, "personalized", StrongEvidence(p), p.support,
                           ByRrf(inventory, {f \in DOMAIN inventory.rank \cap DOMAIN Catalog :
                                                p.entity \in Entities(f, family)}),
                           minimum)) :
              p \in Strongest(1, Qualifying(history, family))}

IsWorldCinema(f) ==
    /\ Catalog[f].country \ (Names.english_core \cup Names.nowhere) # {}
    /\ Catalog[f].language \ (Names.english \cup Names.unspoken) # {}
    /\ Catalog[f].language \cap Names.english = {}

(* Each film taken counts for the least used of its countries, and one whose *)
(* countries are all used up is passed over.                                 *)
CountryBalanced(inventory, admitted) ==
    LET rank == Place(admitted, LAMBDA f, g : inventory.rank[f] < inventory.rank[g])
        At(n) == CHOOSE f \in admitted : rank[f] = n
        Countries == UNION {Catalog[f].country : f \in admitted}
        HasRoom(f, used) == \E c \in Catalog[f].country : used[c] < Policy.world_country_cap
        LeastUsed(f, used) ==
            CHOOSE c \in Catalog[f].country :
                \A d \in Catalog[f].country \ {c} : Lower(<<used[c], c>>, <<used[d], d>>)
        after[n \in 0 .. Cardinality(admitted)] ==
            IF n = 0 THEN [c \in Countries |-> 0]
            ELSE IF HasRoom(At(n), after[n - 1])
            THEN [after[n - 1] EXCEPT ![LeastUsed(At(n), after[n - 1])] = @ + 1]
            ELSE after[n - 1]
    IN  {f \in admitted : HasRoom(f, after[rank[f] - 1])}

WorldCinema(inventory, history) ==
    LET countries == Strongest(Policy.world_supported_country_pool,
                               {p \in Qualifying(history, "country") :
                                   p.entity \notin Names.english_core})
        languages == {p \in Qualifying(history, "language") :
                         p.entity \notin Names.english \cup Names.unspoken}
        Matches(f) == {p \in countries \cup languages : p.entity \in Catalog[f][p.family]}
        admitted ==
            {f \in DOMAIN inventory.rank \cap DOMAIN Catalog :
                /\ IsWorldCinema(f)
                /\ \/ Matches(f) # {}
                   \/ /\ f \in inventory.positive
                      /\ inventory.svd[f] <= Policy.world_discovery_svd_rank}
        films == CountryBalanced(inventory, admitted)
    IN  Viable(WithHeadCap(
            Proposal("world_cinema", "cultural", countries # {},
                     MapThenSumSet(LAMBDA p : p.support, countries),
                     ByRrf(inventory, films), Policy.world_minimum),
            Policy.world_head_cap))

(* Where head films are capped, one is let in only by a leading SVD rank     *)
(* that popularity missed.                                                   *)
OutsideUsual(inventory, history) ==
    LET Familiar(family) == {p.entity : p \in Strongest(
                                 Policy.outside_familiar_entities_per_family,
                                 Qualifying(history, family))}
        outside ==
            {f \in inventory.positive \cap DOMAIN Catalog :
                /\ \A family \in Families : Entities(f, family) \cap Familiar(family) = {}
                /\ inventory.rank[f] <= Policy.outside_rrf_rank
                /\ IF Stratum(f) = "HEAD"
                   THEN Policy.outside_lower_head_cap > 0 =>
                            /\ f \notin inventory.popular
                            /\ inventory.svd[f] <= Policy.outside_lower_head_svd_rank
                   ELSE inventory.svd[f] <= Policy.outside_svd_rank}
            \ HiddenNeighborhood(inventory, history)
        primary == {f \in outside : /\ Stratum(f) # "HEAD"
                                    /\ inventory.svd[f] <= Policy.outside_primary_svd_rank
                                    /\ inventory.rank[f] <= Policy.outside_primary_rrf_rank}
        support == MapThenSumSet(LAMBDA family : Cardinality(Familiar(family)), Families)
        plain == Proposal("outside_usual", "serendipity", FALSE, support,
                          [f \in outside |-> inventory.svd[f]], Policy.outside_minimum)
    IN  IF \/ Cardinality({family \in Families : Familiar(family) # {}})
                  < Policy.outside_minimum_familiar_families
           \/ Cardinality(primary) < Policy.outside_minimum
        THEN {}
        ELSE IF Policy.outside_lower_head_cap = 0 THEN Viable(plain)
        ELSE Viable(WithHeadCap(plain, Policy.outside_lower_head_cap))

ClassicCinema(inventory, history) ==
    LET films == {f \in inventory.positive \cap DOMAIN Catalog :
                     /\ Catalog[f].year # Unknown
                     /\ Catalog[f].year <= Policy.classic_year_boundary}
    IN  Viable(WithHeadCap(
            Proposal("classic_cinema", "cultural", FALSE, IndexedPositive(history),
                     ByRrf(inventory, films), Policy.classic_minimum),
            Policy.classic_head_cap))

Jaccard(S, T) == Fraction(Cardinality(S \cap T), Max({Cardinality(S \cup T), 1}))

(* The candidates nearest to an anchor in vector space.                      *)
Neighborhood(inventory, a) ==
    LET films == DOMAIN inventory.rank
        near == Place(films, LAMBDA f, g : Lower(<<-Similarity[a][f], inventory.rank[f]>>,
                                                 <<-Similarity[a][g], inventory.rank[g]>>))
        size == Min({Policy.anchor_neighborhood_limit, Cardinality(films)})
    IN  [f \in {g \in films : near[g] <= size} |-> near[f]]

(* The best rated anchors compete by the similarity of their neighbourhood,  *)
(* then by little overlap with Top Picks.                                    *)
Anchor(inventory, history) ==
    LET liked == RatedFrom(history, Rated(history), Policy.anchor_fallback_rating)
        high  == RatedFrom(history, liked, Policy.anchor_rating)
        anchors == IF high # {} THEN high ELSE liked
        best == {a \in anchors : \A b \in anchors : history.rating[b] <= history.rating[a]}
        near == [a \in best |-> Neighborhood(inventory, a)]
        Shown(a) == {f \in DOMAIN near[a] : near[a][f] <= Policy.anchor_maximum}
        total == [a \in best |-> Sum(Similarity[a], Shown(a))]
        picks == {f \in DOMAIN inventory.rank :
                     inventory.rank[f] <= Policy.top_picks_maximum}
        Better(a, b) ==
            LET x == Jaccard(Shown(a), picks)  y == Jaccard(Shown(b), picks)
            IN  \/ total[a] > total[b]
                \/ total[a] = total[b] /\ Below(x, y)
                \/ total[a] = total[b] /\ ~Below(y, x) /\ a < b
    IN  {a \in best : \A b \in best \ {a} : Better(a, b)}

BecauseYouLiked(inventory, history) ==
    IF DOMAIN inventory.rank = {} THEN {}
    ELSE UNION {Viable([Proposal("because_you_liked", "personalized",
                                 history.rating[a] >= Policy.anchor_rating, 1,
                                 Neighborhood(inventory, a), Policy.anchor_minimum)
                        EXCEPT !.maximum = Policy.anchor_maximum]) :
                a \in Anchor(inventory, history)}

(* build_category_proposals.                                                 *)
Proposals(inventory, history) ==
    UNION {TopPicks(inventory),
           HiddenGems(inventory, history),
           BrazilianCinema(inventory),
           DirectorsYouLove(inventory, history),
           SingleEntity(inventory, history, "favorite_genre", "genre", Policy.genre_minimum),
           SingleEntity(inventory, history, "favorite_decade", "decade", Policy.decade_minimum),
           WorldCinema(inventory, history),
           OutsideUsual(inventory, history),
           ClassicCinema(inventory, history),
           BecauseYouLiked(inventory, history)}
=============================================================================
