--------------------------- MODULE MCCategoryFeed ---------------------------
(* Eight films.  1 .. 4 may be in the user's history; 7 has no metadata, 8   *)
(* is not in the popularity ranking, 9 is newer than the bundle; entity ids  *)
(* are below 100 for directors, from 100 for genres, 200 for countries and   *)
(* 300 for languages.                                                        *)
EXTENDS CategoryFeed, TrainingData

Row(id, u, f, r) == [id |-> id, user |-> u, film |-> f, rating |-> r]

(* Film 8 was only watched, and u1 rated film 2 twice.                       *)
MCLogs == {Row(1, "u1", 1, 8), Row(2, "u1", 2, 8), Row(3, "u1", 7, 7), Row(4, "u1", 2, 4),
           Row(5, "u2", 1, 9), Row(6, "u2", 2, 10), Row(7, "u2", 8, Unrated),
           Row(8, "u3", 2, 7), Row(9, "u3", 3, 4), Row(10, "u3", 4, 6),
           Row(11, "u3", 5, 1), Row(12, "u3", 6, 5)}

MCArtifact   == 1 .. 8
MCPopularity == [f \in 1 .. 7 |-> <<2, 1, 4, 5, 6, 7, 3>>[f]]

(* The ranking the training exports from these rows is that one.             *)
ASSUME RankingOfRows == MCPopularity = PopularityRanks(MCLogs)

(* What TrainingDataProofs shows of every database, evaluated on these rows. *)
ASSUME TrainingOfRows == \A logs \in SUBSET {r \in MCLogs : r.id < 9} :
    /\ Measured(logs) = Snapshot(logs)
    /\ RatedRows(logs) # {} => ValidPopularity(PopularityRanks(logs), PopularityCounts(logs))
    /\ \A more \in SUBSET {r \in MCLogs : r.id > 8} :
          LET now     == Snapshot(logs \cup more)
              trained == ManifestBaseline(logs, 0)
          IN  /\ ShouldRetrain(now, trained, FALSE, 0) <=>
                    \/ now.users - trained.users >= NewUsersThreshold
                    \/ Cardinality(now.films) - Cardinality(trained.films) >= NewFilmsThreshold
              /\ ShouldRetrain(now, LegacyBaseline(now.films, 0), FALSE, 0)

MCYears == [f \in {1, 2, 3, 4, 5, 6, 8, 9} |->
               <<1985, 1962, 1968, 1985, 1966, 1961, 0, Unknown, 1950>>[f]]

MCDirectors == {<<1, 1>>, <<2, 2>>, <<3, 1>>, <<3, 2>>, <<4, 3>>, <<5, 2>>, <<6, 1>>, <<8, 4>>,
                <<9, 1>>}
MCGenres    == {<<1, 100>>, <<2, 100>>, <<2, 101>>, <<3, 100>>, <<4, 101>>, <<5, 100>>,
                <<5, 101>>, <<6, 100>>, <<8, 102>>}
MCCountries == {<<1, 200>>, <<2, 201>>, <<3, 201>>, <<3, 202>>, <<4, 202>>, <<5, 201>>,
                <<6, 200>>, <<6, 201>>, <<8, 203>>}
MCLanguages == {<<1, 300>>, <<2, 301>>, <<3, 301>>, <<3, 302>>, <<4, 302>>, <<5, 301>>,
                <<6, 301>>, <<8, 303>>}
Film(d, g, c, l, y) == [director |-> d, genre |-> g, country |-> c, language |-> l, year |-> y]

MCCatalog == [f \in {1, 2, 3, 4, 5, 6, 8} |->
    CASE f = 1 -> Film({1},    {100},      {200},      {300},      1985)
      [] f = 2 -> Film({2},    {100, 101}, {201},      {301},      1962)
      [] f = 3 -> Film({1, 2}, {100},      {201, 202}, {301, 302}, 1968)
      [] f = 4 -> Film({3},    {101},      {202},      {302},      1985)
      [] f = 5 -> Film({2},    {100, 101}, {201},      {301},      1966)
      [] f = 6 -> Film({1},    {100},      {200, 201}, {301},      1961)
      [] f = 8 -> Film({4},    {102},      {203},      {303},      Unknown)]

(* The catalog loaded from these links is that one.                          *)
ASSUME CatalogOfLinks ==
    MCCatalog = LoadedCatalog(MCYears, MCDirectors, MCGenres, MCCountries, MCLanguages)

MCNames == [brazil |-> {202}, brazilian_language |-> {302}, english_core |-> {200},
            english |-> {300}, nowhere |-> {203}, unspoken |-> {303}]

Vector == <<<<2, 1>>, <<1, 2>>, <<2, 2>>, <<-1, 2>>, <<2, 1>>, <<0, 2>>, <<1, 1>>, <<1, -1>>>>
MCSimilarity == [f \in MCArtifact |-> [g \in MCArtifact |->
                    Vector[f][1] * Vector[g][1] + Vector[f][2] * Vector[g][2]]]

MCPolicy == [
    rrf_k |-> 60, svd_depth |-> 6, popularity_depth |-> 4,
    retrieval_top_k |-> 3, list_size |-> 2,
    maximum_categories |-> 5, top_picks_maximum |-> 2, default_maximum |-> 3,
    positive_rating |-> 7, anchor_rating |-> 9, anchor_fallback_rating |-> 8,
    high_rating |-> 9, negative_rating |-> 5,
    director_smoothing |-> 5, broad_entity_smoothing |-> 4,
    director_minimum_support |-> 1, director_minimum_positive |-> 1,
    director_minimum_high |-> 1, director_maximum_negative_percent |-> 25,
    broad_minimum_support |-> 1, broad_minimum_positive_percent |-> 70,
    broad_minimum_high |-> 1,
    hidden_minimum |-> 1, hidden_mid_svd_rank |-> 4, hidden_tail_svd_rank |-> 2,
    hidden_minimum_indexed_positives |-> 1,
    brazilian_minimum |-> 1,
    anchor_minimum |-> 2, anchor_maximum |-> 3, anchor_neighborhood_limit |-> 4,
    directors_minimum |-> 1, director_pool_size |-> 2, director_film_cap |-> 2,
    genre_minimum |-> 2, decade_minimum |-> 1,
    world_minimum |-> 1, world_supported_country_pool |-> 2, world_country_cap |-> 1,
    world_discovery_svd_rank |-> 5, world_head_cap |-> 1,
    outside_minimum |-> 1, outside_svd_rank |-> 6, outside_rrf_rank |-> 7,
    outside_primary_svd_rank |-> 6, outside_primary_rrf_rank |-> 7,
    outside_familiar_entities_per_family |-> 1, outside_minimum_familiar_families |-> 2,
    outside_lower_head_cap |-> 1, outside_lower_head_svd_rank |-> 2,
    classic_year_boundary |-> 1969, classic_minimum |-> 1, classic_head_cap |-> 1,
    category_overlap_percent |-> 70, maximum_film_appearances |-> 2,
    top_picks_reserved |-> 1,
    generic_director_cap |-> 1, generic_decade_cap |-> 1, generic_genre_cap |-> 1,
    sparse_rated_threshold |-> 2, deep_watched_threshold |-> 4]

Grades == {4, 8, 10, NoRating}
Past(grades) == [watched |-> DOMAIN grades,
                 rating  |-> [f \in {g \in DOMAIN grades : grades[g] # NoRating} |-> grades[f]]]
MCHistories == UNION {{Past(grades) : grades \in [S -> Grades]} : S \in SUBSET {1, 2, 3}}
                   \cup {Past(grades) : grades \in [1 .. 4 -> Grades]}

(* One film rated, before an import brings another.                          *)
MCOneRating == {Past([f \in {1} |-> 8])}

MCWatches == {[film |-> 4, rating |-> 10], [film |-> 1, rating |-> NoRating],
              [film |-> 5, rating |-> 8]}
MCTies == {[f \in MCArtifact |-> f], [f \in MCArtifact |-> -f]}
=============================================================================
