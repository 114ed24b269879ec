------------------------------ MODULE Scraping ------------------------------
(* What reading Letterboxd turns into: the outcome of a film page for the    *)
(* queue, the watches of a profile for an import, and the aggregates of the  *)
(* catalog refresh.  The HTTP transport and the HTML are left to the client  *)
(* library: a page is what the library returns of it.                        *)
(*                                                                           *)
(* A film page is [loads, title, tmdb, count, average].  A profile answer is *)
(* [error, code, movies], movies the sequence of [key, slug, rating] in the  *)
(* order of the provider.                                                    *)
EXTENDS Integers, Sequences

CONSTANTS
    FilmPages,  \* what reading a film may give
    Answers,    \* what reading a profile may give
    None,       \* a value that is absent
    Unusable    \* a value of the wrong type, blank or not convertible

-----------------------------------------------------------------------------
(* scrape_film_queue, one slug                                               *)

MinimumTotalLogs == 1000

(* _rating_count: the JSON-LD aggregate is there, and no less than zero.     *)
Counted(page) == page.loads /\ page.count \notin {None, Unusable} /\ page.count >= 0

(* _metadata: all else may be missing.                                       *)
Described(page) == {page.title, page.tmdb} \cap {None, Unusable} = {}

Popular(page) == page.count >= MinimumTotalLogs

Outcome(page) ==
    CASE ~Counted(page)                    -> "FAILED"
      [] Counted(page) /\ ~Popular(page)   -> "FILTERED"
      [] Counted(page) /\ Popular(page)    -> IF Described(page) THEN "SUCCESS" ELSE "FAILED"

ScrapeOutcomes == {Outcome(page) : page \in FilmPages}

-----------------------------------------------------------------------------
(* scrape_user_profile                                                       *)

(* The transport, a rate limit or the server: a later attempt may succeed.   *)
Transient(answer) ==
    \/ answer.error = "page_load"
    \/ /\ answer.error = "response" /\ answer.code # None
       /\ answer.code = 429 \/ answer.code >= 500

(* Any other error, and an envelope that is not the mapping it must be.      *)
Permanent(answer) ==
    ~Transient(answer) /\ (answer.error # "none" \/ answer.movies \in {None, Unusable})

(* An absent slug falls back to the key; a blank one does not.               *)
SlugOf(movie) == IF movie.slug = None THEN movie.key ELSE movie.slug

Usable(movie) == movie # Unusable /\ SlugOf(movie) # Unusable

(* A rating that cannot be read leaves the watch, unrated.                   *)
GivenRating(movie) == IF movie.rating = Unusable THEN None ELSE movie.rating

(* Of several watches of a film the import keeps the last.                   *)
LastOf(movies, s) ==
    CHOOSE k \in DOMAIN movies :
        /\ Usable(movies[k]) /\ SlugOf(movies[k]) = s
        /\ \A l \in DOMAIN movies : Usable(movies[l]) /\ SlugOf(movies[l]) = s => l <= k

ScrapedWatches(movies) ==
    [s \in {SlugOf(movies[k]) : k \in {l \in DOMAIN movies : Usable(movies[l])}} |->
        GivenRating(movies[LastOf(movies, s)])]

(* sync_profile raises EmptyProfileError over a profile without watches.     *)
Empty(answer) == ~Transient(answer) /\ ~Permanent(answer) /\ ScrapedWatches(answer.movies) = <<>>

Taken(answer) == ~Transient(answer) /\ ~Permanent(answer) /\ ~Empty(answer)

-----------------------------------------------------------------------------
(* refresh_recent_catalog: a catalog maps slugs to [year, average, count].   *)

(* catalog_refresh_years, defined in January and July only.                  *)
RefreshYears(month, year) ==
    CASE month = 1 -> {year - 1}
      [] month = 7 -> {year - 1, year}

Selected(catalog, years) == {s \in DOMAIN catalog : catalog[s].year \in years}

(* _valid_aggregate_values: each of the two by itself; a rating is out of 50 *)
(* tenths of a star.                                                         *)
ValidAggregates(page) ==
    {a \in {"average"} : page.average \notin {None, Unusable} /\ page.average \in 0 .. 50}
    \cup {a \in {"count"} : Counted(page)}

Refreshable(page) == Outcome(page) = "SUCCESS" /\ ValidAggregates(page) # {}

(* The films whose own transaction commits; lost are those whose does not.   *)
Updated(catalog, years, pages, lost) ==
    {s \in Selected(catalog, years) \ lost : Refreshable(pages[s])}

Refreshed(catalog, years, pages, lost) ==
    [s \in DOMAIN catalog |->
        IF s \notin Updated(catalog, years, pages, lost) THEN catalog[s]
        ELSE [a \in DOMAIN catalog[s] |->
                 IF a \in ValidAggregates(pages[s]) THEN pages[s][a] ELSE catalog[s][a]]]
=============================================================================
