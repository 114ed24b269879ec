---------------------------- MODULE MCIngestion ----------------------------
(* Small instances of Ingestion for TLC.                                     *)
EXTENDS Ingestion, TLC

CONSTANTS
    MaxWatches, \* bound: films of one scraped payload
    y1, unknown

(* Each film has a title of its own; all share one original title, which     *)
(* resolves while one of them is in the catalog and is ambiguous afterwards. *)
Spelled(key) == [key |-> key, spelling |-> "catalog"]
Typed(key)   == [key |-> key, spelling |-> "exported"]
MCCatalog == [s \in Slugs |-> [title |-> Spelled(s), original |-> Spelled("alias"), year |-> y1]]

Csv(name, columns, rows) == [name |-> name, intact |-> TRUE, utf8 |-> TRUE,
                                 strict |-> TRUE, columns |-> columns, rows |-> rows]
Watch(uri, key)  == [uri |-> uri, name |-> Typed(key), year |-> y1]
Rate(uri, r)     == Watch(uri, "alias") @@ [rating |-> r]
EmptyRow == [c \in WatchedColumns |-> Blank]

WatchedCsv(rows) == Csv("watched.csv", <<"name", "year", "uri">>, rows)
RatingsCsv(rows) == Csv("ratings.csv", <<"name", "year", "uri", "rating">>, rows)
Export(members)  == [bounded |-> TRUE, members |-> members]

Sound ==
    UNION {{Export(<<WatchedCsv(<<Watch("a", s), EmptyRow, Watch("a", s)>>)>>)} \cup
           {Export(<<RatingsCsv(<<Rate("a", r), Rate("b", r)>>),
                     WatchedCsv(<<Watch("a", s), Watch("c", unknown)>>)>>) : r \in HalfStars} :
           s \in Slugs}
    \cup {Export(<<WatchedCsv(<<Watch("b", "alias")>>), Csv("ratings.csv", <<>>, <<>>)>>)}

(* One defect each: a limit, the members, the tables, the rows.              *)
OneWatch == WatchedCsv(<<Watch("a", "alias")>>)
Unsound ==
    {[Export(<<OneWatch>>) EXCEPT !.bounded = FALSE],
     Export(<<>>), Export(<<OneWatch, OneWatch>>),
     Export(<<[OneWatch EXCEPT !.intact = FALSE]>>),
     Export(<<[OneWatch EXCEPT !.utf8 = FALSE]>>),
     Export(<<[OneWatch EXCEPT !.columns = <<"name", "name", "uri">>]>>),
     Export(<<[OneWatch EXCEPT !.strict = FALSE]>>),
     Export(<<WatchedCsv(<<EmptyRow>>)>>),
     Export(<<WatchedCsv(<<Watch(Blank, "alias")>>)>>),
     Export(<<WatchedCsv(<<Watch("a", "alias"), Watch("a", unknown)>>)>>),
     Export(<<OneWatch, RatingsCsv(<<Rate("a", Blank)>>)>>)}

MCArchives == Sound \cup Unsound

-----------------------------------------------------------------------------
Movie(key, slug, r)    == [key |-> key, slug |-> slug, rating |-> r]
Answer(error, code, m) == [error |-> error, code |-> code, movies |-> m]
Got(movies)            == Answer("none", None, movies)

(* A damaged entry, one with a blank slug, and a film that comes twice.      *)
OneFilm(s, t, q, r) == <<Unusable, Movie(t, Unusable, r), Movie(t, s, q), Movie(s, None, r)>>

MCAnswers ==
    {Got(OneFilm(s, t, q, r)) : s, t \in Slugs, q \in Ratings, r \in Ratings \cup {Unusable}}
    \cup {Got(<<Movie(s, None, q), Movie(t, t, r)>>) :
             s, t \in {u \in Slugs : MaxWatches > 1}, q, r \in Ratings}
    \cup {Got(<<>>), Got(None), Answer("page_load", None, None),
          Answer("response", 429, None), Answer("response", 404, None),
          Answer("response", None, None), Answer("unavailable", None, None),
          Answer("other", None, None)}
    \cup {Got(<<Movie(s, Unusable, r)>>) : s \in Slugs, r \in Ratings}

Page(title, tmdb, count, average) ==
    [loads |-> TRUE, title |-> title, tmdb |-> tmdb, count |-> count, average |-> average]
Whole == Page("title", 7, MinimumTotalLogs, 37)
MCFilmPages ==
    {Whole, [Whole EXCEPT !.loads = FALSE], [Whole EXCEPT !.count = MinimumTotalLogs - 1],
     [Whole EXCEPT !.count = 0], [Whole EXCEPT !.count = -1], [Whole EXCEPT !.count = None],
     [Whole EXCEPT !.title = Unusable], [Whole EXCEPT !.tmdb = None],
     [Whole EXCEPT !.average = None], [Whole EXCEPT !.average = 51],
     Page(None, 7, 10, None)}

(* A film of the catalog is refreshed three times after it came out, and a   *)
(* refresh changes at most the aggregates of the films it selects.           *)
ASSUME RefreshOfRows ==
    /\ \A y \in 2000 .. 2005 :
          {d \in {1, 7} \X (1999 .. 2008) : y \in RefreshYears(d[1], d[2])}
             = {<<7, y>>, <<1, y + 1>>, <<7, y + 1>>}
    /\ LET old == [f \in 1 .. 3 |-> [year |-> 2000 + f, average |-> 20, count |-> 1200]]
       IN  \A pages \in [1 .. 3 -> MCFilmPages], lost \in SUBSET {1, 2} :
              LET new == Refreshed(old, RefreshYears(7, 2003), pages, lost)
              IN  \A f \in 1 .. 3 :
                    /\ new[f].year = old[f].year
                    /\ new[f].count >= MinimumTotalLogs /\ new[f].average \in 0 .. 50
                    /\ new[f] # old[f] =>
                          f \in {2, 3} \ lost /\ Outcome(pages[f]) = "SUCCESS"

Symmetry == Permutations(Imports) \cup Permutations(Batches)
              \cup Permutations(Users) \cup Permutations(Slugs)
=============================================================================
