------------------------- MODULE MCRankerBenchmark -------------------------
EXTENDS RankerBenchmark

MCFilmOf == [a |-> 1, b |-> 2, c |-> 3, d |-> 4, e |-> 5, f |-> 6, g |-> 7, h |-> 8, i |-> 9]

(* The number a stream of integers yields.                                  *)
MCDraw(stream, n) ==
    (MapThenSumSet(LAMBDA i : (2 * i + 1) * stream[i], DOMAIN stream)) % n

Row(u, slug, rating) == [user |-> u, slug |-> slug, rating |-> rating]

Watched(u, likes, dislikes) ==
    {Row(u, slug, 7 + ((u + MCFilmOf[slug]) % 4)) : slug \in likes}
        \cup {Row(u, slug, 4) : slug \in dislikes}

(* Rows 1 .. n of a set, in any order.                                      *)
Enumerate(S) ==
    FoldSet(LAMBDA row, seq : Append(seq, row), << >>, S)

FirstRows ==
    Watched(1, {"a", "b", "c", "d"}, {"e"}) \cup Watched(2, {"a", "c", "e"}, {"f"})
    \cup Watched(3, {"b", "d", "f", "g"}, {}) \cup Watched(4, {"a", "g", "h"}, {"b"})
    \cup Watched(5, {"c", "d"}, {"h"}) \cup Watched(6, {"a", "e", "f", "h", "b"}, {"d"})

(* A CSV, one with a new user and an unknown slug, one with a conflict.     *)
MCCsvs == <<Enumerate(FirstRows),
            Enumerate(FirstRows \cup Watched(7, {"b", "c", "h"}, {"a"}))
                \o <<Row(2, "a", 7 + (3 % 4)), Row(3, "unknown", 9)>>,
            Enumerate(FirstRows) \o <<Row(1, "a", 1)>>>>

MCPlans == {<<<<1, 0>>, <<1, 1>>, <<1, 2>>>>, <<<<1, 1>>>>}

MCPrediction == [full |-> [f \in 1 .. 9 |-> (5 * f) % 7], source_only |-> [f \in 1 .. 9 |-> f % 3]]

MCAblationNames == {<<"full">>, <<"source_only", "full">>}

MCLeftovers == {{}, {<<1, 1>>}}

MCWeights == <<<<50, 50>>, <<60, 40>>, <<40, 60>>>>
MCDefault == [weight |-> 1, k |-> 2]
=============================================================================
