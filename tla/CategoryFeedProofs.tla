------------------------- MODULE CategoryFeedProofs -------------------------
(* The candidates of a request, its proposals and the rows of the feed, for  *)
(* every model bundle, catalog, history and policy whose caps are counts:    *)
(* what no history, no order of passes and rows and no import can break.     *)
EXTENDS CategoryFeed, FiniteLemmas, SequenceTheorems

-----------------------------------------------------------------------------
(* Fractions.                                                                *)

IsFraction(x) == x.num \in Nat /\ x.den \in Nat \ {0}

LEMMA Smaller ==
    ASSUME NEW a \in Int, NEW b \in Int, NEW c \in Nat \ {0}
    PROVE  a * c < b * c <=> a < b
<1>1. a < b => a * c < b * c
  <2>1. a < b => (b - a) * c > 0
    OBVIOUS
  <2>2. (b - a) * c = b * c - a * c
    OBVIOUS
  <2> QED BY <2>1, <2>2
<1>2. b < a => b * c < a * c
  <2>1. b < a => (a - b) * c > 0
    OBVIOUS
  <2>2. (a - b) * c = a * c - b * c
    OBVIOUS
  <2> QED BY <2>1, <2>2
<1> QED BY <1>1, <1>2

(* Below is a strict order, and neither below nor above is an equivalence.   *)
LEMMA BelowTransitive ==
    ASSUME NEW x, NEW y, NEW z, IsFraction(x), IsFraction(y), IsFraction(z)
    PROVE  /\ ~Below(x, x)
           /\ Below(x, y) => ~Below(y, x)
           /\ Below(x, y) /\ ~Below(z, y) => Below(x, z)
           /\ ~Below(y, x) /\ Below(y, z) => Below(x, z)
           /\ ~Below(y, x) /\ ~Below(z, y) => ~Below(z, x)
<1> DEFINE a == x.num  b == x.den  c == y.num  d == y.den  e == z.num  f == z.den
<1>1. a \in Nat /\ c \in Nat /\ e \in Nat /\ b \in Nat \ {0} /\ d \in Nat \ {0} /\ f \in Nat \ {0}
  BY DEF IsFraction
<1>2. /\ Below(x, x) <=> a * b < a * b
      /\ Below(x, y) <=> a * d < c * b
      /\ Below(y, x) <=> c * b < a * d
      /\ Below(z, y) <=> e * d < c * f
      /\ Below(y, z) <=> c * f < e * d
      /\ Below(x, z) <=> a * f < e * b
      /\ Below(z, x) <=> e * b < a * f
  BY DEF Below
<1> HIDE DEF a, b, c, d, e, f
<1>3. /\ a * d \in Int /\ c * b \in Int /\ e * d \in Int /\ c * f \in Int
      /\ a * f \in Int /\ e * b \in Int /\ a * b \in Int
  BY <1>1
<1>4. /\ (a * d) * f < (c * b) * f <=> a * d < c * b
      /\ (c * f) * b < (e * d) * b <=> c * f < e * d
      /\ (e * d) * b < (c * f) * b <=> e * d < c * f
      /\ (c * b) * f < (a * d) * f <=> c * b < a * d
      /\ (a * f) * d < (e * b) * d <=> a * f < e * b
      /\ (e * b) * d < (a * f) * d <=> e * b < a * f
  BY <1>1, <1>3, Smaller
<1>5. /\ (a * d) * f = (a * f) * d
      /\ (c * b) * f = (c * f) * b
      /\ (e * d) * b = (e * b) * d
  BY <1>1
<1> DEFINE u == (a * f) * d  v == (c * f) * b  w == (e * b) * d
<1>6. u \in Int /\ v \in Int /\ w \in Int
  BY <1>1
<1>7. /\ Below(x, y) <=> u < v
      /\ Below(y, x) <=> v < u
      /\ Below(z, y) <=> w < v
      /\ Below(y, z) <=> v < w
      /\ Below(x, z) <=> u < w
      /\ Below(z, x) <=> w < u
  BY <1>2, <1>4, <1>5
<1>8. ~Below(x, x)
  BY <1>2, <1>3
<1> HIDE DEF u, v, w
<1> QED BY <1>6, <1>7, <1>8

-----------------------------------------------------------------------------
(* Reciprocal rank fusion.                                                   *)

IsSource(svd, popular) ==
    /\ svd \in [DOMAIN svd -> Nat \ {0}] /\ DOMAIN svd \subseteq Artifact
    /\ popular \subseteq DOMAIN Popularity

Candidates(svd, popular) == DOMAIN svd \cup popular

Fused(svd, popular) ==
    {p \in Candidates(svd, popular) \X Candidates(svd, popular) :
        RrfAhead(svd, popular, p[1], p[2])}

LEMMA ScoreIsFraction ==
    ASSUME NEW svd, NEW popular, IsSource(svd, popular), NEW f \in Candidates(svd, popular)
    PROVE  IsFraction(RrfScore(svd, popular, f))
<1> DEFINE a == IF f \in DOMAIN svd THEN Policy.rrf_k + svd[f] ELSE 1
           b == IF f \in popular THEN Policy.rrf_k + Popularity[f] ELSE 1
<1>1. a \in Nat \ {0} /\ b \in Nat \ {0}
  BY BundleAssumption, PolicyAssumption DEF IsSource
<1> HIDE DEF a, b
<1>2. a * b \in Nat \ {0}
  BY <1>1
<1>3. RrfScore(svd, popular, f) =
          Fraction((IF f \in DOMAIN svd THEN b ELSE 0) + (IF f \in popular THEN a ELSE 0), a * b)
  BY DEF RrfScore, a, b
<1>4. (IF f \in DOMAIN svd THEN b ELSE 0) + (IF f \in popular THEN a ELSE 0) \in Nat
  BY <1>1
<1> QED BY <1>2, <1>3, <1>4 DEF IsFraction, Fraction

LEMMA FusedOrders ==
    ASSUME NEW svd, NEW popular, IsSource(svd, popular)
    PROVE  /\ IsFiniteSet(Candidates(svd, popular))
           /\ StrictOrder(Candidates(svd, popular), Fused(svd, popular))
<1> DEFINE S == Candidates(svd, popular)
           At(f) == RrfScore(svd, popular, f)
<1>1. S \subseteq Artifact /\ IsFiniteSet(S)
  BY BundleAssumption, FS_Subset DEF IsSource, Candidates
<1>2. \A f \in S : f \in Nat /\ IsFraction(At(f))
  BY <1>1, BundleAssumption, ScoreIsFraction
<1>3. \A f, g \in S : <<f, g>> \in Fused(svd, popular)
                          <=> Below(At(g), At(f)) \/ (~Below(At(f), At(g)) /\ f < g)
  BY DEF Fused, RrfAhead
<1> HIDE DEF At, S
<1>4. \A x \in S : <<x, x>> \notin Fused(svd, popular)
  BY <1>2, <1>3, BelowTransitive
<1>5. ASSUME NEW x \in S, NEW y \in S, NEW z \in S,
             <<x, y>> \in Fused(svd, popular), <<y, z>> \in Fused(svd, popular)
      PROVE  <<x, z>> \in Fused(svd, popular)
  <2>1. /\ Below(At(y), At(x)) \/ (~Below(At(x), At(y)) /\ x < y)
        /\ Below(At(z), At(y)) \/ (~Below(At(y), At(z)) /\ y < z)
    BY <1>3, <1>5
  <2>2. /\ IsFraction(At(x)) /\ IsFraction(At(y)) /\ IsFraction(At(z))
        /\ x \in Nat /\ y \in Nat /\ z \in Nat
    BY <1>2
  <2>3. /\ Below(At(z), At(y)) /\ ~Below(At(x), At(y)) => Below(At(z), At(x))
        /\ ~Below(At(y), At(z)) /\ Below(At(y), At(x)) => Below(At(z), At(x))
        /\ ~Below(At(x), At(y)) /\ ~Below(At(y), At(z)) => ~Below(At(x), At(z))
        /\ Below(At(y), At(x)) => ~Below(At(x), At(y))
    BY <2>2, BelowTransitive
  <2>4. Below(At(z), At(x)) \/ (~Below(At(x), At(z)) /\ x < z)
    BY <2>1, <2>2, <2>3
  <2> QED BY <1>3, <2>4
<1>6. ASSUME NEW x \in S, NEW y \in S, x # y
      PROVE  <<x, y>> \in Fused(svd, popular) \/ <<y, x>> \in Fused(svd, popular)
  <2>1. x < y \/ y < x
    BY <1>2, <1>6
  <2> QED BY <1>3, <2>1
<1> QED BY <1>1, <1>4, <1>5, <1>6 DEF StrictOrder, S

(* The ranks are 1 .. n, and a film ranks before another exactly if it is    *)
(* ahead of it.                                                              *)
LEMMA RanksFused ==
    ASSUME NEW svd, NEW popular, IsSource(svd, popular)
    PROVE  LET S == Candidates(svd, popular)
               rank == RankByRrf(svd, popular)
           IN  /\ rank \in [S -> 1 .. Cardinality(S)]
               /\ \A f, g \in S : RrfAhead(svd, popular, f, g) <=> rank[f] < rank[g]
               /\ \A i \in 1 .. Cardinality(S) : \E f \in S : rank[f] = i
<1> DEFINE S == Candidates(svd, popular)
           R == Fused(svd, popular)
           rank == RankByRrf(svd, popular)
<1>1. \A f, g \in S : <<f, g>> \in R <=> RrfAhead(svd, popular, f, g)
  BY DEF Fused
<1>2. rank = [x \in S |-> 1 + Cardinality({y \in S : RrfAhead(svd, popular, y, x)})]
  BY DEF RankByRrf, Place, Candidates
<1>3. \A x \in S : {y \in S : RrfAhead(svd, popular, y, x)} = Before(S, R, x)
  BY <1>1 DEF Before
<1>4. rank = [x \in S |-> 1 + Cardinality(Before(S, R, x))]
  BY <1>2, <1>3
<1> HIDE DEF S, R, rank
<1>5. IsFiniteSet(S) /\ StrictOrder(S, R)
  BY FusedOrders DEF S, R
<1>6. /\ rank \in [S -> 1 .. Cardinality(S)]
      /\ \A f, g \in S : <<f, g>> \in R <=> rank[f] < rank[g]
      /\ \A i \in 1 .. Cardinality(S) : \E f \in S : rank[f] = i
  BY <1>4, <1>5, PlaceOrders
<1> QED BY <1>1, <1>6 DEF S, rank

(* 1 / a is smaller, and so is a sum of such terms, when a source ranks the  *)
(* film later or not at all.                                                 *)
LEMMA BothLater ==
    ASSUME NEW a \in Nat \ {0}, NEW b \in Nat \ {0}, NEW c \in Nat \ {0}, NEW d \in Nat \ {0},
           a <= c, b <= d, a < c \/ b < d
    PROVE  Below(Fraction(d + c, c * d), Fraction(b + a, a * b))
<1>1. /\ (a * b) * c <= (a * d) * c /\ (a * b) * d <= (c * b) * d
      /\ a < c => (a * b) * d < (c * b) * d
      /\ b < d => (a * b) * c < (a * d) * c
  <2>1. a * b <= a * d /\ a * b <= c * b
    BY Smaller
  <2>2. (a < c => a * b < c * b) /\ (b < d => a * b < a * d)
    BY Smaller
  <2> QED BY <2>1, <2>2, Smaller
<1>2. (a * b) * d + (a * b) * c < (c * b) * d + (a * d) * c
  <2>1. /\ (a * b) * c \in Int /\ (a * d) * c \in Int /\ (a * b) * d \in Int
        /\ (c * b) * d \in Int
    OBVIOUS
  <2> QED BY <1>1, <2>1
<1>3. /\ (d + c) * (a * b) = (a * b) * d + (a * b) * c
      /\ (b + a) * (c * d) = (c * b) * d + (a * d) * c
  OBVIOUS
<1> QED BY <1>2, <1>3 DEF Below, Fraction

LEMMA OneLater ==
    ASSUME NEW a \in Nat \ {0}, NEW b \in Nat \ {0}, NEW c \in Nat \ {0}, a <= c
    PROVE  /\ Below(Fraction(1, c), Fraction(b + a, a * b))
           /\ a < c => Below(Fraction(1, c), Fraction(1, a))
<1>1. b * a <= b * c /\ a * c > 0
  BY Smaller
<1>2. 1 * (a * b) < (b + a) * c
  <2>1. (b + a) * c = b * c + a * c /\ 1 * (a * b) = b * a
    OBVIOUS
  <2>2. b * a \in Int /\ b * c \in Int /\ a * c \in Int
    OBVIOUS
  <2> QED BY <1>1, <2>1, <2>2
<1> QED BY <1>2 DEF Below, Fraction

LEMMA FusionMonotone ==
    ASSUME NEW svd, NEW popular, IsSource(svd, popular),
           NEW f \in Candidates(svd, popular), NEW g \in Candidates(svd, popular),
           g \in DOMAIN svd => f \in DOMAIN svd /\ svd[f] <= svd[g],
           g \in popular => f \in popular /\ Popularity[f] <= Popularity[g],
           ~( /\ f \in DOMAIN svd => g \in DOMAIN svd /\ svd[g] <= svd[f]
              /\ f \in popular => g \in popular /\ Popularity[g] <= Popularity[f])
    PROVE  RrfAhead(svd, popular, f, g)
<1> DEFINE a == IF f \in DOMAIN svd THEN Policy.rrf_k + svd[f] ELSE 1
           b == IF f \in popular THEN Policy.rrf_k + Popularity[f] ELSE 1
           c == IF g \in DOMAIN svd THEN Policy.rrf_k + svd[g] ELSE 1
           d == IF g \in popular THEN Policy.rrf_k + Popularity[g] ELSE 1
<1>1. /\ a \in Nat \ {0} /\ b \in Nat \ {0} /\ c \in Nat \ {0} /\ d \in Nat \ {0}
      /\ \A h \in DOMAIN svd : svd[h] \in Nat
      /\ \A h \in popular : Popularity[h] \in Nat
      /\ Policy.rrf_k \in Nat
  BY BundleAssumption, PolicyAssumption DEF IsSource
<1>2. /\ g \in DOMAIN svd => a <= c
      /\ g \in popular => b <= d
  BY <1>1
<1>3. /\ RrfScore(svd, popular, f) =
             Fraction((IF f \in DOMAIN svd THEN b ELSE 0) + (IF f \in popular THEN a ELSE 0), a * b)
      /\ RrfScore(svd, popular, g) =
             Fraction((IF g \in DOMAIN svd THEN d ELSE 0) + (IF g \in popular THEN c ELSE 0), c * d)
  BY DEF RrfScore
<1>4. \/ f \in DOMAIN svd /\ (g \in DOMAIN svd => a < c)
      \/ f \in popular /\ (g \in popular => b < d)
  BY <1>1
<1>5. /\ f \notin DOMAIN svd => a = 1
      /\ f \notin popular => b = 1
      /\ g \notin DOMAIN svd => c = 1
      /\ g \notin popular => d = 1
  OBVIOUS
<1>6. g \in DOMAIN svd \cup popular
  BY DEF Candidates
<1> HIDE DEF a, b, c, d
<1>7. Below(RrfScore(svd, popular, g), RrfScore(svd, popular, f))
  <2>1. CASE g \in DOMAIN svd /\ g \in popular
    <3>1. Below(Fraction(d + c, c * d), Fraction(b + a, a * b))
      BY <1>1, <1>2, <1>4, <2>1, BothLater
    <3> QED BY <1>3, <2>1, <3>1
  <2>2. CASE g \in DOMAIN svd /\ g \notin popular
    <3>1. RrfScore(svd, popular, g) = Fraction(1, c)
      BY <1>1, <1>3, <1>5, <2>2
    <3>2. CASE f \in popular
      <4>1. Below(Fraction(1, c), Fraction(b + a, a * b))
        BY <1>1, <1>2, <2>2, OneLater
      <4> QED BY <1>3, <2>2, <3>1, <3>2, <4>1
    <3>3. CASE f \notin popular
      <4>1. RrfScore(svd, popular, f) = Fraction(1, a) /\ a < c
        BY <1>1, <1>3, <1>4, <1>5, <2>2, <3>3
      <4> QED BY <1>1, <3>1, <4>1, OneLater
    <3> QED BY <3>2, <3>3
  <2>3. CASE g \notin DOMAIN svd /\ g \in popular
    <3>1. RrfScore(svd, popular, g) = Fraction(1, d)
      BY <1>1, <1>3, <1>5, <2>3
    <3>2. CASE f \in DOMAIN svd
      <4>1. Below(Fraction(1, d), Fraction(a + b, b * a))
        BY <1>1, <1>2, <2>3, OneLater
      <4>2. a + b = b + a /\ b * a = a * b
        BY <1>1
      <4> QED BY <1>3, <2>3, <3>1, <3>2, <4>1, <4>2
    <3>3. CASE f \notin DOMAIN svd
      <4>1. RrfScore(svd, popular, f) = Fraction(1, b) /\ b < d
        BY <1>1, <1>3, <1>4, <1>5, <2>3, <3>3
      <4> QED BY <1>1, <3>1, <4>1, OneLater
    <3> QED BY <3>2, <3>3
  <2> QED BY <1>6, <2>1, <2>2, <2>3
<1> QED BY <1>7 DEF RrfAhead

-----------------------------------------------------------------------------
(* The inventory of a request.                                               *)

LEMMA PlaceCounts ==
    ASSUME NEW S, IsFiniteSet(S), NEW T, T \subseteq S
    PROVE  1 + Cardinality(T) \in Nat \ {0}
BY FS_Subset, FS_CardinalityType

LEMMA RetrieveRanks ==
    ASSUME NEW weight, NEW tie, NEW excluded, NEW requested, NEW depth
    PROVE  LET svd == Retrieve(weight, tie, excluded, requested, depth)
           IN  /\ DOMAIN svd \subseteq Artifact \ excluded
               /\ svd \in [DOMAIN svd -> Nat \ {0}]
<1> DEFINE svd == Retrieve(weight, tie, excluded, requested, depth)
<1>1. PICK found, rank, kept :
          /\ found \subseteq Artifact \ excluded /\ kept \subseteq found
          /\ rank \in [found -> Nat \ {0}]
          /\ svd = [f \in kept |-> rank[f]]
  <2> DEFINE score == [f \in Artifact |-> Score(weight, f)]
             place == Place(Artifact,
                            LAMBDA f, g : Lower(<<-score[f], tie[f]>>, <<-score[g], tie[g]>>))
             found == {f \in Artifact \ excluded : place[f] <= requested}
             rank  == Place(found, LAMBDA f, g : place[f] < place[g])
  <2> HIDE DEF place
  <2>1. IsFiniteSet(found)
    BY BundleAssumption, FS_Subset
  <2>2. rank = [f \in found |-> 1 + Cardinality({g \in found : place[g] < place[f]})]
    BY DEF Place
  <2>3. \A f \in found : 1 + Cardinality({g \in found : place[g] < place[f]}) \in Nat \ {0}
    BY <2>1, PlaceCounts
  <2>4. rank \in [found -> Nat \ {0}]
    BY <2>2, <2>3
  <2>5. svd = [f \in {g \in found : rank[g] <= depth} |-> rank[f]]
    BY DEF Retrieve, place
  <2> DEFINE kept == {g \in found : rank[g] <= depth}
  <2>6. found \subseteq Artifact \ excluded /\ kept \subseteq found
    OBVIOUS
  <2>7. svd = [f \in kept |-> rank[f]]
    BY <2>5
  <2> HIDE DEF svd, found, rank, kept
  <2> QED BY <2>4, <2>6, <2>7
<1> QED BY <1>1

LEMMA InventoryRanked ==
    ASSUME NEW h, NEW tie, NEW ranked, ranked = Inventory(h, tie)
    PROVE  /\ IsSource(ranked.svd, ranked.popular)
           /\ ranked.rank = RankByRrf(ranked.svd, ranked.popular)
           /\ DOMAIN ranked.rank = Candidates(ranked.svd, ranked.popular)
           /\ ranked.positive \subseteq DOMAIN ranked.rank
           /\ DOMAIN ranked.rank \cap h.watched = {}
<1> DEFINE none == [f \in {} |-> 0]
<1>1. /\ \/ ranked.svd = none
         \/ \E weight, depth : ranked.svd = RetrieveExact(weight, tie, h.watched, depth)
      /\ ranked.popular = PopularUnwatched(h.watched)
      /\ ranked.rank = RankByRrf(ranked.svd, ranked.popular)
      /\ ranked.positive \subseteq DOMAIN ranked.svd
  BY DEF Inventory
<1>2. /\ DOMAIN ranked.svd \subseteq Artifact \ h.watched
      /\ ranked.svd \in [DOMAIN ranked.svd -> Nat \ {0}]
  <2>1. CASE ranked.svd = none
    BY <2>1
  <2>2. CASE \E weight, depth : ranked.svd = RetrieveExact(weight, tie, h.watched, depth)
    BY <2>2, RetrieveRanks DEF RetrieveExact
  <2> QED BY <1>1, <2>1, <2>2
<1>3. ranked.popular \subseteq DOMAIN Popularity \ h.watched
  BY <1>1 DEF PopularUnwatched
<1>4. IsSource(ranked.svd, ranked.popular)
  BY <1>2, <1>3 DEF IsSource
<1>5. DOMAIN ranked.rank = Candidates(ranked.svd, ranked.popular)
  BY <1>1, <1>4, RanksFused
<1> QED BY <1>1, <1>2, <1>3, <1>4, <1>5 DEF Candidates

-----------------------------------------------------------------------------
(* What every builder proposes: films of the inventory, and counts for its   *)
(* head cap and its minimum.  Only Top Picks is whole and in RRF order.      *)

Sound(p, ranked) ==
    /\ p.head_cap \in Nat /\ p.minimum \in Nat
    /\ DOMAIN p.order \subseteq DOMAIN ranked.rank
    /\ p.key = "top_picks" =>
           p.order = ranked.rank /\ p.maximum = Policy.top_picks_maximum

LEMMA PlainSound ==
    ASSUME NEW key, key # "top_picks", NEW role, NEW strong, NEW support, NEW order,
           NEW minimum \in Nat, NEW ranked, DOMAIN order \subseteq DOMAIN ranked.rank,
           NEW most, NEW cap \in Nat
    PROVE  /\ \A p \in Viable(Proposal(key, role, strong, support, order, minimum)) :
                  Sound(p, ranked)
           /\ \A p \in Viable([Proposal(key, role, strong, support, order, minimum)
                              EXCEPT !.maximum = most]) : Sound(p, ranked)
           /\ \A p \in Viable(WithHeadCap(Proposal(key, role, strong, support, order,
                                                   minimum), cap)) : Sound(p, ranked)
<1> DEFINE p == Proposal(key, role, strong, support, order, minimum)
           q == [p EXCEPT !.maximum = most]
           c == WithHeadCap(p, cap)
<1>1. p.head_cap = 0 /\ p.order = order /\ p.key = key /\ p.minimum = minimum
  BY DEF Proposal
<1>2. q.head_cap = 0 /\ q.order = order /\ q.key = key /\ q.minimum = minimum
  BY DEF Proposal
<1>3. c.head_cap = cap /\ c.order = order /\ c.key = key /\ c.minimum = minimum
  BY DEF Proposal, WithHeadCap
<1> HIDE DEF p, q, c
<1>4. \A x : \A r \in Viable(x) : r = x
  BY DEF Viable
<1>5. \A x \in {p, q, c} : \A r \in Viable(x) : Sound(r, ranked)
  BY <1>1, <1>2, <1>3, <1>4 DEF Sound
<1> QED BY <1>5 DEF p, q, c

LEMMA ByRrfDomain == ASSUME NEW ranked, NEW films PROVE DOMAIN ByRrf(ranked, films) = films
BY DEF ByRrf

LEMMA BuildersSound ==
    ASSUME NEW ranked, ranked.positive \subseteq DOMAIN ranked.rank, NEW h
    PROVE  \A p \in Proposals(ranked, h) : Sound(p, ranked)
<1> DEFINE films == DOMAIN ranked.rank
           Good(S) == \A p \in S : Sound(p, ranked)
<1>0. /\ Policy.hidden_minimum \in Nat /\ Policy.brazilian_minimum \in Nat
      /\ Policy.classic_minimum \in Nat /\ Policy.classic_head_cap \in Nat
  BY PolicyAssumption
<1>1. Good(TopPicks(ranked))
  <2> DEFINE p == [Proposal("top_picks", "general", TRUE, Cardinality(films), ranked.rank, 1)
                   EXCEPT !.maximum = Policy.top_picks_maximum]
  <2>1. TopPicks(ranked) \subseteq {p}
    BY DEF TopPicks, Viable
  <2>2. /\ p.head_cap = 0 /\ p.order = ranked.rank /\ p.minimum = 1
        /\ p.maximum = Policy.top_picks_maximum
    BY DEF Proposal
  <2> HIDE DEF p
  <2> QED BY <2>1, <2>2 DEF Sound
<1>2. Good(HiddenGems(ranked, h))
  <2>1. HiddenNeighborhood(ranked, h) \subseteq films
    BY DEF HiddenNeighborhood
  <2>2. \A strong, support, order :
            DOMAIN order \subseteq films =>
                Good(Viable(Proposal("hidden_gems", "discovery", strong, support, order,
                                     Policy.hidden_minimum)))
    BY <1>0, PlainSound
  <2>3. Good({})
    OBVIOUS
  <2> HIDE DEF Good
  <2> QED BY <2>1, <2>2, <2>3, ByRrfDomain DEF HiddenGems
<1>3. Good(BrazilianCinema(ranked))
  BY <1>0, PlainSound, ByRrfDomain DEF BrazilianCinema
<1>4. Good(DirectorsYouLove(ranked, h))
  <2>1. \A strong, support, order :
            DOMAIN order \subseteq films =>
                Good(Viable(Proposal("directors_you_love", "personalized", strong, support,
                                     order, Policy.directors_minimum)))
    BY PlainSound, PolicyAssumption
  <2> HIDE DEF Good
  <2>2. Good({})
    BY DEF Good
  <2> QED BY <2>1, <2>2, ByRrfDomain, Zenon DEF DirectorsYouLove
<1>5. \A key, family : \A minimum \in Nat :
          key # "top_picks" => Good(SingleEntity(ranked, h, key, family, minimum))
  <2> SUFFICES ASSUME NEW key, NEW family, NEW minimum \in Nat, key # "top_picks",
                      NEW r \in SingleEntity(ranked, h, key, family, minimum)
               PROVE  Sound(r, ranked)
    OBVIOUS
  <2> DEFINE Order(p) == ByRrf(ranked, {f \in DOMAIN ranked.rank \cap DOMAIN Catalog :
                                            p.entity \in Entities(f, family)})
  <2>1. PICK p : r \in Viable(Proposal(key, "personalized", StrongEvidence(p), p.support,
                                       Order(p), minimum))
    BY DEF SingleEntity
  <2>2. DOMAIN Order(p) \subseteq films
    BY ByRrfDomain
  <2> HIDE DEF Order
  <2> QED BY <2>1, <2>2, PlainSound
<1>6. Good(WorldCinema(ranked, h))
  <2>1. \A admitted : CountryBalanced(ranked, admitted) \subseteq admitted
    BY DEF CountryBalanced
  <2>2. \A strong, support, order :
            DOMAIN order \subseteq films =>
                Good(Viable(WithHeadCap(
                    Proposal("world_cinema", "cultural", strong, support, order,
                             Policy.world_minimum), Policy.world_head_cap)))
    BY PlainSound, PolicyAssumption
  <2> HIDE DEF Good
  <2> QED BY <2>1, <2>2, ByRrfDomain DEF WorldCinema
<1>7. Good(OutsideUsual(ranked, h))
  <2>1. \A strong, support, order :
            DOMAIN order \subseteq films =>
                LET plain == Proposal("outside_usual", "serendipity", strong, support, order,
                                      Policy.outside_minimum)
                IN  /\ Good(Viable(plain))
                    /\ Good(Viable(WithHeadCap(plain, Policy.outside_lower_head_cap)))
    BY PlainSound, PolicyAssumption
  <2>2. Good({})
    OBVIOUS
  <2> HIDE DEF Good
  <2> QED BY <2>1, <2>2 DEF OutsideUsual
<1>8. Good(ClassicCinema(ranked, h))
  BY <1>0, PlainSound, ByRrfDomain DEF ClassicCinema
<1>9. Good(BecauseYouLiked(ranked, h))
  <2>1. \A strong, order :
            DOMAIN order \subseteq films =>
                Good(Viable([Proposal("because_you_liked", "personalized", strong, 1, order,
                                      Policy.anchor_minimum)
                             EXCEPT !.maximum = Policy.anchor_maximum]))
    BY PlainSound, PolicyAssumption
  <2>2. \A a : DOMAIN Neighborhood(ranked, a) \subseteq films
    BY DEF Neighborhood
  <2> SUFFICES ASSUME NEW r \in BecauseYouLiked(ranked, h)
               PROVE  Sound(r, ranked)
    OBVIOUS
  <2>3. PICK strong, a : r \in Viable([Proposal("because_you_liked", "personalized", strong, 1,
                                                Neighborhood(ranked, a), Policy.anchor_minimum)
                                       EXCEPT !.maximum = Policy.anchor_maximum])
    BY DEF BecauseYouLiked
  <2> QED BY <2>1, <2>2, <2>3
<1> QED
  <2>1. Policy.genre_minimum \in Nat /\ Policy.decade_minimum \in Nat
    BY PolicyAssumption
  <2> HIDE DEF Good
  <2>2. /\ Good(SingleEntity(ranked, h, "favorite_genre", "genre", Policy.genre_minimum))
        /\ Good(SingleEntity(ranked, h, "favorite_decade", "decade", Policy.decade_minimum))
    BY <2>1, <1>5
  <2> USE DEF Good
  <2> QED BY <1>1, <1>2, <1>3, <1>4, <2>2, <1>6, <1>7, <1>8, <1>9 DEF Proposals

-----------------------------------------------------------------------------
(* There are finitely many proposals: a user has finitely many preferences.  *)

LEMMA FiniteUnion ==
    ASSUME NEW S, IsFiniteSet(S), NEW F, \A x \in S : IsFiniteSet(F[x])
    PROVE  IsFiniteSet({F[x] : x \in S}) /\ IsFiniteSet(UNION {F[x] : x \in S})
<1> DEFINE T == {F[x] : x \in S}
           g == [x \in S |-> F[x]]
<1>1. g \in Surjection(S, T)
  BY DEF Surjection
<1>2. IsFiniteSet(T)
  BY <1>1, FS_Surjection
<1> QED BY <1>2, FS_UNION

LEMMA RatedFinite ==
    ASSUME NEW h PROVE Rated(h) \subseteq DOMAIN Catalog /\ IsFiniteSet(Rated(h))
<1>1. Rated(h) \subseteq DOMAIN Catalog /\ Rated(h) \subseteq Artifact
  BY BundleAssumption DEF Rated
<1> QED BY <1>1, BundleAssumption, FS_Subset

LEMMA EntitiesFinite ==
    ASSUME NEW f \in DOMAIN Catalog, NEW family \in Families
    PROVE  IsFiniteSet(Entities(f, family))
<1>1. IsFiniteSet(Decade(f))
  BY FS_EmptySet, FS_Singleton DEF Decade
<1> QED BY <1>1, BundleAssumption DEF Entities, Families

LEMMA QualifyingFinite ==
    ASSUME NEW h, NEW family \in Families
    PROVE  IsFiniteSet(Qualifying(h, family))
<1> DEFINE F == [f \in Rated(h) |-> Entities(f, family)]
           E == UNION {F[f] : f \in Rated(h)}
           P == {Preference(h, family, e) : e \in E}
           g == [e \in E |-> Preference(h, family, e)]
<1>1. IsFiniteSet(E)
  <2>1. IsFiniteSet(Rated(h)) /\ \A f \in Rated(h) : IsFiniteSet(F[f])
    BY RatedFinite, EntitiesFinite
  <2> HIDE DEF F
  <2> QED BY <2>1, FiniteUnion
<1>2. E = UNION {Entities(f, family) : f \in Rated(h)}
  OBVIOUS
<1>3. Qualifying(h, family) \subseteq P
  BY <1>2 DEF Qualifying
<1> HIDE DEF E
<1>4. g \in Surjection(E, P)
  BY DEF Surjection
<1>5. IsFiniteSet(P)
  BY <1>1, <1>4, FS_Surjection
<1> QED BY <1>3, <1>5, FS_Subset

LEMMA ViableFinite == ASSUME NEW p PROVE IsFiniteSet(Viable(p))
BY FS_Singleton, FS_Subset DEF Viable

LEMMA SingleEntityFinite ==
    ASSUME NEW ranked, NEW h, NEW key, NEW family \in Families, NEW minimum
    PROVE  IsFiniteSet(SingleEntity(ranked, h, key, family, minimum))
<1> DEFINE Of(p) == Viable(Proposal(key, "personalized", StrongEvidence(p), p.support,
                        ByRrf(ranked, {f \in DOMAIN ranked.rank \cap DOMAIN Catalog :
                                           p.entity \in Entities(f, family)}), minimum))
           S == Strongest(1, Qualifying(h, family))
           F == [p \in S |-> Of(p)]
<1>1. IsFiniteSet(S)
  BY QualifyingFinite, FS_Subset DEF Strongest
<1>2. SingleEntity(ranked, h, key, family, minimum) = UNION {Of(p) : p \in S}
  BY DEF SingleEntity
<1>3. \A p : IsFiniteSet(Of(p))
  BY ViableFinite
<1> HIDE DEF Of, S
<1>4. IsFiniteSet(UNION {F[p] : p \in S})
  BY <1>1, <1>3, FiniteUnion
<1> QED BY <1>2, <1>4

LEMMA BecauseYouLikedFinite ==
    ASSUME NEW ranked, NEW h PROVE IsFiniteSet(BecauseYouLiked(ranked, h))
<1> DEFINE Of(a) == Viable([Proposal("because_you_liked", "personalized",
                                     h.rating[a] >= Policy.anchor_rating, 1,
                                     Neighborhood(ranked, a), Policy.anchor_minimum)
                            EXCEPT !.maximum = Policy.anchor_maximum])
           S == Anchor(ranked, h)
           F == [a \in S |-> Of(a)]
<1>1. S \subseteq Rated(h)
  BY DEF Anchor, RatedFrom
<1>2. IsFiniteSet(S)
  BY <1>1, RatedFinite, FS_Subset
<1>3. \A a : IsFiniteSet(Of(a))
  BY ViableFinite
<1>4. \/ BecauseYouLiked(ranked, h) = {}
      \/ BecauseYouLiked(ranked, h) = UNION {Of(a) : a \in S}
  BY DEF BecauseYouLiked
<1> HIDE DEF Of, S
<1>5. IsFiniteSet(UNION {F[a] : a \in S})
  BY <1>2, <1>3, FiniteUnion
<1> QED BY <1>4, <1>5, FS_EmptySet

LEMMA ProposalsFinite ==
    ASSUME NEW ranked, NEW h PROVE IsFiniteSet(Proposals(ranked, h))
<1> DEFINE genre  == SingleEntity(ranked, h, "favorite_genre", "genre", Policy.genre_minimum)
           decade == SingleEntity(ranked, h, "favorite_decade", "decade", Policy.decade_minimum)
<1>1. IsFiniteSet(TopPicks(ranked)) /\ IsFiniteSet(BrazilianCinema(ranked))
  BY ViableFinite DEF TopPicks, BrazilianCinema
<1>2. IsFiniteSet(HiddenGems(ranked, h)) /\ IsFiniteSet(DirectorsYouLove(ranked, h))
  BY ViableFinite, FS_EmptySet DEF HiddenGems, DirectorsYouLove
<1>3. IsFiniteSet(genre) /\ IsFiniteSet(decade)
  BY SingleEntityFinite DEF Families
<1>4. IsFiniteSet(WorldCinema(ranked, h)) /\ IsFiniteSet(ClassicCinema(ranked, h))
  BY ViableFinite DEF WorldCinema, ClassicCinema
<1>5. IsFiniteSet(OutsideUsual(ranked, h))
  BY ViableFinite, FS_EmptySet DEF OutsideUsual
<1> HIDE DEF genre, decade
<1>6. IsFiniteSet(TopPicks(ranked) \cup HiddenGems(ranked, h) \cup BrazilianCinema(ranked)
                    \cup DirectorsYouLove(ranked, h))
  BY <1>1, <1>2, FS_Union
<1>7. IsFiniteSet(genre \cup decade \cup WorldCinema(ranked, h) \cup OutsideUsual(ranked, h))
  BY <1>3, <1>4, <1>5, FS_Union
<1>8. IsFiniteSet(ClassicCinema(ranked, h) \cup BecauseYouLiked(ranked, h))
  BY <1>4, BecauseYouLikedFinite, FS_Union
<1>9. Proposals(ranked, h) =
          (TopPicks(ranked) \cup HiddenGems(ranked, h) \cup BrazilianCinema(ranked)
              \cup DirectorsYouLove(ranked, h))
          \cup (genre \cup decade \cup WorldCinema(ranked, h) \cup OutsideUsual(ranked, h))
          \cup (ClassicCinema(ranked, h) \cup BecauseYouLiked(ranked, h))
  BY DEF Proposals, genre, decade
<1> QED BY <1>6, <1>7, <1>8, <1>9, FS_Union


-----------------------------------------------------------------------------
(* Sequences and counts.                                                     *)

IsSeq(s) == s \in Seq(Elements(s))

LEMMA Appended ==
    ASSUME NEW s, IsSeq(s), NEW e
    PROVE  /\ IsSeq(Append(s, e))
           /\ Elements(Append(s, e)) = Elements(s) \cup {e}
           /\ Len(s) \in Nat /\ DOMAIN s = 1 .. Len(s)
           /\ Len(Append(s, e)) = Len(s) + 1
           /\ DOMAIN Append(s, e) = 1 .. Len(s) + 1
           /\ \A i \in 1 .. Len(s) : Append(s, e)[i] = s[i]
           /\ Append(s, e)[Len(s) + 1] = e
<1> DEFINE S == Elements(s) \cup {e}
<1>1. s \in Seq(S) /\ e \in S
  BY DEF IsSeq
<1>2. /\ Append(s, e) \in Seq(S)
      /\ Len(s) \in Nat /\ DOMAIN s = 1 .. Len(s)
      /\ Len(Append(s, e)) = Len(s) + 1 /\ DOMAIN Append(s, e) = 1 .. Len(s) + 1
      /\ \A i \in 1 .. Len(s) : Append(s, e)[i] = s[i]
      /\ Append(s, e)[Len(s) + 1] = e
  BY <1>1
<1>3. Elements(Append(s, e)) = S
  BY <1>2 DEF Elements
<1> QED BY <1>2, <1>3 DEF IsSeq

LEMMA NoFilms == IsSeq(<<>>) /\ Elements(<<>>) = {} /\ Len(<<>>) = 0
<1>1. <<>> \in Seq({}) /\ Len(<<>>) = 0 /\ DOMAIN <<>> = 1 .. Len(<<>>)
  OBVIOUS
<1>2. 1 .. 0 = {}
  OBVIOUS
<1>3. Elements(<<>>) = {}
  BY <1>1, <1>2 DEF Elements
<1> QED BY <1>1, <1>3 DEF IsSeq

(* How many members of S lie in T, when one more film joins S.               *)
LEMMA CountGrows ==
    ASSUME NEW S, IsFiniteSet(S), NEW f, f \notin S, NEW T
    PROVE  /\ Cardinality(S \cap T) \in Nat
           /\ f \in T => Cardinality((S \cup {f}) \cap T) = Cardinality(S \cap T) + 1
           /\ f \notin T => (S \cup {f}) \cap T = S \cap T
<1>1. IsFiniteSet(S \cap T)
  BY FS_Intersection
<1>2. Cardinality(S \cap T) \in Nat
  BY <1>1, FS_CardinalityType
<1>3. ASSUME f \in T PROVE Cardinality((S \cup {f}) \cap T) = Cardinality(S \cap T) + 1
  <2>1. (S \cup {f}) \cap T = (S \cap T) \cup {f} /\ f \notin S \cap T
    BY <1>3
  <2> QED BY <2>1, <1>1, FS_AddElement
<1> QED BY <1>2, <1>3

-----------------------------------------------------------------------------
(* Appearances: how many rows show a film.                                   *)

Showing(f) == {i \in DOMAIN rows : f \in Elements(rows[i].films)}

LEMMA AppearancesCount ==
    ASSUME IsSeq(rows), NEW f
    PROVE  /\ IsFiniteSet(Showing(f))
           /\ Appearances(f) \in Nat
           /\ Appearances(f) = 0 <=> \A i \in DOMAIN rows : f \notin Elements(rows[i].films)
<1>1. Len(rows) \in Nat /\ DOMAIN rows = 1 .. Len(rows)
  BY Appended
<1>2. IsFiniteSet(DOMAIN rows) /\ Showing(f) \subseteq DOMAIN rows
  BY <1>1, FS_Interval DEF Showing
<1>3. IsFiniteSet(Showing(f))
  BY <1>2, FS_Subset
<1>4. Appearances(f) = Cardinality(Showing(f))
  BY DEF Appearances, Showing
<1>5. Cardinality(Showing(f)) \in Nat /\ (Cardinality(Showing(f)) = 0 <=> Showing(f) = {})
  BY <1>3, FS_CardinalityType, FS_EmptySet
<1>6. Showing(f) = {} <=> \A i \in DOMAIN rows : f \notin Elements(rows[i].films)
  BY DEF Showing
<1> QED BY <1>3, <1>4, <1>5, <1>6

(* A new row shows its films once more and the other films as often as       *)
(* before.                                                                   *)
LEMMA AppearancesAdded ==
    ASSUME IsSeq(rows), NEW row, rows' = Append(rows, row), NEW f
    PROVE  /\ f \in Elements(row.films) => Appearances(f)' = Appearances(f) + 1
           /\ f \notin Elements(row.films) => Appearances(f)' = Appearances(f)
<1> DEFINE n == Len(rows) + 1
<1>1. /\ Len(rows) \in Nat /\ DOMAIN rows = 1 .. Len(rows) /\ DOMAIN rows' = 1 .. n
      /\ \A i \in DOMAIN rows : rows'[i] = rows[i]
      /\ rows'[n] = row
  BY Appended
<1>2. n \notin DOMAIN rows /\ DOMAIN rows' = DOMAIN rows \cup {n}
  BY <1>1
<1>3. Appearances(f)' = Cardinality(Showing(f)') /\ Appearances(f) = Cardinality(Showing(f))
  BY DEF Appearances, Showing
<1>4. CASE f \in Elements(row.films)
  <2>1. Showing(f)' = Showing(f) \cup {n} /\ n \notin Showing(f)
    BY <1>1, <1>2, <1>4 DEF Showing
  <2>2. Cardinality(Showing(f) \cup {n}) = Cardinality(Showing(f)) + 1
    BY <2>1, AppearancesCount, FS_AddElement
  <2> QED BY <1>3, <1>4, <2>1, <2>2
<1>5. CASE f \notin Elements(row.films)
  <2>1. Showing(f)' = Showing(f)
    BY <1>1, <1>2, <1>5 DEF Showing
  <2> QED BY <1>3, <1>5, <2>1
<1> QED BY <1>4, <1>5

-----------------------------------------------------------------------------
(* The inductive invariant.  The rows are as promised, and while a row is    *)
(* filled, with no row added, every film taken so far was admitted by a test *)
(* that still holds of the finished rows.                                    *)

Admitted(f, key) ==
    /\ Appearances(f) < Policy.maximum_film_appearances
    /\ f \notin Reserved
    /\ Appearances(f) = 0 \/ key \in FocusedKeys

Drafted ==
    /\ rows # <<>> /\ Len(rows) < Policy.maximum_categories
    /\ draft.pass \in 1 .. 4
    /\ draft.pass > 2 => draft.proposal.key \in FocusedKeys
    /\ draft.proposal.head_cap \in Nat
    /\ IsSeq(draft.films) /\ IsFiniteSet(Elements(draft.films))
    /\ \A f \in Elements(draft.films) : Admitted(f, draft.proposal.key)
    /\ Varied(draft.proposal, Elements(draft.films))

RowsInv ==
    /\ IsSeq(rows) /\ Len(rows) <= Policy.maximum_categories
    /\ \A i \in DOMAIN rows : \A f \in Elements(rows[i].films) :
           Appearances(f) <= Policy.maximum_film_appearances
    /\ ReservedStayOnTop /\ OnlyFocusedRowsRepeat /\ RowsVaried

IInv ==
    /\ TypeOK
    /\ RowsInv
    /\ \A p \in remaining : p.head_cap \in Nat
    /\ pc = "fill" => Drafted

LEMMA RowsStay == ASSUME RowsInv, rows' = rows PROVE RowsInv'
BY DEF RowsInv, ReservedStayOnTop, OnlyFocusedRowsRepeat, RowsVaried, Reserved, Appearances

LEMMA NoRowsInv == ASSUME rows' = <<>> PROVE RowsInv'
<1>1. DOMAIN rows' = {} /\ IsSeq(rows') /\ Len(rows') = 0
  BY NoFilms
<1>2. 0 <= Policy.maximum_categories
  BY PolicyAssumption
<1> QED BY <1>1, <1>2 DEF RowsInv, ReservedStayOnTop, OnlyFocusedRowsRepeat, RowsVaried

LEMMA AdmittedStays ==
    ASSUME rows' = rows, NEW f, NEW key, Admitted(f, key)
    PROVE  Admitted(f, key)'
BY DEF Admitted, Reserved, Appearances

-----------------------------------------------------------------------------
(* A film that passes the tests of a pass.                                   *)

LEMMA MayShowAdmits ==
    ASSUME IsSeq(rows), rows # <<>>, NEW f, NEW pass \in 1 .. 4, MayShow(f, pass),
           NEW key, pass > 2 => key \in FocusedKeys
    PROVE  Admitted(f, key)
<1>1. Appearances(f) \in Nat /\ Policy.maximum_film_appearances \in Nat \ {0}
  BY AppearancesCount, PolicyAssumption
<1>2. CASE pass \in {3, 4}
  BY <1>1, <1>2 DEF MayShow, Repeats, Admitted
<1>3. CASE pass \notin {3, 4}
  <2>1. Appearances(f) = 0
    BY <1>3 DEF MayShow, Repeats
  <2>2. 1 \in DOMAIN rows
    BY Appended DEF IsSeq
  <2>3. f \notin Elements(rows[1].films)
    BY <2>1, <2>2, AppearancesCount
  <2>4. Reserved \subseteq Elements(rows[1].films)
    BY DEF Reserved, Elements
  <2> QED BY <1>1, <2>1, <2>3, <2>4 DEF Admitted
<1> QED BY <1>2, <1>3

LEMMA CapKept ==
    ASSUME NEW films, IsFiniteSet(Elements(films)), NEW f, f \notin Elements(films),
           NEW family, NEW cap \in Nat, WithinCap(f, films, family, cap),
           \A e \in UNION {Entities(g, family) : g \in Elements(films)} :
               Cardinality({g \in Elements(films) : e \in Entities(g, family)}) <= cap
    PROVE  \A e \in UNION {Entities(g, family) : g \in Elements(films) \cup {f}} :
               Cardinality({g \in Elements(films) \cup {f} : e \in Entities(g, family)}) <= cap
<1> DEFINE S == Elements(films)
<1> TAKE e \in UNION {Entities(g, family) : g \in S \cup {f}}
<1> DEFINE T == {g \in S \cup {f} : e \in Entities(g, family)}
<1>1. /\ {g \in S : e \in Entities(g, family)} = S \cap T
      /\ T = (S \cup {f}) \cap T
  OBVIOUS
<1>2. CASE f \in T
  <2>1. Cardinality(S \cap T) < cap
    BY <1>1, <1>2 DEF WithinCap, Sharing
  <2>2. Cardinality(S \cap T) \in Nat /\ Cardinality((S \cup {f}) \cap T) = Cardinality(S \cap T) + 1
    BY <1>2, CountGrows
  <2> HIDE DEF S, T
  <2>3. Cardinality((S \cup {f}) \cap T) <= cap
    BY <2>1, <2>2
  <2> QED BY <2>3, <1>1 DEF S, T
<1>3. CASE f \notin T
  <2>1. T = S \cap T
    BY <1>3
  <2>2. e \in UNION {Entities(g, family) : g \in S}
    BY <1>3
  <2>3. Cardinality({g \in S : e \in Entities(g, family)}) <= cap
    BY <2>2
  <2> QED BY <1>1, <2>1, <2>3
<1> QED BY <1>2, <1>3

LEMMA VariedKept ==
    ASSUME NEW p, p.head_cap \in Nat, NEW films, IsFiniteSet(Elements(films)),
           Varied(p, Elements(films)),
           NEW f, f \notin Elements(films), HardCaps(f, p, films)
    PROVE  Varied(p, Elements(films) \cup {f})
<1> DEFINE S == Elements(films)
           Most(T, family, cap) ==
               \A e \in UNION {Entities(g, family) : g \in T} :
                   Cardinality({g \in T : e \in Entities(g, family)}) <= cap
<1>1. DirectorCap(p) \in Nat /\ Policy.world_country_cap \in Nat
  BY PolicyAssumption DEF DirectorCap
<1>2. Most(S \cup {f}, "director", DirectorCap(p))
  <2>1. Most(S, "director", DirectorCap(p)) /\ WithinCap(f, films, "director", DirectorCap(p))
    BY DEF Varied, HardCaps
  <2> QED BY <1>1, <2>1, CapKept
<1>3. ASSUME p.key = "world_cinema"
      PROVE  Most(S \cup {f}, "country", Policy.world_country_cap)
  <2>1. /\ Most(S, "country", Policy.world_country_cap)
        /\ WithinCap(f, films, "country", Policy.world_country_cap)
    BY <1>3 DEF Varied, HardCaps
  <2> QED BY <1>1, <2>1, CapKept
<1>4. Cardinality((S \cup {f}) \cap p.heads) <= p.head_cap
  <2>1. Cardinality(S \cap p.heads) <= p.head_cap
    BY DEF Varied
  <2>2. f \in p.heads => Cardinality(S \cap p.heads) < p.head_cap
    BY DEF HardCaps
  <2>3. /\ Cardinality(S \cap p.heads) \in Nat
        /\ f \in p.heads => Cardinality((S \cup {f}) \cap p.heads) = Cardinality(S \cap p.heads) + 1
        /\ f \notin p.heads => (S \cup {f}) \cap p.heads = S \cap p.heads
    BY CountGrows
  <2> HIDE DEF S
  <2> QED BY <2>1, <2>2, <2>3
<1> QED BY <1>2, <1>3, <1>4 DEF Varied

LEMMA NothingVaried == ASSUME NEW p, p.head_cap \in Nat PROVE Varied(p, {})
<1>1. Cardinality({} \cap p.heads) = 0
  BY FS_EmptySet
<1> QED BY <1>1 DEF Varied

-----------------------------------------------------------------------------
(* One lemma per action that allocates.                                      *)

LEMMA ProposeSafe == ASSUME IInv, Propose PROVE IInv'
<1>1. RowsInv'
  BY RowsStay DEF IInv, Propose
<1>2. ASSUME NEW h, NEW tie
      PROVE  Inventory(h, tie).positive \subseteq DOMAIN Inventory(h, tie).rank
  BY InventoryRanked
<1>3. \A p \in remaining' : p.head_cap \in Nat
  <2>1. PICK tie \in Ties : remaining' = Proposals(Inventory(read, tie), read)
    BY DEF Propose
  <2> QED BY <1>2, <2>1, BuildersSound DEF Sound
<1>4. TypeOK'
  BY DEF IInv, Propose, TypeOK
<1> QED BY <1>1, <1>3, <1>4 DEF IInv, Propose

LEMMA TopPicksSafe == ASSUME IInv, AllocateTopPicks PROVE IInv'
<1>1. PICK row : rows' = <<row>>
  BY DEF AllocateTopPicks
<1>2. IsSeq(rows') /\ Len(rows') = 1 /\ DOMAIN rows' = {1}
  <2>1. IsSeq(<<>>) /\ Len(<<>>) = 0 /\ rows' = Append(<<>>, row)
    BY <1>1, NoFilms
  <2>2. 1 .. 0 + 1 = {1}
    OBVIOUS
  <2>3. IsSeq(rows') /\ Len(rows') = 0 + 1 /\ DOMAIN rows' = 1 .. 0 + 1
    BY <2>1, Appended
  <2> QED BY <2>2, <2>3
<1>3. \A f : Appearances(f)' \in Nat /\ Appearances(f)' <= 1
  <2> TAKE f
  <2>1. Showing(f)' \subseteq {1} /\ Appearances(f)' = Cardinality(Showing(f)')
    BY <1>2 DEF Showing, Appearances
  <2>2. IsFiniteSet({1}) /\ Cardinality({1}) = 1
    BY FS_Singleton
  <2> QED BY <2>1, <2>2, FS_Subset, FS_CardinalityType
<1>4. RowsInv'
  <2>1. ReservedStayOnTop' /\ OnlyFocusedRowsRepeat' /\ RowsVaried'
    BY <1>2 DEF ReservedStayOnTop, OnlyFocusedRowsRepeat, RowsVaried
  <2>2. Policy.maximum_categories >= 1 /\ Policy.maximum_film_appearances \in Nat \ {0}
    BY PolicyAssumption
  <2>3. \A f : Appearances(f)' <= Policy.maximum_film_appearances
    BY <1>3, <2>2
  <2> QED BY <1>2, <2>1, <2>2, <2>3 DEF RowsInv
<1>5. TypeOK'
  BY <1>4 DEF IInv, TypeOK, RowsInv, AllocateTopPicks
<1>6. pc' = "allocate" /\ remaining' \subseteq remaining
  BY DEF AllocateTopPicks
<1> QED BY <1>4, <1>5, <1>6 DEF IInv

LEMMA PassOverSafe == ASSUME IInv, PassOver PROVE IInv'
<1>1. RowsInv'
  BY RowsStay DEF IInv, PassOver
<1>2. TypeOK' /\ pc' = "allocate" /\ remaining' \subseteq remaining
  BY DEF IInv, TypeOK, PassOver
<1> QED BY <1>1, <1>2 DEF IInv

LEMMA StartRowSafe == ASSUME IInv, StartRow PROVE IInv'
<1>1. RowsInv'
  BY RowsStay DEF IInv, StartRow
<1>2. PICK p \in remaining : remaining' \subseteq remaining /\ draft' = Draft(p, 1, {}, <<>>)
  BY DEF StartRow
<1>3. /\ draft'.pass = 1 /\ draft'.films = <<>> /\ draft'.proposal = p
      /\ p.head_cap \in Nat
  BY <1>2 DEF Draft, IInv
<1>4. rows' = rows /\ rows # <<>> /\ Len(rows) < Policy.maximum_categories
  BY DEF StartRow, MoreRows
<1>5. Elements(draft'.films) = {} /\ IsSeq(draft'.films) /\ IsFiniteSet({})
  BY <1>3, NoFilms, FS_EmptySet
<1>6. Varied(draft.proposal, Elements(draft.films))'
  <2>1. Varied(draft'.proposal, {})
    BY <1>3, NothingVaried
  <2> QED BY <1>5, <2>1
<1>7. Drafted'
  <2>1. (rows # <<>> /\ Len(rows) < Policy.maximum_categories)'
    BY <1>4
  <2>2. (draft.pass \in 1 .. 4 /\ ~(draft.pass > 2) /\ draft.proposal.head_cap \in Nat)'
    BY <1>3
  <2>3. (IsSeq(draft.films) /\ IsFiniteSet(Elements(draft.films)))'
    BY <1>5
  <2>4. \A f \in Elements(draft.films)' : Admitted(f, draft.proposal.key)'
    BY <1>5
  <2> QED BY <1>6, <2>1, <2>2, <2>3, <2>4 DEF Drafted
<1>8. TypeOK'
  BY <1>3 DEF IInv, TypeOK, StartRow
<1> QED BY <1>1, <1>2, <1>7, <1>8 DEF IInv

LEMMA ScanSafe == ASSUME IInv, Scan PROVE IInv'
<1>1. Drafted /\ RowsInv /\ RowsInv' /\ rows' = rows
  BY RowsStay DEF IInv, Scan
<1>2. PICK f \in Unseen :
          draft' = Draft(draft.proposal, draft.pass, draft.seen \cup {f},
                         IF Selectable(f) THEN Append(draft.films, f) ELSE draft.films)
  BY DEF Scan
<1>3. /\ draft'.proposal = draft.proposal /\ draft'.pass = draft.pass
      /\ draft'.films = IF Selectable(f) THEN Append(draft.films, f) ELSE draft.films
  BY <1>2 DEF Draft
<1>4. (rows # <<>> /\ Len(rows) < Policy.maximum_categories)'
  BY <1>1 DEF Drafted
<1>5. ( /\ draft.pass \in 1 .. 4
        /\ draft.pass > 2 => draft.proposal.key \in FocusedKeys
        /\ draft.proposal.head_cap \in Nat )'
  BY <1>1, <1>3 DEF Drafted
<1>6. \A g \in Elements(draft.films) : Admitted(g, draft.proposal.key)'
  BY <1>1, <1>3, AdmittedStays DEF Drafted
<1>7. ASSUME Selectable(f) PROVE Drafted'
  <2>1. /\ draft'.films = Append(draft.films, f)
        /\ IsSeq(draft.films) /\ IsFiniteSet(Elements(draft.films))
    BY <1>1, <1>3, <1>7 DEF Drafted
  <2>2. IsSeq(draft'.films) /\ Elements(draft'.films) = Elements(draft.films) \cup {f}
    BY <2>1, Appended
  <2>3. IsFiniteSet(Elements(draft'.films))
    BY <2>1, <2>2, FS_AddElement
  <2>4. Admitted(f, draft.proposal.key)
    <3>1. MayShow(f, draft.pass)
      BY <1>7 DEF Selectable
    <3> QED BY <1>1, <3>1, MayShowAdmits DEF Drafted, RowsInv
  <2>5. Admitted(f, draft.proposal.key)'
    BY <1>1, <1>3, <2>4, AdmittedStays
  <2>6. Varied(draft.proposal, Elements(draft.films) \cup {f})
    BY <1>1, <1>7, <2>1, VariedKept DEF Drafted, Selectable, PassesDiversity
  <2>7. (Varied(draft.proposal, Elements(draft.films)))'
    BY <1>3, <2>2, <2>6
  <2>8. (\A g \in Elements(draft.films) : Admitted(g, draft.proposal.key))'
    BY <1>6, <2>2, <2>5
  <2> QED BY <1>4, <1>5, <2>2, <2>3, <2>7, <2>8 DEF Drafted
<1>8. ASSUME ~Selectable(f) PROVE Drafted'
  <2>1. draft'.films = draft.films
    BY <1>3, <1>8
  <2>2. (IsSeq(draft.films) /\ IsFiniteSet(Elements(draft.films)))'
    BY <1>1, <2>1 DEF Drafted
  <2>3. (\A g \in Elements(draft.films) : Admitted(g, draft.proposal.key))'
    BY <1>3, <1>6, <2>1
  <2>4. (Varied(draft.proposal, Elements(draft.films)))'
    BY <1>1, <1>3, <2>1 DEF Drafted
  <2> QED BY <1>4, <1>5, <2>2, <2>3, <2>4 DEF Drafted
<1>9. TypeOK' /\ remaining' = remaining
  BY <1>3 DEF IInv, TypeOK, Scan
<1> QED BY <1>1, <1>7, <1>8, <1>9 DEF IInv

LEMMA NextPassSafe == ASSUME IInv, NextPass PROVE IInv'
<1>1. Drafted /\ RowsInv' /\ rows' = rows
  BY RowsStay DEF IInv, NextPass
<1>2. /\ draft'.proposal = draft.proposal /\ draft'.pass = draft.pass + 1
      /\ draft'.films = draft.films /\ draft.pass < LastPass
  BY DEF NextPass, Draft
<1>3. /\ draft.pass + 1 \in 1 .. 4
      /\ draft.pass + 1 > 2 => draft.proposal.key \in FocusedKeys
  BY <1>1, <1>2 DEF Drafted, LastPass
<1>4. ( /\ rows # <<>> /\ Len(rows) < Policy.maximum_categories
        /\ IsSeq(draft.films) /\ IsFiniteSet(Elements(draft.films))
        /\ draft.proposal.head_cap \in Nat )'
  BY <1>1, <1>2 DEF Drafted
<1>5. (\A g \in Elements(draft.films) : Admitted(g, draft.proposal.key))'
  BY <1>1, <1>2, AdmittedStays DEF Drafted
<1>6. (Varied(draft.proposal, Elements(draft.films)))'
  BY <1>1, <1>2 DEF Drafted
<1>7. Drafted'
  BY <1>2, <1>3, <1>4, <1>5, <1>6 DEF Drafted
<1>8. TypeOK' /\ remaining' = remaining
  BY <1>2, <1>3 DEF IInv, TypeOK, NextPass
<1> QED BY <1>1, <1>7, <1>8 DEF IInv

LEMMA NoDraftPass == NoDraft.pass = 0
BY DEF NoDraft, Draft

LEMMA AddRowSafe == ASSUME IInv, AddRow PROVE IInv'
<1> DEFINE row == [proposal |-> draft.proposal, films |-> draft.films]
           n == Len(rows) + 1
<1>1. Drafted /\ RowsInv /\ rows' = Append(rows, row)
  BY DEF IInv, AddRow
<1>2. row.films = draft.films /\ row.proposal = draft.proposal
  OBVIOUS
<1> HIDE DEF row
<1>3. /\ IsSeq(rows') /\ Len(rows) \in Nat /\ Len(rows') = n
      /\ DOMAIN rows = 1 .. Len(rows) /\ DOMAIN rows' = 1 .. n
      /\ \A i \in DOMAIN rows : rows'[i] = rows[i]
      /\ rows'[n] = row
  BY <1>1, Appended DEF RowsInv
<1>4. 1 \in DOMAIN rows
  BY <1>1, <1>3 DEF Drafted, RowsInv, IsSeq
<1>5. DOMAIN rows' = DOMAIN rows \cup {n} /\ n \notin DOMAIN rows /\ n # 1
  BY <1>3, <1>4
<1>6. Len(rows') <= Policy.maximum_categories
  BY <1>1, <1>3, PolicyAssumption DEF Drafted
<1>7. \A f \in Elements(row.films) : Admitted(f, row.proposal.key)
  BY <1>1, <1>2 DEF Drafted
<1>8. (\A i \in DOMAIN rows : \A f \in Elements(rows[i].films) :
           Appearances(f) <= Policy.maximum_film_appearances)'
  <2> SUFFICES ASSUME NEW i \in DOMAIN rows', NEW f \in Elements(rows'[i].films)
               PROVE  Appearances(f)' <= Policy.maximum_film_appearances
    OBVIOUS
  <2>1. Appearances(f) \in Nat /\ Policy.maximum_film_appearances \in Nat
    BY <1>1, AppearancesCount, PolicyAssumption DEF RowsInv
  <2>2. CASE f \in Elements(row.films)
    <3>1. Appearances(f)' = Appearances(f) + 1
      BY <1>1, <2>2, AppearancesAdded DEF RowsInv
    <3>2. Appearances(f) < Policy.maximum_film_appearances
      BY <1>7, <2>2 DEF Admitted
    <3> QED BY <2>1, <3>1, <3>2
  <2>3. CASE f \notin Elements(row.films)
    <3>1. Appearances(f)' = Appearances(f)
      BY <1>1, <2>3, AppearancesAdded DEF RowsInv
    <3>2. i \in DOMAIN rows /\ f \in Elements(rows[i].films)
      BY <1>3, <1>5, <2>3
    <3> QED BY <1>1, <3>1, <3>2 DEF RowsInv
  <2> QED BY <2>2, <2>3
<1>9. ReservedStayOnTop'
  <2>1. Reserved' = Reserved
    BY <1>3, <1>4 DEF Reserved
  <2>2. Elements(row.films) \cap Reserved = {}
    BY <1>7 DEF Admitted
  <2> QED BY <1>1, <1>3, <1>5, <2>1, <2>2 DEF RowsInv, ReservedStayOnTop
<1>10. OnlyFocusedRowsRepeat'
  <2> SUFFICES ASSUME NEW i \in DOMAIN rows', NEW j \in 1 .. i - 1,
                      NEW f \in Elements(rows'[i].films) \cap Elements(rows'[j].films)
               PROVE  rows'[i].proposal.key \in FocusedKeys
    BY DEF OnlyFocusedRowsRepeat
  <2>1. j \in DOMAIN rows
    BY <1>3
  <2>2. CASE i = n
    <3>1. f \in Elements(row.films) /\ f \in Elements(rows[j].films)
      BY <1>3, <2>1, <2>2
    <3>2. Appearances(f) # 0
      BY <1>1, <2>1, <3>1, AppearancesCount DEF RowsInv
    <3> QED BY <1>3, <1>7, <2>2, <3>1, <3>2 DEF Admitted
  <2>3. CASE i \in DOMAIN rows
    <3>1. Elements(rows[i].films) \cap Elements(rows[j].films) # {}
      BY <1>3, <2>1, <2>3
    <3> QED BY <1>1, <1>3, <2>3, <3>1 DEF RowsInv, OnlyFocusedRowsRepeat
  <2> QED BY <1>5, <2>2, <2>3
<1>11. RowsVaried'
  <2>1. Varied(row.proposal, Elements(row.films))
    BY <1>1, <1>2 DEF Drafted
  <2>2. \A i \in DOMAIN rows \ {1} : Varied(rows'[i].proposal, Elements(rows'[i].films))
    BY <1>1, <1>3 DEF RowsInv, RowsVaried
  <2>3. \A i \in DOMAIN rows' \ {1} : Varied(rows'[i].proposal, Elements(rows'[i].films))
    BY <1>3, <1>5, <2>1, <2>2
  <2> QED BY <2>3 DEF RowsVaried
<1>12. RowsInv'
  BY <1>3, <1>6, <1>8, <1>9, <1>10, <1>11 DEF RowsInv
<1>13. TypeOK' /\ remaining' = remaining /\ pc' = "allocate"
  BY <1>6, NoDraftPass DEF IInv, TypeOK, AddRow
<1> QED BY <1>12, <1>13 DEF IInv

LEMMA DropRowSafe == ASSUME IInv, DropRow PROVE IInv'
<1>1. RowsInv'
  BY RowsStay DEF IInv, DropRow
<1>2. TypeOK' /\ pc' = "allocate" /\ remaining' = remaining
  BY NoDraftPass DEF IInv, TypeOK, DropRow
<1> QED BY <1>1, <1>2 DEF IInv

(* The actions that leave rows, remaining and draft alone and fill no row.   *)
LEMMA ElsewhereSafe ==
    ASSUME IInv, UserNotFound \/ ReadHistory \/ ReadWatched \/ NoWatched \/ AnswerList
                     \/ AnswerFeed
    PROVE  IInv'
<1>1. rows' = rows /\ remaining' = remaining /\ draft' = draft /\ imports' = imports
  BY DEF UserNotFound, ReadHistory, ReadWatched, NoWatched, AnswerList, AnswerFeed, computed
<1>2. pc' \in {"propose", "read_rated", "answered"}
  BY DEF UserNotFound, ReadHistory, ReadWatched, NoWatched, AnswerList, AnswerFeed
<1>3. RowsInv'
  BY <1>1, RowsStay DEF IInv
<1>4. TypeOK'
  BY <1>1, <1>2 DEF IInv, TypeOK
<1> QED BY <1>1, <1>2, <1>3, <1>4 DEF IInv

LEMMA NextRequestSafe == ASSUME IInv, NextRequest PROVE IInv'
<1>1. RowsInv' /\ Len(<<>>) = 0 /\ 0 <= Policy.maximum_categories
  BY NoRowsInv, NoFilms, PolicyAssumption DEF NextRequest
<1>2. TypeOK'
  BY <1>1, NoDraftPass DEF IInv, TypeOK, NextRequest
<1> QED BY <1>1, <1>2 DEF IInv, NextRequest

LEMMA DraftedStays ==
    ASSUME Drafted, UNCHANGED <<rows, draft>>
    PROVE  Drafted'
<1>1. (\A g \in Elements(draft.films) : Admitted(g, draft.proposal.key))'
  BY AdmittedStays DEF Drafted
<1>2. (Varied(draft.proposal, Elements(draft.films)))'
  BY DEF Drafted
<1> QED BY <1>1, <1>2 DEF Drafted

LEMMA ImportSafe == ASSUME IInv, ImportCommits \/ UNCHANGED vars PROVE IInv'
<1>1. UNCHANGED <<pc, remaining, rows, draft>>
  BY DEF ImportCommits, vars
<1>2. RowsInv' /\ (pc = "fill" => Drafted')
  BY <1>1, RowsStay, DraftedStays DEF IInv
<1>3. TypeOK'
  BY <1>1, BoundAssumption DEF IInv, TypeOK, ImportCommits, vars
<1> QED BY <1>1, <1>2, <1>3 DEF IInv

(* The invariant is inductive.                                               *)
THEOREM FeedInvariant == Spec => []IInv
<1>1. Init => IInv
  <2> SUFFICES ASSUME Init PROVE IInv
    OBVIOUS
  <2>1. IsSeq(rows) /\ Len(rows) = 0 /\ DOMAIN rows = {}
    BY NoFilms DEF Init
  <2>2. RowsInv
    BY <2>1, PolicyAssumption
       DEF RowsInv, ReservedStayOnTop, OnlyFocusedRowsRepeat, RowsVaried
  <2>3. TypeOK
    BY <2>1, NoDraftPass, PolicyAssumption, BoundAssumption DEF TypeOK, Init
  <2> QED BY <2>2, <2>3 DEF IInv, Init
<1>2. IInv /\ [Next]_vars => IInv'
  <2> SUFFICES ASSUME IInv, [Next]_vars PROVE IInv'
    OBVIOUS
  <2>1. CASE FeedStep
    BY <2>1, ProposeSafe, TopPicksSafe, PassOverSafe, StartRowSafe, ScanSafe, NextPassSafe,
       AddRowSafe, DropRowSafe, ElsewhereSafe DEF FeedStep
  <2>2. CASE ImportCommits \/ UNCHANGED vars
    BY <2>2, ImportSafe
  <2>3. CASE NextRequest
    BY <2>3, NextRequestSafe
  <2>4. CASE UserNotFound \/ ReadHistory \/ ReadWatched \/ NoWatched \/ AnswerList
    BY <2>4, ElsewhereSafe
  <2> QED BY <2>1, <2>2, <2>3, <2>4 DEF Next
<1> QED BY <1>1, <1>2, PTL DEF Spec

(* Type correctness, with the bound on the number of categories.             *)
THEOREM FeedTypeOK == Spec => []TypeOK
BY FeedInvariant, PTL DEF IInv

(* No film is shown in more rows than maximum_film_appearances.              *)
THEOREM FeedShownAtMost == Spec => []ShownAtMost
<1>1. IInv => ShownAtMost
  <2> SUFFICES ASSUME IInv, NEW f
               PROVE  Appearances(f) <= Policy.maximum_film_appearances
    BY DEF ShownAtMost
  <2>1. CASE \E i \in DOMAIN rows : f \in Elements(rows[i].films)
    BY <2>1 DEF IInv, RowsInv
  <2>2. CASE \A i \in DOMAIN rows : f \notin Elements(rows[i].films)
    <3>1. Policy.maximum_film_appearances \in Nat
      BY PolicyAssumption
    <3> QED BY <2>2, <3>1, AppearancesCount DEF IInv, RowsInv
  <2> QED BY <2>1, <2>2
<1> QED BY <1>1, FeedInvariant, PTL

(* The leading Top Picks appear in no other row.                             *)
THEOREM FeedReservedStayOnTop == Spec => []ReservedStayOnTop
BY FeedInvariant, PTL DEF IInv, RowsInv

(* Only a focused category shows a film that a row above it shows.           *)
THEOREM FeedOnlyFocusedRowsRepeat == Spec => []OnlyFocusedRowsRepeat
BY FeedInvariant, PTL DEF IInv, RowsInv

(* A film repeats only in focused rows, up to its maximum, and never one of  *)
(* the leading Top Picks.                                                    *)
THEOREM FeedRepeatsAllowed == Spec => []RepeatsAllowed
BY FeedShownAtMost, FeedReservedStayOnTop, FeedOnlyFocusedRowsRepeat, PTL DEF RepeatsAllowed

(* The hard caps hold of every finished row.                                 *)
THEOREM FeedRowsVaried == Spec => []RowsVaried
BY FeedInvariant, PTL DEF IInv, RowsInv

-----------------------------------------------------------------------------
(* The allocation ends: there are finitely many proposals, each with         *)
(* finitely many candidates, and a proposal gets at most four passes.        *)

FiniteInv ==
    /\ draft.pass \in 0 .. 4
    /\ IsFiniteSet(remaining)
    /\ \A p \in remaining : IsFiniteSet(DOMAIN p.order)
    /\ pc = "fill" => draft.pass \in 1 .. 4 /\ IsFiniteSet(DOMAIN draft.proposal.order)

LEMMA InventoryFinite ==
    ASSUME NEW h, NEW tie PROVE IsFiniteSet(DOMAIN Inventory(h, tie).rank)
<1> DEFINE ranked == Inventory(h, tie)
<1>1. /\ IsSource(ranked.svd, ranked.popular)
      /\ DOMAIN ranked.rank = Candidates(ranked.svd, ranked.popular)
  BY InventoryRanked
<1>2. Candidates(ranked.svd, ranked.popular) \subseteq Artifact
  BY <1>1, BundleAssumption DEF IsSource, Candidates
<1> QED BY <1>1, <1>2, BundleAssumption, FS_Subset

LEMMA FiniteStart == Init => FiniteInv
BY NoDraftPass, FS_EmptySet DEF Init, FiniteInv

LEMMA FiniteStep == ASSUME IInv, FiniteInv, [Next]_vars PROVE FiniteInv'
<1>1. CASE Propose
  <2>1. PICK tie \in Ties : remaining' = Proposals(Inventory(read, tie), read)
    BY <1>1 DEF Propose
  <2>2. Inventory(read, tie).positive \subseteq DOMAIN Inventory(read, tie).rank
    BY InventoryRanked
  <2>3. \A p \in remaining' : DOMAIN p.order \subseteq DOMAIN Inventory(read, tie).rank
    BY <2>1, <2>2, BuildersSound DEF Sound
  <2>4. IsFiniteSet(remaining') /\ \A p \in remaining' : IsFiniteSet(DOMAIN p.order)
    BY <2>1, <2>3, InventoryFinite, ProposalsFinite, FS_Subset
  <2> QED BY <1>1, <2>4 DEF FiniteInv, Propose
<1>2. CASE StartRow
  <2>1. PICK p \in remaining : remaining' = remaining \ {p} /\ draft' = Draft(p, 1, {}, <<>>)
    BY <1>2 DEF StartRow
  <2>2. draft'.pass = 1 /\ draft'.proposal = p
    BY <2>1 DEF Draft
  <2> QED BY <2>1, <2>2, FS_Subset DEF FiniteInv
<1>3. CASE Scan \/ NextPass
  <2>1. /\ draft'.proposal = draft.proposal /\ remaining' = remaining /\ pc' = "fill"
        /\ pc = "fill"
        /\ \/ draft'.pass = draft.pass
           \/ draft'.pass = draft.pass + 1 /\ draft.pass < LastPass
    BY <1>3 DEF Scan, NextPass, Draft
  <2> QED BY <2>1 DEF FiniteInv, LastPass
<1>4. CASE AllocateTopPicks \/ PassOver
  <2>1. remaining' \subseteq remaining /\ pc' = "allocate" /\ draft' = draft
    BY <1>4 DEF AllocateTopPicks, PassOver
  <2> QED BY <2>1, FS_Subset DEF FiniteInv
<1>5. CASE AddRow \/ DropRow \/ NextRequest
  <2>1. /\ remaining' = remaining \/ remaining' = {}
        /\ pc' # "fill" /\ draft' = NoDraft
    BY <1>5 DEF AddRow, DropRow, NextRequest
  <2> QED BY <2>1, NoDraftPass, FS_EmptySet DEF FiniteInv
<1>6. CASE UNCHANGED <<remaining, draft>> /\ (pc' = pc \/ pc' # "fill")
  BY <1>6 DEF FiniteInv
<1>7. \/ Propose \/ StartRow \/ Scan \/ NextPass \/ AllocateTopPicks \/ PassOver
      \/ AddRow \/ DropRow \/ NextRequest
      \/ UNCHANGED <<remaining, draft>> /\ (pc' = pc \/ pc' # "fill")
  BY DEF Next, FeedStep, vars, computed, ImportCommits, ReadHistory, UserNotFound,
         ReadWatched, NoWatched, AnswerList, AnswerFeed
<1> QED BY <1>1, <1>2, <1>3, <1>4, <1>5, <1>6, <1>7

(* The order of measures is lexicographic.                                   *)
LEMMA LowerFour ==
    ASSUME NEW a, NEW b, NEW c, NEW d, NEW e, NEW f, NEW g, NEW h,
           \/ a < e
           \/ a = e /\ b < f
           \/ a = e /\ b = f /\ c < g
           \/ a = e /\ b = f /\ c = g /\ d < h
    PROVE  Lower(<<a, b, c, d>>, <<e, f, g, h>>)
<1> DEFINE s == <<a, b, c, d>>
           t == <<e, f, g, h>>
<1>1. /\ s[1] = a /\ s[2] = b /\ s[3] = c /\ s[4] = d
      /\ t[1] = e /\ t[2] = f /\ t[3] = g /\ t[4] = h
  OBVIOUS
<1>2. DOMAIN s = 1 .. 4
  OBVIOUS
<1> SUFFICES Lower(s, t)
  OBVIOUS
<1> HIDE DEF s, t
<1>3. ASSUME NEW i \in 1 .. 4, s[i] < t[i], NEW J, 1 .. i - 1 = J, \A j \in J : s[j] = t[j]
      PROVE  Lower(s, t)
  BY <1>2, <1>3 DEF Lower
<1>4. CASE a < e
  <2>1. 1 .. 1 - 1 = {} /\ 1 \in 1 .. 4
    OBVIOUS
  <2>2. s[1] < t[1] /\ \A j \in {} : s[j] = t[j]
    BY <1>1, <1>4
  <2> QED BY <1>3, <2>1, <2>2
<1>5. CASE a = e /\ b < f
  <2>1. 1 .. 2 - 1 = {1} /\ 2 \in 1 .. 4
    OBVIOUS
  <2>2. s[2] < t[2] /\ \A j \in {1} : s[j] = t[j]
    BY <1>1, <1>5
  <2> QED BY <1>3, <2>1, <2>2
<1>6. CASE a = e /\ b = f /\ c < g
  <2>1. 1 .. 3 - 1 = {1, 2} /\ 3 \in 1 .. 4
    OBVIOUS
  <2>2. s[3] < t[3] /\ \A j \in {1, 2} : s[j] = t[j]
    BY <1>1, <1>6
  <2> QED BY <1>3, <2>1, <2>2
<1>7. CASE a = e /\ b = f /\ c = g /\ d < h
  <2>1. 1 .. 4 - 1 = {1, 2, 3} /\ 4 \in 1 .. 4
    OBVIOUS
  <2>2. s[4] < t[4] /\ \A j \in {1, 2, 3} : s[j] = t[j]
    BY <1>1, <1>7
  <2> QED BY <1>3, <2>1, <2>2
<1> QED BY <1>4, <1>5, <1>6, <1>7

LEMMA OneFewer ==
    ASSUME NEW S, IsFiniteSet(S), NEW x \in S
    PROVE  Cardinality(S \ {x}) < Cardinality(S)
<1>1. Cardinality(S) \in Nat /\ Cardinality(S \ {x}) = Cardinality(S) - 1
  BY FS_RemoveElement, FS_CardinalityType
<1> QED BY <1>1

LEMMA AllocationDescends ==
    ASSUME FiniteInv, Next, pc \in {"allocate", "fill"}, ~UNCHANGED computed
    PROVE  Lower(Left', Left)
<1>1. CASE AllocateTopPicks \/ PassOver \/ StartRow
  <2>1. PICK p \in remaining : remaining' = remaining \ {p}
    BY <1>1 DEF AllocateTopPicks, PassOver, StartRow
  <2>2. Cardinality(remaining') < Cardinality(remaining)
    BY <2>1, OneFewer DEF FiniteInv
  <2> QED BY <2>2, LowerFour DEF Left
<1>2. CASE AddRow \/ DropRow
  <2>1. remaining' = remaining /\ pc = "fill" /\ pc' = "allocate"
    BY <1>2 DEF AddRow, DropRow
  <2>2. /\ Cardinality(remaining') = Cardinality(remaining)
        /\ (IF pc' = "fill" THEN 1 ELSE 0) < (IF pc = "fill" THEN 1 ELSE 0)
    BY <2>1
  <2> QED BY <2>2, LowerFour DEF Left
<1>3. CASE NextPass
  <2>1. /\ remaining' = remaining /\ pc' = pc
        /\ draft'.pass = draft.pass + 1 /\ draft.pass \in 0 .. 4
    BY <1>3 DEF NextPass, Draft, FiniteInv
  <2>2. 4 - draft'.pass < 4 - draft.pass
    BY <2>1
  <2> QED BY <2>1, <2>2, LowerFour DEF Left
<1>4. CASE Scan
  <2>1. PICK f \in Unseen :
            draft' = Draft(draft.proposal, draft.pass, draft.seen \cup {f},
                           IF Selectable(f) THEN Append(draft.films, f) ELSE draft.films)
    BY <1>4 DEF Scan
  <2>2. /\ draft'.proposal = draft.proposal /\ draft'.pass = draft.pass
        /\ draft'.seen = draft.seen \cup {f}
    BY <2>1 DEF Draft
  <2>3. Unseen' = Unseen \ {f}
    BY <2>2 DEF Unseen
  <2>4. IsFiniteSet(Unseen)
    BY <1>4, FS_Difference DEF FiniteInv, Scan, Unseen
  <2>5. Cardinality(Unseen') < Cardinality(Unseen)
    BY <2>3, <2>4, OneFewer
  <2>6. remaining' = remaining /\ pc' = pc
    BY <1>4 DEF Scan
  <2> QED BY <2>2, <2>5, <2>6, LowerFour DEF Left
<1>5. AllocateTopPicks \/ PassOver \/ StartRow \/ AddRow \/ DropRow \/ NextPass \/ Scan
  BY DEF Next, FeedStep, computed, ImportCommits, ReadHistory, UserNotFound, Propose,
         ReadWatched, NoWatched, AnswerList, AnswerFeed, NextRequest
<1> QED BY <1>1, <1>2, <1>3, <1>4, <1>5

(* Every step of the allocation uses up a proposal, a pass or a candidate.   *)
THEOREM FeedAllocationEnds == Spec => AllocationEnds
<1>1. FiniteInv /\ [Next]_vars =>
          [(pc \in {"allocate", "fill"}) => Lower(Left', Left)]_computed
  <2>1. UNCHANGED vars => UNCHANGED computed
    BY DEF vars, computed
  <2> QED BY <2>1, AllocationDescends
<1>2. Spec => []FiniteInv
  BY FiniteStart, FiniteStep, FeedInvariant, PTL DEF Spec
<1> QED BY <1>1, <1>2, PTL DEF Spec, AllocationEnds

-----------------------------------------------------------------------------
(* Repetition and the soft caps are given up only below the minimum.  While  *)
(* a row is filled: what a strict pass has come to and not taken fits no     *)
(* more, so a relaxed pass takes nothing that a strict one would have; and   *)
(* the films that a pass in need takes reach the minimum before any beyond.  *)

ShownAbove(films, n) == Appearances(films[n]) # 0

OverSoftCapAt(p, films, n) == ~SoftCaps(films[n], p, SubSeq(films, 1, n - 1))

ExcusedRepeats(p, films) == \A n \in p.minimum + 1 .. Len(films) :
    ShownAbove(films, n) => \E m \in 1 .. p.minimum : ShownAbove(films, m)

ExcusedCaps(p, films) == \A n \in p.minimum + 1 .. Len(films) :
    OverSoftCapAt(p, films, n) => \E m \in 1 .. p.minimum : OverSoftCapAt(p, films, m)

Fits(f, p, pass, films) == MayShow(f, pass) /\ HardCaps(f, p, films) /\ SoftCaps(f, p, films)

Exhausted ==
    /\ draft.pass \in {1, 3} => \A f \in draft.seen \ Elements(draft.films) :
           ~Fits(f, draft.proposal, draft.pass, draft.films)
    /\ draft.pass \in {2, 4} =>
           \/ Full
           \/ \A f \in DOMAIN draft.proposal.order \ Elements(draft.films) :
                  ~Fits(f, draft.proposal, draft.pass, draft.films)

InNeed ==
    Len(draft.films) >= draft.proposal.minimum =>
        /\ draft.pass \in {3, 4} =>
               \E m \in 1 .. draft.proposal.minimum : ShownAbove(draft.films, m)
        /\ draft.pass \in {2, 4} =>
               \E m \in 1 .. draft.proposal.minimum :
                   OverSoftCapAt(draft.proposal, draft.films, m)

RelaxedDraft ==
    /\ draft.proposal.minimum \in Nat
    /\ ExcusedRepeats(draft.proposal, draft.films)
    /\ ExcusedCaps(draft.proposal, draft.films)
    /\ Exhausted /\ InNeed

RelaxInv ==
    /\ RelaxedOnlyForMinimum
    /\ \A p \in remaining : p.minimum \in Nat
    /\ pc = "fill" => RelaxedDraft

LEMMA Prefixes ==
    ASSUME NEW s, IsSeq(s), NEW e
    PROVE  /\ SubSeq(Append(s, e), 1, (Len(s) + 1) - 1) = s
           /\ \A n \in 1 .. Len(s) : SubSeq(Append(s, e), 1, n - 1) = SubSeq(s, 1, n - 1)
<1> DEFINE t == Append(s, e)
           S == Elements(s) \cup {e}
<1>1. /\ Len(s) \in Nat /\ s \in Seq(S) /\ t \in Seq(S)
      /\ Len(t) = Len(s) + 1 /\ \A i \in 1 .. Len(s) : t[i] = s[i] /\ s[i] \in S
  BY Appended DEF IsSeq
<1> HIDE DEF t, S
<1>2. ASSUME NEW n \in 0 .. Len(s) PROVE SubSeq(t, 1, n) = SubSeq(s, 1, n)
  <2>1. /\ SubSeq(t, 1, n) \in Seq(S) /\ Len(SubSeq(t, 1, n)) = n
        /\ \A i \in 1 .. n : SubSeq(t, 1, n)[i] = t[i]
    <3>1. \A i \in 1 .. n : t[i] \in S
      BY <1>1
    <3>2. /\ SubSeq(t, 1, n) \in Seq(S)
          /\ Len(SubSeq(t, 1, n)) = IF 1 <= n THEN n - 1 + 1 ELSE 0
          /\ \A i \in 1 .. n - 1 + 1 : SubSeq(t, 1, n)[i] = t[1 + i - 1]
      BY <3>1, SubSeqProperties
    <3> QED BY <1>1, <3>2
  <2>2. /\ SubSeq(s, 1, n) \in Seq(S) /\ Len(SubSeq(s, 1, n)) = n
        /\ \A i \in 1 .. n : SubSeq(s, 1, n)[i] = s[i]
    <3>1. \A i \in 1 .. n : s[i] \in S
      BY <1>1
    <3>2. /\ SubSeq(s, 1, n) \in Seq(S)
          /\ Len(SubSeq(s, 1, n)) = IF 1 <= n THEN n - 1 + 1 ELSE 0
          /\ \A i \in 1 .. n - 1 + 1 : SubSeq(s, 1, n)[i] = s[1 + i - 1]
      BY <3>1, SubSeqProperties
    <3> QED BY <1>1, <3>2
  <2>3. \A i \in 1 .. n : SubSeq(t, 1, n)[i] = SubSeq(s, 1, n)[i]
    BY <1>1, <2>1, <2>2
  <2> QED BY <2>1, <2>2, <2>3, SeqEqual
<1>3. SubSeq(s, 1, Len(s)) = s
  BY <1>1, SubSeqFull
<1>4. (Len(s) + 1) - 1 = Len(s) /\ Len(s) \in 0 .. Len(s)
  BY <1>1
<1>5. \A n \in 1 .. Len(s) : n - 1 \in 0 .. Len(s)
  BY <1>1
<1> QED BY <1>2, <1>3, <1>4, <1>5 DEF t

LEMMA SharingGrows ==
    ASSUME NEW films, IsSeq(films), IsFiniteSet(Elements(films)), NEW g, NEW f, NEW family,
           NEW cap \in Nat, WithinCap(f, Append(films, g), family, cap)
    PROVE  WithinCap(f, films, family, cap)
<1> SUFFICES ASSUME NEW e \in Entities(f, family) PROVE Sharing(films, family, e) < cap
  BY DEF WithinCap
<1> DEFINE S == {h \in Elements(films) : e \in Entities(h, family)}
           T == {h \in Elements(Append(films, g)) : e \in Entities(h, family)}
<1>1. Elements(Append(films, g)) = Elements(films) \cup {g}
  BY Appended
<1>2. S \subseteq T /\ IsFiniteSet(T)
  <2>1. IsFiniteSet(Elements(films) \cup {g})
    BY FS_AddElement
  <2> QED BY <1>1, <2>1, FS_Subset
<1>3. Cardinality(T) < cap /\ Sharing(films, family, e) = Cardinality(S)
  BY DEF WithinCap, Sharing
<1> HIDE DEF S, T
<1>4. Cardinality(S) <= Cardinality(T) /\ Cardinality(S) \in Nat /\ Cardinality(T) \in Nat
  BY <1>2, FS_Subset, FS_CardinalityType
<1> QED BY <1>3, <1>4

LEMMA FitsNoMore ==
    ASSUME NEW films, IsSeq(films), IsFiniteSet(Elements(films)), NEW g, NEW f, NEW p,
           p.head_cap \in Nat, NEW pass, Fits(f, p, pass, Append(films, g))
    PROVE  Fits(f, p, pass, films)
<1>1. /\ DirectorCap(p) \in Nat /\ Policy.world_country_cap \in Nat
      /\ Policy.generic_decade_cap \in Nat /\ Policy.generic_genre_cap \in Nat
  BY PolicyAssumption DEF DirectorCap
<1>2. HardCaps(f, p, Append(films, g)) /\ SoftCaps(f, p, Append(films, g)) /\ MayShow(f, pass)
  BY DEF Fits
<1>3. ASSUME f \in p.heads PROVE Cardinality(Elements(films) \cap p.heads) < p.head_cap
  <2>1. Elements(Append(films, g)) = Elements(films) \cup {g}
    BY Appended
  <2>2. IsFiniteSet((Elements(films) \cup {g}) \cap p.heads)
    BY FS_AddElement, FS_Intersection
  <2>3. Elements(films) \cap p.heads \subseteq (Elements(films) \cup {g}) \cap p.heads
    OBVIOUS
  <2>4. /\ Cardinality(Elements(films) \cap p.heads)
               <= Cardinality((Elements(films) \cup {g}) \cap p.heads)
        /\ Cardinality(Elements(films) \cap p.heads) \in Nat
        /\ Cardinality((Elements(films) \cup {g}) \cap p.heads) \in Nat
    BY <2>2, <2>3, FS_Subset, FS_CardinalityType
  <2>5. Cardinality((Elements(films) \cup {g}) \cap p.heads) < p.head_cap
    BY <1>2, <1>3, <2>1 DEF HardCaps
  <2> QED BY <2>4, <2>5
<1>4. HardCaps(f, p, films)
  BY <1>1, <1>2, <1>3, SharingGrows DEF HardCaps
<1>5. SoftCaps(f, p, films)
  BY <1>1, <1>2, SharingGrows DEF SoftCaps
<1> QED BY <1>2, <1>4, <1>5 DEF Fits

LEMMA StrictPassFits ==
    ASSUME NEW f, NEW p, NEW pass, NEW films
    PROVE  /\ ~Relaxed(pass) => (MayShow(f, pass) /\ PassesDiversity(f, p, films, Relaxed(pass))
                                     <=> Fits(f, p, pass, films))
           /\ PassesDiversity(f, p, films, Relaxed(pass)) => HardCaps(f, p, films)
BY DEF PassesDiversity, Fits

LEMMA ScanRelaxes == ASSUME IInv, RelaxInv, Scan PROVE RelaxedDraft'
<1> DEFINE p == draft.proposal
           least == draft.proposal.minimum
           films == draft.films
<1>1. /\ Drafted /\ RelaxedDraft /\ rows' = rows /\ least \in Nat /\ ~Full
      /\ IsSeq(films) /\ IsFiniteSet(Elements(films)) /\ p.head_cap \in Nat
      /\ draft.pass \in 1 .. 4
  BY DEF IInv, RelaxInv, Scan, RelaxedDraft, Drafted
<1>2. PICK g \in Unseen :
          draft' = Draft(p, draft.pass, draft.seen \cup {g},
                         IF Selectable(g) THEN Append(films, g) ELSE films)
  BY DEF Scan
<1>3. /\ draft'.proposal = p /\ draft'.pass = draft.pass /\ draft'.seen = draft.seen \cup {g}
      /\ draft'.films = IF Selectable(g) THEN Append(films, g) ELSE films
      /\ g \in DOMAIN p.order
  BY <1>2 DEF Draft, Unseen
<1>4. /\ \A f : Appearances(f)' = Appearances(f)
      /\ \A f, pass : MayShow(f, pass)' = MayShow(f, pass)
  BY <1>1 DEF Appearances, MayShow, Reserved
<1>5. CASE ~Selectable(g)
  <2>1. draft'.films = films /\ draft'.proposal = p
    BY <1>3, <1>5
  <2>2. /\ (draft.proposal.minimum \in Nat)'
        /\ ExcusedRepeats(draft.proposal, draft.films)'
        /\ ExcusedCaps(draft.proposal, draft.films)'
        /\ InNeed'
    BY <1>1, <1>3, <1>4, <2>1
       DEF RelaxedDraft, ExcusedRepeats, ExcusedCaps, InNeed, ShownAbove, OverSoftCapAt
  <2>3. Exhausted'
    <3>1. ASSUME draft.pass \in {1, 3}, g \notin Elements(films)
          PROVE  ~Fits(g, p, draft.pass, films)
      BY <1>5, <3>1, StrictPassFits DEF Selectable, Relaxed
    <3>2. (draft.pass \in {1, 3} => \A f \in draft.seen \ Elements(draft.films) :
              ~Fits(f, draft.proposal, draft.pass, draft.films))'
      BY <1>1, <1>3, <1>4, <2>1, <3>1 DEF RelaxedDraft, Exhausted, Fits
    <3>3. (draft.pass \in {2, 4} => \A f \in DOMAIN draft.proposal.order \ Elements(draft.films) :
              ~Fits(f, draft.proposal, draft.pass, draft.films))'
      BY <1>1, <1>3, <1>4, <2>1 DEF RelaxedDraft, Exhausted, Fits
    <3> QED BY <3>2, <3>3 DEF Exhausted
  <2> QED BY <2>2, <2>3 DEF RelaxedDraft
<1>6. CASE Selectable(g)
  <2> DEFINE more == Append(films, g)
             n == Len(films) + 1
  <2>1. draft'.films = more
    BY <1>3, <1>6
  <2>2. /\ Len(films) \in Nat /\ Len(more) = n /\ more[n] = g
        /\ \A i \in 1 .. Len(films) : more[i] = films[i]
        /\ Elements(more) = Elements(films) \cup {g}
    BY <1>1, Appended
  <2>3. SubSeq(more, 1, n - 1) = films
    BY <1>1, Prefixes
  <2>4. \A i \in 1 .. Len(films) : SubSeq(more, 1, i - 1) = SubSeq(films, 1, i - 1)
    BY <1>1, Prefixes
  <2>5. /\ g \notin Elements(films) /\ MayShow(g, draft.pass) /\ HardCaps(g, p, films)
        /\ ~Relaxed(draft.pass) => SoftCaps(g, p, films)
    BY <1>6, StrictPassFits DEF Selectable, Fits
  <2> HIDE DEF more, films
  <2>6. /\ \A i \in 1 .. Len(films) : ShownAbove(more, i) <=> ShownAbove(films, i)
        /\ ShownAbove(more, n) <=> Appearances(g) # 0
    BY <2>2 DEF ShownAbove
  <2>7. /\ \A i \in 1 .. Len(films) : OverSoftCapAt(p, more, i) <=> OverSoftCapAt(p, films, i)
        /\ OverSoftCapAt(p, more, n) <=> ~SoftCaps(g, p, films)
    BY <2>2, <2>3, <2>4 DEF OverSoftCapAt
  <2>8. ShownAbove(more, n) <=> draft.pass \in {3, 4}
    <3>1. Appearances(g) \in Nat
      BY <1>1, AppearancesCount DEF IInv, RowsInv
    <3> QED BY <1>1, <2>5, <2>6, <3>1 DEF MayShow, Repeats
  <2>9. OverSoftCapAt(p, more, n) <=> draft.pass \in {2, 4}
    <3>1. CASE draft.pass \in {1, 3}
      BY <2>5, <2>7, <3>1 DEF Relaxed
    <3>2. CASE draft.pass \in {2, 4}
      <4>1. ~Fits(g, p, draft.pass, films)
        BY <1>1, <1>3, <2>5, <3>2 DEF RelaxedDraft, Exhausted, films
      <4> QED BY <2>5, <2>7, <3>2, <4>1 DEF Fits
    <3> QED BY <1>1, <3>1, <3>2
  <2>10. /\ Len(films) >= least /\ draft.pass \in {3, 4} =>
                \E m \in 1 .. least : ShownAbove(films, m)
         /\ Len(films) >= least /\ draft.pass \in {2, 4} =>
                \E m \in 1 .. least : OverSoftCapAt(p, films, m)
    BY <1>1 DEF RelaxedDraft, InNeed, films
  <2>11. \A i : i \in least + 1 .. n =>
             \/ i \in least + 1 .. Len(films)
             \/ i = n /\ Len(films) >= least
    BY <1>1, <2>2
  <2>12. Len(films) >= least => \A m \in 1 .. least : m \in 1 .. Len(films)
    BY <1>1, <2>2
  <2>13. \A i \in least + 1 .. Len(films) : i \in 1 .. Len(films) /\ Len(films) >= least
    BY <1>1, <2>2
  <2>14. ASSUME NEW i \in least + 1 .. n, ShownAbove(more, i)
         PROVE  \E m \in 1 .. least : ShownAbove(more, m)
    <3>1. CASE i \in least + 1 .. Len(films)
      <4>1. \E m \in 1 .. least : ShownAbove(films, m)
        BY <1>1, <2>6, <2>13, <2>14, <3>1 DEF RelaxedDraft, ExcusedRepeats, films
      <4> QED BY <2>6, <2>12, <2>13, <3>1, <4>1
    <3>2. CASE i = n /\ Len(films) >= least
      BY <2>6, <2>8, <2>10, <2>12, <2>14, <3>2
    <3> QED BY <2>11, <3>1, <3>2
  <2>15. ASSUME NEW i \in least + 1 .. n, OverSoftCapAt(p, more, i)
         PROVE  \E m \in 1 .. least : OverSoftCapAt(p, more, m)
    <3>1. CASE i \in least + 1 .. Len(films)
      <4>1. \E m \in 1 .. least : OverSoftCapAt(p, films, m)
        BY <1>1, <2>7, <2>13, <2>15, <3>1 DEF RelaxedDraft, ExcusedCaps, films
      <4> QED BY <2>7, <2>12, <2>13, <3>1, <4>1
    <3>2. CASE i = n /\ Len(films) >= least
      BY <2>7, <2>9, <2>10, <2>12, <2>15, <3>2
    <3> QED BY <2>11, <3>1, <3>2
  <2>16. ASSUME n >= least
         PROVE  /\ draft.pass \in {3, 4} => \E m \in 1 .. least : ShownAbove(more, m)
                /\ draft.pass \in {2, 4} => \E m \in 1 .. least : OverSoftCapAt(p, more, m)
    <3>1. CASE Len(films) >= least
      BY <2>6, <2>7, <2>10, <2>12, <3>1
    <3>2. CASE ~(Len(films) >= least)
      <4>1. n \in 1 .. least
        BY <1>1, <2>2, <2>16, <3>2
      <4> QED BY <2>8, <2>9, <4>1
    <3> QED BY <3>1, <3>2
  <2>17. (ExcusedRepeats(draft.proposal, draft.films) /\ ExcusedCaps(draft.proposal, draft.films))'
    BY <1>3, <1>4, <2>1, <2>2, <2>14, <2>15
       DEF ExcusedRepeats, ExcusedCaps, ShownAbove, OverSoftCapAt
  <2>18. InNeed'
    BY <1>3, <1>4, <2>1, <2>2, <2>16 DEF InNeed, ShownAbove, OverSoftCapAt
  <2>19. Exhausted'
    <3>1. ASSUME NEW f, f \notin Elements(more), ~Fits(f, p, draft.pass, films)
          PROVE  ~Fits(f, p, draft.pass, more)
      BY <1>1, <3>1, FitsNoMore DEF more, films
    <3>2. \A f \in draft.seen' \ Elements(more) : f \in draft.seen \ Elements(films)
      BY <1>3, <2>2
    <3>3. (draft.pass \in {1, 3} => \A f \in draft.seen \ Elements(draft.films) :
              ~Fits(f, draft.proposal, draft.pass, draft.films))'
      <4>1. draft.pass \in {1, 3} =>
                \A f \in draft.seen \ Elements(films) : ~Fits(f, p, draft.pass, films)
        BY <1>1 DEF RelaxedDraft, Exhausted, films
      <4>2. draft.pass \in {1, 3} =>
                \A f \in draft.seen' \ Elements(more) : ~Fits(f, p, draft.pass, more)
        BY <3>1, <3>2, <4>1
      <4> QED BY <1>3, <1>4, <2>1, <4>2 DEF Fits
    <3>4. (draft.pass \in {2, 4} => \A f \in DOMAIN draft.proposal.order \ Elements(draft.films) :
              ~Fits(f, draft.proposal, draft.pass, draft.films))'
      <4>1. draft.pass \in {2, 4} =>
                \A f \in DOMAIN p.order \ Elements(films) : ~Fits(f, p, draft.pass, films)
        BY <1>1 DEF RelaxedDraft, Exhausted, films
      <4>2. draft.pass \in {2, 4} =>
                \A f \in DOMAIN p.order \ Elements(more) : ~Fits(f, p, draft.pass, more)
        BY <2>2, <3>1, <4>1
      <4> QED BY <1>3, <1>4, <2>1, <4>2 DEF Fits
    <3> QED BY <3>3, <3>4 DEF Exhausted
  <2> QED BY <1>1, <1>3, <2>17, <2>18, <2>19 DEF RelaxedDraft
<1> QED BY <1>5, <1>6

LEMMA NextPassRelaxes == ASSUME IInv, RelaxInv, NextPass PROVE RelaxedDraft'
<1>1. /\ RelaxedDraft /\ rows' = rows /\ PassDone /\ Short
      /\ draft.pass \in 1 .. 3
  BY DEF IInv, RelaxInv, NextPass, Drafted, LastPass
<1>2. /\ draft'.proposal = draft.proposal /\ draft'.pass = draft.pass + 1
      /\ draft'.seen = {} /\ draft'.films = draft.films
  BY DEF NextPass, Draft
<1>4. /\ (draft.proposal.minimum \in Nat)'
      /\ ExcusedRepeats(draft.proposal, draft.films)'
      /\ ExcusedCaps(draft.proposal, draft.films)'
  BY <1>1, <1>2 DEF RelaxedDraft, ExcusedRepeats, ExcusedCaps, ShownAbove, OverSoftCapAt,
                    Appearances
<1>5. InNeed'
  <2>1. Len(draft.films) \in Nat /\ draft.proposal.minimum \in Nat
    BY <1>1, Appended DEF IInv, Drafted, NextPass, RelaxedDraft
  <2>2. ~(Len(draft.films) >= draft.proposal.minimum)
    BY <1>1, <2>1 DEF Short
  <2> QED BY <1>2, <2>2 DEF InNeed
<1>6. Exhausted'
  <2>1. CASE draft.pass = 2
    BY <1>2, <2>1 DEF Exhausted
  <2>2. CASE draft.pass \in {1, 3}
    <3>1. \/ Full
          \/ \A f \in DOMAIN draft.proposal.order \ Elements(draft.films) :
                 ~Fits(f, draft.proposal, draft.pass, draft.films)
      BY <1>1, <2>2 DEF PassDone, Unseen, RelaxedDraft, Exhausted
    <3>2. \A f : MayShow(f, draft.pass)' <=> MayShow(f, draft.pass)
      <4>1. draft'.pass \in {3, 4} <=> draft.pass \in {3, 4}
        BY <1>2, <2>2
      <4> QED BY <1>1, <4>1 DEF MayShow, Repeats, Appearances, Reserved
    <3>3. Full' = Full
      BY <1>2 DEF Full
    <3>4. ( \/ Full
            \/ \A f \in DOMAIN draft.proposal.order \ Elements(draft.films) :
                   ~Fits(f, draft.proposal, draft.pass, draft.films) )'
      BY <1>2, <3>1, <3>2, <3>3 DEF Fits
    <3>5. draft'.pass \notin {1, 3}
      BY <1>2, <2>2
    <3> QED BY <3>4, <3>5 DEF Exhausted
  <2> QED BY <1>1, <2>1, <2>2
<1> QED BY <1>4, <1>5, <1>6 DEF RelaxedDraft

LEMMA StartRowRelaxes == ASSUME RelaxInv, StartRow PROVE RelaxedDraft'
<1>1. PICK p \in remaining : draft' = Draft(p, 1, {}, <<>>)
  BY DEF StartRow
<1>2. /\ draft'.pass = 1 /\ draft'.films = <<>> /\ draft'.proposal = p /\ draft'.seen = {}
      /\ p.minimum \in Nat
  BY <1>1 DEF Draft, RelaxInv
<1>3. Len(<<>>) = 0 /\ \A n \in p.minimum + 1 .. 0 : FALSE
  BY <1>2
<1>4. (ExcusedRepeats(draft.proposal, draft.films) /\ ExcusedCaps(draft.proposal, draft.films))'
  BY <1>2, <1>3 DEF ExcusedRepeats, ExcusedCaps
<1> QED BY <1>2, <1>4 DEF RelaxedDraft, Exhausted, InNeed

LEMMA RelaxedRowsStay ==
    ASSUME RelaxedOnlyForMinimum, rows' = rows PROVE RelaxedOnlyForMinimum'
BY DEF RelaxedOnlyForMinimum

LEMMA AddRowRelaxes == ASSUME IInv, RelaxInv, AddRow PROVE RelaxedOnlyForMinimum'
<1> DEFINE row == [proposal |-> draft.proposal, films |-> draft.films]
           n == Len(rows) + 1
           Repeated(r, i, k) == \E j \in 1 .. i - 1 : r[i].films[k] \in Elements(r[j].films)
           Over(r, i, k) ==
               ~SoftCaps(r[i].films[k], r[i].proposal, SubSeq(r[i].films, 1, k - 1))
           Excused(r, i) ==
               \A k \in r[i].proposal.minimum + 1 .. Len(r[i].films) :
                   /\ Repeated(r, i, k) =>
                          \E m \in 1 .. r[i].proposal.minimum : Repeated(r, i, m)
                   /\ Over(r, i, k) => \E m \in 1 .. r[i].proposal.minimum : Over(r, i, m)
<1>1. /\ IsSeq(rows) /\ rows' = Append(rows, row) /\ RelaxedDraft
  BY DEF IInv, RowsInv, RelaxInv, AddRow
<1>2. row.films = draft.films /\ row.proposal = draft.proposal
  OBVIOUS
<1> HIDE DEF row
<1>3. /\ Len(rows) \in Nat
      /\ DOMAIN rows = 1 .. Len(rows) /\ DOMAIN rows' = 1 .. n
      /\ \A i \in 1 .. Len(rows) : rows'[i] = rows[i]
      /\ rows'[n] = row
  BY <1>1, Appended
<1>4. ASSUME NEW i \in 1 .. Len(rows), i # 1 PROVE Excused(rows', i)
  <2>1. Excused(rows, i)
    BY <1>3, <1>4 DEF RelaxInv, RelaxedOnlyForMinimum
  <2>2. rows'[i] = rows[i] /\ \A j \in 1 .. i - 1 : rows'[j] = rows[j]
    BY <1>3
  <2>3. \A k : Repeated(rows', i, k) <=> Repeated(rows, i, k)
    BY <2>2
  <2>4. \A k : Over(rows', i, k) <=> Over(rows, i, k)
    BY <2>2
  <2> HIDE DEF Repeated, Over
  <2> QED BY <2>1, <2>2, <2>3, <2>4
<1>5. Excused(rows', n)
  <2>1. \A k : Repeated(rows', n, k) <=> ShownAbove(draft.films, k)
    <3> TAKE k
    <3>1. n - 1 = Len(rows)
      BY <1>3
    <3>2. Repeated(rows', n, k) <=>
              \E j \in DOMAIN rows : draft.films[k] \in Elements(rows[j].films)
      BY <1>2, <1>3, <3>1
    <3> QED BY <1>1, <3>2, AppearancesCount DEF ShownAbove
  <2>2. \A k : Over(rows', n, k) <=> OverSoftCapAt(draft.proposal, draft.films, k)
    BY <1>2, <1>3 DEF OverSoftCapAt
  <2>3. ExcusedRepeats(draft.proposal, draft.films) /\ ExcusedCaps(draft.proposal, draft.films)
    BY <1>1 DEF RelaxedDraft
  <2>4. rows'[n].proposal.minimum = draft.proposal.minimum /\ rows'[n].films = draft.films
    BY <1>2, <1>3
  <2> HIDE DEF Repeated, Over
  <2> QED BY <2>1, <2>2, <2>3, <2>4 DEF ExcusedRepeats, ExcusedCaps
<1>6. \A i \in DOMAIN rows' \ {1} : Excused(rows', i)
  <2>1. \A i \in DOMAIN rows' \ {1} : i = n \/ (i \in 1 .. Len(rows) /\ i # 1)
    BY <1>3
  <2> HIDE DEF Excused
  <2> QED BY <1>4, <1>5, <2>1
<1> QED BY <1>6 DEF RelaxedOnlyForMinimum

LEMMA RelaxStep == ASSUME IInv, RelaxInv, [Next]_vars PROVE RelaxInv'
<1>1. CASE Propose
  <2>1. PICK tie \in Ties : remaining' = Proposals(Inventory(read, tie), read)
    BY <1>1 DEF Propose
  <2>2. Inventory(read, tie).positive \subseteq DOMAIN Inventory(read, tie).rank
    BY InventoryRanked
  <2>3. \A p \in remaining' : p.minimum \in Nat
    BY <2>1, <2>2, BuildersSound DEF Sound
  <2> QED BY <1>1, <2>3, RelaxedRowsStay DEF RelaxInv, Propose
<1>2. CASE StartRow
  <2>1. remaining' \subseteq remaining /\ rows' = rows
    BY <1>2 DEF StartRow
  <2> QED BY <1>2, <2>1, StartRowRelaxes, RelaxedRowsStay DEF RelaxInv
<1>3. CASE Scan \/ NextPass
  <2>1. remaining' = remaining /\ rows' = rows
    BY <1>3 DEF Scan, NextPass
  <2> QED BY <1>3, <2>1, ScanRelaxes, NextPassRelaxes, RelaxedRowsStay DEF RelaxInv
<1>4. CASE AddRow
  BY <1>4, AddRowRelaxes DEF RelaxInv, AddRow
<1>5. CASE AllocateTopPicks
  <2>1. PICK row : rows' = <<row>>
    BY <1>5 DEF AllocateTopPicks
  <2>2. DOMAIN rows' = {1}
    BY <2>1
  <2> QED BY <1>5, <2>2 DEF RelaxInv, RelaxedOnlyForMinimum, AllocateTopPicks
<1>6. CASE PassOver \/ DropRow
  <2>1. remaining' \subseteq remaining /\ rows' = rows /\ pc' = "allocate"
    BY <1>6 DEF PassOver, DropRow
  <2> QED BY <2>1, RelaxedRowsStay DEF RelaxInv
<1>7. CASE NextRequest
  <2>1. DOMAIN rows' = {} /\ remaining' = {} /\ pc' # "fill"
    BY <1>7, NoFilms DEF NextRequest
  <2> QED BY <2>1 DEF RelaxInv, RelaxedOnlyForMinimum
<1>8. CASE UNCHANGED <<remaining, draft, rows>> /\ (pc' = pc \/ pc' # "fill")
  <2>1. RelaxedDraft => RelaxedDraft'
    BY <1>8 DEF RelaxedDraft, ExcusedRepeats, ExcusedCaps, InNeed, Exhausted, ShownAbove,
                OverSoftCapAt, Appearances, Fits, MayShow, Reserved, Full
  <2> QED BY <1>8, <2>1, RelaxedRowsStay DEF RelaxInv
<1>9. \/ Propose \/ StartRow \/ Scan \/ NextPass \/ AllocateTopPicks \/ PassOver
      \/ AddRow \/ DropRow \/ NextRequest
      \/ UNCHANGED <<remaining, draft, rows>> /\ (pc' = pc \/ pc' # "fill")
  BY DEF Next, FeedStep, vars, computed, ImportCommits, ReadHistory, UserNotFound,
         ReadWatched, NoWatched, AnswerList, AnswerFeed
<1> QED BY <1>1, <1>2, <1>3, <1>4, <1>5, <1>6, <1>7, <1>8, <1>9

(* Beyond its minimum a row repeats a film, or exceeds a soft cap, only if   *)
(* it had to do so to reach the minimum.                                     *)
THEOREM FeedRelaxedOnlyForMinimum == Spec => []RelaxedOnlyForMinimum
<1>1. Init => RelaxInv
  BY NoFilms DEF Init, RelaxInv, RelaxedOnlyForMinimum
<1>2. RelaxInv => RelaxedOnlyForMinimum
  BY DEF RelaxInv
<1> QED BY <1>1, <1>2, RelaxStep, FeedInvariant, PTL DEF Spec

-----------------------------------------------------------------------------
(* The fusion needs its own invariant: the inventory of every state, also of *)
(* one in which nothing has been computed, is the fusion of its sources.     *)

FusedInv ==
    /\ IsSource(inventory.svd, inventory.popular)
    /\ inventory.rank = RankByRrf(inventory.svd, inventory.popular)
    /\ DOMAIN inventory.rank = Candidates(inventory.svd, inventory.popular)

LEMMA NothingFused ==
    /\ IsSource(<<>>, {}) /\ Candidates(<<>>, {}) = {} /\ DOMAIN <<>> = {}
    /\ <<>> = RankByRrf(<<>>, {})
<1>1. DOMAIN <<>> = {}
  <2>1. DOMAIN <<>> = 1 .. 0
    OBVIOUS
  <2> QED BY <2>1
<1>2. IsSource(<<>>, {}) /\ Candidates(<<>>, {}) = {}
  BY <1>1 DEF IsSource, Candidates
<1>3. RankByRrf(<<>>, {}) = <<>>
  BY <1>1 DEF RankByRrf, Place
<1> QED BY <1>1, <1>2, <1>3

(* A film that both sources rank at least as high as another, and one of     *)
(* them higher, comes first in the inventory.                                *)
THEOREM FeedFusionRespectsSources == Spec => []FusionRespectsSources
<1>1. Init => FusedInv
  BY NothingFused DEF Init, NoInventory, FusedInv
<1>2. FusedInv /\ [Next]_vars => FusedInv'
  <2> SUFFICES ASSUME FusedInv, [Next]_vars PROVE FusedInv'
    OBVIOUS
  <2>1. CASE Propose
    <3>1. PICK tie : inventory' = Inventory(read, tie)
      BY <2>1 DEF Propose
    <3> QED BY <3>1, InventoryRanked DEF FusedInv
  <2>2. CASE NextRequest
    <3>1. inventory' = NoInventory
      BY <2>2 DEF NextRequest
    <3>2. /\ inventory'.svd = <<>> /\ inventory'.popular = {} /\ inventory'.rank = <<>>
      BY <3>1 DEF NoInventory
    <3> QED BY <3>2, NothingFused DEF FusedInv
  <2>3. CASE UNCHANGED inventory
    BY <2>3 DEF FusedInv
  <2>4. \/ Propose \/ NextRequest \/ UNCHANGED inventory
    BY DEF Next, FeedStep, vars, computed, ImportCommits, ReadHistory, UserNotFound,
           ReadWatched, NoWatched, AnswerList, AllocateTopPicks, PassOver, StartRow, Scan,
           NextPass, AddRow, DropRow, AnswerFeed
  <2> QED BY <2>1, <2>2, <2>3, <2>4
<1>3. FusedInv => FusionRespectsSources
  <2> SUFFICES ASSUME FusedInv, NEW f \in DOMAIN inventory.rank, NEW g \in DOMAIN inventory.rank,
                      NoLater(inventory.svd, inventory.popular, f, g),
                      ~NoLater(inventory.svd, inventory.popular, g, f)
               PROVE  inventory.rank[f] < inventory.rank[g]
    BY DEF FusionRespectsSources
  <2>1. RrfAhead(inventory.svd, inventory.popular, f, g)
    BY FusionMonotone DEF FusedInv, NoLater
  <2> QED BY <2>1, RanksFused DEF FusedInv
<1> QED BY <1>1, <1>2, <1>3, PTL DEF Spec

-----------------------------------------------------------------------------
(* Scores are integers, so that the index's order, with a tie broken, is a   *)
(* strict order and numbers the films.                                       *)

IsWeight(weight) ==
    DOMAIN weight \subseteq Artifact /\ \A g \in DOMAIN weight : weight[g] \in Int

LEMMA SumIsInt ==
    ASSUME NEW value, NEW S, IsFiniteSet(S), \A x \in S : value[x] \in Int
    PROVE  Sum(value, S) \in Int
<1> DEFINE F == [x \in S |-> value[x]]
           Eq(g) == g = [T \in SUBSET S |-> IF T = {} THEN 0
                                            ELSE value[Picked(T)] + g[T \ {Picked(T)}]]
           h == CHOOSE g : Eq(g)
<1>1. F \in [S -> Int]
  OBVIOUS
<1>2. Sum(value, S) = h[S]
  BY DEF Sum, MapThenSumSet, MapThenFoldSet, Picked
<1>3. ASSUME NEW g PROVE Eq(g) <=> Totals(F, S, g)
  <2>1. \A T \in SUBSET S : T # {} => F[Picked(T)] = value[Picked(T)]
    BY DEF Picked
  <2>2. [T \in SUBSET S |-> IF T = {} THEN 0 ELSE value[Picked(T)] + g[T \ {Picked(T)}]]
            = [T \in SUBSET S |-> IF T = {} THEN 0 ELSE F[Picked(T)] + g[T \ {Picked(T)}]]
    <3> HIDE DEF F
    <3> QED BY <2>1
  <2> HIDE DEF F
  <2> QED BY <2>2 DEF Totals
<1> HIDE DEF F
<1>4. \E g : Eq(g)
  <2>1. PICK g : Totals(F, S, g)
    BY <1>1, TotalExists
  <2> HIDE DEF Eq
  <2> QED BY <1>3, <2>1
<1> HIDE DEF Eq
<1>5. Eq(h)
  BY <1>4
<1>6. Totals(F, S, h)
  BY <1>3, <1>5
<1> HIDE DEF h
<1>7. \A T \in SUBSET S : h[T] \in Int
  BY <1>1, <1>6, TotalType
<1> QED BY <1>2, <1>7

LEMMA ScoreIsInt ==
    ASSUME NEW weight, IsWeight(weight), NEW f \in Artifact
    PROVE  Score(weight, f) \in Int
<1> DEFINE S == DOMAIN weight
           F == [g \in S |-> weight[g] * Similarity[g][f]]
           Eq(g) == g = [T \in SUBSET S |-> IF T = {} THEN 0
                            ELSE weight[Picked(T)] * Similarity[Picked(T)][f]
                                     + g[T \ {Picked(T)}]]
           h == CHOOSE g : Eq(g)
<1>1. IsFiniteSet(S) /\ F \in [S -> Int]
  <2>1. \A g \in S : weight[g] \in Int /\ Similarity[g][f] \in Int
    BY BundleAssumption DEF IsWeight
  <2>2. \A g \in S : weight[g] * Similarity[g][f] \in Int
    BY <2>1
  <2> QED BY <2>2, BundleAssumption, FS_Subset DEF IsWeight
<1>2. Score(weight, f) = h[S]
  BY DEF Score, MapThenSumSet, MapThenFoldSet, Picked
<1>3. ASSUME NEW g PROVE Eq(g) <=> Totals(F, S, g)
  <2>1. \A T \in SUBSET S :
            T # {} => F[Picked(T)] = weight[Picked(T)] * Similarity[Picked(T)][f]
    BY DEF Picked
  <2>2. [T \in SUBSET S |-> IF T = {} THEN 0
             ELSE weight[Picked(T)] * Similarity[Picked(T)][f] + g[T \ {Picked(T)}]]
            = [T \in SUBSET S |-> IF T = {} THEN 0 ELSE F[Picked(T)] + g[T \ {Picked(T)}]]
    <3> HIDE DEF F, S
    <3> QED BY <2>1
  <2> HIDE DEF F, S
  <2> QED BY <2>2 DEF Totals
<1> HIDE DEF F, S
<1>4. \E g : Eq(g)
  <2>1. PICK g : Totals(F, S, g)
    BY <1>1, TotalExists
  <2> HIDE DEF Eq
  <2> QED BY <1>3, <2>1
<1> HIDE DEF Eq
<1>5. Eq(h)
  BY <1>4
<1>6. Totals(F, S, h)
  BY <1>3, <1>5
<1> HIDE DEF h
<1>7. \A T \in SUBSET S : h[T] \in Int
  BY <1>1, <1>6, TotalType
<1> QED BY <1>2, <1>7

LEMMA WeightsAre ==
    ASSUME NEW h
    PROVE  /\ (\A f \in DOMAIN h.rating : h.rating[f] \in Int) => IsWeight(PositiveWeight(h))
           /\ IsWeight(MeanWeight(h))
<1>1. ASSUME \A f \in DOMAIN h.rating : h.rating[f] \in Int PROVE IsWeight(PositiveWeight(h))
  <2>1. \A f \in DOMAIN h.rating : Max({h.rating[f] - 6, 0}) \in Int
    <3> SUFFICES ASSUME NEW f \in DOMAIN h.rating PROVE Max({h.rating[f] - 6, 0}) \in Int
      OBVIOUS
    <3>1. h.rating[f] - 6 \in Int
      BY <1>1
    <3> QED BY <3>1, MaxOfTwo
  <2> QED BY <2>1 DEF IsWeight, PositiveWeight
<1> QED BY <1>1 DEF IsWeight, MeanWeight

(* The order of pairs is lexicographic.                                      *)
LEMMA LowerPair ==
    ASSUME NEW a \in Int, NEW b \in Int, NEW c \in Int, NEW d \in Int
    PROVE  Lower(<<a, b>>, <<c, d>>) <=> a < c \/ (a = c /\ b < d)
<1> DEFINE s == <<a, b>>
           t == <<c, d>>
<1>1. DOMAIN s = {1, 2} /\ s[1] = a /\ s[2] = b /\ t[1] = c /\ t[2] = d
  OBVIOUS
<1>2. 1 .. 0 = {} /\ 1 .. 1 = {1}
  OBVIOUS
<1>3. /\ 1 .. 1 - 1 = 1 .. 0 /\ 1 .. 2 - 1 = 1 .. 1
  OBVIOUS
<1> HIDE DEF s, t
<1>4. Lower(s, t) <=> \/ s[1] < t[1] /\ \A j \in 1 .. 1 - 1 : s[j] = t[j]
                      \/ s[2] < t[2] /\ \A j \in 1 .. 2 - 1 : s[j] = t[j]
  BY <1>1 DEF Lower
<1>5. Lower(s, t) <=> s[1] < t[1] \/ (s[2] < t[2] /\ s[1] = t[1])
  BY <1>2, <1>3, <1>4
<1> QED BY <1>1, <1>5 DEF s, t

(* Places by a score, ties broken.                                           *)
Nearer(score, tie) ==
    {p \in Artifact \X Artifact :
        Lower(<<-score[p[1]], tie[p[1]]>>, <<-score[p[2]], tie[p[2]]>>)}

LEMMA NearerOrders ==
    ASSUME NEW score, \A f \in Artifact : score[f] \in Int, NEW tie \in Ties
    PROVE  StrictOrder(Artifact, Nearer(score, tie))
<1> DEFINE R == Nearer(score, tie)
<1>1. /\ \A f \in Artifact : score[f] \in Int /\ tie[f] \in Int
      /\ \A f, g \in Artifact : tie[f] = tie[g] => f = g
  BY RequestAssumption
<1>2. \A f, g \in Artifact : <<f, g>> \in R
          <=> -score[f] < -score[g] \/ (-score[f] = -score[g] /\ tie[f] < tie[g])
  <2> SUFFICES ASSUME NEW f \in Artifact, NEW g \in Artifact
               PROVE  <<f, g>> \in R
                   <=> -score[f] < -score[g] \/ (-score[f] = -score[g] /\ tie[f] < tie[g])
    OBVIOUS
  <2>1. <<f, g>> \in R <=> Lower(<<-score[f], tie[f]>>, <<-score[g], tie[g]>>)
    BY DEF Nearer
  <2>2. -score[f] \in Int /\ -score[g] \in Int /\ tie[f] \in Int /\ tie[g] \in Int
    BY <1>1
  <2> QED BY <2>1, <2>2, LowerPair
<1> HIDE DEF R
<1>3. \A f, g \in Artifact : <<f, g>> \in R
          <=> score[f] > score[g] \/ (score[f] = score[g] /\ tie[f] < tie[g])
  <2>1. \A a, b \in Int : (-a < -b <=> a > b) /\ (-a = -b <=> a = b)
    OBVIOUS
  <2> QED BY <1>1, <1>2, <2>1
<1>4. \A x \in Artifact : <<x, x>> \notin R
  BY <1>1, <1>3
<1>5. \A x, y, z \in Artifact : <<x, y>> \in R /\ <<y, z>> \in R => <<x, z>> \in R
  BY <1>1, <1>3
<1>6. \A x, y \in Artifact : x # y => <<x, y>> \in R \/ <<y, x>> \in R
  BY <1>1, <1>3
<1> QED BY <1>4, <1>5, <1>6 DEF StrictOrder, R

(* Places by the numbers of an injective function.                           *)
Smallest(S, value) == {p \in S \X S : value[p[1]] < value[p[2]]}

LEMMA PlaceByValue ==
    ASSUME NEW S, IsFiniteSet(S), NEW value, \A x \in S : value[x] \in Int,
           \A x, y \in S : value[x] = value[y] => x = y,
           NEW r, r = [x \in S |-> 1 + Cardinality({y \in S : value[y] < value[x]})]
    PROVE  Numbers(S, r)
<1> DEFINE R == Smallest(S, value)
<1>1. \A x, y \in S : <<x, y>> \in R <=> value[x] < value[y]
  BY DEF Smallest
<1> HIDE DEF R
<1>2. StrictOrder(S, R)
  <2>1. \A x \in S : <<x, x>> \notin R
    BY <1>1
  <2>2. \A x, y, z \in S : <<x, y>> \in R /\ <<y, z>> \in R => <<x, z>> \in R
    BY <1>1
  <2>3. \A x, y \in S : x # y => <<x, y>> \in R \/ <<y, x>> \in R
    BY <1>1
  <2> QED BY <2>1, <2>2, <2>3 DEF StrictOrder
<1>3. r = [x \in S |-> 1 + Cardinality(Before(S, R, x))]
  <2>1. \A x \in S : {y \in S : value[y] < value[x]} = Before(S, R, x)
    BY <1>1 DEF Before
  <2> QED BY <2>1
<1> QED BY <1>2, <1>3, PlaceNumbers

(* What is retrieved is numbered from 1, and exclusion takes nothing from it *)
(* if as many more neighbours are requested.                                 *)
LEMMA RetrieveNumbers ==
    ASSUME NEW weight, IsWeight(weight), NEW tie \in Ties, NEW excluded, NEW depth \in Nat,
           NEW requested
    PROVE  LET svd == Retrieve(weight, tie, excluded, requested, depth)
           IN  /\ Numbers(DOMAIN svd, svd) /\ IsFiniteSet(DOMAIN svd)
               /\ IsFiniteSet(excluded) /\ requested = depth + Cardinality(excluded) =>
                      Cardinality(DOMAIN svd)
                          = Min({depth, Cardinality(Artifact \ excluded)})
<1> DEFINE score == [f \in Artifact |-> Score(weight, f)]
           place == Place(Artifact,
                          LAMBDA f, g : Lower(<<-score[f], tie[f]>>, <<-score[g], tie[g]>>))
           found == {f \in Artifact \ excluded : place[f] <= requested}
           rank  == Place(found, LAMBDA f, g : place[f] < place[g])
           kept  == {g \in found : rank[g] <= depth}
           svd   == Retrieve(weight, tie, excluded, requested, depth)
<1>1. svd = [f \in kept |-> rank[f]]
  BY DEF Retrieve
<1>2. Numbers(Artifact, place)
  <2>1. \A f \in Artifact : score[f] \in Int
    BY ScoreIsInt
  <2> HIDE DEF score
  <2>2. place = [f \in Artifact |-> 1 + Cardinality(Before(Artifact, Nearer(score, tie), f))]
    <3>1. \A f \in Artifact :
              {g \in Artifact : Lower(<<-score[g], tie[g]>>, <<-score[f], tie[f]>>)}
                  = Before(Artifact, Nearer(score, tie), f)
      BY DEF Before, Nearer
    <3> QED BY <3>1 DEF Place
  <2> HIDE DEF place
  <2> QED BY <2>1, <2>2, NearerOrders, PlaceNumbers, BundleAssumption
<1> HIDE DEF place
<1>3. IsFiniteSet(found) /\ found \subseteq Artifact
  BY BundleAssumption, FS_Subset
<1>4. Numbers(found, rank)
  <2>1. /\ \A f \in found : place[f] \in Int
        /\ \A f, g \in found : place[f] = place[g] => f = g
    BY <1>2, <1>3 DEF Numbers
  <2>2. rank = [f \in found |-> 1 + Cardinality({g \in found : place[g] < place[f]})]
    BY DEF Place
  <2> HIDE DEF found, rank
  <2> QED BY <1>3, <2>1, <2>2, PlaceByValue
<1> HIDE DEF rank, svd
<1> DEFINE n == Cardinality(found)
<1>5. n \in Nat
  BY <1>3, FS_CardinalityType
<1>6. /\ IsFiniteSet(kept) /\ kept \subseteq found
      /\ Cardinality(kept) = IF depth <= n THEN depth ELSE n
  <2> HIDE DEF found
  <2> QED BY <1>3, <1>4, CountUpTo, FS_Subset
<1>7. DOMAIN svd = kept /\ \A f \in kept : svd[f] = rank[f] /\ rank[f] \in 1 .. n /\ rank[f] <= depth
  BY <1>1, <1>4, <1>6 DEF Numbers
<1>8. Numbers(DOMAIN svd, svd)
  <2>1. \A f \in kept : rank[f] \in 1 .. Cardinality(kept)
    BY <1>5, <1>6, <1>7
  <2>2. \A f, g \in kept : rank[f] = rank[g] => f = g
    BY <1>4, <1>6 DEF Numbers
  <2>3. svd \in [kept -> 1 .. Cardinality(kept)]
    BY <1>1, <2>1
  <2> HIDE DEF kept
  <2> QED BY <1>6, <1>7, <2>2, <2>3, Numbered
<1>9. ASSUME IsFiniteSet(excluded), requested = depth + Cardinality(excluded)
      PROVE  Cardinality(kept) = Min({depth, Cardinality(Artifact \ excluded)})
  <2> DEFINE left == Artifact \ excluded
             m == Cardinality(left)
  <2>1. IsFiniteSet(left) /\ m \in Nat /\ n <= m
    BY BundleAssumption, FS_Subset, FS_CardinalityType
  <2>2. n >= depth \/ n = m
    <3>1. n >= depth \/ found = left
      <4>1. found = {f \in Artifact \ excluded : place[f] <= depth + Cardinality(excluded)}
        BY <1>9
      <4> HIDE DEF found
      <4> QED BY <1>2, <1>9, <4>1, LeftOf, BundleAssumption
    <3> QED BY <3>1
  <2> HIDE DEF n, m, kept, found
  <2>3. Min({depth, m}) = IF depth <= m THEN depth ELSE m
    BY <2>1, MinOfTwo
  <2> QED BY <1>5, <1>6, <2>1, <2>2, <2>3 DEF m
<1> QED BY <1>6, <1>7, <1>8, <1>9 DEF svd

LEMMA PopularNumbers ==
    ASSUME NEW watched
    PROVE  Cardinality(PopularUnwatched(watched))
               = Min({Policy.popularity_depth, Cardinality(DOMAIN Popularity \ watched)})
<1> DEFINE left == DOMAIN Popularity \ watched
           rank == Place(left, LAMBDA f, g : Popularity[f] < Popularity[g])
           k == Policy.popularity_depth
           n == Cardinality(left)
<1>1. IsFiniteSet(left) /\ left \subseteq DOMAIN Popularity
  BY BundleAssumption, FS_Subset
<1>2. /\ \A f \in left : Popularity[f] \in Int
      /\ \A f, g \in left : Popularity[f] = Popularity[g] => f = g
  BY <1>1, BundleAssumption
<1>3. rank = [f \in left |-> 1 + Cardinality({g \in left : Popularity[g] < Popularity[f]})]
  BY DEF Place
<1>4. PopularUnwatched(watched) = {f \in left : rank[f] <= k}
  BY DEF PopularUnwatched
<1>5. k \in Nat /\ n \in Nat
  BY <1>1, PolicyAssumption, FS_CardinalityType
<1> HIDE DEF left, rank, k
<1>6. Numbers(left, rank)
  BY <1>1, <1>2, <1>3, PlaceByValue
<1>7. Cardinality({f \in left : rank[f] <= k}) = IF k <= n THEN k ELSE n
  BY <1>1, <1>5, <1>6, CountUpTo
<1>8. Min({k, n}) = IF k <= n THEN k ELSE n
  BY <1>5, MinOfTwo
<1> QED BY <1>4, <1>7, <1>8 DEF left, k

-----------------------------------------------------------------------------
(* Exclusion shortens neither source, for every history: the inventory of a  *)
(* request is always that of the history it read, in some order of ties.     *)

SourceInv ==
    /\ history = NoHistory \/ IsHistory(history)
    /\ pc \in {"propose", "allocate", "fill"} => IsHistory(read)
    /\ pc \in {"allocate", "fill"} => \E tie \in Ties : inventory = Inventory(read, tie)

LEMMA LoggedHistory ==
    ASSUME NEW h, NEW w \in Watches, h = [watched |-> {}, rating |-> <<>>] \/ IsHistory(h)
    PROVE  IsHistory(Logged(h, w))
<1> DEFINE films == (DOMAIN h.rating \ {w.film}) \cup {f \in {w.film} : w.rating # NoRating}
           l == Logged(h, w)
<1>1. IsHistory(h)
  <2>1. CASE h = [watched |-> {}, rating |-> <<>>]
    <3>1. h.watched = {} /\ h.rating = <<>> /\ DOMAIN <<>> = 1 .. 0 /\ 1 .. 0 = {}
      BY <2>1
    <3> QED BY <3>1, FS_EmptySet DEF IsHistory
  <2> QED BY <2>1
<1>2. /\ l.watched = h.watched \cup {w.film} /\ DOMAIN l.rating = films
      /\ \A f \in films : l.rating[f] = IF f = w.film THEN w.rating ELSE h.rating[f]
  BY DEF Logged
<1>3. IsFiniteSet(l.watched)
  BY <1>1, <1>2, FS_AddElement DEF IsHistory
<1>4. films \subseteq l.watched
  BY <1>1, <1>2 DEF IsHistory
<1>5. \A f \in films : l.rating[f] \in Int
  BY <1>1, <1>2, RequestAssumption DEF IsHistory
<1> QED BY <1>2, <1>3, <1>4, <1>5 DEF IsHistory

THEOREM FeedSources == Spec => []SourceInv
<1>1. Init => SourceInv
  BY RequestAssumption DEF Init, SourceInv
<1>2. SourceInv /\ [Next]_vars => SourceInv'
  <2> SUFFICES ASSUME SourceInv, [Next]_vars PROVE SourceInv'
    OBVIOUS
  <2>1. CASE ImportCommits
    <3>1. PICK w \in Watches :
              history' = Logged(IF history = NoHistory THEN [watched |-> {}, rating |-> <<>>]
                                                       ELSE history, w)
      BY <2>1 DEF ImportCommits
    <3>2. IsHistory(history')
      BY <3>1, LoggedHistory DEF SourceInv
    <3> QED BY <2>1, <3>2 DEF SourceInv, ImportCommits
  <2>2. CASE ReadHistory
    BY <2>2 DEF SourceInv, ReadHistory
  <2>3. CASE Propose
    BY <2>3 DEF SourceInv, Propose
  <2>4. CASE /\ UNCHANGED <<history, read, inventory>>
             /\ pc \in {"allocate", "fill"} /\ pc' \in {"allocate", "fill", "answered"}
    BY <2>4 DEF SourceInv
  <2>5. CASE history' = history /\ pc' \in {"answered", "read_rated", "idle"}
    BY <2>5 DEF SourceInv
  <2>6. CASE UNCHANGED vars
    BY <2>6 DEF SourceInv, vars
  <2>7. ASSUME Next
        PROVE  \/ ImportCommits \/ ReadHistory \/ Propose
               \/ /\ UNCHANGED <<history, read, inventory>>
                  /\ pc \in {"allocate", "fill"} /\ pc' \in {"allocate", "fill", "answered"}
               \/ history' = history /\ pc' \in {"answered", "read_rated", "idle"}
    BY <2>7 DEF Next, FeedStep, UserNotFound, ReadWatched, NoWatched, AnswerList, NextRequest,
           AllocateTopPicks, PassOver, StartRow, Scan, NextPass, AddRow, DropRow, AnswerFeed
  <2> QED BY <2>1, <2>2, <2>3, <2>4, <2>5, <2>6, <2>7
<1> QED BY <1>1, <1>2, PTL DEF Spec

(* Each source gives its depth, or every unwatched film it knows.            *)
THEOREM FeedSourcesAreFull == Spec => []SourcesAreFull
<1>1. SourceInv => SourcesAreFull
  <2> SUFFICES ASSUME SourceInv, pc = "allocate"
               PROVE  /\ \/ /\ DOMAIN inventory.svd = {}
                            /\ ~ProfileAvailable(PositiveWeight(read))
                         \/ Cardinality(DOMAIN inventory.svd)
                                = Min({Policy.svd_depth, Cardinality(Artifact \ read.watched)})
                      /\ Cardinality(inventory.popular)
                             = Min({Policy.popularity_depth,
                                    Cardinality(DOMAIN Popularity \ read.watched)})
    BY DEF SourcesAreFull
  <2> DEFINE weight == PositiveWeight(read)
             none == [f \in {} |-> 0]
  <2>1. IsHistory(read) /\ \E tie \in Ties : inventory = Inventory(read, tie)
    BY DEF SourceInv
  <2>2. PICK tie \in Ties : inventory = Inventory(read, tie)
    BY <2>1
  <2>3. IsWeight(weight) /\ IsFiniteSet(read.watched)
    BY <2>1, WeightsAre DEF IsHistory
  <2>4. /\ inventory.svd = IF ProfileAvailable(weight)
                           THEN RetrieveExact(weight, tie, read.watched, Policy.svd_depth)
                           ELSE none
        /\ inventory.popular = PopularUnwatched(read.watched)
    BY <2>2 DEF Inventory
  <2> HIDE DEF weight
  <2>5. CASE ProfileAvailable(weight)
    <3> DEFINE k == Policy.svd_depth
               r == k + Cardinality(read.watched)
    <3>1. inventory.svd = Retrieve(weight, tie, read.watched, r, k)
      BY <2>4, <2>5 DEF RetrieveExact
    <3>2. k \in Nat /\ r = k + Cardinality(read.watched)
      BY PolicyAssumption
    <3> HIDE DEF k, r
    <3>3. Cardinality(DOMAIN inventory.svd) = Min({k, Cardinality(Artifact \ read.watched)})
      BY <2>3, <3>1, <3>2, RetrieveNumbers
    <3> QED BY <2>4, <3>3, PopularNumbers DEF k
  <2>6. CASE ~ProfileAvailable(weight)
    <3>1. DOMAIN inventory.svd = {}
      BY <2>4, <2>6
    <3> QED BY <2>4, <2>6, <3>1, PopularNumbers DEF weight
  <2> QED BY <2>5, <2>6
<1> QED BY <1>1, FeedSources, PTL

-----------------------------------------------------------------------------
(* A builder proposes at most one category, under a key of its own: of two   *)
(* preferences one is stronger, of two anchors one is better.                *)

AtMostOne(S) == \A x, y \in S : x = y

Keyed(S, key) == \A p \in S : p.key = key /\ p.maximum \in Nat

Single(S, key) == AtMostOne(S) /\ Keyed(S, key)

LEMMA LowerThree ==
    ASSUME NEW a, NEW b, NEW c, NEW d, NEW e, NEW f,
           a < d \/ (a = d /\ b < e) \/ (a = d /\ b = e /\ c < f)
    PROVE  Lower(<<a, b, c>>, <<d, e, f>>)
<1> DEFINE s == <<a, b, c>>
           t == <<d, e, f>>
<1>1. /\ DOMAIN s = {1, 2, 3}
      /\ s[1] = a /\ s[2] = b /\ s[3] = c /\ t[1] = d /\ t[2] = e /\ t[3] = f
  OBVIOUS
<1>2. /\ \A j \in 1 .. 1 - 1 : FALSE
      /\ \A j \in 1 .. 2 - 1 : j = 1
      /\ \A j \in 1 .. 3 - 1 : j = 1 \/ j = 2
  OBVIOUS
<1> HIDE DEF s, t
<1>3. CASE a < d
  <2>1. 1 \in DOMAIN s /\ s[1] < t[1] /\ \A j \in 1 .. 1 - 1 : s[j] = t[j]
    BY <1>1, <1>2, <1>3
  <2> QED BY <2>1 DEF Lower, s, t
<1>4. CASE a = d /\ b < e
  <2>1. 2 \in DOMAIN s /\ s[2] < t[2] /\ \A j \in 1 .. 2 - 1 : s[j] = t[j]
    BY <1>1, <1>2, <1>4
  <2> QED BY <2>1 DEF Lower, s, t
<1>5. CASE a = d /\ b = e /\ c < f
  <2>1. 3 \in DOMAIN s /\ s[3] < t[3] /\ \A j \in 1 .. 3 - 1 : s[j] = t[j]
    BY <1>1, <1>2, <1>5
  <2> QED BY <2>1 DEF Lower, s, t
<1> QED BY <1>3, <1>4, <1>5

LEMMA EntitiesAreInts ==
    ASSUME NEW f \in DOMAIN Catalog, NEW family \in Families
    PROVE  Entities(f, family) \subseteq Int
<1>1. Decade(f) \subseteq Int
  <2>1. \A y \in Int : 10 * (y \div 10) \in Int
    OBVIOUS
  <2> QED BY <2>1, BundleAssumption DEF Decade
<1> QED BY <1>1, BundleAssumption DEF Entities, Families

LEMMA OneStronger ==
    ASSUME NEW h, IsHistory(h), NEW family \in Families,
           NEW p \in Qualifying(h, family), NEW q \in Qualifying(h, family), p # q
    PROVE  Stronger(p, q) \/ Stronger(q, p)
<1>1. ASSUME NEW x \in Qualifying(h, family)
      PROVE  /\ x = Preference(h, family, x.entity)
             /\ x.support \in Int /\ x.total \in Int /\ x.entity \in Int
  <2>1. PICK e \in UNION {Entities(f, family) : f \in Rated(h)} : x = Preference(h, family, e)
    BY <1>1 DEF Qualifying
  <2> DEFINE films == {f \in Rated(h) : e \in Entities(f, family)}
  <2>2. x.entity = e /\ x.support = Cardinality(films) /\ x.total = Sum(h.rating, films)
    BY <2>1 DEF Preference
  <2>3. e \in Int
    BY <2>1, RatedFinite, EntitiesAreInts
  <2>4. IsFiniteSet(films) /\ films \subseteq DOMAIN h.rating
    BY RatedFinite, FS_Subset DEF Rated
  <2>5. Cardinality(films) \in Int
    BY <2>4, FS_CardinalityType
  <2>6. \A f \in films : h.rating[f] \in Int
    BY <2>4 DEF IsHistory
  <2> HIDE DEF films
  <2>7. Sum(h.rating, films) \in Int
    BY <2>4, <2>6, SumIsInt
  <2> QED BY <2>1, <2>2, <2>3, <2>5, <2>7
<1>2. p.entity # q.entity
  BY <1>1
<1> DEFINE a == p.support  b == p.total  c == p.entity
           d == q.support  e == q.total  f == q.entity
<1>3. a \in Int /\ b \in Int /\ c \in Int /\ d \in Int /\ e \in Int /\ f \in Int /\ c # f
  BY <1>1, <1>2
<1>4. /\ Stronger(p, q) <=> \/ Below(q.affinity, p.affinity)
                            \/ /\ ~Below(p.affinity, q.affinity)
                               /\ Lower(<<-a, -b, c>>, <<-d, -e, f>>)
      /\ Stronger(q, p) <=> \/ Below(p.affinity, q.affinity)
                            \/ /\ ~Below(q.affinity, p.affinity)
                               /\ Lower(<<-d, -e, f>>, <<-a, -b, c>>)
  BY DEF Stronger
<1> HIDE DEF a, b, c, d, e, f
<1>5. \/ -a < -d \/ (-a = -d /\ -b < -e) \/ (-a = -d /\ -b = -e /\ c < f)
      \/ -d < -a \/ (-d = -a /\ -e < -b) \/ (-d = -a /\ -e = -b /\ f < c)
  BY <1>3
<1>6. Lower(<<-a, -b, c>>, <<-d, -e, f>>) \/ Lower(<<-d, -e, f>>, <<-a, -b, c>>)
  BY <1>5, LowerThree
<1> QED BY <1>4, <1>6

LEMMA OneStrongest ==
    ASSUME NEW h, IsHistory(h), NEW family \in Families
    PROVE  AtMostOne(Strongest(1, Qualifying(h, family)))
<1> DEFINE P == Qualifying(h, family)
<1>1. ASSUME NEW p \in Strongest(1, P), NEW q \in P PROVE ~Stronger(q, p)
  <2> DEFINE T == {r \in P : Stronger(r, p)}
  <2>1. Cardinality(T) < 1
    BY <1>1 DEF Strongest
  <2>2. IsFiniteSet(T)
    BY QualifyingFinite, FS_Subset
  <2>3. T = {}
    <3> HIDE DEF T
    <3> QED BY <2>1, <2>2, FS_CardinalityType, FS_EmptySet
  <2> QED BY <1>1, <2>3
<1>2. Strongest(1, P) \subseteq P
  BY DEF Strongest
<1> HIDE DEF P
<1>3. \A p, q \in P : p # q => Stronger(p, q) \/ Stronger(q, p)
  BY OneStronger DEF P
<1>4. AtMostOne(Strongest(1, P))
  BY <1>1, <1>2, <1>3 DEF AtMostOne
<1> QED BY <1>4 DEF P

LEMMA JaccardFraction ==
    ASSUME NEW S, NEW T, IsFiniteSet(S), IsFiniteSet(T)
    PROVE  IsFraction(Jaccard(S, T))
<1>1. Cardinality(S \cap T) \in Nat /\ Cardinality(S \cup T) \in Nat
  BY FS_Intersection, FS_Union, FS_CardinalityType
<1>2. Max({Cardinality(S \cup T), 1}) \in Nat \ {0}
  <2>1. Max({Cardinality(S \cup T), 1})
            = IF Cardinality(S \cup T) >= 1 THEN Cardinality(S \cup T) ELSE 1
    BY <1>1, MaxOfTwo
  <2> QED BY <1>1, <2>1
<1> QED BY <1>1, <1>2 DEF Jaccard, Fraction, IsFraction

LEMMA OneAnchor ==
    ASSUME NEW ranked, DOMAIN ranked.rank \subseteq Artifact, NEW h
    PROVE  AtMostOne(Anchor(ranked, h))
<1> DEFINE liked == RatedFrom(h, Rated(h), Policy.anchor_fallback_rating)
           high  == RatedFrom(h, liked, Policy.anchor_rating)
           anchors == IF high # {} THEN high ELSE liked
           best == {a \in anchors : \A b \in anchors : h.rating[b] <= h.rating[a]}
           near == [a \in best |-> Neighborhood(ranked, a)]
           Shown(a) == {f \in DOMAIN near[a] : near[a][f] <= Policy.anchor_maximum}
           total == [a \in best |-> Sum(Similarity[a], Shown(a))]
           picks == {f \in DOMAIN ranked.rank : ranked.rank[f] <= Policy.top_picks_maximum}
           Of(a) == Jaccard(Shown(a), picks)
           Better(a, b) == \/ total[a] > total[b]
                           \/ total[a] = total[b] /\ Below(Of(a), Of(b))
                           \/ total[a] = total[b] /\ ~Below(Of(b), Of(a)) /\ a < b
<1>1. Anchor(ranked, h) = {a \in best : \A b \in best \ {a} : Better(a, b)}
  BY DEF Anchor
<1>2. best \subseteq Artifact
  <2>1. Rated(h) \subseteq Artifact
    BY BundleAssumption DEF Rated
  <2> QED BY <2>1 DEF RatedFrom
<1>3. ASSUME NEW a \in best
      PROVE  IsFiniteSet(Shown(a)) /\ Shown(a) \subseteq Artifact
  <2>1. near[a] = Neighborhood(ranked, a)
    BY <1>3
  <2>2. DOMAIN near[a] \subseteq DOMAIN ranked.rank
    BY <2>1 DEF Neighborhood
  <2> HIDE DEF near
  <2>3. Shown(a) \subseteq Artifact
    BY <2>2
  <2> QED BY <2>3, BundleAssumption, FS_Subset
<1>4. IsFiniteSet(picks)
  <2>1. picks \subseteq Artifact
    OBVIOUS
  <2> QED BY <2>1, BundleAssumption, FS_Subset
<1>5. ASSUME NEW a \in best PROVE total[a] \in Int
  <2>1. total[a] = Sum(Similarity[a], Shown(a))
    BY <1>5
  <2>2. \A f \in Shown(a) : Similarity[a][f] \in Int
    BY <1>2, <1>3, <1>5, BundleAssumption
  <2>3. IsFiniteSet(Shown(a))
    BY <1>3, <1>5
  <2> HIDE DEF Shown, total
  <2> QED BY <2>1, <2>2, <2>3, SumIsInt
<1>6. ASSUME NEW a \in best PROVE IsFraction(Of(a))
  BY <1>3, <1>4, <1>6, JaccardFraction
<1> HIDE DEF best, total, Of
<1>7. ASSUME NEW a \in best, NEW b \in best, a # b, Better(a, b), Better(b, a) PROVE FALSE
  <2>1. total[a] \in Int /\ total[b] \in Int /\ a \in Int /\ b \in Int
    BY <1>2, <1>5, <1>7, BundleAssumption
  <2>2. ~(Below(Of(a), Of(b)) /\ Below(Of(b), Of(a)))
    BY <1>6, <1>7, BelowTransitive
  <2>3. total[a] = total[b]
    BY <1>7, <2>1
  <2>4. ~(a < b /\ b < a) /\ ~(total[a] > total[b]) /\ ~(total[b] > total[a])
    BY <2>1, <2>3
  <2> QED BY <1>7, <2>2, <2>4
<1> HIDE DEF Better
<1>8. \A a, b \in {c \in best : \A d \in best \ {c} : Better(c, d)} : a = b
  BY <1>7
<1> QED BY <1>1, <1>8 DEF AtMostOne

LEMMA ViableSingle ==
    ASSUME NEW key, NEW role, NEW strong, NEW support, NEW order, NEW minimum,
           NEW most \in Nat, NEW cap
    PROVE  /\ Single(Viable(Proposal(key, role, strong, support, order, minimum)), key)
           /\ Single(Viable([Proposal(key, role, strong, support, order, minimum)
                             EXCEPT !.maximum = most]), key)
           /\ Single(Viable(WithHeadCap(Proposal(key, role, strong, support, order, minimum),
                                        cap)), key)
<1> DEFINE p == Proposal(key, role, strong, support, order, minimum)
           q == [p EXCEPT !.maximum = most]
           c == WithHeadCap(p, cap)
<1>1. /\ p.key = key /\ q.key = key /\ c.key = key
      /\ p.maximum = Policy.default_maximum /\ q.maximum = most
      /\ c.maximum = Policy.default_maximum
  BY DEF Proposal, WithHeadCap
<1>2. Policy.default_maximum \in Nat
  BY PolicyAssumption
<1> HIDE DEF p, q, c
<1>3. \A x : Viable(x) \subseteq {x}
  BY DEF Viable
<1>4. Single(Viable(p), key) /\ Single(Viable(q), key) /\ Single(Viable(c), key)
  BY <1>1, <1>2, <1>3 DEF Single, AtMostOne, Keyed
<1> QED BY <1>4 DEF p, q, c

LEMMA NothingSingle == ASSUME NEW key PROVE Single({}, key)
BY DEF Single, AtMostOne, Keyed

(* Of at most one element at most one is proposed.                           *)
LEMMA UnionSingle ==
    ASSUME NEW S, AtMostOne(S), NEW F, NEW key, \A x \in S : Single(F[x], key)
    PROVE  Single(UNION {F[x] : x \in S}, key)
<1>1. \A p, q \in UNION {F[x] : x \in S} : \E x \in S : p \in F[x] /\ q \in F[x]
  BY DEF AtMostOne
<1>2. \A x \in S : \A p, q \in F[x] : p = q /\ p.key = key /\ p.maximum \in Nat
  BY DEF Single, AtMostOne, Keyed
<1> QED BY <1>1, <1>2 DEF Single, AtMostOne, Keyed

LEMMA EntitySingle ==
    ASSUME NEW ranked, NEW h, IsHistory(h), NEW key, NEW family \in Families, NEW minimum
    PROVE  Single(SingleEntity(ranked, h, key, family, minimum), key)
<1> DEFINE Of(p) == Viable(Proposal(key, "personalized", StrongEvidence(p), p.support,
                        ByRrf(ranked, {f \in DOMAIN ranked.rank \cap DOMAIN Catalog :
                                           p.entity \in Entities(f, family)}), minimum))
           S == Strongest(1, Qualifying(h, family))
           F == [p \in S |-> Of(p)]
<1>1. AtMostOne(S)
  BY OneStrongest
<1>2. SingleEntity(ranked, h, key, family, minimum) = UNION {Of(p) : p \in S}
  BY DEF SingleEntity
<1>3. \A p : Single(Of(p), key)
  <2> TAKE p
  <2>1. 0 \in Nat
    OBVIOUS
  <2> QED BY <2>1, ViableSingle
<1> HIDE DEF Of, S
<1>4. \A p \in S : Single(F[p], key)
  BY <1>3
<1>5. UNION {F[p] : p \in S} = UNION {Of(p) : p \in S}
  OBVIOUS
<1> HIDE DEF F
<1> QED BY <1>1, <1>2, <1>4, <1>5, UnionSingle

LEMMA LikedSingle ==
    ASSUME NEW ranked, DOMAIN ranked.rank \subseteq Artifact, NEW h
    PROVE  Single(BecauseYouLiked(ranked, h), "because_you_liked")
<1> DEFINE key == "because_you_liked"
           Of(a) == Viable([Proposal("because_you_liked", "personalized",
                                     h.rating[a] >= Policy.anchor_rating, 1,
                                     Neighborhood(ranked, a), Policy.anchor_minimum)
                            EXCEPT !.maximum = Policy.anchor_maximum])
           S == Anchor(ranked, h)
           F == [a \in S |-> Of(a)]
<1>1. AtMostOne(S)
  BY OneAnchor
<1>2. \/ BecauseYouLiked(ranked, h) = {}
      \/ BecauseYouLiked(ranked, h) = UNION {Of(a) : a \in S}
  BY DEF BecauseYouLiked
<1>3. \A a : Single(Of(a), key)
  BY PolicyAssumption, ViableSingle
<1> HIDE DEF Of, S, key
<1>4. \A a \in S : Single(F[a], key)
  BY <1>3
<1>5. UNION {F[a] : a \in S} = UNION {Of(a) : a \in S}
  OBVIOUS
<1> HIDE DEF F
<1>6. Single(UNION {F[a] : a \in S}, key)
  BY <1>1, <1>4, UnionSingle
<1>7. Single(BecauseYouLiked(ranked, h), key)
  BY <1>2, <1>5, <1>6, NothingSingle
<1> QED BY <1>7 DEF key

OneKey(S) == \A p, q \in S : p.key = q.key => p = q

LEMMA KeysDiffer ==
    ASSUME NEW ranked, DOMAIN ranked.rank \subseteq Artifact, NEW h, IsHistory(h)
    PROVE  OneKey(Proposals(ranked, h)) /\ \A p \in Proposals(ranked, h) : p.maximum \in Nat
<1> DEFINE genre  == SingleEntity(ranked, h, "favorite_genre", "genre", Policy.genre_minimum)
           decade == SingleEntity(ranked, h, "favorite_decade", "decade", Policy.decade_minimum)
<1>1. Single(TopPicks(ranked), "top_picks")
  BY PolicyAssumption, ViableSingle DEF TopPicks
<1>2. 0 \in Nat
  OBVIOUS
<1>3. Single(HiddenGems(ranked, h), "hidden_gems")
  BY <1>2, ViableSingle, NothingSingle DEF HiddenGems
<1>4. Single(BrazilianCinema(ranked), "brazilian_cinema")
  BY <1>2, ViableSingle DEF BrazilianCinema
<1>5. Single(DirectorsYouLove(ranked, h), "directors_you_love")
  <2>1. \A strong, support, order :
            Single(Viable(Proposal("directors_you_love", "personalized", strong, support,
                                   order, Policy.directors_minimum)), "directors_you_love")
    BY <1>2, ViableSingle
  <2> QED BY <2>1, NothingSingle, Zenon DEF DirectorsYouLove
<1>6. Single(genre, "favorite_genre") /\ Single(decade, "favorite_decade")
  BY EntitySingle DEF Families
<1>7. Single(WorldCinema(ranked, h), "world_cinema")
  <2>1. \A strong, support, order :
            Single(Viable(WithHeadCap(
                       Proposal("world_cinema", "cultural", strong, support, order,
                                Policy.world_minimum), Policy.world_head_cap)), "world_cinema")
    BY <1>2, ViableSingle
  <2> QED BY <2>1 DEF WorldCinema
<1>8. Single(OutsideUsual(ranked, h), "outside_usual")
  <2>1. \A strong, support, order :
            LET plain == Proposal("outside_usual", "serendipity", strong, support, order,
                                  Policy.outside_minimum)
            IN  /\ Single(Viable(plain), "outside_usual")
                /\ Single(Viable(WithHeadCap(plain, Policy.outside_lower_head_cap)),
                          "outside_usual")
    BY <1>2, ViableSingle
  <2> QED BY <2>1, NothingSingle DEF OutsideUsual
<1>9. Single(ClassicCinema(ranked, h), "classic_cinema")
  BY <1>2, ViableSingle DEF ClassicCinema
<1>10. Single(BecauseYouLiked(ranked, h), "because_you_liked")
  BY LikedSingle
<1> HIDE DEF genre, decade
<1> DEFINE Of == [key \in {"top_picks", "hidden_gems", "brazilian_cinema",
                           "directors_you_love", "favorite_genre", "favorite_decade",
                           "world_cinema", "outside_usual", "classic_cinema",
                           "because_you_liked"} |->
                     CASE key = "top_picks" -> TopPicks(ranked)
                       [] key = "hidden_gems" -> HiddenGems(ranked, h)
                       [] key = "brazilian_cinema" -> BrazilianCinema(ranked)
                       [] key = "directors_you_love" -> DirectorsYouLove(ranked, h)
                       [] key = "favorite_genre" -> genre
                       [] key = "favorite_decade" -> decade
                       [] key = "world_cinema" -> WorldCinema(ranked, h)
                       [] key = "outside_usual" -> OutsideUsual(ranked, h)
                       [] key = "classic_cinema" -> ClassicCinema(ranked, h)
                       [] key = "because_you_liked" -> BecauseYouLiked(ranked, h)]
<1>11. \A key \in DOMAIN Of : Single(Of[key], key)
  BY <1>1, <1>3, <1>4, <1>5, <1>6, <1>7, <1>8, <1>9, <1>10
<1>12. \A p \in Proposals(ranked, h) : \E key \in DOMAIN Of : p \in Of[key]
  BY DEF Proposals, genre, decade
<1> HIDE DEF Of
<1>13. \A p \in Proposals(ranked, h) : p.key \in DOMAIN Of /\ p \in Of[p.key] /\ p.maximum \in Nat
  BY <1>11, <1>12 DEF Single, Keyed
<1>14. \A p, q \in Proposals(ranked, h) : p.key = q.key => p = q
  BY <1>11, <1>13 DEF Single, AtMostOne
<1> QED BY <1>13, <1>14 DEF OneKey

-----------------------------------------------------------------------------
(* Sequences without repetition, and what they keep.                         *)

NoneTwice(s) == \A i, j \in DOMAIN s : s[i] = s[j] => i = j

LEMMA ListOf ==
    ASSUME NEW n \in Nat, NEW s, s = [i \in 1 .. n |-> s[i]]
    PROVE  IsSeq(s) /\ Len(s) = n /\ DOMAIN s = 1 .. n
<1>1. DOMAIN s = 1 .. n /\ s \in [1 .. n -> Elements(s)]
  BY DEF Elements
<1>2. s \in Seq(Elements(s))
  BY <1>1
<1> QED BY <1>1, <1>2 DEF IsSeq

LEMMA NoneTwiceCount ==
    ASSUME NEW s, IsSeq(s), NoneTwice(s)
    PROVE  Cardinality(Elements(s)) = Len(s)
<1> DEFINE n == Len(s)
           f == [i \in 1 .. n |-> s[i]]
<1>1. n \in Nat /\ DOMAIN s = 1 .. n
  BY DEF IsSeq
<1>2. f \in Injection(1 .. n, Elements(s))
  BY <1>1 DEF Injection, IsInjective, NoneTwice, Elements
<1>3. f \in Surjection(1 .. n, Elements(s))
  BY <1>1 DEF Surjection, Elements
<1>4. IsFiniteSet(1 .. n) /\ Cardinality(1 .. n) = n
  <2>1. n \in Nat
    BY <1>1
  <2> HIDE DEF n
  <2> QED BY <2>1, FS_Interval
<1>5. IsFiniteSet(Elements(s))
  BY <1>3, <1>4, FS_Surjection
<1> QED BY <1>2, <1>3, <1>4, <1>5, FS_Injection

LEMMA SubsequenceIs ==
    ASSUME NEW s, IsSeq(s), NEW P, P \subseteq DOMAIN s, NEW out, out = Subsequence(s, P)
    PROVE  /\ IsSeq(out) /\ Len(out) = Cardinality(P) /\ Len(out) \in Nat
           /\ Len(out) <= Len(s)
           /\ \A n \in DOMAIN out : \E i \in P : out[n] = s[i]
           /\ NoneTwice(s) => NoneTwice(out)
<1> DEFINE place == Place(P, LAMBDA i, j : i < j)
           value == [i \in P |-> i]
           m == Cardinality(P)
           at == [n \in 1 .. m |-> CHOOSE i \in P : place[i] = n]
<1>1. Len(s) \in Nat /\ DOMAIN s = 1 .. Len(s)
  BY DEF IsSeq
<1>2. IsFiniteSet(P) /\ m \in Nat /\ m <= Len(s)
  <2>1. IsFiniteSet(1 .. Len(s)) /\ Cardinality(1 .. Len(s)) = Len(s)
    BY <1>1, FS_Interval
  <2> QED BY <1>1, <2>1, FS_Subset, FS_CardinalityType
<1>3. Numbers(P, place)
  <2>1. \A i \in P : value[i] \in Int
    BY <1>1
  <2>2. \A i, j \in P : value[i] = value[j] => i = j
    OBVIOUS
  <2>3. place = [i \in P |-> 1 + Cardinality({j \in P : value[j] < value[i]})]
    <3>1. \A i \in P : {j \in P : j < i} = {j \in P : value[j] < value[i]}
      OBVIOUS
    <3> QED BY <3>1 DEF Place
  <2> HIDE DEF place, value
  <2> QED BY <1>2, <2>1, <2>2, <2>3, PlaceByValue
<1>4. out = [n \in 1 .. m |-> s[CHOOSE i \in P : place[i] = n]]
  BY DEF Subsequence
<1> HIDE DEF place, m
<1>5. ASSUME NEW n \in 1 .. m PROVE at[n] \in P /\ place[at[n]] = n /\ out[n] = s[at[n]]
  <2>1. \E i \in P : place[i] = n
    BY <1>3 DEF Numbers, m
  <2> QED BY <1>4, <2>1
<1> HIDE DEF at
<1>6. IsSeq(out) /\ Len(out) = m /\ DOMAIN out = 1 .. m
  BY <1>2, <1>4, ListOf
<1>7. ASSUME NoneTwice(s) PROVE NoneTwice(out)
  <2> SUFFICES ASSUME NEW n \in 1 .. m, NEW k \in 1 .. m, out[n] = out[k] PROVE n = k
    BY <1>6 DEF NoneTwice
  <2>1. at[n] = at[k]
    BY <1>5, <1>7 DEF NoneTwice
  <2> QED BY <1>5, <2>1
<1> QED BY <1>2, <1>5, <1>6, <1>7 DEF m

LEMMA AmongIs ==
    ASSUME NEW films, IsSeq(films), NoneTwice(films), NEW known,
           NEW shown, shown = Among(films, known)
    PROVE  /\ IsSeq(shown) /\ NoneTwice(shown)
           /\ Len(shown) \in Nat /\ Len(shown) <= Len(films)
           /\ Elements(shown) \subseteq Elements(films) \cap known
<1> DEFINE P == {i \in DOMAIN films : films[i] \in known}
<1>1. P \subseteq DOMAIN films /\ shown = Subsequence(films, P)
  BY DEF Among
<1>2. \A i \in P : films[i] \in Elements(films) \cap known
  BY DEF Elements
<1> HIDE DEF P
<1>3. /\ IsSeq(shown) /\ Len(shown) \in Nat /\ Len(shown) <= Len(films) /\ NoneTwice(shown)
      /\ \A n \in DOMAIN shown : \E i \in P : shown[n] = films[i]
  BY <1>1, SubsequenceIs
<1> QED BY <1>2, <1>3 DEF Elements

(* A numbered set listed by its numbers.                                     *)
Listing(S, r, m) == [i \in 1 .. m |-> CHOOSE x \in {y \in S : r[y] <= m} : r[x] = i]

LEMMA ListedIs ==
    ASSUME NEW S, IsFiniteSet(S), NEW r, Numbers(S, r), NEW m \in Nat, m <= Cardinality(S),
           NEW s, s = Listing(S, r, m)
    PROVE  IsSeq(s) /\ NoneTwice(s) /\ Len(s) = m /\ Elements(s) \subseteq S
<1> DEFINE T == {x \in S : r[x] <= m}
<1>1. Cardinality(S) \in Nat
  BY FS_CardinalityType
<1>2. ASSUME NEW i \in 1 .. m PROVE s[i] \in T /\ r[s[i]] = i
  <2>0. s[i] = CHOOSE x \in T : r[x] = i
    BY DEF Listing
  <2>1. i \in 1 .. Cardinality(S)
    BY <1>1
  <2>2. PICK x \in S : r[x] = i
    BY <2>1 DEF Numbers
  <2>3. x \in T
    BY <2>2
  <2> HIDE DEF T
  <2> QED BY <2>0, <2>2, <2>3
<1>3. DOMAIN s = 1 .. m /\ IsSeq(s) /\ Len(s) = m
  <2>1. s = [i \in 1 .. m |-> s[i]]
    BY DEF Listing
  <2> QED BY <2>1, ListOf
<1>4. NoneTwice(s)
  BY <1>2, <1>3 DEF NoneTwice
<1>5. Elements(s) \subseteq S
  BY <1>2, <1>3 DEF Elements
<1> QED BY <1>3, <1>4, <1>5

-----------------------------------------------------------------------------
(* Every row shows what it may, and the response what is worth showing.      *)

Offered(p) ==
    /\ DOMAIN p.order \subseteq DOMAIN inventory.rank
    /\ p.minimum \in Nat /\ p.maximum \in Nat
    /\ p.key = "top_picks" => p.order = inventory.rank

Shows(p, films) ==
    /\ IsSeq(films) /\ NoneTwice(films)
    /\ Elements(films) \subseteq DOMAIN inventory.rank
    /\ Len(films) <= p.maximum

(* The categories of rows, of the draft and of the proposals left differ.    *)
KeysApart ==
    /\ OneKey(remaining)
    /\ \A i, j \in DOMAIN rows : rows[i].proposal.key = rows[j].proposal.key => i = j
    /\ \A p \in remaining : \A i \in DOMAIN rows : rows[i].proposal.key # p.key
    /\ pc = "fill" =>
           /\ \A p \in remaining : p.key # draft.proposal.key
           /\ \A i \in DOMAIN rows : rows[i].proposal.key # draft.proposal.key

Allocating ==
    /\ \A p \in remaining : Offered(p)
    /\ \A i \in DOMAIN rows : /\ Offered(rows[i].proposal)
                              /\ Shows(rows[i].proposal, rows[i].films)
    /\ pc = "fill" => Offered(draft.proposal) /\ Shows(draft.proposal, draft.films)
    /\ KeysApart

ShelfInv ==
    /\ pc \in {"idle", "propose", "read_rated"} => rows = <<>>
    /\ pc # "answered" => answer = <<>>
    /\ pc = "read_rated" => read = [watched |-> read.watched, rating |-> <<>>]
    /\ pc \in {"allocate", "fill"} => Allocating
    /\ ShelvesWorthShowing

LEMMA EmptyDomain == DOMAIN <<>> = {}
<1>1. DOMAIN <<>> = 1 .. 0 /\ 1 .. 0 = {}
  OBVIOUS
<1> QED BY <1>1

LEMMA ProposeShelves == ASSUME IInv, SourceInv, ShelfInv, Propose PROVE ShelfInv'
<1>1. PICK tie \in Ties : /\ inventory' = Inventory(read, tie)
                          /\ remaining' = Proposals(inventory', read)
  BY DEF Propose
<1>2. /\ rows' = rows /\ rows = <<>> /\ pc' = "allocate" /\ answer' = answer /\ read' = read
      /\ answer = <<>>
  BY DEF Propose, ShelfInv
<1>3. IsHistory(read)
  BY DEF SourceInv, Propose
<1>4. /\ inventory'.positive \subseteq DOMAIN inventory'.rank
      /\ DOMAIN inventory'.rank \subseteq Artifact
  <2>1. /\ IsSource(inventory'.svd, inventory'.popular)
        /\ DOMAIN inventory'.rank = Candidates(inventory'.svd, inventory'.popular)
        /\ inventory'.positive \subseteq DOMAIN inventory'.rank
    BY <1>1, InventoryRanked
  <2> QED BY <2>1, BundleAssumption DEF IsSource, Candidates
<1>5. \A p \in remaining' : Sound(p, inventory')
  BY <1>1, <1>4, BuildersSound
<1>6. OneKey(remaining') /\ \A p \in remaining' : p.maximum \in Nat
  BY <1>1, <1>3, <1>4, KeysDiffer
<1>7. \A p \in remaining' : Offered(p)'
  BY <1>5, <1>6 DEF Sound, Offered
<1>8. DOMAIN rows' = {}
  BY <1>2, EmptyDomain
<1>9. Allocating'
  BY <1>2, <1>6, <1>7, <1>8 DEF Allocating, KeysApart
<1> QED BY <1>2, <1>9 DEF ShelfInv, ShelvesWorthShowing

LEMMA TopSetIs ==
    ASSUME NEW h, NEW tie, inventory = Inventory(h, tie), NEW p, Offered(p), p.key = "top_picks",
           NEW films, films = [i \in 1 .. Cardinality(TopSet(p)) |->
                                  CHOOSE f \in TopSet(p) : p.order[f] = i]
    PROVE  Shows(p, films)
<1> DEFINE S == DOMAIN p.order
           r == p.order
           n == Cardinality(S)
           k == p.maximum
           m == IF k <= n THEN k ELSE n
           T == {f \in S : r[f] <= m}
<1>1. /\ r = inventory.rank /\ k \in Nat
      /\ IsSource(inventory.svd, inventory.popular)
      /\ r = RankByRrf(inventory.svd, inventory.popular)
      /\ S = Candidates(inventory.svd, inventory.popular)
  BY InventoryRanked DEF Offered
<1>2. /\ r \in [S -> 1 .. n]
      /\ \A f, g \in S : RrfAhead(inventory.svd, inventory.popular, f, g) <=> r[f] < r[g]
      /\ \A i \in 1 .. n : \E f \in S : r[f] = i
  BY <1>1, RanksFused
<1>3. IsFiniteSet(S) /\ n \in Nat
  BY <1>1, FusedOrders, FS_CardinalityType
<1>4. Numbers(S, r)
  <2> SUFFICES ASSUME NEW f \in S, NEW g \in S, r[f] = r[g], f # g PROVE FALSE
    BY <1>2 DEF Numbers
  <2>1. StrictOrder(S, Fused(inventory.svd, inventory.popular))
    BY <1>1, FusedOrders
  <2>2. \/ RrfAhead(inventory.svd, inventory.popular, f, g)
        \/ RrfAhead(inventory.svd, inventory.popular, g, f)
    BY <2>1 DEF StrictOrder, Fused
  <2>3. r[f] < r[g] \/ r[g] < r[f]
    BY <1>2, <2>2
  <2>4. r[f] \in Int /\ r[g] \in Int
    BY <1>2
  <2> HIDE DEF r, S
  <2> QED BY <2>3, <2>4
<1>5. m \in Nat /\ m <= n /\ m <= k
  BY <1>1, <1>3
<1>6. TopSet(p) = T
  <2> SUFFICES ASSUME NEW f \in S PROVE f \in TopSet(p) <=> r[f] <= m
    BY DEF TopSet
  <2>1. r[f] \in 1 .. n
    BY <1>2
  <2> DEFINE d == r[f] - 1
             B == {g \in S : r[g] < r[f]}
  <2>2. d \in Nat /\ d <= n /\ d < n
    BY <1>3, <2>1
  <2>3. B = {g \in S : r[g] <= d}
    BY <1>2, <2>1
  <2>4. f \in TopSet(p) <=> Cardinality(B) < k
    BY DEF TopSet
  <2> HIDE DEF d, B, S, r, k
  <2>5. Cardinality(B) = d
    BY <1>3, <1>4, <2>2, <2>3, CountUpTo
  <2>6. d < k <=> r[f] <= m
    BY <1>1, <1>3, <2>1 DEF d
  <2> QED BY <2>4, <2>5, <2>6
<1> HIDE DEF S, r, k
<1>7. Cardinality(T) = m
  <2> HIDE DEF m
  <2>1. Cardinality(T) = IF m <= Cardinality(S) THEN m ELSE Cardinality(S)
    BY <1>3, <1>4, <1>5, CountUpTo
  <2> QED BY <1>5, <2>1
<1>8. films = [i \in 1 .. m |-> CHOOSE f \in T : r[f] = i]
  <2>1. Cardinality(TopSet(p)) = m
    BY <1>6, <1>7
  <2> HIDE DEF m, T
  <2> QED BY <1>6, <2>1 DEF r
<1>9. IsSeq(films) /\ NoneTwice(films) /\ Len(films) = m /\ Elements(films) \subseteq S
  <2>1. films = Listing(S, r, m)
    BY <1>8 DEF Listing
  <2> HIDE DEF m
  <2> QED BY <1>3, <1>4, <1>5, <2>1, ListedIs
<1> HIDE DEF m
<1> QED BY <1>1, <1>5, <1>9 DEF Shows, S, r, k

LEMMA ShowsStays ==
    ASSUME NEW p, NEW films, Shows(p, films), inventory' = inventory
    PROVE  Shows(p, films)'
BY DEF Shows

LEMMA OfferedStays ==
    ASSUME NEW p, Offered(p), inventory' = inventory
    PROVE  Offered(p)'
BY DEF Offered

LEMMA TopPicksShelves ==
    ASSUME IInv, SourceInv, ShelfInv, AllocateTopPicks PROVE ShelfInv'
<1>1. PICK top \in remaining :
          /\ top.key = "top_picks" /\ remaining' = remaining \ {top}
          /\ rows' = <<[proposal |-> top,
                        films |-> [i \in 1 .. Cardinality(TopSet(top)) |->
                                      CHOOSE f \in TopSet(top) : top.order[f] = i]]>>
  BY DEF AllocateTopPicks
<1> DEFINE films == [i \in 1 .. Cardinality(TopSet(top)) |->
                        CHOOSE f \in TopSet(top) : top.order[f] = i]
           row == [proposal |-> top, films |-> films]
<1>2. /\ pc = "allocate" /\ pc' = pc /\ answer' = answer /\ inventory' = inventory
      /\ read' = read
  BY DEF AllocateTopPicks
<1>3. rows' = <<row>> /\ row.proposal = top /\ row.films = films
  BY <1>1
<1>4. Allocating /\ answer = <<>>
  BY <1>2 DEF ShelfInv
<1>5. Offered(top) /\ Shows(top, films)
  <2>1. Offered(top)
    BY <1>4 DEF Allocating
  <2>2. PICK tie \in Ties : inventory = Inventory(read, tie)
    BY <1>2 DEF SourceInv
  <2>3. films = [i \in 1 .. Cardinality(TopSet(top)) |->
                    CHOOSE f \in TopSet(top) : top.order[f] = i]
    OBVIOUS
  <2> HIDE DEF films
  <2> QED BY <1>1, <2>1, <2>2, <2>3, TopSetIs
<1> HIDE DEF row, films
<1>6. DOMAIN rows' = {1} /\ rows'[1] = row
  <2>1. \A x : DOMAIN <<x>> = {1} /\ <<x>>[1] = x
    OBVIOUS
  <2> QED BY <1>3, <2>1
<1>7. Offered(top)' /\ Shows(top, films)' /\ \A p \in remaining' : Offered(p)'
  BY <1>1, <1>2, <1>4, <1>5, ShowsStays, OfferedStays DEF Allocating
<1>8. KeysApart'
  BY <1>1, <1>2, <1>3, <1>4, <1>6 DEF Allocating, KeysApart, OneKey
<1>9. Allocating'
  BY <1>2, <1>3, <1>6, <1>7, <1>8 DEF Allocating
<1> QED BY <1>2, <1>4, <1>9 DEF ShelfInv, ShelvesWorthShowing

(* The rows already shown, when only remaining and draft change.             *)
LEMMA RowsShow ==
    ASSUME Allocating, UNCHANGED <<rows, inventory>>, remaining' \subseteq remaining
    PROVE  /\ \A p \in remaining' : Offered(p)'
           /\ (\A i \in DOMAIN rows : /\ Offered(rows[i].proposal)
                                      /\ Shows(rows[i].proposal, rows[i].films))'
           /\ OneKey(remaining')
           /\ \A i, j \in DOMAIN rows' : rows'[i].proposal.key = rows'[j].proposal.key => i = j
           /\ \A p \in remaining' : \A i \in DOMAIN rows' : rows'[i].proposal.key # p.key
<1>1. \A p \in remaining' : Offered(p)'
  BY OfferedStays DEF Allocating
<1>2. ASSUME NEW i \in DOMAIN rows
      PROVE  (Offered(rows[i].proposal) /\ Shows(rows[i].proposal, rows[i].films))'
  BY <1>2, OfferedStays, ShowsStays DEF Allocating
<1> QED BY <1>1, <1>2 DEF Allocating, KeysApart, OneKey

LEMMA PassOverShelves == ASSUME ShelfInv, PassOver \/ DropRow PROVE ShelfInv'
<1>1. /\ pc \in {"allocate", "fill"} /\ pc' = "allocate" /\ answer' = answer
      /\ UNCHANGED <<rows, inventory>> /\ remaining' \subseteq remaining
  BY DEF PassOver, DropRow
<1>2. Allocating /\ answer = <<>>
  BY <1>1 DEF ShelfInv
<1>3. Allocating'
  BY <1>1, <1>2, RowsShow DEF Allocating, KeysApart
<1> QED BY <1>1, <1>2, <1>3 DEF ShelfInv, ShelvesWorthShowing

LEMMA StartRowShelves == ASSUME ShelfInv, StartRow PROVE ShelfInv'
<1>1. PICK p \in remaining : remaining' = remaining \ {p} /\ draft' = Draft(p, 1, {}, <<>>)
  BY DEF StartRow
<1>2. /\ pc = "allocate" /\ pc' = "fill" /\ answer' = answer /\ UNCHANGED <<rows, inventory>>
  BY DEF StartRow
<1>3. Allocating /\ answer = <<>>
  BY <1>2 DEF ShelfInv
<1>4. draft'.proposal = p /\ draft'.films = <<>>
  BY <1>1 DEF Draft
<1>5. Offered(p)
  BY <1>3 DEF Allocating
<1>6. Shows(p, <<>>)
  <2>1. p.maximum \in Nat
    BY <1>5 DEF Offered
  <2> QED BY <2>1, NoFilms, EmptyDomain DEF Shows, NoneTwice
<1>7. (Offered(draft.proposal) /\ Shows(draft.proposal, draft.films))'
  BY <1>2, <1>4, <1>5, <1>6, OfferedStays, ShowsStays
<1>8. KeysApart'
  BY <1>1, <1>2, <1>3, <1>4 DEF Allocating, KeysApart, OneKey
<1>9. Allocating'
  BY <1>1, <1>2, <1>3, <1>7, <1>8, RowsShow DEF Allocating
<1> QED BY <1>2, <1>3, <1>9 DEF ShelfInv, ShelvesWorthShowing

LEMMA ScanShelves == ASSUME ShelfInv, Scan \/ NextPass PROVE ShelfInv'
<1>1. /\ pc = "fill" /\ pc' = "fill" /\ answer' = answer
      /\ UNCHANGED <<rows, inventory, remaining>>
  BY DEF Scan, NextPass
<1>2. Allocating /\ answer = <<>>
  BY <1>1 DEF ShelfInv
<1>3. Offered(draft.proposal) /\ Shows(draft.proposal, draft.films)
  BY <1>1, <1>2 DEF Allocating
<1>4. draft'.proposal = draft.proposal /\ Shows(draft.proposal, draft'.films)
  <2>1. CASE draft' = Draft(draft.proposal, draft.pass + 1, {}, draft.films)
    BY <1>3, <2>1 DEF Draft
  <2>2. CASE Scan
    <3>1. PICK f \in Unseen :
              draft' = Draft(draft.proposal, draft.pass, draft.seen \cup {f},
                             IF Selectable(f) THEN Append(draft.films, f) ELSE draft.films)
      BY <2>2 DEF Scan
    <3>2. draft'.proposal = draft.proposal
      BY <3>1 DEF Draft
    <3>3. ASSUME Selectable(f) PROVE Shows(draft.proposal, draft'.films)
      <4>1. draft'.films = Append(draft.films, f) /\ f \notin Elements(draft.films)
        BY <3>1, <3>3 DEF Draft, Selectable
      <4>2. /\ IsSeq(draft'.films) /\ Elements(draft'.films) = Elements(draft.films) \cup {f}
            /\ Len(draft.films) \in Nat /\ DOMAIN draft.films = 1 .. Len(draft.films)
            /\ Len(draft'.films) = Len(draft.films) + 1
            /\ DOMAIN draft'.films = 1 .. Len(draft.films) + 1
            /\ \A i \in 1 .. Len(draft.films) : draft'.films[i] = draft.films[i]
            /\ draft'.films[Len(draft.films) + 1] = f
        BY <1>3, <4>1, Appended DEF Shows
      <4>3. f \in DOMAIN inventory.rank
        BY <1>3 DEF Offered, Unseen
      <4>4. Len(draft'.films) <= draft.proposal.maximum
        <5>1. draft.proposal.maximum \in Nat /\ ~(Len(draft.films) >= draft.proposal.maximum)
          BY <1>3, <2>2 DEF Offered, Scan, Full
        <5> QED BY <4>2, <5>1
      <4>5. NoneTwice(draft'.films)
        <5> DEFINE n == Len(draft.films)
        <5>1. \A i \in 1 .. n : draft.films[i] # f
          BY <4>1, <4>2 DEF Elements
        <5>2. \A i, j \in 1 .. n : draft.films[i] = draft.films[j] => i = j
          BY <1>3, <4>2 DEF Shows, NoneTwice
        <5>3. \A i \in DOMAIN draft'.films : i \in 1 .. n \/ i = n + 1
          BY <4>2
        <5> HIDE DEF n
        <5> QED BY <4>2, <5>1, <5>2, <5>3 DEF NoneTwice, n
      <4> QED BY <1>3, <4>2, <4>3, <4>4, <4>5 DEF Shows
    <3>4. ASSUME ~Selectable(f) PROVE Shows(draft.proposal, draft'.films)
      <4>1. draft'.films = draft.films
        BY <3>1, <3>4 DEF Draft
      <4> QED BY <1>3, <4>1
    <3> QED BY <3>2, <3>3, <3>4
  <2> QED BY <2>1, <2>2 DEF NextPass
<1>5. (Offered(draft.proposal) /\ Shows(draft.proposal, draft.films))'
  BY <1>1, <1>3, <1>4, OfferedStays, ShowsStays
<1>6. KeysApart'
  BY <1>1, <1>2, <1>4 DEF Allocating, KeysApart, OneKey
<1>7. Allocating'
  BY <1>1, <1>2, <1>5, <1>6, RowsShow DEF Allocating
<1> QED BY <1>1, <1>2, <1>7 DEF ShelfInv, ShelvesWorthShowing

LEMMA AddRowShelves == ASSUME IInv, ShelfInv, AddRow PROVE ShelfInv'
<1> DEFINE n == Len(rows) + 1
<1>0. PICK row : row = [proposal |-> draft.proposal, films |-> draft.films]
  OBVIOUS
<1>1. /\ pc = "fill" /\ pc' = "allocate" /\ answer' = answer
      /\ UNCHANGED <<inventory, remaining>> /\ rows' = Append(rows, row)
  BY <1>0 DEF AddRow
<1>2. Allocating /\ answer = <<>>
  BY <1>1 DEF ShelfInv
<1>3. row.films = draft.films /\ row.proposal = draft.proposal
  BY <1>0
<1>4. /\ Len(rows) \in Nat /\ DOMAIN rows = 1 .. Len(rows) /\ DOMAIN rows' = 1 .. n
      /\ \A i \in DOMAIN rows : rows'[i] = rows[i]
      /\ rows'[n] = row
  BY <1>1, Appended DEF IInv, RowsInv
<1>5. DOMAIN rows' = DOMAIN rows \cup {n} /\ n \notin DOMAIN rows
  BY <1>4
<1> HIDE DEF n
<1>6. Offered(row.proposal)' /\ Shows(row.proposal, row.films)'
  <2>1. Offered(row.proposal) /\ Shows(row.proposal, row.films)
    BY <1>1, <1>2, <1>3 DEF Allocating
  <2> QED BY <1>1, <2>1, OfferedStays, ShowsStays
<1>7. ASSUME NEW i \in DOMAIN rows'
      PROVE  (Offered(rows[i].proposal) /\ Shows(rows[i].proposal, rows[i].films))'
  <2>1. CASE i = n
    BY <1>3, <1>4, <1>6, <2>1
  <2>2. CASE i \in DOMAIN rows
    <3>1. Offered(rows[i].proposal) /\ Shows(rows[i].proposal, rows[i].films)
      BY <1>2, <2>2 DEF Allocating
    <3> QED BY <1>1, <1>4, <2>2, <3>1, OfferedStays, ShowsStays
  <2> QED BY <1>5, <2>1, <2>2
<1>8. \A p \in remaining' : Offered(p)'
  BY <1>1, <1>2, OfferedStays DEF Allocating
<1>9. KeysApart'
  <2>1. KeysApart /\ pc = "fill"
    BY <1>1, <1>2 DEF Allocating
  <2>2. \A i \in DOMAIN rows' : rows'[i].proposal.key = IF i = n THEN draft.proposal.key
                                                                ELSE rows[i].proposal.key
    BY <1>3, <1>4, <1>5
  <2>3. \A i, j \in DOMAIN rows' : rows'[i].proposal.key = rows'[j].proposal.key => i = j
    BY <1>5, <2>1, <2>2 DEF KeysApart
  <2>4. \A p \in remaining' : \A i \in DOMAIN rows' : rows'[i].proposal.key # p.key
    BY <1>1, <1>5, <2>1, <2>2 DEF KeysApart
  <2> QED BY <1>1, <2>1, <2>3, <2>4 DEF KeysApart
<1>10. Allocating'
  BY <1>1, <1>7, <1>8, <1>9 DEF Allocating
<1> QED BY <1>1, <1>2, <1>10 DEF ShelfInv, ShelvesWorthShowing

(* The response of the feed: rows that reach their minimum with the films    *)
(* that can be shown.                                                        *)
LEMMA FeedShelves == ASSUME IInv, SourceInv, ShelfInv, AnswerFeed PROVE ShelfInv'
<1> DEFINE P == {i \in DOMAIN rows :
                    Len(Displayed(rows[i].films)) >= rows[i].proposal.minimum}
           kept == Subsequence(rows, P)
<1>1. /\ pc = "allocate" /\ pc' = "answered" /\ UNCHANGED <<read, rows, inventory>>
      /\ answer' = [i \in DOMAIN kept |-> Shelf(kept[i].proposal.key, Displayed(kept[i].films))]
  BY DEF AnswerFeed, Materialize, computed
<1>2. Allocating
  BY <1>1 DEF ShelfInv
<1>3. \A n \in DOMAIN kept : \E i \in P : kept[n] = rows[i]
  <2>1. P \subseteq DOMAIN rows /\ IsSeq(rows)
    BY DEF IInv, RowsInv
  <2> HIDE DEF P
  <2> QED BY <2>1, SubsequenceIs
<1>4. DOMAIN inventory.rank \cap read.watched = {}
  <2>1. PICK tie \in Ties : inventory = Inventory(read, tie)
    BY <1>1 DEF SourceInv
  <2> QED BY <2>1, InventoryRanked
<1>5. ASSUME NEW n \in DOMAIN answer'
      PROVE  LET films == answer'[n].films
             IN  /\ Cardinality(Elements(films)) = Len(films)
                 /\ Elements(films) \subseteq Showable(answer'[n].key) \ read.watched
                 /\ \A j \in DOMAIN rows : rows[j].proposal.key = answer'[n].key =>
                        Len(films) \in rows[j].proposal.minimum .. rows[j].proposal.maximum
  <2>1. PICK i \in P : kept[n] = rows[i]
    BY <1>1, <1>3
  <2>2. /\ answer'[n].films = Displayed(rows[i].films)
        /\ answer'[n].key = rows[i].proposal.key
    <3>1. answer'[n] = Shelf(rows[i].proposal.key, Displayed(rows[i].films))
      <4> HIDE DEF kept
      <4> QED BY <1>1, <2>1
    <3> QED BY <3>1 DEF Shelf
  <2>3. /\ Offered(rows[i].proposal) /\ Shows(rows[i].proposal, rows[i].films)
        /\ Len(Displayed(rows[i].films)) >= rows[i].proposal.minimum
    BY <1>2 DEF Allocating
  <2> DEFINE films == Displayed(rows[i].films)
  <2>4. /\ IsSeq(films) /\ NoneTwice(films) /\ Len(films) \in Nat
        /\ Len(films) <= Len(rows[i].films)
        /\ Elements(films) \subseteq Elements(rows[i].films) \cap DOMAIN Catalog
    BY <2>3, AmongIs DEF Shows, Displayed
  <2> HIDE DEF films
  <2>5. Cardinality(Elements(films)) = Len(films)
    BY <2>4, NoneTwiceCount
  <2>6. Elements(films) \subseteq DOMAIN Catalog \ read.watched
    BY <1>4, <2>3, <2>4 DEF Shows
  <2>7. Len(films) \in rows[i].proposal.minimum .. rows[i].proposal.maximum
    <3>1. Len(rows[i].films) \in Nat
      BY <2>3 DEF Shows, IsSeq
    <3>2. /\ rows[i].proposal.minimum \in Nat /\ rows[i].proposal.maximum \in Nat
          /\ Len(rows[i].films) <= rows[i].proposal.maximum
      BY <2>3 DEF Shows, Offered
    <3>3. Len(films) >= rows[i].proposal.minimum
      BY <2>3 DEF films
    <3> QED BY <2>4, <3>1, <3>2, <3>3
  <2>8. \A j \in DOMAIN rows : rows[j].proposal.key = rows[i].proposal.key => j = i
    BY <1>2 DEF Allocating, KeysApart
  <2>9. DOMAIN Catalog \subseteq Showable(answer'[n].key)
    BY BundleAssumption DEF Showable
  <2> QED BY <2>2, <2>5, <2>6, <2>7, <2>8, <2>9 DEF films
<1> HIDE DEF P, kept
<1>6. ShelvesWorthShowing'
  BY <1>1, <1>5 DEF ShelvesWorthShowing
<1> QED BY <1>1, <1>6 DEF ShelfInv

(* The response of the legacy list: films of the bundle, none twice, none of *)
(* those watched when it read them.                                          *)
LEMMA ListShelves == ASSUME ShelfInv, AnswerList PROVE ShelfInv'
<1>1. PICK tie \in Ties, since \in SUBSET (Artifact \ DOMAIN Catalog) :
          LET weight == MeanWeight(history)
              films  == Among(Nearest(read.watched, weight, tie), DOMAIN Catalog \cup since)
          IN  answer' = IF DOMAIN weight = {} THEN <<>>
                        ELSE <<Shelf("SVD_Mean_Pooling",
                                     SubSeq(films, 1, Min({Len(films), Policy.list_size})))>>
  BY DEF AnswerList
<1> DEFINE weight == MeanWeight(history)
           near == Nearest(read.watched, weight, tie)
           films == Among(near, DOMAIN Catalog \cup since)
           m == Min({Len(films), Policy.list_size})
           shown == SubSeq(films, 1, m)
<1>2. /\ pc = "read_rated" /\ pc' = "answered" /\ rows' = <<>>
      /\ read'.watched = read.watched
  <2>1. read = [watched |-> read.watched, rating |-> <<>>]
    BY DEF ShelfInv, AnswerList
  <2>2. read' = [read EXCEPT !.rating = history.rating]
    BY DEF AnswerList
  <2>3. read'.watched = read.watched
    BY <2>1, <2>2
  <2> QED BY <2>3 DEF ShelfInv, AnswerList, computed
<1>3. answer' = <<>> \/ answer' = <<Shelf("SVD_Mean_Pooling", shown)>>
  BY <1>1
<1>4. IsSeq(near) /\ NoneTwice(near) /\ Elements(near) \subseteq Artifact \ read.watched
  <2> DEFINE k == Policy.retrieval_top_k
             r == Policy.retrieval_top_k + Cardinality(read.watched \cap Artifact)
             top == Retrieve(weight, tie, read.watched, r, k)
             S == DOMAIN top
             n == Cardinality(S)
  <2>1. near = [i \in 1 .. n |-> CHOOSE f \in S : top[f] = i]
    BY DEF Nearest
  <2>2. IsWeight(weight) /\ k \in Nat
    BY WeightsAre, PolicyAssumption
  <2> HIDE DEF weight, near, k, r
  <2>3. Numbers(S, top) /\ IsFiniteSet(S)
    BY <2>2, RetrieveNumbers
  <2>4. S \subseteq Artifact \ read.watched
    BY RetrieveRanks
  <2> HIDE DEF top, S
  <2>5. n \in Nat /\ n <= n
    BY <2>3, FS_CardinalityType
  <2>6. {f \in S : top[f] <= n} = S
    BY <2>3, <2>5 DEF Numbers
  <2>7. near = Listing(S, top, n)
    BY <2>1, <2>6 DEF Listing
  <2>8. IsSeq(near) /\ NoneTwice(near) /\ Elements(near) \subseteq S
    <3> HIDE DEF n
    <3>1. n <= Cardinality(S)
      BY <2>5 DEF n
    <3> QED BY <2>3, <2>5, <2>7, <3>1, ListedIs
  <2> QED BY <2>4, <2>8
<1> HIDE DEF near
<1>5. /\ IsSeq(films) /\ NoneTwice(films) /\ Len(films) \in Nat
      /\ Elements(films) \subseteq Artifact \ read.watched
  BY <1>4, AmongIs
<1> HIDE DEF films
<1>6. /\ IsSeq(shown) /\ NoneTwice(shown)
      /\ Elements(shown) \subseteq Artifact \ read.watched
  <2>1. Policy.list_size \in Nat
    BY PolicyAssumption
  <2>2. m = IF Len(films) <= Policy.list_size THEN Len(films) ELSE Policy.list_size
    <3>1. \A a, b \in Int : Min({a, b}) = IF a <= b THEN a ELSE b
      BY MinOfTwo
    <3>2. Len(films) \in Int /\ Policy.list_size \in Int
      BY <1>5, <2>1
    <3> QED BY <3>1, <3>2
  <2>3. m \in Nat /\ m <= Len(films)
    BY <1>5, <2>1, <2>2
  <2> HIDE DEF m
  <2>4. /\ films \in Seq(Elements(films)) /\ DOMAIN films = 1 .. Len(films)
    BY <1>5 DEF IsSeq
  <2>5. Len(shown) = m /\ DOMAIN shown = 1 .. m /\ \A i \in 1 .. m : shown[i] = films[i]
    BY <1>5, <2>3, <2>4
  <2>6. shown = [i \in 1 .. m |-> shown[i]]
    BY <1>5, <2>3, <2>4
  <2> HIDE DEF shown
  <2>7. IsSeq(shown)
    BY <2>3, <2>6, ListOf
  <2>8. NoneTwice(shown)
    BY <1>5, <2>3, <2>4, <2>5 DEF NoneTwice
  <2>9. Elements(shown) \subseteq Elements(films)
    BY <1>5, <2>3, <2>4, <2>5 DEF Elements
  <2> QED BY <1>5, <2>7, <2>8, <2>9
<1> HIDE DEF shown
<1>7. Cardinality(Elements(shown)) = Len(shown)
  BY <1>6, NoneTwiceCount
<1>8. ASSUME NEW i \in DOMAIN answer'
      PROVE  answer'[i].films = shown /\ Showable(answer'[i].key) = Artifact
  <2>1. CASE answer' = <<>>
    BY <1>8, <2>1, EmptyDomain
  <2>2. CASE answer' = <<Shelf("SVD_Mean_Pooling", shown)>>
    <3>1. \A x : \A k \in DOMAIN <<x>> : <<x>>[k] = x
      OBVIOUS
    <3>2. answer'[i] = Shelf("SVD_Mean_Pooling", shown)
      BY <1>8, <2>2, <3>1
    <3> QED BY <3>2 DEF Shelf, Showable
  <2> QED BY <1>3, <2>1, <2>2
<1>9. DOMAIN rows' = {}
  BY <1>2, EmptyDomain
<1>10. ShelvesWorthShowing'
  BY <1>2, <1>6, <1>7, <1>8, <1>9 DEF ShelvesWorthShowing
<1> QED BY <1>2, <1>10 DEF ShelfInv

LEMMA NothingShown == ASSUME answer' = <<>> PROVE ShelvesWorthShowing'
BY EmptyDomain DEF ShelvesWorthShowing

LEMMA AllocatingStays == ASSUME Allocating, UNCHANGED <<pc, rows, draft, remaining, inventory>>
                         PROVE  Allocating'
BY DEF Allocating, KeysApart, OneKey, Offered, Shows

LEMMA ShelfStep == ASSUME IInv, SourceInv, ShelfInv, [Next]_vars PROVE ShelfInv'
<1>1. CASE ImportCommits \/ UNCHANGED vars
  <2>1. UNCHANGED <<pc, read, inventory, remaining, rows, draft, answer>>
    BY <1>1 DEF ImportCommits, vars
  <2>2. pc \in {"allocate", "fill"} => Allocating'
    BY <2>1, AllocatingStays DEF ShelfInv
  <2> QED BY <2>1, <2>2 DEF ShelfInv, ShelvesWorthShowing
<1>2. CASE ReadHistory \/ ReadWatched
  <2>1. /\ pc = "idle" /\ pc' \in {"propose", "read_rated"} /\ rows' = rows /\ answer' = answer
        /\ pc' = "read_rated" => read' = [watched |-> history.watched, rating |-> <<>>]
    BY <1>2 DEF ReadHistory, ReadWatched, computed
  <2>2. pc' = "read_rated" => read' = [watched |-> read'.watched, rating |-> <<>>]
    BY <2>1
  <2> QED BY <2>1, <2>2 DEF ShelfInv, ShelvesWorthShowing
<1>3. CASE UserNotFound \/ NoWatched
  <2>1. pc = "idle" /\ pc' = "answered" /\ rows' = rows /\ answer' = answer
    BY <1>3 DEF UserNotFound, NoWatched, computed
  <2> QED BY <2>1, NothingShown DEF ShelfInv
<1>4. CASE NextRequest
  <2>1. pc' = "idle" /\ rows' = <<>> /\ answer' = <<>>
    BY <1>4 DEF NextRequest
  <2> QED BY <2>1, NothingShown DEF ShelfInv
<1> QED BY <1>1, <1>2, <1>3, <1>4, ProposeShelves, TopPicksShelves, PassOverShelves,
           StartRowShelves, ScanShelves, AddRowShelves, FeedShelves, ListShelves
        DEF Next, FeedStep

(* What a response shows is worth showing, whatever the history, the         *)
(* proposals, the passes and the commits meanwhile.                          *)
THEOREM FeedShelvesWorthShowing == Spec => []ShelvesWorthShowing
<1>1. Init => ShelfInv
  BY DEF Init, ShelfInv, ShelvesWorthShowing
<1>2. IInv /\ SourceInv /\ ShelfInv /\ [Next]_vars => ShelfInv'
  BY ShelfStep
<1>3. ShelfInv => ShelvesWorthShowing
  BY DEF ShelfInv
<1> QED BY <1>1, <1>2, <1>3, FeedInvariant, FeedSources, PTL DEF Spec
=============================================================================
