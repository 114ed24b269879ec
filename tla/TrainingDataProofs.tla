------------------------- MODULE TrainingDataProofs -------------------------
(* The two ways of counting the training universe, the popularity ranking    *)
(* and the decision to train again, for every content of the log table.      *)
EXTENDS TrainingData, FiniteLemmas

(* A log table: finitely many rows, each with an id of its own.              *)
IsLogTable(logs) ==
    /\ IsFiniteSet(logs)
    /\ \A r \in logs : r.id \in Nat /\ r.film \in Nat \ {0}
    /\ \A r \in RatedRows(logs) : r.rating \in Int
    /\ \A r, q \in logs : r.id = q.id => r = q

Pairs(logs)     == {<<r.user, r.film>> : r \in RatedRows(logs)}
SamePair(S, r)  == {q \in S : q.user = r.user /\ q.film = r.film}

-----------------------------------------------------------------------------
(* A finite set that is not empty has a least element in a strict order, and *)
(* a set of numbers a least number.                                          *)
LEMMA LeastElement ==
    ASSUME NEW S, IsFiniteSet(S), S # {}, NEW R, StrictOrder(S, R)
    PROVE  \E x \in S : \A y \in S : <<y, x>> \notin R
<1>1. PICK rank : rank = [x \in S |-> 1 + Cardinality(Before(S, R, x))]
  OBVIOUS
<1>2. /\ rank \in [S -> 1 .. Cardinality(S)]
      /\ \A x, y \in S : <<x, y>> \in R <=> rank[x] < rank[y]
      /\ \A i \in 1 .. Cardinality(S) : \E x \in S : rank[x] = i
  BY <1>1, PlaceOrders
<1>3. Cardinality(S) \in Nat /\ Cardinality(S) # 0
  BY FS_CardinalityType, FS_EmptySet
<1>4. PICK x \in S : rank[x] = 1
  BY <1>2, <1>3
<1>5. ASSUME NEW y \in S PROVE <<y, x>> \notin R
  <2>1. rank[y] \in 1 .. Cardinality(S)
    BY <1>2
  <2>2. ~(rank[y] < rank[x])
    BY <1>3, <1>4, <2>1
  <2> QED BY <1>2, <2>2
<1> QED BY <1>5

LEMMA LeastNumber ==
    ASSUME NEW S, IsFiniteSet(S), S \subseteq Int, S # {}
    PROVE  \E i \in S : \A j \in S : i <= j
<1>1. PICK R : R = {p \in S \X S : p[1] < p[2]}
  OBVIOUS
<1>2. \A x, y \in S : <<x, y>> \in R <=> x < y
  BY <1>1
<1>3. StrictOrder(S, R)
  BY <1>2 DEF StrictOrder
<1>4. PICK x \in S : \A y \in S : <<y, x>> \notin R
  BY <1>3, LeastElement
<1>5. ASSUME NEW y \in S PROVE x <= y
  <2>1. ~(y < x)
    BY <1>2, <1>4
  <2>2. x \in Int /\ y \in Int
    OBVIOUS
  <2> QED BY <2>1, <2>2
<1> QED BY <1>5

(* Of the rows of one user and film exactly one is an interaction.           *)
LEMMA OneRowOfPair ==
    ASSUME NEW logs, IsLogTable(logs), NEW r \in RatedRows(logs)
    PROVE  \E k \in Interactions(logs) : k.user = r.user /\ k.film = r.film
<1> DEFINE S   == SamePair(RatedRows(logs), r)
           ids == {q.id : q \in S}
<1>1. RatedRows(logs) \subseteq logs
  BY DEF RatedRows
<1>2. S \subseteq logs /\ r \in S
  BY <1>1 DEF SamePair
<1>3. IsFiniteSet(S)
  BY <1>2, FS_Subset DEF IsLogTable
<1>4. IsFiniteSet(ids)
  <2> DEFINE f == [q \in S |-> q.id]
  <2>1. f \in Surjection(S, ids)
    BY DEF Surjection
  <2> HIDE DEF f
  <2> QED BY <1>3, <2>1, FS_Surjection
<1>5. ids \subseteq Int /\ ids # {}
  BY <1>2 DEF IsLogTable
<1> HIDE DEF ids
<1>6. PICK i \in ids : \A j \in ids : i <= j
  BY <1>4, <1>5, LeastNumber
<1>7. PICK k \in S : k.id = i
  BY DEF ids
<1>8. k \in RatedRows(logs) /\ k.user = r.user /\ k.film = r.film
  BY <1>7 DEF SamePair
<1>9. \A q \in RatedRows(logs) : q.user = k.user /\ q.film = k.film => k.id <= q.id
  BY <1>6, <1>7, <1>8 DEF ids, SamePair
<1> QED BY <1>8, <1>9 DEF Interactions

LEMMA NoOtherRowOfPair ==
    ASSUME NEW logs, IsLogTable(logs), NEW k \in Interactions(logs), NEW q \in Interactions(logs),
           k.user = q.user, k.film = q.film
    PROVE  k = q
<1>1. k \in logs /\ q \in logs /\ k.id <= q.id /\ q.id <= k.id
  BY DEF Interactions, RatedRows
<1> QED BY <1>1 DEF IsLogTable

(* The interactions are as many as the pairs.                                *)
LEMMA RowsArePairs ==
    ASSUME NEW logs, IsLogTable(logs)
    PROVE  /\ IsFiniteSet(Interactions(logs))
           /\ IsFiniteSet(Pairs(logs))
           /\ Cardinality(Pairs(logs)) = Cardinality(Interactions(logs))
<1> DEFINE K == Interactions(logs)
           b == [k \in K |-> <<k.user, k.film>>]
<1>1. K \subseteq RatedRows(logs) /\ K \subseteq logs
  BY DEF Interactions, RatedRows
<1>2. IsFiniteSet(K)
  BY <1>1, FS_Subset DEF IsLogTable
<1>3. b \in [K -> Pairs(logs)]
  BY <1>1 DEF Pairs
<1>4. \A k, q \in K : b[k] = b[q] => k = q
  BY NoOtherRowOfPair
<1>5. \A p \in Pairs(logs) : \E k \in K : b[k] = p
  <2> TAKE p \in Pairs(logs)
  <2>1. PICK r \in RatedRows(logs) : p = <<r.user, r.film>>
    BY DEF Pairs
  <2>2. PICK k \in K : k.user = r.user /\ k.film = r.film
    BY OneRowOfPair
  <2> QED BY <2>1, <2>2
<1> HIDE DEF b, K
<1>6. b \in Bijection(K, Pairs(logs))
  BY <1>3, <1>4, <1>5 DEF Bijection, Injection, IsInjective, Surjection
<1>7. ExistsBijection(K, Pairs(logs))
  BY <1>6 DEF ExistsBijection
<1> QED BY <1>2, <1>7, FS_Bijection DEF K

(* The aggregate query by which the weekly task decides counts what a        *)
(* training at that moment would read: duplicates of a user and film, in     *)
(* whatever order and with whatever ratings, never separate the two.         *)
THEOREM MeasureAgrees ==
    ASSUME NEW logs, IsLogTable(logs)
    PROVE  Measured(logs) = Snapshot(logs)
<1>1. {r.user : r \in Interactions(logs)} = {p[1] : p \in Pairs(logs)}
  <2>1. \A r \in Interactions(logs) : <<r.user, r.film>> \in Pairs(logs)
    BY DEF Pairs, Interactions
  <2>2. \A r \in RatedRows(logs) : \E k \in Interactions(logs) : k.user = r.user
    BY OneRowOfPair
  <2>3. ASSUME NEW p \in Pairs(logs) PROVE p[1] \in {r.user : r \in Interactions(logs)}
    <3>1. PICK r \in RatedRows(logs) : p = <<r.user, r.film>>
      BY DEF Pairs
    <3> QED BY <2>2, <3>1
  <2> QED BY <2>1, <2>3
<1>2. {r.film : r \in Interactions(logs)} = {p[2] : p \in Pairs(logs)}
  <2>1. \A r \in Interactions(logs) : <<r.user, r.film>> \in Pairs(logs)
    BY DEF Pairs, Interactions
  <2>2. \A r \in RatedRows(logs) : \E k \in Interactions(logs) : k.film = r.film
    BY OneRowOfPair
  <2>3. ASSUME NEW p \in Pairs(logs) PROVE p[2] \in {r.film : r \in Interactions(logs)}
    <3>1. PICK r \in RatedRows(logs) : p = <<r.user, r.film>>
      BY DEF Pairs
    <3> QED BY <2>2, <3>1
  <2> QED BY <2>1, <2>3
<1>3. Cardinality(Pairs(logs)) = Cardinality(Interactions(logs))
  BY RowsArePairs
<1> QED BY <1>1, <1>2, <1>3 DEF Measured, Snapshot, Pairs

-----------------------------------------------------------------------------
LEMMA FilmsOfTable ==
    ASSUME NEW logs, IsLogTable(logs)
    PROVE  /\ IsFiniteSet(Snapshot(logs).films)
           /\ Snapshot(logs).films \subseteq Nat \ {0}
           /\ RatedRows(logs) # {} => Snapshot(logs).films # {}
<1> DEFINE K == Interactions(logs)
           T == {r.film : r \in K}
           f == [r \in K |-> r.film]
<1>1. Snapshot(logs).films = T
  BY DEF Snapshot
<1>2. f \in Surjection(K, T)
  BY DEF Surjection
<1>3. IsFiniteSet(K)
  BY RowsArePairs
<1>4. T \subseteq Nat \ {0}
  BY DEF Interactions, RatedRows, IsLogTable
<1>5. RatedRows(logs) # {} => T # {}
  BY OneRowOfPair
<1> HIDE DEF K, T, f
<1>6. IsFiniteSet(T)
  BY <1>2, <1>3, FS_Surjection
<1> QED BY <1>1, <1>4, <1>5, <1>6

(* More positive ratings first, then the lower id: a strict order of films.  *)
LEMMA PopularityOrders ==
    ASSUME NEW S, S \subseteq Nat \ {0}, NEW count, \A f \in S : count[f] \in Nat,
           NEW R, \A f, g \in S : <<f, g>> \in R <=> MorePopular(count, f, g)
    PROVE  StrictOrder(S, R)
<1>1. \A f \in S : ~MorePopular(count, f, f)
  BY DEF MorePopular
<1>2. \A f, g, h \in S :
         MorePopular(count, f, g) /\ MorePopular(count, g, h) => MorePopular(count, f, h)
  BY DEF MorePopular
<1>3. \A f, g \in S : f # g => MorePopular(count, f, g) \/ MorePopular(count, g, f)
  BY DEF MorePopular
<1> QED BY <1>1, <1>2, <1>3 DEF StrictOrder

LEMMA RanksInOrder ==
    ASSUME NEW count, IsFiniteSet(DOMAIN count), NEW R, StrictOrder(DOMAIN count, R),
           \A f, g \in DOMAIN count : <<f, g>> \in R <=> MorePopular(count, f, g)
    PROVE  LET S == DOMAIN count
               rank == RanksOf(count)
           IN  /\ rank \in [S -> 1 .. Cardinality(S)]
               /\ \A f, g \in S : MorePopular(count, f, g) <=> rank[f] < rank[g]
               /\ \A i \in 1 .. Cardinality(S) : \E f \in S : rank[f] = i
<1> DEFINE S    == DOMAIN count
           rank == RanksOf(count)
<1>1. \A x \in S : {g \in S : MorePopular(count, g, x)} = Before(S, R, x)
  BY DEF Before
<1>2. rank = [x \in S |-> 1 + Cardinality(Before(S, R, x))]
  BY <1>1 DEF RanksOf
<1>3. IsFiniteSet(S) /\ StrictOrder(S, R)
  OBVIOUS
<1>4. \A f, g \in S : <<f, g>> \in R <=> MorePopular(count, f, g)
  OBVIOUS
<1> HIDE DEF S, rank
<1>5. /\ rank \in [S -> 1 .. Cardinality(S)]
      /\ \A f, g \in S : <<f, g>> \in R <=> rank[f] < rank[g]
      /\ \A i \in 1 .. Cardinality(S) : \E f \in S : rank[f] = i
  BY <1>2, <1>3, PlaceOrders
<1>6. /\ rank \in [S -> 1 .. Cardinality(S)]
      /\ \A f, g \in S : MorePopular(count, f, g) <=> rank[f] < rank[g]
      /\ \A i \in 1 .. Cardinality(S) : \E f \in S : rank[f] = i
  BY <1>4, <1>5
<1> QED BY <1>6 DEF S, rank

(* The ranks that order a finite set pass the artifact's own validation.     *)
LEMMA OrderedIsValid ==
    ASSUME NEW count, IsFiniteSet(DOMAIN count), DOMAIN count # {},
           DOMAIN count \subseteq Nat \ {0}, \A f \in DOMAIN count : count[f] \in Nat
    PROVE  ValidPopularity(RanksOf(count), count)
<1> DEFINE S    == DOMAIN count
           rank == RanksOf(count)
<1>1. PICK R : R = {p \in S \X S : MorePopular(count, p[1], p[2])}
  OBVIOUS
<1>2. \A f, g \in S : <<f, g>> \in R <=> MorePopular(count, f, g)
  BY <1>1
<1>3. StrictOrder(S, R)
  BY <1>2, PopularityOrders
<1>4. /\ rank \in [S -> 1 .. Cardinality(S)]
      /\ \A f, g \in S : MorePopular(count, f, g) <=> rank[f] < rank[g]
      /\ \A i \in 1 .. Cardinality(S) : \E f \in S : rank[f] = i
  BY <1>2, <1>3, RanksInOrder
<1> HIDE DEF rank
<1>5. DOMAIN rank = S
  BY <1>4
<1>6. {rank[f] : f \in S} = 1 .. Cardinality(S)
  BY <1>4
<1>7. ValidPopularity(rank, count)
  BY <1>4, <1>5, <1>6 DEF ValidPopularity
<1> QED BY <1>7 DEF rank

(* Whatever rows the table holds, as long as one is rated, the ranking built *)
(* from the training's own interactions is one that the loader of a bundle   *)
(* accepts: no gap, no tie, no film without an id.                           *)
THEOREM RankingValid ==
    ASSUME NEW logs, IsLogTable(logs), RatedRows(logs) # {}
    PROVE  ValidPopularity(PopularityRanks(logs), PopularityCounts(logs))
<1> DEFINE S     == Snapshot(logs).films
           count == PopularityCounts(logs)
<1>1. DOMAIN count = S
  BY DEF PopularityCounts
<1>2. ASSUME NEW f \in S PROVE count[f] \in Nat
  <2> DEFINE liked == {r \in Interactions(logs) : r.film = f /\ r.rating >= PositiveRating}
  <2>1. count[f] = Cardinality(liked)
    BY DEF PopularityCounts, PositiveCount
  <2>2. IsFiniteSet(liked)
    BY RowsArePairs, FS_Subset
  <2> HIDE DEF liked, count
  <2> QED BY <2>1, <2>2, FS_CardinalityType
<1>3. IsFiniteSet(S) /\ S # {} /\ S \subseteq Nat \ {0}
  BY FilmsOfTable
<1> HIDE DEF S, count
<1>4. ValidPopularity(RanksOf(count), count)
  BY <1>1, <1>2, <1>3, OrderedIsValid
<1> QED BY <1>4 DEF count, PopularityRanks

-----------------------------------------------------------------------------
IsUniverse(u) == u.users \in Nat /\ IsFiniteSet(u.films) /\ u.films \subseteq Nat

LEMMA SnapshotIsUniverse ==
    ASSUME NEW logs, IsLogTable(logs)
    PROVE  IsUniverse(Snapshot(logs)) /\ Snapshot(logs).interactions \in Nat
<1> DEFINE K == Interactions(logs)
           T == {r.user : r \in K}
           f == [r \in K |-> r.user]
<1>1. Snapshot(logs).users = Cardinality(T) /\ Snapshot(logs).interactions = Cardinality(K)
  BY DEF Snapshot
<1>2. f \in Surjection(K, T)
  BY DEF Surjection
<1>3. IsFiniteSet(K)
  BY RowsArePairs
<1> HIDE DEF K, T, f
<1>4. IsFiniteSet(T)
  BY <1>2, <1>3, FS_Surjection
<1>5. Snapshot(logs).users \in Nat /\ Snapshot(logs).interactions \in Nat
  BY <1>1, <1>3, <1>4, FS_CardinalityType
<1>6. IsFiniteSet(Snapshot(logs).films) /\ Snapshot(logs).films \subseteq Nat
  BY FilmsOfTable
<1> QED BY <1>5, <1>6 DEF IsUniverse

(* A model just trained from the table is not trained again, and a legacy    *)
(* layout is, whatever it holds: the one forced build of the upgrade.        *)
THEOREM JustTrainedRests ==
    ASSUME NEW logs, IsLogTable(logs), NEW day \in Nat, NEW today \in Nat,
           NEW films \in SUBSET Nat
    PROVE  /\ ~ShouldRetrain(Snapshot(logs), ManifestBaseline(logs, day), FALSE, day)
           /\ ShouldRetrain(Snapshot(logs), LegacyBaseline(films, day), FALSE, today)
<1> DEFINE now == Snapshot(logs)
           new == ManifestBaseline(logs, day)
           old == LegacyBaseline(films, day)
<1>1. now.users \in Nat /\ now.interactions \in Nat /\ now.films \subseteq Nat
  BY SnapshotIsUniverse DEF IsUniverse
<1>2. /\ new.users = now.users /\ new.interactions = now.interactions
      /\ new.films = now.films /\ new.trained = day
  BY DEF ManifestBaseline
<1>3. new \in Baselines /\ old \in Baselines
  BY <1>1 DEF Baselines, ManifestBaseline, LegacyBaseline
<1>4. new # NoBaseline /\ old # NoBaseline
  BY <1>3, BaselineAssumption
<1> HIDE DEF now, new
<1>5. /\ NewUsersThreshold \in Nat \ {0} /\ NewFilmsThreshold \in Nat \ {0}
      /\ MaxModelAge \in Nat \ {0}
  BY ThresholdAssumption
<1>6. ~IsLegacy(new)
  BY <1>1, <1>2 DEF IsLegacy
<1>7. Growth(now, new, day) = {}
  <2>1. NewUsers(now, new) = 0
    BY <1>1, <1>2, <1>4 DEF NewUsers
  <2>2. NewFilms(now, new) = 0
    BY <1>2, <1>4, FS_EmptySet DEF NewFilms
  <2>3. day - new.trained = 0
    BY <1>2
  <2> QED BY <1>5, <2>1, <2>2, <2>3 DEF Growth
<1>8. Reasons(now, new, FALSE, day) = {}
  BY <1>6, <1>7 DEF Reasons
<1>9. IsLegacy(old)
  BY <1>4 DEF IsLegacy, LegacyBaseline
<1>10. "LEGACY_MODEL_BOOTSTRAP" \in Reasons(now, old, FALSE, today)
  BY <1>9 DEF Reasons
<1> QED BY <1>8, <1>10 DEF ShouldRetrain, now, new

(* While rows are only added and days only pass, a training once due stays   *)
(* due: between the weekly measurement and the build no trigger is lost.     *)
THEOREM DueStaysDue ==
    ASSUME NEW logs, NEW more, IsLogTable(more), logs \subseteq more,
           NEW baseline \in Baselines \cup {NoBaseline},
           NEW day \in Nat, NEW today \in Nat, day <= today,
           ShouldRetrain(Measured(logs), baseline, FALSE, day)
    PROVE  ShouldRetrain(Measured(more), baseline, FALSE, today)
<1>1. RatedRows(logs) \subseteq RatedRows(more) /\ RatedRows(more) \subseteq more
  BY DEF RatedRows
<1>2. IsLogTable(logs)
  BY <1>1, FS_Subset DEF IsLogTable
<1> DEFINE U(t) == {p[1] : p \in Pairs(t)}
           M(t) == {p[2] : p \in Pairs(t)}
<1>3. Pairs(logs) \subseteq Pairs(more)
  BY <1>1 DEF Pairs
<1>4. U(logs) \subseteq U(more) /\ M(logs) \subseteq M(more)
  BY <1>3
<1>5. ASSUME NEW t \in {logs, more}
      PROVE  /\ Measured(t).users = Cardinality(U(t)) /\ Measured(t).films = M(t)
             /\ IsFiniteSet(U(t)) /\ IsFiniteSet(M(t)) /\ Cardinality(U(t)) \in Nat
  <2> DEFINE fu == [p \in Pairs(t) |-> p[1]]
             fm == [p \in Pairs(t) |-> p[2]]
  <2>1. Measured(t).users = Cardinality(U(t)) /\ Measured(t).films = M(t)
    BY DEF Measured, Pairs
  <2>2. fu \in Surjection(Pairs(t), U(t)) /\ fm \in Surjection(Pairs(t), M(t))
    BY DEF Surjection
  <2>3. IsFiniteSet(Pairs(t))
    BY <1>2, RowsArePairs
  <2> HIDE DEF fu, fm, U, M
  <2>4. IsFiniteSet(U(t)) /\ IsFiniteSet(M(t))
    BY <2>2, <2>3, FS_Surjection
  <2> QED BY <2>1, <2>4, FS_CardinalityType
<1> HIDE DEF U, M
<1> DEFINE a == Measured(logs)
           b == Measured(more)
<1>6. a.users \in Nat /\ b.users \in Nat /\ a.users <= b.users
  BY <1>4, <1>5, FS_Subset
<1>7. a.films \subseteq b.films /\ IsFiniteSet(b.films)
  BY <1>4, <1>5
<1> HIDE DEF a, b
<1>8. /\ NewUsersThreshold \in Nat \ {0} /\ NewFilmsThreshold \in Nat \ {0}
      /\ MaxModelAge \in Nat \ {0}
  BY ThresholdAssumption
<1>9. CASE IsLegacy(baseline)
  <2>1. "LEGACY_MODEL_BOOTSTRAP" \in Reasons(b, baseline, FALSE, today)
    BY <1>9 DEF Reasons
  <2> QED BY <2>1 DEF ShouldRetrain, b
<1>10. CASE ~IsLegacy(baseline)
  <2>1. PICK r : r \in Growth(a, baseline, day)
    BY <1>10 DEF ShouldRetrain, Reasons, a
  <2>2. NewUsers(a, baseline) <= NewUsers(b, baseline)
        /\ NewUsers(a, baseline) \in Int /\ NewUsers(b, baseline) \in Int
    BY <1>6 DEF NewUsers, Baselines
  <2>3. NewFilms(a, baseline) <= NewFilms(b, baseline)
        /\ NewFilms(a, baseline) \in Int /\ NewFilms(b, baseline) \in Int
    <3> DEFINE A == IF baseline = NoBaseline THEN a.films ELSE a.films \ baseline.films
               B == IF baseline = NoBaseline THEN b.films ELSE b.films \ baseline.films
    <3>1. A \subseteq B /\ B \subseteq b.films
      BY <1>7
    <3>2. NewFilms(a, baseline) = Cardinality(A) /\ NewFilms(b, baseline) = Cardinality(B)
      BY DEF NewFilms
    <3> HIDE DEF A, B
    <3>3. IsFiniteSet(B)
      BY <1>7, <3>1, FS_Subset
    <3>4. IsFiniteSet(A) /\ Cardinality(A) <= Cardinality(B)
      BY <3>1, <3>3, FS_Subset
    <3> QED BY <3>2, <3>3, <3>4, FS_CardinalityType
  <2>4. baseline # NoBaseline => day - baseline.trained <= today - baseline.trained
    BY DEF Baselines
  <2>5. Growth(b, baseline, today) # {}
    <3>1. CASE r = "NEW_USERS_THRESHOLD"
      BY <1>8, <2>1, <2>2, <3>1 DEF Growth
    <3>2. CASE r = "NEW_FILMS_THRESHOLD"
      BY <1>8, <2>1, <2>3, <3>2 DEF Growth
    <3>3. CASE r = "MODEL_AGE_THRESHOLD"
      <4>1. baseline # NoBaseline /\ day - baseline.trained >= MaxModelAge
        BY <2>1, <3>3 DEF Growth
      <4>2. today - baseline.trained >= MaxModelAge
        BY <1>8, <2>4, <4>1 DEF Baselines
      <4> QED BY <4>1, <4>2 DEF Growth
    <3> QED BY <2>1, <3>1, <3>2, <3>3 DEF Growth
  <2> QED BY <1>10, <2>5 DEF ShouldRetrain, Reasons, b
<1> QED BY <1>9, <1>10
=============================================================================
