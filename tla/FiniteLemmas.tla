---------------------------- MODULE FiniteLemmas ----------------------------
(* Facts about finite sets, orders on them and sums over them, cited by the  *)
(* proofs of several modules.                                                *)
(*                                                                           *)
(* The induction theorems of the library take an operator, which the provers *)
(* cannot instantiate.  A least counterexample does without one: suppose the *)
(* set of the numbers for which a fact fails is not empty, take its least    *)
(* element, and derive a contradiction.                                      *)
EXTENDS FiniteSetsExt, FiniteSetTheorems, TLAPS

-----------------------------------------------------------------------------
(* Least and greatest elements.                                              *)

LEMMA LeastOf ==
    ASSUME NEW T, T \subseteq Nat, T # {}
    PROVE  \E n \in T : \A m \in T : n <= m
<1> DEFINE Upto(n) == 1 .. n
           S == {Upto(n) : n \in T}
           R == StrictSubsetOrdering(Nat)
<1>1. \A n \in T : Upto(n) \in SUBSET Nat /\ IsFiniteSet(Upto(n))
  BY FS_Interval
<1>2. S \subseteq FiniteSubsetsOf(Nat) /\ S # {}
  BY <1>1 DEF FiniteSubsetsOf
<1>3. IsWellFoundedOn(R, FiniteSubsetsOf(Nat))
  BY FS_StrictSubsetOrderingWellFounded
<1>4. PICK x \in S : \A y \in S : <<y, x>> \notin R
  BY <1>2, <1>3, WFMin
<1>5. PICK n \in T : x = Upto(n)
  BY <1>4
<1>6. ASSUME NEW m \in T, m < n PROVE FALSE
  <2>1. Upto(m) \subseteq Upto(n) /\ Upto(m) # Upto(n)
    <3>1. m \in Nat /\ n \in Nat /\ n \in Upto(n) /\ n \notin Upto(m)
      BY <1>6
    <3> QED BY <3>1, <1>6
  <2>2. <<Upto(m), Upto(n)>> \in R
    BY <2>1, <1>1, <1>6, <1>5 DEF StrictSubsetOrdering
  <2> QED BY <2>2, <1>4, <1>5
<1>7. \A m \in T : n <= m
  BY <1>6
<1> QED BY <1>7

LEMMA GreatestOf ==
    ASSUME NEW b \in Int, NEW T, T \subseteq Int, T # {}, \A m \in T : m <= b
    PROVE  \E n \in T : \A m \in T : m <= n
<1> DEFINE S == {b - m : m \in T}
<1>1. S \subseteq Nat /\ S # {}
  <2>1. \A m \in T : b - m \in Nat
    OBVIOUS
  <2> QED BY <2>1
<1>2. PICK d \in S : \A e \in S : d <= e
  BY <1>1, LeastOf
<1>3. PICK n \in T : d = b - n
  BY <1>2
<1>4. ASSUME NEW m \in T PROVE m <= n
  BY <1>2, <1>3, <1>4
<1> QED BY <1>4

LEMMA ImageFinite ==
    ASSUME NEW S, IsFiniteSet(S), NEW f, S \subseteq DOMAIN f
    PROVE  IsFiniteSet({f[x] : x \in S})
<1> DEFINE T == {f[x] : x \in S}
           g == [x \in S |-> f[x]]
<1>1. g \in Surjection(S, T)
  BY DEF Surjection
<1> QED BY <1>1, FS_Surjection

-----------------------------------------------------------------------------
(* Place numbers a finite set in a strict total order.                       *)

Before(S, R, x) == {y \in S : <<y, x>> \in R}

StrictOrder(S, R) ==
    /\ \A x \in S : <<x, x>> \notin R
    /\ \A x, y, z \in S : <<x, y>> \in R /\ <<y, z>> \in R => <<x, z>> \in R
    /\ \A x, y \in S : x # y => <<x, y>> \in R \/ <<y, x>> \in R

LEMMA PlaceOrders ==
    ASSUME NEW S, IsFiniteSet(S), NEW R, StrictOrder(S, R),
           NEW r, r = [x \in S |-> 1 + Cardinality(Before(S, R, x))]
    PROVE  /\ r \in [S -> 1 .. Cardinality(S)]
           /\ \A x, y \in S : <<x, y>> \in R <=> r[x] < r[y]
           /\ \A i \in 1 .. Cardinality(S) : \E x \in S : r[x] = i
<1>1. ASSUME NEW x \in S
      PROVE  /\ IsFiniteSet(Before(S, R, x)) /\ Cardinality(Before(S, R, x)) \in Nat
             /\ Cardinality(Before(S, R, x)) < Cardinality(S)
  <2>1. Before(S, R, x) \subseteq S \ {x}
    BY DEF Before, StrictOrder
  <2>2. /\ IsFiniteSet(S \ {x}) /\ Cardinality(S \ {x}) = Cardinality(S) - 1
        /\ Cardinality(S) \in Nat
    BY FS_RemoveElement, FS_CardinalityType
  <2>3. IsFiniteSet(Before(S, R, x)) /\ Cardinality(Before(S, R, x)) <= Cardinality(S) - 1
    BY <2>1, <2>2, FS_Subset
  <2> QED BY <2>2, <2>3, FS_CardinalityType
<1>2. ASSUME NEW x \in S, NEW y \in S, <<x, y>> \in R
      PROVE  Cardinality(Before(S, R, x)) < Cardinality(Before(S, R, y))
  <2>1. Before(S, R, x) \subseteq Before(S, R, y)
    BY <1>2 DEF Before, StrictOrder
  <2>2. x \in Before(S, R, y) /\ x \notin Before(S, R, x)
    BY <1>2 DEF Before, StrictOrder
  <2>3. /\ Cardinality(Before(S, R, x)) <= Cardinality(Before(S, R, y))
        /\ Cardinality(Before(S, R, x)) # Cardinality(Before(S, R, y))
    BY <1>1, <2>1, <2>2, FS_Subset
  <2> QED BY <1>1, <2>3
<1>3. r \in [S -> 1 .. Cardinality(S)]
  <2>1. \A x \in S : 1 + Cardinality(Before(S, R, x)) \in 1 .. Cardinality(S)
    BY <1>1, FS_CardinalityType
  <2> QED BY <2>1
<1>4. \A x, y \in S : <<x, y>> \in R <=> r[x] < r[y]
  <2> TAKE x, y \in S
  <2>1. r[x] = 1 + Cardinality(Before(S, R, x)) /\ r[y] = 1 + Cardinality(Before(S, R, y))
    OBVIOUS
  <2>2. CASE <<x, y>> \in R
    BY <1>1, <1>2, <2>1, <2>2
  <2>3. CASE x = y
    BY <1>1, <2>1, <2>3 DEF StrictOrder
  <2>4. CASE <<y, x>> \in R
    <3>1. Cardinality(Before(S, R, y)) < Cardinality(Before(S, R, x))
      BY <1>2, <2>4
    <3>2. <<x, y>> \notin R
      BY <2>4 DEF StrictOrder
    <3> QED BY <1>1, <2>1, <3>1, <3>2
  <2> QED BY <2>2, <2>3, <2>4 DEF StrictOrder
<1>5. r \in Injection(S, 1 .. Cardinality(S))
  <2>1. \A x, y \in S : r[x] = r[y] => x = y
    <3> SUFFICES ASSUME NEW x \in S, NEW y \in S, r[x] = r[y], x # y PROVE FALSE
      OBVIOUS
    <3>1. r[x] < r[y] \/ r[y] < r[x]
      BY <1>4 DEF StrictOrder
    <3>2. r[x] \in Int /\ r[y] \in Int
      BY <1>3
    <3> QED BY <3>1, <3>2
  <2> QED BY <1>3, <2>1 DEF Injection, IsInjective
<1>6. r \in Surjection(S, 1 .. Cardinality(S))
  <2>1. Cardinality(S) \in Nat
    BY FS_CardinalityType
  <2>2. IsFiniteSet(1 .. Cardinality(S)) /\ Cardinality(1 .. Cardinality(S)) = Cardinality(S)
    BY <2>1, FS_Interval
  <2> QED BY <1>5, <2>2, FS_Injection
<1>7. \A i \in 1 .. Cardinality(S) : \E x \in S : r[x] = i
  BY <1>6 DEF Surjection
<1> QED BY <1>3, <1>4, <1>7

-----------------------------------------------------------------------------
(* Numberings of a finite set.  A rotation of one loses nothing.             *)

LEMMA Multiple ==
    ASSUME NEW n \in Nat \ {0}, NEW k \in Nat \ {0}
    PROVE  n * k >= n
OBVIOUS

LEMMA SameRemainder ==
    ASSUME NEW n \in Nat \ {0}, NEW a \in Int, NEW b \in Int, a <= b, b - a < n, a % n = b % n
    PROVE  a = b
<1> DEFINE p == a \div n
           q == b \div n
<1>1. p \in Int /\ q \in Int /\ a = n * p + (a % n) /\ b = n * q + (b % n)
  OBVIOUS
<1> HIDE DEF p, q
<1>2. b - a = n * (q - p)
  BY <1>1
<1>3. CASE q - p >= 1
  <2>1. n * (q - p) >= n
    BY <1>1, <1>3, Multiple
  <2> QED BY <2>1, <1>2
<1>4. CASE q - p <= -1
  <2>1. n * (p - q) >= n
    BY <1>1, <1>4, Multiple
  <2>2. n * (p - q) = a - b
    BY <1>1
  <2> QED BY <2>1, <2>2
<1>5. CASE q - p = 0
  BY <1>1, <1>5
<1> QED BY <1>1, <1>3, <1>4, <1>5

LEMMA SameTurn ==
    ASSUME NEW n \in Nat \ {0}, NEW d \in Int, NEW p \in 1 .. n, NEW q \in 1 .. n,
           (p + d) % n = (q + d) % n
    PROVE  p = q
<1>1. PICK a \in Int : a = p + d
  OBVIOUS
<1>2. PICK b \in Int : b = q + d
  OBVIOUS
<1>3. a % n = b % n
  BY <1>1, <1>2
<1>4. a - b < n /\ b - a < n
  BY <1>1, <1>2
<1>5. CASE a <= b
  <2>1. a = b
    BY <1>3, <1>4, <1>5, SameRemainder
  <2> QED BY <1>1, <1>2, <2>1
<1>6. CASE b <= a
  <2>1. b = a
    BY <1>3, <1>4, <1>6, SameRemainder
  <2> QED BY <1>1, <1>2, <2>1
<1> QED BY <1>5, <1>6

(* r numbers the elements of S.                                              *)
Numbers(S, r) ==
    /\ r \in [S -> 1 .. Cardinality(S)]
    /\ \A x, y \in S : r[x] = r[y] => x = y
    /\ \A i \in 1 .. Cardinality(S) : \E x \in S : r[x] = i

LEMMA Numbered ==
    ASSUME NEW S, IsFiniteSet(S), NEW r \in [S -> 1 .. Cardinality(S)],
           \A x, y \in S : r[x] = r[y] => x = y
    PROVE  Numbers(S, r)
<1> DEFINE n == Cardinality(S)
<1>1. n \in Nat
  BY FS_CardinalityType
<1>2. r \in Injection(S, 1 .. n)
  BY DEF Injection, IsInjective
<1>3. IsFiniteSet(1 .. n) /\ Cardinality(1 .. n) = n
  BY <1>1, FS_Interval
<1>4. r \in Surjection(S, 1 .. n)
  BY <1>2, <1>3, FS_Injection
<1> QED BY <1>4 DEF Surjection, Numbers

LEMMA PlaceNumbers ==
    ASSUME NEW S, IsFiniteSet(S), NEW R, StrictOrder(S, R),
           NEW r, r = [x \in S |-> 1 + Cardinality(Before(S, R, x))]
    PROVE  Numbers(S, r)
<1>1. /\ r \in [S -> 1 .. Cardinality(S)]
      /\ \A x, y \in S : <<x, y>> \in R <=> r[x] < r[y]
      /\ \A i \in 1 .. Cardinality(S) : \E x \in S : r[x] = i
  BY PlaceOrders
<1>2. ASSUME NEW x \in S, NEW y \in S, r[x] = r[y] PROVE x = y
  <2>1. r[x] \in Int /\ r[y] \in Int
    BY <1>1
  <2>2. <<x, y>> \notin R /\ <<y, x>> \notin R
    BY <1>1, <1>2, <2>1
  <2> QED BY <2>2 DEF StrictOrder
<1> QED BY <1>1, <1>2 DEF Numbers

(* How many elements have a number up to k.                                  *)
LEMMA CountUpTo ==
    ASSUME NEW S, IsFiniteSet(S), NEW r, Numbers(S, r), NEW k \in Nat
    PROVE  Cardinality({x \in S : r[x] <= k})
               = IF k <= Cardinality(S) THEN k ELSE Cardinality(S)
<1> DEFINE n == Cardinality(S)
           m == IF k <= n THEN k ELSE n
           T == {x \in S : r[x] <= k}
           g == [x \in T |-> r[x]]
<1>1. n \in Nat /\ m \in Nat /\ m <= n /\ m <= k
  BY FS_CardinalityType
<1>2. \A x \in S : r[x] \in 1 .. n
  BY DEF Numbers
<1>3. \A x \in S : x \in T <=> r[x] \in 1 .. m
  BY <1>1, <1>2
<1>4. \A i \in 1 .. m : \E x \in S : r[x] = i
  BY <1>1 DEF Numbers
<1> HIDE DEF m, T
<1>5. g \in Bijection(T, 1 .. m)
  <2>1. T \subseteq S
    BY DEF T
  <2>2. g \in [T -> 1 .. m]
    BY <1>3, <2>1
  <2>3. \A x, y \in T : g[x] = g[y] => x = y
    BY <2>1 DEF Numbers
  <2>4. \A i \in 1 .. m : \E x \in T : g[x] = i
    BY <1>3, <1>4, <2>1
  <2> QED BY <2>2, <2>3, <2>4, Zenon DEF Bijection, Injection, Surjection, IsInjective
<1>6. IsFiniteSet(1 .. m) /\ Cardinality(1 .. m) = m
  BY <1>1, FS_Interval
<1>7. Cardinality(T) = m
  BY <1>5, <1>6, FS_Injection DEF Bijection
<1> QED BY <1>7 DEF T, m

(* Of the first k + |E| elements at least k, or all there are, are not in E. *)
LEMMA LeftOf ==
    ASSUME NEW A, IsFiniteSet(A), NEW r, Numbers(A, r), NEW E, IsFiniteSet(E), NEW k \in Nat,
           NEW T, T = {x \in A \ E : r[x] <= k + Cardinality(E)}
    PROVE  Cardinality(T) >= k \/ T = A \ E
<1> DEFINE n == Cardinality(A)
           c == Cardinality(E)
           U == {x \in A : r[x] <= k + c}
<1>1. n \in Nat /\ c \in Nat /\ k + c \in Nat
  BY FS_CardinalityType
<1>2. \A x \in A : r[x] \in 1 .. n
  BY DEF Numbers
<1>3. CASE n <= k + c
  <2>1. \A x \in A : r[x] <= k + c
    BY <1>1, <1>2, <1>3
  <2> QED BY <2>1
<1>4. CASE k + c < n
  <2>1. Cardinality(U) = k + c
    <3> HIDE DEF n, c
    <3>1. ~(n < k + c) /\ k + c <= n
      BY <1>1, <1>4
    <3> QED BY <1>1, <3>1, CountUpTo DEF n
  <2>2. IsFiniteSet(T) /\ IsFiniteSet(U)
    BY FS_Subset
  <2>3. U \subseteq T \cup E
    OBVIOUS
  <2>4. /\ IsFiniteSet(T \cup E) /\ Cardinality(U) <= Cardinality(T \cup E)
        /\ Cardinality(T \cup E) = Cardinality(T) + c - Cardinality(T \cap E)
    BY <2>2, <2>3, FS_Union, FS_Subset
  <2>5. Cardinality(T) \in Nat /\ Cardinality(T \cap E) \in Nat
    BY <2>2, FS_Intersection, FS_CardinalityType
  <2> HIDE DEF n, c, U
  <2> QED BY <1>1, <2>1, <2>4, <2>5
<1> QED BY <1>1, <1>3, <1>4

LEMMA DisjointUnion ==
    ASSUME NEW S, IsFiniteSet(S), NEW T, IsFiniteSet(T), S \cap T = {}
    PROVE  Cardinality(S \cup T) = Cardinality(S) + Cardinality(T)
<1>1. Cardinality(S \cap T) = 0
  BY FS_EmptySet
<1>2. Cardinality(S \cup T) = Cardinality(S) + Cardinality(T) - Cardinality(S \cap T)
  BY FS_Union
<1>3. Cardinality(S) \in Nat /\ Cardinality(T) \in Nat
  BY FS_CardinalityType
<1> QED BY <1>1, <1>2, <1>3

LEMMA MinOfTwo ==
    ASSUME NEW a \in Int, NEW b \in Int
    PROVE  Min({a, b}) = IF a <= b THEN a ELSE b
BY DEF Min

LEMMA MaxOfTwo ==
    ASSUME NEW a \in Int, NEW b \in Int
    PROVE  Max({a, b}) = IF a >= b THEN a ELSE b
BY DEF Max

(* A numbering of S turned by d is a numbering of S.                         *)
LEMMA Rotates ==
    ASSUME NEW S, IsFiniteSet(S), NEW d \in Int, NEW order, Numbers(S, order),
           NEW turned, turned = [x \in S |-> 1 + ((order[x] + d) % Cardinality(S))]
    PROVE  Numbers(S, turned)
<1> DEFINE n == Cardinality(S)
<1>1. /\ n \in Nat /\ order \in [S -> 1 .. n] /\ \A x \in S : order[x] \in 1 .. n
      /\ \A x, y \in S : order[x] = order[y] => x = y
  BY FS_CardinalityType DEF Numbers
<1>2. \A x \in S : turned[x] = 1 + ((order[x] + d) % n)
  OBVIOUS
<1> HIDE DEF n
<1>3. ASSUME NEW x \in S PROVE n \in Nat \ {0} /\ turned[x] \in 1 .. n
  <2>1. n \in Nat \ {0} /\ order[x] \in 1 .. n /\ order[x] + d \in Int
    BY <1>1
  <2>2. (order[x] + d) % n \in 0 .. n - 1
    BY <2>1
  <2> QED BY <1>2, <2>1, <2>2
<1>4. turned \in [S -> 1 .. n]
  BY <1>3
<1>5. ASSUME NEW x \in S, NEW y \in S, turned[x] = turned[y] PROVE x = y
  <2> DEFINE ox == order[x]
             oy == order[y]
  <2>1. n \in Nat \ {0} /\ ox \in 1 .. n /\ oy \in 1 .. n
    BY <1>1, <1>3
  <2>2. 1 + ((ox + d) % n) = 1 + ((oy + d) % n)
    BY <1>2, <1>5
  <2> HIDE DEF ox, oy
  <2>3. (ox + d) % n = (oy + d) % n
    <3>1. (ox + d) % n \in Int /\ (oy + d) % n \in Int
      BY <2>1
    <3> QED BY <2>2, <3>1
  <2>4. ox = oy
    BY <2>1, <2>3, SameTurn
  <2> QED BY <1>1, <2>4 DEF ox, oy
<1> QED BY <1>4, <1>5, Numbered DEF n

-----------------------------------------------------------------------------
(* Sums over a finite set.  The library's MapThenSumSet takes an operator    *)
(* and is defined by a recursive function g on the subsets of S; here the    *)
(* summands are a function f, and Totals is the equation of that function.   *)

Picked(T) == CHOOSE x \in T : TRUE

Totals(f, S, g) ==
    g = [T \in SUBSET S |-> IF T = {} THEN 0 ELSE f[Picked(T)] + g[T \ {Picked(T)}]]

Total(f, S) == (CHOOSE g : Totals(f, S, g))[S]

(* The subsets of at most n elements.                                        *)
UpTo(S, n) == {T \in SUBSET S : Cardinality(T) <= n}

LEMMA FewerPicked ==
    ASSUME NEW S, IsFiniteSet(S), NEW T \in SUBSET S, T # {}
    PROVE  /\ Picked(T) \in T /\ T \ {Picked(T)} \in SUBSET S
           /\ Cardinality(T) \in Nat \ {0}
           /\ Cardinality(T \ {Picked(T)}) = Cardinality(T) - 1
<1>1. Picked(T) \in T
  BY DEF Picked
<1>2. IsFiniteSet(T)
  BY FS_Subset
<1> QED BY <1>1, <1>2, FS_RemoveElement, FS_CardinalityType, FS_EmptySet

(* A total exists: on the subsets of at most n elements, for every n.        *)
TotalUpTo(f, S, n) ==
    \E g \in [UpTo(S, n) -> Int] : \A T \in UpTo(S, n) :
        g[T] = IF T = {} THEN 0 ELSE f[Picked(T)] + g[T \ {Picked(T)}]

LEMMA PartialTotal ==
    ASSUME NEW S, IsFiniteSet(S), NEW f \in [S -> Int], NEW n \in Nat
    PROVE  TotalUpTo(f, S, n)
<1> DEFINE Fails == {m \in Nat : ~TotalUpTo(f, S, m)}
<1>1. SUFFICES ASSUME Fails # {} PROVE FALSE
  OBVIOUS
<1>2. PICK m \in Fails : \A k \in Fails : m <= k
  <2>1. Fails \subseteq Nat
    OBVIOUS
  <2> HIDE DEF Fails
  <2> QED BY <1>1, <2>1, LeastOf
<1>3. CASE m = 0
  <2> DEFINE g == [T \in UpTo(S, 0) |-> 0]
  <2>1. ASSUME NEW T \in UpTo(S, 0) PROVE T = {}
    <3>1. T \in SUBSET S /\ Cardinality(T) <= 0
      BY DEF UpTo
    <3>2. SUFFICES ASSUME T # {} PROVE FALSE
      OBVIOUS
    <3>3. Cardinality(T) \in Nat \ {0}
      BY <3>1, <3>2, FewerPicked
    <3> QED BY <3>1, <3>3
  <2>2. g \in [UpTo(S, 0) -> Int]
    OBVIOUS
  <2>3. TotalUpTo(f, S, 0)
    BY <2>1, <2>2 DEF TotalUpTo
  <2> QED BY <1>3, <2>3
<1>4. CASE m # 0
  <2>1. m - 1 \in Nat /\ m - 1 \notin Fails
    <3>1. m \in Nat
      OBVIOUS
    <3> HIDE DEF Fails
    <3> QED BY <1>2, <1>4, <3>1
  <2>2. PICK h \in [UpTo(S, m - 1) -> Int] : \A T \in UpTo(S, m - 1) :
            h[T] = IF T = {} THEN 0 ELSE f[Picked(T)] + h[T \ {Picked(T)}]
    BY <2>1 DEF TotalUpTo
  <2> DEFINE g == [T \in UpTo(S, m) |->
                      IF T = {} THEN 0 ELSE f[Picked(T)] + h[T \ {Picked(T)}]]
  <2>3. ASSUME NEW T \in UpTo(S, m), T # {}
        PROVE  Picked(T) \in S /\ T \ {Picked(T)} \in UpTo(S, m - 1)
    <3>1. /\ Picked(T) \in T /\ T \ {Picked(T)} \in SUBSET S /\ T \in SUBSET S
          /\ Cardinality(T) \in Nat /\ Cardinality(T) <= m
          /\ Cardinality(T \ {Picked(T)}) = Cardinality(T) - 1
      BY <2>3, FewerPicked DEF UpTo
    <3> QED BY <1>2, <3>1 DEF UpTo
  <2>4. g \in [UpTo(S, m) -> Int]
    BY <2>2, <2>3
  <2>5. ASSUME NEW T \in UpTo(S, m), T \in UpTo(S, m - 1) PROVE g[T] = h[T]
    BY <2>2, <2>5
  <2>6. UpTo(S, m - 1) \subseteq UpTo(S, m)
    <3> SUFFICES ASSUME NEW T \in UpTo(S, m - 1) PROVE T \in UpTo(S, m)
      OBVIOUS
    <3>1. T \in SUBSET S /\ Cardinality(T) <= m - 1 /\ Cardinality(T) \in Nat
      BY FS_Subset, FS_CardinalityType DEF UpTo
    <3> QED BY <1>2, <3>1 DEF UpTo
  <2>7. \A T \in UpTo(S, m) : g[T] = IF T = {} THEN 0 ELSE f[Picked(T)] + g[T \ {Picked(T)}]
    BY <2>3, <2>5, <2>6
  <2>8. TotalUpTo(f, S, m)
    <3> HIDE DEF g
    <3> QED BY <2>4, <2>7 DEF TotalUpTo
  <2> QED BY <1>2, <2>8
<1> QED BY <1>3, <1>4

LEMMA TotalExists ==
    ASSUME NEW S, IsFiniteSet(S), NEW f \in [S -> Int]
    PROVE  \E g : Totals(f, S, g)
<1>1. Cardinality(S) \in Nat
  BY FS_CardinalityType
<1>2. UpTo(S, Cardinality(S)) = SUBSET S
  BY FS_Subset DEF UpTo
<1>3. PICK g \in [SUBSET S -> Int] : \A T \in SUBSET S :
          g[T] = IF T = {} THEN 0 ELSE f[Picked(T)] + g[T \ {Picked(T)}]
  <2>1. TotalUpTo(f, S, Cardinality(S))
    BY <1>1, PartialTotal
  <2> QED BY <1>2, <2>1 DEF TotalUpTo
<1>4. g = [T \in SUBSET S |-> IF T = {} THEN 0 ELSE f[Picked(T)] + g[T \ {Picked(T)}]]
  BY <1>3
<1> QED BY <1>4 DEF Totals

(* The chosen total satisfies the equation, and is an integer.               *)
LEMMA TotalIs ==
    ASSUME NEW S, IsFiniteSet(S), NEW f \in [S -> Int]
    PROVE  Totals(f, S, CHOOSE g : Totals(f, S, g))
BY TotalExists

LEMMA TotalType ==
    ASSUME NEW S, IsFiniteSet(S), NEW f \in [S -> Int], NEW g, Totals(f, S, g)
    PROVE  \A T \in SUBSET S : g[T] \in Int
<1> DEFINE Fails == {n \in Nat : \E T \in SUBSET S : Cardinality(T) = n /\ g[T] \notin Int}
<1>1. SUFFICES Fails = {}
  BY FS_Subset, FS_CardinalityType
<1>2. SUFFICES ASSUME Fails # {} PROVE FALSE
  OBVIOUS
<1>3. PICK n \in Fails : \A k \in Fails : n <= k
  <2>1. Fails \subseteq Nat
    OBVIOUS
  <2> HIDE DEF Fails
  <2> QED BY <1>2, <2>1, LeastOf
<1>4. PICK T \in SUBSET S : Cardinality(T) = n /\ g[T] \notin Int
  OBVIOUS
<1>5. g[T] = IF T = {} THEN 0 ELSE f[Picked(T)] + g[T \ {Picked(T)}]
  BY DEF Totals
<1>6. T # {}
  BY <1>4, <1>5
<1> DEFINE x == Picked(T)
           R == T \ {Picked(T)}
<1>7. /\ x \in S /\ R \in SUBSET S /\ n \in Nat \ {0} /\ Cardinality(R) = n - 1
  BY <1>4, <1>6, FewerPicked
<1>8. n - 1 \in Nat /\ n - 1 \notin Fails
  <2> HIDE DEF Fails, x, R
  <2> QED BY <1>3, <1>7
<1>9. g[R] \in Int
  <2> HIDE DEF x, R
  <2> QED BY <1>7, <1>8
<1>10. f[x] \in Int
  <2> HIDE DEF x, R
  <2> QED BY <1>7
<1> QED BY <1>4, <1>5, <1>6, <1>9, <1>10

(* The sizes of the classes of a finite set add up to its size.              *)
LEMMA ClassesAddUp ==
    ASSUME NEW U, IsFiniteSet(U), NEW class, DOMAIN class = U,
           NEW sizes, sizes = [n \in {class[u] : u \in U} |-> Cardinality({u \in U : class[u] = n})]
    PROVE  Total(sizes, DOMAIN sizes) = Cardinality(U)
<1> DEFINE N == DOMAIN sizes
           Of(T) == {u \in U : class[u] \in T}
           g == CHOOSE h : Totals(sizes, N, h)
           Fails == {n \in Nat : \E T \in SUBSET N : Cardinality(T) = n /\ g[T] # Cardinality(Of(T))}
<1>1. IsFiniteSet(N) /\ N = {class[u] : u \in U}
  BY ImageFinite
<1>2. sizes \in [N -> Int]
  <2>1. ASSUME NEW n \in N PROVE sizes[n] \in Int
    <3>1. sizes[n] = Cardinality({u \in U : class[u] = n})
      OBVIOUS
    <3>2. IsFiniteSet({u \in U : class[u] = n})
      BY FS_Subset
    <3> QED BY <3>1, <3>2, FS_CardinalityType
  <2>2. sizes = [n \in N |-> sizes[n]]
    OBVIOUS
  <2> QED BY <2>1, <2>2
<1>3. Totals(sizes, N, g)
  BY <1>1, <1>2, TotalIs
<1>4. \A T \in SUBSET N : g[T] = IF T = {} THEN 0 ELSE sizes[Picked(T)] + g[T \ {Picked(T)}]
  <2> HIDE DEF g, N
  <2> QED BY <1>3 DEF Totals
<1> HIDE DEF g
<1>5. \A T : IsFiniteSet(Of(T))
  BY FS_Subset
<1>6. ASSUME Fails # {} PROVE FALSE
  <2>1. PICK n \in Fails : \A k \in Fails : n <= k
    <3>1. Fails \subseteq Nat
      OBVIOUS
    <3> HIDE DEF Fails
    <3> QED BY <1>6, <3>1, LeastOf
  <2>2. PICK T \in SUBSET N : Cardinality(T) = n /\ g[T] # Cardinality(Of(T))
    OBVIOUS
  <2>3. T # {}
    <3>1. SUFFICES ASSUME T = {} PROVE FALSE
      OBVIOUS
    <3>2. Of(T) = {} /\ g[T] = 0
      BY <1>4, <3>1
    <3> QED BY <2>2, <3>2, FS_EmptySet
  <2> DEFINE x == Picked(T)
             R == T \ {Picked(T)}
  <2>4. /\ x \in N /\ x \in T /\ R \in SUBSET N /\ n \in Nat \ {0} /\ Cardinality(R) = n - 1
    BY <1>1, <2>2, <2>3, FewerPicked
  <2>5. n - 1 \in Nat /\ n - 1 \notin Fails
    <3> HIDE DEF Fails, x, R
    <3> QED BY <2>1, <2>4
  <2>6. g[R] = Cardinality(Of(R))
    <3> HIDE DEF x, R, Of
    <3> QED BY <2>4, <2>5
  <2>7. g[T] = sizes[x] + g[R]
    BY <1>4, <2>3
  <2> DEFINE C == {u \in U : class[u] = x}
  <2>8. sizes[x] = Cardinality(C)
    <3> HIDE DEF x
    <3> QED BY <2>4
  <2>9. Of(T) = C \cup Of(R) /\ C \cap Of(R) = {}
    <3>1. \A y : y \in T <=> y = x \/ y \in R
      BY <2>4
    <3>2. x \notin R
      OBVIOUS
    <3> HIDE DEF x, R
    <3> QED BY <3>1, <3>2
  <2>10. IsFiniteSet(C)
    BY FS_Subset
  <2> HIDE DEF C, R, x, Of
  <2>11. Cardinality(Of(T)) = Cardinality(C) + Cardinality(Of(R))
    BY <1>5, <2>9, <2>10, DisjointUnion
  <2> QED BY <2>2, <2>6, <2>7, <2>8, <2>11
<1>7. g[N] = Cardinality(Of(N))
  <2>1. Cardinality(N) \in Nat /\ N \in SUBSET N
    BY <1>1, FS_CardinalityType
  <2> HIDE DEF N, Of
  <2> QED BY <1>6, <2>1
<1>8. Of(N) = U
  BY <1>1
<1> QED BY <1>7, <1>8 DEF Total, g

=============================================================================
