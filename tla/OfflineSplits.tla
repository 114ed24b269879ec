---------------------------- MODULE OfflineSplits ----------------------------
(* The leakage-safe splits of the offline benchmarks: the controlled CSV, the *)
(* two targets held out per user, the user folds and the positives hidden     *)
(* from a training user.                                                      *)
(*                                                                            *)
(* A history is a function from films to rating buckets 0 .. 9; an order is a *)
(* function from films or users to 1, 2, ...  A film row is its film id.      *)
EXTENDS FiniteSetsExt, Integers, Sequences

CONSTANTS
    FilmOf,        \* the catalog: slug -> film id
    Draw(_, _),    \* Draw(stream, n): the number below n a seeded stream yields
    FoldCount,     \* USER_FOLD_COUNT
    HoldoutLimit,  \* TRAINING_HOLDOUT_LIMIT
    NoTarget       \* no validation or test target

ASSUME SplitAssumption ==
    /\ FoldCount \in Nat \ {0} /\ HoldoutLimit \in Nat
    /\ NoTarget \notin Nat
    /\ \A slug \in DOMAIN FilmOf : FilmOf[slug] \in Nat \ {0}
    /\ \A s, t \in DOMAIN FilmOf : FilmOf[s] = FilmOf[t] => s = t

PositiveBucket == 6   \* POSITIVE_RATING_THRESHOLD, 3.5
CeilDiv(n, d) == (n + d - 1) \div d

Lower(s, t) == \E i \in DOMAIN s : /\ s[i] < t[i]
                                   /\ \A j \in 1 .. i - 1 : s[j] = t[j]

(* f itself, which TLC then evaluates once at every argument.                 *)
Table(f) == CHOOSE g \in {f} : g = f

Place(S, Ahead(_, _)) ==
    Table([x \in S |-> 1 + Cardinality({y \in S : y # x /\ Ahead(y, x)})])

Ascending(S) == Place(S, <)

(* A seeded permutation: a rotation of the ascending order.                   *)
Shuffled(stream, S) ==
    LET n == Cardinality(S)
        order == Ascending(S)
    IN  Table([x \in S |-> 1 + ((order[x] + Draw(stream, n)) % n)])

-----------------------------------------------------------------------------
(* load_historical_interactions.  A CSV row has a user, a slug and twice its  *)
(* rating.                                                                    *)

Resolved(table) == {i \in DOMAIN table : table[i].slug \in DOMAIN FilmOf}

SameFilm(table, i, j) == table[i].user = table[j].user /\ table[i].slug = table[j].slug

Loadable(table) ==
    /\ \A i \in DOMAIN table : table[i].rating \in 1 .. 10
    /\ Resolved(table) # {}
    /\ \A i, j \in Resolved(table) : SameFilm(table, i, j) => table[i].rating = table[j].rating

Loaded(table) ==
    LET of(u)  == {i \in Resolved(table) : table[i].user = u}
        bucket(u, f) == (CHOOSE r \in {table[i].rating : i \in {j \in of(u) : FilmOf[table[j].slug] = f}} : TRUE) - 1
    IN  Table([u \in {table[i].user : i \in Resolved(table)} |->
            Table([f \in {FilmOf[table[i].slug] : i \in of(u)} |-> bucket(u, f)])])

(* source_summary of the manifest and of the calibration report.              *)
Summary(table) ==
    LET data == Loaded(table) IN
    [csv_rows        |-> Cardinality(DOMAIN table),
     unresolved_rows |-> Cardinality(DOMAIN table \ Resolved(table)),
     duplicate_rows  |-> Cardinality(Resolved(table))
                         - MapThenSumSet(LAMBDA u : Cardinality(DOMAIN data[u]), DOMAIN data),
     unique_users    |-> Cardinality(DOMAIN data)]

Vocabulary(data) == UNION {DOMAIN data[u] : u \in DOMAIN data}

-----------------------------------------------------------------------------
(* build_interaction_splits.                                                  *)

Positives(history) == {f \in DOMAIN history : history[f] >= PositiveBucket}

Label(bucket) == CASE bucket < 6 -> 0
                   [] bucket = 6 -> 1
                   [] bucket = 7 -> 2
                   [] OTHER -> 3

Split(seed, u, history) ==
    LET positives == Positives(history)
        order     == Shuffled(<<seed, u, 0>>, positives)
        at(n)     == IF Cardinality(positives) >= 3
                     THEN CHOOSE f \in positives : order[f] = n
                     ELSE NoTarget
    IN  [validation |-> at(1), test |-> at(2), all |-> history,
         training   |-> positives \ {at(1), at(2)},
         context    |-> Restrict(history, DOMAIN history \ {at(1), at(2)})]

Splits(seed, data) == Table([u \in DOMAIN data |-> Split(seed, u, data[u])])

Canonical(split) == {split.validation, split.test} \ {NoTarget}

-----------------------------------------------------------------------------
(* build_user_folds.                                                          *)

PopularFirst(count) ==
    Place(DOMAIN count, LAMBDA f, g : Lower(<<-count[f], f>>, <<-count[g], g>>))

Strata(count) ==
    LET n == Cardinality(DOMAIN count)
        order == PopularFirst(count)
    IN  Table([f \in DOMAIN count |->
            CASE order[f] <= CeilDiv(n, 10) -> "HEAD"
              [] order[f] > CeilDiv(n, 10) /\ order[f] <= CeilDiv(n, 2) -> "MID"
              [] OTHER -> "TAIL"])

(* np.quantile at 25, 50 and 75 percent, times four.                          *)
Quartiles(depth) ==
    LET n     == Cardinality(DOMAIN depth)
        order == Place(DOMAIN depth, LAMBDA u, v : Lower(<<depth[u], u>>, <<depth[v], v>>))
        nth(i) == depth[CHOOSE u \in DOMAIN depth : order[u] = Min({i, n - 1}) + 1]
    IN  Table([q \in 1 .. 3 |->
            LET low == (q * (n - 1)) \div 4
                part == (q * (n - 1)) % 4
            IN  4 * nth(low) + part * (nth(low + 1) - nth(low))])

DepthBucket(quartiles, depth) == Cardinality({q \in 1 .. 3 : quartiles[q] <= 4 * depth})

StratumOrder == [HEAD |-> 1, MID |-> 2, NONE |-> 3, TAIL |-> 4]

StratumOf(strata, target) == IF target = NoTarget THEN "NONE" ELSE strata[target]

TrainingPositiveCounts(splits, films) ==
    Table([f \in films |-> Cardinality({u \in DOMAIN splits : f \in splits[u].training})])

(* Users with the same key are dealt to the folds in turn, from a drawn start. *)
Dealt(seed, key, keys) ==
    LET index     == Place(keys, Lower)
        group(u)  == {v \in DOMAIN key : key[v] = key[u]}
        stream(u) == <<seed, index[key[u]] - 1, Cardinality(group(u))>>
    IN  Table([u \in DOMAIN key |->
            (Shuffled(stream(u), group(u))[u] - 1 + Draw(Append(stream(u), 1), FoldCount)) % FoldCount])

FoldKeys(splits, strata, quartiles) ==
    Table([u \in DOMAIN splits |-> <<DepthBucket(quartiles, Cardinality(DOMAIN splits[u].context)),
                                     StratumOrder[StratumOf(strata, splits[u].test)]>>])

KeysOf(splits, films) ==
    FoldKeys(splits, Strata(TrainingPositiveCounts(splits, films)),
             Quartiles(Table([u \in DOMAIN splits |-> Cardinality(DOMAIN splits[u].context)])))

DealtByKey(seed, key) == Dealt(seed, key, {key[u] : u \in DOMAIN key})

Folds(seed, splits, films) == DealtByKey(seed, KeysOf(splits, films))

UsersOf(folds, fold) == {u \in DOMAIN folds : folds[u] = fold}

ValidationFold(fold) == (fold + 1) % FoldCount

(* UserFoldAssignment.partitions                                              *)
Partition(folds, fold) ==
    LET test       == UsersOf(folds, fold)
        validation == UsersOf(folds, ValidationFold(fold))
    IN  [train |-> DOMAIN folds \ (test \cup validation), validation |-> validation, test |-> test]

-----------------------------------------------------------------------------
(* select_ranker_training_holdouts: the shuffled positives of every label are *)
(* popped from the end, labels 1, 2 and 3 in turn.                            *)

HeldOut(seed, u, split, films) ==
    LET label   == [f \in films |-> Label(split.context[f])]
        alike(f) == {g \in films : label[g] = label[f]}
        round   == Table([f \in films |->
                       Cardinality(alike(f)) - Shuffled(<<seed, u, label[f]>>, alike(f))[f]])
        turn    == Place(films, LAMBDA f, g : Lower(<<round[f], label[f]>>, <<round[g], label[g]>>))
    IN  {f \in films : turn[f] <= HoldoutLimit}

HiddenFrom(split, hidden) ==
    [label   |-> [f \in hidden |-> Label(split.context[f])],
     context |-> Restrict(split.context, DOMAIN split.context \ hidden)]

HoldoutsSeen(seed, u, split) ==   \* mutant of Holdouts
    [HiddenFrom(split, HeldOut(seed, u, split, Positives(split.context)))
        EXCEPT !.context = split.context]

Holdouts(seed, u, split) ==
    HiddenFrom(split, HeldOut(seed, u, split, Positives(split.context)))
=============================================================================
