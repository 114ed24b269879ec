---------------------------- MODULE CategoryFeed ----------------------------
(* An API request for recommendations, of the categorized feed or of the     *)
(* legacy list, while imports commit to the user's history.  The feed reads  *)
(* the history once and then only computes: proposals, then their allocation *)
(* to rows, one film of one pass at a time.  The list reads twice.           *)
EXTENDS CategoryPolicy, Sequences

CONSTANTS
    Histories,   \* bound: the user's logs when the first request comes
    Watches,     \* bound: the watches an import may bring, film and rating
    Ties,        \* orders in which the index may return equal scores
    NoHistory,   \* no user row; nothing read
    NoRating,    \* the rating of a film that was only watched
    MaxImports   \* bound: commits while requests run

ASSUME BoundAssumption == MaxImports \in Nat

(* A user's ratings are of films he watched; some order breaks every tie.    *)
IsHistory(h) ==
    /\ IsFiniteSet(h.watched) /\ DOMAIN h.rating \subseteq h.watched
    /\ \A f \in DOMAIN h.rating : h.rating[f] \in Int

ASSUME RequestAssumption ==
    /\ \A h \in Histories : IsHistory(h)
    /\ \A w \in Watches : w.rating # NoRating => w.rating \in Int
    /\ \A tie \in Ties : /\ tie \in [Artifact -> Int]
                         /\ \A f, g \in Artifact : tie[f] = tie[g] => f = g

VARIABLES
    history,     \* the user's logs in PostgreSQL
    imports,     \* commits so far
    pc,          \* where the request is
    read,        \* the history the request has read
    inventory,   \* its ranked candidates
    remaining,   \* proposals that may still become rows
    rows,        \* the rows allocated
    draft,       \* the row being filled
    answer       \* the response: shelves of films

vars == <<history, imports, pc, read, inventory, remaining, rows, draft, answer>>

computed == <<inventory, remaining, rows, draft>>

Elements(s) == {s[i] : i \in DOMAIN s}

FocusedKeys == {"because_you_liked", "directors_you_love", "favorite_genre",
                "favorite_decade", "world_cinema", "classic_cinema"}

(* The keys in Python's string order.                                        *)
KeyOrder == <<"because_you_liked", "brazilian_cinema", "classic_cinema",
              "directors_you_love", "favorite_decade", "favorite_genre",
              "hidden_gems", "outside_usual", "top_picks", "world_cinema">>

RoleOrder == [sparse      |-> <<"cultural", "personalized", "discovery", "serendipity">>,
              established |-> <<"personalized", "discovery", "cultural", "serendipity">>,
              deep        |-> <<"discovery", "cultural", "serendipity", "personalized">>]

NoInventory == [svd |-> <<>>, popular |-> {}, rank |-> <<>>, positive |-> {}]

(* seen: the candidates this pass has come to.                               *)
Draft(p, pass, seen, films) ==
    [proposal |-> p, pass |-> pass, seen |-> seen, films |-> films]
NoDraft == Draft(Proposal("top_picks", "general", TRUE, 0, <<>>, 1), 0, {}, <<>>)

Init ==
    /\ history \in Histories \cup {NoHistory}
    /\ imports = 0
    /\ pc = "idle"
    /\ read = NoHistory
    /\ inventory = NoInventory
    /\ remaining = {} /\ rows = <<>> /\ draft = NoDraft
    /\ answer = <<>>

-----------------------------------------------------------------------------
(* sync_user_logs adds films and replaces ratings; it never removes a log.   *)
(* bound: a commit brings one watch.                                         *)
Logged(h, w) ==
    LET films == (DOMAIN h.rating \ {w.film}) \cup {f \in {w.film} : w.rating # NoRating}
    IN  [watched |-> h.watched \cup {w.film},
         rating  |-> [f \in films |-> IF f = w.film THEN w.rating ELSE h.rating[f]]]

ImportCommits ==
    /\ imports < MaxImports
    /\ \E w \in Watches :
           history' = Logged(IF history = NoHistory THEN [watched |-> {}, rating |-> <<>>]
                                                  ELSE history, w)
    /\ imports' = imports + 1
    /\ UNCHANGED <<pc, read, inventory, remaining, rows, draft, answer>>

-----------------------------------------------------------------------------
(* The categorized feed.                                                     *)

(* One outer join: the user, the watched films and their ratings.            *)
ReadHistory ==
    /\ pc = "idle" /\ history # NoHistory
    /\ pc' = "propose" /\ read' = history
    /\ UNCHANGED <<history, imports, computed, answer>>

UserNotFound ==
    /\ pc = "idle" /\ history = NoHistory
    /\ pc' = "answered"
    /\ UNCHANGED <<history, imports, read, computed, answer>>

(* generate_from_history raises if a watched film is among the candidates.   *)
Propose ==
    /\ pc = "propose"
    /\ \E tie \in Ties :
           LET ranked == Inventory(read, tie)
           IN  inventory' = ranked /\ remaining' = Proposals(ranked, read)
    /\ pc' = "allocate"
    /\ UNCHANGED <<history, imports, read, rows, draft, answer>>

TopSet(p) == {f \in DOMAIN p.order :
                 Cardinality({g \in DOMAIN p.order : p.order[g] < p.order[f]}) < p.maximum}

Appearances(f) == Cardinality({i \in DOMAIN rows : f \in Elements(rows[i].films)})

Reserved == {rows[1].films[i] :
                i \in {j \in DOMAIN rows[1].films : j <= Policy.top_picks_reserved}}

(* Top Picks comes first, whole; without it there is no feed.                *)
AllocateTopPicks ==
    /\ pc = "allocate" /\ rows = <<>>
    /\ \E top \in {p \in remaining : p.key = "top_picks"} :
           /\ rows' = <<[proposal |-> top,
                         films |-> [i \in 1 .. Cardinality(TopSet(top)) |->
                                       CHOOSE f \in TopSet(top) : top.order[f] = i]]>>
           /\ remaining' = remaining \ {top}
    /\ UNCHANGED <<history, imports, pc, read, inventory, draft, answer>>

Overlap(p, i) == Jaccard(TopSet(p), TopSet(rows[i].proposal))

MaxOverlap(p) ==
    CHOOSE x \in {Overlap(p, i) : i \in DOMAIN rows} :
        \A i \in DOMAIN rows : ~Below(x, Overlap(p, i))

Index(e, s) == CHOOSE i \in DOMAIN s : s[i] = e

(* _proposal_priority.  A union has no more films than the inventory, so the *)
(* square of that number keeps the order of two overlaps when rounded down.  *)
Priority(p) ==
    LET scale == Cardinality(DOMAIN inventory.rank) * Cardinality(DOMAIN inventory.rank)
    IN  <<Index(p.role, RoleOrder[HistoryBand(read)]),
          IF p.strong THEN 0 ELSE 1,
          -Cardinality({f \in TopSet(p) : Appearances(f) = 0}),
          (MaxOverlap(p).num * scale) \div MaxOverlap(p).den,
          -p.support,
          Index(p.key, KeyOrder)>>

NextProposal(p) == \A q \in remaining \ {p} : Lower(Priority(p), Priority(q))

MoreRowsByOne ==                                 \* mutant of MoreRows
    remaining # {} /\ Len(rows) <= Policy.maximum_categories

MoreRows == remaining # {} /\ Len(rows) < Policy.maximum_categories

RepeatsShelf(p) ==
    /\ 100 * MaxOverlap(p).num > Policy.category_overlap_percent * MaxOverlap(p).den
    /\ ~p.strong

PassOver ==
    /\ pc = "allocate" /\ rows # <<>> /\ MoreRows
    /\ \E p \in remaining : /\ NextProposal(p) /\ RepeatsShelf(p)
                            /\ remaining' = remaining \ {p}
    /\ UNCHANGED <<history, imports, pc, read, inventory, rows, draft, answer>>

StartRowKeeping ==                               \* mutant of StartRow
    /\ pc = "allocate" /\ rows # <<>> /\ MoreRows
    /\ \E p \in remaining : NextProposal(p) /\ ~RepeatsShelf(p) /\ draft' = Draft(p, 1, {}, <<>>)
    /\ pc' = "fill"
    /\ UNCHANGED <<history, imports, read, inventory, remaining, rows, answer>>

StartRow ==
    /\ pc = "allocate" /\ rows # <<>> /\ MoreRows
    /\ \E p \in remaining : /\ NextProposal(p) /\ ~RepeatsShelf(p)
                            /\ remaining' = remaining \ {p}
                            /\ draft' = Draft(p, 1, {}, <<>>)
    /\ pc' = "fill"
    /\ UNCHANGED <<history, imports, read, inventory, rows, answer>>

-----------------------------------------------------------------------------
(* _allocate_one: new films under every cap, then without the soft caps;     *)
(* then, for the focused categories, films shown once, again in both ways.   *)

Repeats(pass) == pass \in {3, 4}
Relaxed(pass) == pass \in {2, 4}

MayShowReserved(f, pass) ==                      \* mutant of MayShow
    IF Repeats(pass) THEN Appearances(f) \in 1 .. Policy.maximum_film_appearances - 1
                     ELSE Appearances(f) = 0

MayShow(f, pass) ==
    IF Repeats(pass) THEN /\ Appearances(f) \in 1 .. Policy.maximum_film_appearances - 1
                          /\ f \notin Reserved
                     ELSE Appearances(f) = 0

Sharing(films, family, e) ==
    Cardinality({g \in Elements(films) : e \in Entities(g, family)})

WithinCapByOne(f, films, family, cap) ==         \* mutant of WithinCap
    \A e \in Entities(f, family) : Sharing(films, family, e) <= cap

WithinCap(f, films, family, cap) ==
    \A e \in Entities(f, family) : Sharing(films, family, e) < cap

DirectorCap(p) == IF p.key = "directors_you_love" THEN Policy.director_film_cap
                                                  ELSE Policy.generic_director_cap

HardCaps(f, p, films) ==
    /\ f \in DOMAIN Catalog
    /\ f \in p.heads => Cardinality(Elements(films) \cap p.heads) < p.head_cap
    /\ WithinCap(f, films, "director", DirectorCap(p))
    /\ p.key = "world_cinema" => WithinCap(f, films, "country", Policy.world_country_cap)

SoftCaps(f, p, films) ==
    /\ p.key # "favorite_decade" => WithinCap(f, films, "decade", Policy.generic_decade_cap)
    /\ p.key # "favorite_genre" => WithinCap(f, films, "genre", Policy.generic_genre_cap)

PassesDiversity(f, p, films, relaxed) ==
    HardCaps(f, p, films) /\ (relaxed \/ SoftCaps(f, p, films))

Selectable(f) ==
    /\ f \notin Elements(draft.films)
    /\ MayShow(f, draft.pass)
    /\ PassesDiversity(f, draft.proposal, draft.films, Relaxed(draft.pass))

Unseen == DOMAIN draft.proposal.order \ draft.seen
Full   == Len(draft.films) >= draft.proposal.maximum

Scan ==
    /\ pc = "fill" /\ Unseen # {} /\ ~Full
    /\ \E f \in Unseen :
           /\ \A g \in Unseen : draft.proposal.order[f] <= draft.proposal.order[g]
           /\ draft' = Draft(draft.proposal, draft.pass, draft.seen \cup {f},
                             IF Selectable(f) THEN Append(draft.films, f) ELSE draft.films)
    /\ UNCHANGED <<history, imports, pc, read, inventory, remaining, rows, answer>>

PassDone == Unseen = {} \/ Full

ShortOfMaximum ==                                \* mutant of Short
    Len(draft.films) < draft.proposal.maximum

Short == Len(draft.films) < draft.proposal.minimum

LastPass == IF draft.proposal.key \in FocusedKeys THEN 4 ELSE 2

NextPass ==
    /\ pc = "fill" /\ PassDone /\ Short /\ draft.pass < LastPass
    /\ draft' = Draft(draft.proposal, draft.pass + 1, {}, draft.films)
    /\ UNCHANGED <<history, imports, pc, read, inventory, remaining, rows, answer>>

AddRow ==
    /\ pc = "fill" /\ PassDone /\ ~Short
    /\ rows' = Append(rows, [proposal |-> draft.proposal, films |-> draft.films])
    /\ pc' = "allocate" /\ draft' = NoDraft
    /\ UNCHANGED <<history, imports, read, inventory, remaining, answer>>

DropRow ==
    /\ pc = "fill" /\ PassDone /\ Short /\ draft.pass = LastPass
    /\ pc' = "allocate" /\ draft' = NoDraft
    /\ UNCHANGED <<history, imports, read, inventory, remaining, rows, answer>>

-----------------------------------------------------------------------------
(* What a sequence has at some of its positions, in order.                   *)
Subsequence(s, positions) ==
    LET place == Place(positions, LAMBDA i, j : i < j)
    IN  [n \in 1 .. Cardinality(positions) |-> s[CHOOSE i \in positions : place[i] = n]]

Among(films, known) == Subsequence(films, {i \in DOMAIN films : films[i] \in known})

Displayed(films) == Among(films, DOMAIN Catalog)

Shelf(key, films) == [key |-> key, films |-> films]

(* Films without metadata are left out, and the minimum is applied again.    *)
Materialize ==
    LET kept == Subsequence(rows, {i \in DOMAIN rows :
                    Len(Displayed(rows[i].films)) >= rows[i].proposal.minimum})
    IN  [i \in DOMAIN kept |-> Shelf(kept[i].proposal.key, Displayed(kept[i].films))]

TopPicksSettled == rows # <<>> \/ \A p \in remaining : p.key # "top_picks"

AnswerFeed ==
    /\ pc = "allocate" /\ TopPicksSettled
    /\ rows = <<>> \/ ~MoreRows
    /\ pc' = "answered" /\ answer' = Materialize
    /\ UNCHANGED <<history, imports, read, computed>>

-----------------------------------------------------------------------------
(* The legacy list: RecommendationService.recommend.  Its two reads are two  *)
(* statements of one READ COMMITTED session.                                 *)

ReadWatched ==
    /\ pc = "idle" /\ history # NoHistory /\ history.watched # {}
    /\ pc' = "read_rated"
    /\ read' = [watched |-> history.watched, rating |-> <<>>]
    /\ UNCHANGED <<history, imports, computed, answer>>

NoWatched ==
    /\ pc = "idle" /\ (history # NoHistory => history.watched = {})
    /\ pc' = "answered"
    /\ UNCHANGED <<history, imports, read, computed, answer>>

(* As many more neighbours are requested as indexed films were watched.      *)
Nearest(watched, weight, tie) ==
    LET top == Retrieve(weight, tie, watched,
                        Policy.retrieval_top_k + Cardinality(watched \cap Artifact),
                        Policy.retrieval_top_k)
    IN  [i \in 1 .. Cardinality(DOMAIN top) |-> CHOOSE f \in DOMAIN top : top[f] = i]

(* The list shows the films the database knows by now, the feed those it     *)
(* knew at startup: films are added and never removed.                       *)
AnswerList ==
    /\ pc = "read_rated"
    /\ read' = [read EXCEPT !.rating = history.rating]
    /\ \E tie \in Ties : \E since \in SUBSET (Artifact \ DOMAIN Catalog) :
           LET weight == MeanWeight(history)
               films  == Among(Nearest(read.watched, weight, tie), DOMAIN Catalog \cup since)
           IN  answer' = IF DOMAIN weight = {} THEN <<>>
                         ELSE <<Shelf("SVD_Mean_Pooling",
                                      SubSeq(films, 1, Min({Len(films), Policy.list_size})))>>
    /\ pc' = "answered"
    /\ UNCHANGED <<history, imports, computed>>

NextRequest ==
    /\ pc = "answered"
    /\ pc' = "idle" /\ read' = NoHistory /\ answer' = <<>>
    /\ inventory' = NoInventory /\ remaining' = {} /\ rows' = <<>> /\ draft' = NoDraft
    /\ UNCHANGED <<history, imports>>

-----------------------------------------------------------------------------
FeedStep == \/ Propose \/ AllocateTopPicks \/ PassOver \/ StartRow \/ Scan
            \/ NextPass \/ AddRow \/ DropRow \/ AnswerFeed

Next == \/ ImportCommits \/ ReadHistory \/ UserNotFound \/ FeedStep
        \/ ReadWatched \/ NoWatched \/ AnswerList \/ NextRequest

Spec == Init /\ [][Next]_vars

-----------------------------------------------------------------------------
TypeOK ==
    /\ imports \in 0 .. MaxImports
    /\ pc \in {"idle", "propose", "allocate", "fill", "read_rated", "answered"}
    /\ Len(rows) <= Policy.maximum_categories
    /\ draft.pass \in 0 .. 4

(* No film is shown in more rows than maximum_film_appearances: the count is *)
(* taken again for each row, over all rows before it.                        *)
ShownAtMost == \A f \in DOMAIN inventory.rank :
    Appearances(f) <= Policy.maximum_film_appearances

(* The leading Top Picks appear in no other row, in whatever pass it was     *)
(* filled.                                                                   *)
ReservedStayOnTop ==
    \A i \in DOMAIN rows \ {1} : Elements(rows[i].films) \cap Reserved = {}

(* A category outside _FOCUSED_REPEAT_KEYS shows only films no row above it  *)
(* shows.                                                                    *)
OnlyFocusedRowsRepeat ==
    \A i \in DOMAIN rows : \A j \in 1 .. i - 1 :
        Elements(rows[i].films) \cap Elements(rows[j].films) # {}
            => rows[i].proposal.key \in FocusedKeys

(* What may be shown twice, over all rows and passes.                        *)
RepeatsAllowed == ShownAtMost /\ ReservedStayOnTop /\ OnlyFocusedRowsRepeat

Varied(p, films) ==
    LET Most(family, cap) ==
            \A e \in UNION {Entities(f, family) : f \in films} :
                Cardinality({f \in films : e \in Entities(f, family)}) <= cap
    IN  /\ Most("director", DirectorCap(p))
        /\ p.key = "world_cinema" => Most("country", Policy.world_country_cap)
        /\ Cardinality(films \cap p.heads) <= p.head_cap

(* The hard caps hold of the finished row, whichever passes filled it.       *)
RowsVaried ==
    \A i \in DOMAIN rows \ {1} : Varied(rows[i].proposal, Elements(rows[i].films))

(* Repetition and the soft caps are given up only for a row that would       *)
(* otherwise miss its minimum: beyond its minimum a row has a repeated film, *)
(* or one over a soft cap, only if it has one within its minimum.            *)
RelaxedOnlyForMinimum ==
    \A i \in DOMAIN rows \ {1} :
        LET row == rows[i]
            Repeated(n) == \E j \in 1 .. i - 1 : row.films[n] \in Elements(rows[j].films)
            OverSoftCap(n) ==
                ~SoftCaps(row.films[n], row.proposal, SubSeq(row.films, 1, n - 1))
        IN  \A n \in row.proposal.minimum + 1 .. Len(row.films) :
                /\ Repeated(n) => \E m \in 1 .. row.proposal.minimum : Repeated(m)
                /\ OverSoftCap(n) => \E m \in 1 .. row.proposal.minimum : OverSoftCap(m)

NoLater(svd, popular, f, g) ==
    /\ g \in DOMAIN svd => f \in DOMAIN svd /\ svd[f] <= svd[g]
    /\ g \in popular => f \in popular /\ Popularity[f] <= Popularity[g]

(* A film that both sources rank at least as high as another comes first.    *)
FusionRespectsSources ==
    LET Ranked(f, g) == NoLater(inventory.svd, inventory.popular, f, g)
    IN  \A f, g \in DOMAIN inventory.rank :
            Ranked(f, g) /\ ~Ranked(g, f) => inventory.rank[f] < inventory.rank[g]

(* Exclusion shortens neither source: each gives its depth, or every         *)
(* unwatched film it knows.                                                  *)
SourcesAreFull ==
    pc = "allocate" =>
        /\ \/ DOMAIN inventory.svd = {} /\ ~ProfileAvailable(PositiveWeight(read))
           \/ Cardinality(DOMAIN inventory.svd)
                  = Min({Policy.svd_depth, Cardinality(Artifact \ read.watched)})
        /\ Cardinality(inventory.popular)
               = Min({Policy.popularity_depth,
                      Cardinality(DOMAIN Popularity \ read.watched)})

(* Every shelf of the response reaches its minimum and its maximum only, and *)
(* shows no film twice, none the user had watched in any commit before the   *)
(* request read and, in the feed, none without metadata.                     *)
Showable(key) == IF key = "SVD_Mean_Pooling" THEN Artifact ELSE DOMAIN Catalog

ShelvesWorthShowing ==
    pc = "answered" => \A i \in DOMAIN answer :
        LET films == answer[i].films
        IN  /\ Cardinality(Elements(films)) = Len(films)
            /\ Elements(films) \subseteq Showable(answer[i].key) \ read.watched
            /\ \A j \in DOMAIN rows : rows[j].proposal.key = answer[i].key =>
                   Len(films) \in rows[j].proposal.minimum .. rows[j].proposal.maximum

(* The allocation ends: each step uses up a proposal, a pass or a candidate. *)
Left == <<Cardinality(remaining), IF pc = "fill" THEN 1 ELSE 0,
          4 - draft.pass, Cardinality(Unseen)>>

AllocationEnds ==
    [][(pc \in {"allocate", "fill"}) => Lower(Left', Left)]_computed
=============================================================================
