-------------------------- MODULE IngestionProofs --------------------------
(* Safety of the ingestion transactions, for any number of imports, batches, *)
(* users and films.                                                          *)
(*                                                                           *)
(* A transaction acts on what it read, and others commit in between.  The    *)
(* invariant says what a read is still worth then: rows, logs and films are  *)
(* never removed, a user never changes, so what was seen to exist exists.    *)
EXTENDS Ingestion, FiniteSetTheorems, TLAPS

SeenSet == [known : SUBSET Slugs, logs : [Slugs -> Ratings \cup {NoLog}],
            queue : [Slugs -> Status \cup {"absent"}],
            rows : [RowSlot -> Row \cup {NoRow}]]

ImportSet == [pc : ImportPC, kind : {"profile", "export"}, user : Users,
              watches : Watches, newUser : BOOLEAN, seen : SeenSet]

BatchSet == [pc : BatchPC, todo : SUBSET Slugs, slug : Slugs \cup {NoSlug},
             status : Terminal, was : Status, rows : [Imports -> Ratings \cup {NoLog}],
             logged : SUBSET Users, inserted : BOOLEAN, lockless : BOOLEAN,
             beside : BOOLEAN]

AtFilm == {"mark", "mark_commit", "persist", "insert_film", "attach", "persist_commit"}

(* Some committed import of the user gave the film this rating.              *)
Given(u, s, r) == \E i \in Imports : /\ imp[i].pc = "done" /\ imp[i].user = u
                                     /\ s \in Watched(i) /\ imp[i].watches[s] = r

(* What the import record r has read is still worth.                         *)
SeenHolds(r) ==
    /\ r.seen.known \subseteq films
    /\ \A s \in Slugs : r.seen.logs[s] # NoLog => logs[r.user, s] # NoLog
    /\ \A j \in Imports, s \in Slugs : r.seen.rows[j, s] # NoRow =>
          imp[j].user = r.user /\ pending[j, s] # NoRow

(* An export goes through its transaction without an unknown film.           *)
ExportHolds(r) == r.kind = "export" =>
    /\ r.pc \notin {"idle", "inconsistent"}
    /\ DOMAIN r.watches \subseteq films
    /\ r.pc \in {"read_backlog", "commit"} => DOMAIN r.watches \subseteq r.seen.known

(* The rows and logs a batch record r has read are there, and the rows carry *)
(* ratings their users gave.                                                 *)
BatchHolds(r) ==
    /\ \A s \in r.todo : queue[s] # "absent"
    /\ r.pc \in AtFilm => r.slug \in Slugs /\ queue[r.slug] # "absent"
    /\ r.pc \notin AtFilm => r.rows = NoRows /\ r.logged = {}
    /\ \A j \in Imports : r.rows[j] # NoLog =>
          /\ r.slug \in Slugs /\ pending[j, r.slug] # NoRow
          /\ Given(imp[j].user, r.slug, r.rows[j])
    /\ \A u \in r.logged : r.slug \in Slugs /\ logs[u, r.slug] # NoLog

RowsByDone == \A i \in Imports, s \in Slugs : pending[i, s] # NoRow => imp[i].pc = "done"

RowsGiven == \A i \in Imports, s \in Slugs : pending[i, s] # NoRow =>
    Given(imp[i].user, s, pending[i, s].rating)

LogsGiven == \A u \in Users, s \in Slugs : HasLog(u, s) => Given(u, s, logs[u, s])

DoneKept == \A i \in Imports : imp[i].pc = "done" =>
    \A s \in Watched(i) : HasLog(imp[i].user, s) \/ Kept(imp[i].user, s)

ExportsLeaveNoRow == \A i \in Imports : imp[i].kind = "export" =>
    \A s \in Slugs : pending[i, s] = NoRow

ImportsHold == \A i \in Imports : SeenHolds(imp[i]) /\ ExportHolds(imp[i])
BatchesHold == \A b \in Batches : BatchHolds(batch[b])

TablesType == /\ films \subseteq Slugs /\ users \subseteq Users
              /\ logs \in [Users \X Slugs -> Ratings \cup {NoLog}]
              /\ queue \in [Slugs -> Status \cup {"absent"}]
              /\ backlog \in Seq(Slugs)
              /\ pending \in [RowSlot -> Row \cup {NoRow}]
RecordsType == /\ imp \in [Imports -> ImportSet] /\ batch \in [Batches -> BatchSet]
               /\ failures \in 0 .. MaxFailures

IInv == /\ TablesType /\ RecordsType
        /\ ProcessedHasFilm /\ ResolvedHasLog /\ DoneKept
        /\ RowsByDone /\ RowsGiven /\ LogsGiven /\ ExportsLeaveNoRow
        /\ ImportsHold /\ BatchesHold

-----------------------------------------------------------------------------
(* The data.                                                                 *)

LEMMA UnreadType == Unread \in SeenSet
  BY DEF Unread, SeenSet

(* Nothing read is nothing to rely on.                                       *)
LEMMA UnreadHolds == /\ Unread.known = {}
                     /\ \A s \in Slugs : Unread.logs[s] = NoLog
                     /\ \A j \in Imports, s \in Slugs : Unread.rows[j, s] = NoRow
  BY DEF Unread, RowSlot

LEMMA EmptyWatches == <<>> \in Watches
<1>1. <<>> \in [{} -> Ratings]
  OBVIOUS
<1> QED
  BY <1>1 DEF Watches

LEMMA WatchesDomain == ASSUME NEW w \in Watches PROVE DOMAIN w \subseteq Slugs
  BY DEF Watches

LEMMA RowSlots == ASSUME NEW x \in RowSlot PROVE \E j \in Imports, s \in Slugs : x = <<j, s>>
  BY DEF RowSlot

LEMMA LogSlots == ASSUME NEW x \in Users \X Slugs
                  PROVE  \E u \in Users, s \in Slugs : x = <<u, s>>
  OBVIOUS

(* The absent row is none of the rows, and no rating stands for an absent    *)
(* log.                                                                      *)
LEMMA Absent == ASSUME NEW row \in Row
                PROVE  row # NoRow /\ row.status \in Status /\ row.rating \in Ratings
                       /\ row.status # "absent"
  BY DEF Row, NoRow, Status

LEMMA NoRowIsAbsent == NoRow.status = "absent"
  BY DEF NoRow

LEMMA RatingIsLog == ASSUME NEW r \in Ratings PROVE r # NoLog
  BY IngestionAssumption

LEMMA TypesTogether == ASSUME TablesType, RecordsType PROVE TypeOK
  BY DEF TablesType, RecordsType, TypeOK, ImportSet, SeenSet, BatchSet

(* What an export resolves to are films of the catalog with ratings of the   *)
(* scale.                                                                    *)
LEMMA ProfileType ==
  ASSUME NEW archive, NEW F \in SUBSET Slugs, Accepted(archive)
  PROVE  Profile(archive, F) \in Watches /\ DOMAIN Profile(archive, F) \subseteq F
<1> DEFINE rows == WatchedRows(archive)
           rated == RatingRows(archive)
           matches == Resolved(F, rows)
           D == {x[2] : x \in matches}
<1>1. D \subseteq F
  <2>1. \A x \in matches : x[2] \in CatalogByYears(F, rows)
    BY DEF Resolved
  <2> QED
    BY <2>1 DEF CatalogByYears
<1>2. \A uri : RatingOf(uri, rated) \in Ratings
  <2> SUFFICES ASSUME NEW uri PROVE RatingOf(uri, rated) \in Ratings
    OBVIOUS
  <2>1. RatingsSound(rated)
    BY DEF Accepted
  <2> DEFINE at == {k \in DOMAIN rated : rated[k].uri = uri}
  <2>2. CASE at = {}
    BY <2>2 DEF RatingOf, Ratings
  <2>3. CASE at # {}
    <3>1. (CHOOSE k \in at : TRUE) \in at
      BY <2>3
    <3>2. rated[CHOOSE k \in at : TRUE].rating \in HalfStars
      BY <3>1, <2>1 DEF RatingsSound
    <3> QED
      BY <2>3, <3>2 DEF RatingOf, Ratings
  <2> QED
    BY <2>2, <2>3
<1>3. Profile(archive, F) \in [D -> Ratings]
  <2> HIDE DEF rated
  <2> QED
    BY <1>2 DEF Profile, rated
<1>4. DOMAIN Profile(archive, F) = D
  BY <1>3
<1> HIDE DEF D
<1> QED
  BY <1>1, <1>3, <1>4 DEF Watches

(* Initially there is no user, no log and no row, and nothing has been read. *)
LEMMA InitHolds == Init => IInv
<1> SUFFICES ASSUME Init PROVE IInv
  OBVIOUS
<1> USE DEF Init
<1>1. TablesType
  <2>1. logs \in [Users \X Slugs -> Ratings \cup {NoLog}]
    OBVIOUS
  <2>2. backlog \in Seq(Slugs)
    OBVIOUS
  <2>3. pending \in [RowSlot -> Row \cup {NoRow}]
    OBVIOUS
  <2> QED
    BY <2>1, <2>2, <2>3 DEF TablesType
<1>2. \A i \in Imports : imp[i] \in ImportSet
  <2> SUFFICES ASSUME NEW i \in Imports PROVE imp[i] \in ImportSet
    OBVIOUS
  <2>1. PICK u \in Users : imp[i] = [pc |-> "idle", kind |-> "profile", user |-> u,
                                     watches |-> <<>>, newUser |-> FALSE, seen |-> Unread]
    OBVIOUS
  <2> QED
    BY <2>1, UnreadType, EmptyWatches DEF ImportSet, ImportPC
<1>3. \A i \in Imports : /\ imp[i].pc = "idle" /\ imp[i].kind = "profile"
                         /\ imp[i].seen = Unread
  OBVIOUS
<1>4. IdleBatch \in BatchSet
  BY DEF IdleBatch, BatchSet, BatchPC, Terminal, Status, NoRows
<1>5. RecordsType
  <2>1. DOMAIN imp = Imports /\ imp = [i \in Imports |-> imp[i]]
    OBVIOUS
  <2>2. failures \in 0 .. MaxFailures
    BY IngestionAssumption
  <2> QED
    BY <1>2, <1>4, <2>1, <2>2 DEF RecordsType
<1>6. ProcessedHasFilm /\ ResolvedHasLog
  BY DEF ProcessedHasFilm, ResolvedHasLog, NoRow, RowSlot
<1>7. DoneKept /\ RowsByDone /\ RowsGiven /\ LogsGiven /\ ExportsLeaveNoRow
  BY <1>3 DEF DoneKept, RowsByDone, RowsGiven, LogsGiven, HasLog, ExportsLeaveNoRow, RowSlot
<1>8. ImportsHold
  BY <1>3, UnreadHolds DEF ImportsHold, SeenHolds, ExportHolds
<1>9. BatchesHold
  BY DEF BatchesHold, BatchHolds, IdleBatch, NoRows, AtFilm
<1> QED
  BY <1>1, <1>5, <1>6, <1>7, <1>8, <1>9 DEF IInv

-----------------------------------------------------------------------------
(* Steps that write no table.                                                *)

(* An import that reads, or ends without a commit.                           *)
LEMMA ImportQuiet ==
  ASSUME IInv, NEW i \in Imports, NEW r \in ImportSet,
         imp' = [imp EXCEPT ![i] = r], UNCHANGED <<tables, batch, failures>>,
         r.user = imp[i].user, r.pc # "done", imp[i].pc # "done",
         SeenHolds(r), ExportHolds(r)
  PROVE  IInv'
<1> USE DEF IInv, tables
<1>1. TablesType'
  BY DEF TablesType
<1>2. RecordsType'
  BY DEF RecordsType
<1>3. /\ \A j \in Imports : imp'[j] = IF j = i THEN r ELSE imp[j]
      /\ \A j \in Imports : imp'[j].user = imp[j].user
  BY DEF RecordsType
<1>4. \A u, s, x : Given(u, s, x) <=> Given(u, s, x)'
  BY <1>3 DEF Given, Watched
<1>5. ProcessedHasFilm'
  BY DEF ProcessedHasFilm
<1>6. ResolvedHasLog'
  BY <1>3 DEF ResolvedHasLog, HasLog
<1>7. DoneKept'
  <2> SUFFICES ASSUME NEW j \in Imports, imp'[j].pc = "done", NEW s \in DOMAIN imp'[j].watches
               PROVE  (HasLog(imp[j].user, s) \/ Kept(imp[j].user, s))'
    BY DEF DoneKept, Watched
  <2>1. j # i /\ imp'[j] = imp[j]
    BY <1>3
  <2>2. HasLog(imp[j].user, s) \/ Kept(imp[j].user, s)
    BY <2>1 DEF DoneKept, Watched
  <2> QED
    BY <2>1, <2>2, <1>3 DEF HasLog, Kept
<1>8. RowsByDone' /\ RowsGiven'
  BY <1>3, <1>4 DEF RowsByDone, RowsGiven
<1>9. LogsGiven'
  BY <1>4 DEF LogsGiven, HasLog
<1>10. ExportsLeaveNoRow'
  BY <1>3 DEF ExportsLeaveNoRow, RowsByDone
<1>11. ImportsHold'
  <2> SUFFICES ASSUME NEW j \in Imports
               PROVE  SeenHolds(imp[j])' /\ ExportHolds(imp[j])'
    BY DEF ImportsHold
  <2>1. SeenHolds(imp'[j]) /\ ExportHolds(imp'[j])
    BY <1>3 DEF ImportsHold
  <2>2. SeenHolds(imp[j])'
    BY <2>1, <1>3 DEF SeenHolds
  <2>3. ExportHolds(imp[j])'
    BY <2>1 DEF ExportHolds
  <2> QED
    BY <2>2, <2>3
<1>12. BatchesHold'
  BY <1>3, <1>4 DEF BatchesHold, BatchHolds
<1> QED
  BY <1>1, <1>2, <1>5, <1>6, <1>7, <1>8, <1>9, <1>10, <1>11, <1>12

(* A batch that reads, fails or goes on to its next film.                    *)
LEMMA BatchQuiet ==
  ASSUME IInv, NEW b \in Batches, NEW r \in BatchSet, Become(b, r),
         UNCHANGED <<tables, imp>>, failures' \in 0 .. MaxFailures, BatchHolds(r)
  PROVE  IInv'
<1> USE DEF IInv, tables, Become
<1>1. TablesType'
  BY DEF TablesType
<1>2. RecordsType'
  BY DEF RecordsType
<1>3. ProcessedHasFilm' /\ ResolvedHasLog' /\ DoneKept'
  BY DEF ProcessedHasFilm, ResolvedHasLog, DoneKept, HasLog, Kept, Watched
<1>4. RowsByDone' /\ RowsGiven' /\ LogsGiven' /\ ExportsLeaveNoRow'
  BY DEF RowsByDone, RowsGiven, LogsGiven, HasLog, Given, Watched, ExportsLeaveNoRow
<1>5. ImportsHold'
  BY DEF ImportsHold, SeenHolds, ExportHolds
<1>6. \A c \in Batches : batch'[c] = IF c = b THEN r ELSE batch[c]
  BY DEF RecordsType
<1>7. \A u, s, x : Given(u, s, x) <=> Given(u, s, x)'
  BY DEF Given, Watched
<1>8. BatchesHold'
  <2> SUFFICES ASSUME NEW c \in Batches PROVE BatchHolds(batch[c])'
    BY DEF BatchesHold
  <2>1. BatchHolds(batch'[c])
    BY <1>6 DEF BatchesHold
  <2> QED
    BY <2>1, <1>7 DEF BatchHolds
<1> QED
  BY <1>1, <1>2, <1>3, <1>4, <1>5, <1>8
-----------------------------------------------------------------------------
(* The imports, up to their commit.                                          *)

(* A finite set of numbers that is not empty has a last one: of the sets of  *)
(* later numbers one is least.                                               *)
LEMMA LastNumber ==
    ASSUME NEW K, IsFiniteSet(K), K \subseteq Int, K # {}
    PROVE  \E k \in K : \A l \in K : l <= k
<1> DEFINE After(k) == {l \in K : l > k}
           F == {After(k) : k \in K}
<1>1. F \subseteq FiniteSubsetsOf(K)
  <2>1. \A k \in K : After(k) \subseteq K /\ IsFiniteSet(After(k))
    BY FS_Subset
  <2> QED BY <2>1 DEF FiniteSubsetsOf
<1>2. IsWellFoundedOn(StrictSubsetOrdering(K), FiniteSubsetsOf(K))
  BY FS_StrictSubsetOrderingWellFounded
<1>3. F # {}
  OBVIOUS
<1>4. PICK k \in K : \A l \in K : <<After(l), After(k)>> \notin StrictSubsetOrdering(K)
  <2> HIDE DEF F
  <2>1. PICK x \in F : \A y \in F : <<y, x>> \notin StrictSubsetOrdering(K)
    BY <1>1, <1>2, <1>3, WFMin
  <2>2. PICK k \in K : x = After(k)
    BY DEF F
  <2> QED BY <2>1, <2>2 DEF F
<1>5. ASSUME NEW l \in K, l > k PROVE FALSE
  <2>0. k \in Int /\ l \in Int
    OBVIOUS
  <2>1. After(l) \subseteq After(k) /\ l \in After(k) /\ l \notin After(l)
    <3>1. ASSUME NEW x \in After(l) PROVE x \in After(k)
      <4>1. x \in K /\ x \in Int /\ x > l
        OBVIOUS
      <4> QED BY <1>5, <2>0, <4>1
    <3>2. l \in After(k)
      BY <1>5
    <3>3. l \notin After(l)
      BY <2>0
    <3> HIDE DEF After
    <3> QED BY <3>1, <3>2, <3>3
  <2>2. After(l) \subseteq K /\ After(k) \subseteq K
    OBVIOUS
  <2>3. <<After(l), After(k)>> \in StrictSubsetOrdering(K)
    BY <2>1, <2>2 DEF StrictSubsetOrdering
  <2> QED BY <1>4, <2>3
<1> QED BY <1>4, <1>5

(* The watches of a profile are slugs with a rating or none.                 *)
LEMMA PayloadType == Payload \subseteq Watches
<1> SUFFICES ASSUME NEW answer \in Answers, Taken(answer)
             PROVE  ScrapedWatches(answer.movies) \in Watches
  BY DEF Payload
<1> DEFINE m == answer.movies
           S == {SlugOf(m[k]) : k \in {l \in DOMAIN m : Usable(m[l])}}
           w == ScrapedWatches(m)
<1>1. None \in Ratings /\ Unusable \notin Ratings
  BY AnswersAssumption DEF Ratings
<1>2. S \subseteq Slugs
  BY AnswersAssumption
<1>3. ASSUME NEW k \in DOMAIN m, Usable(m[k]) PROVE GivenRating(m[k]) \in Ratings
  BY <1>1, <1>3, AnswersAssumption DEF GivenRating
<1>4. ASSUME NEW s \in S PROVE GivenRating(m[LastOf(m, s)]) \in Ratings
  <2> DEFINE K == {k \in DOMAIN m : Usable(m[k]) /\ SlugOf(m[k]) = s}
  <2>1. K # {}
    OBVIOUS
  <2>2. DOMAIN m = 1 .. Len(m) /\ Len(m) \in Nat
    BY AnswersAssumption
  <2>3. IsFiniteSet(K) /\ K \subseteq Int
    <3>1. K \subseteq DOMAIN m
      OBVIOUS
    <3>2. IsFiniteSet(1 .. Len(m))
      BY <2>2, FS_Interval
    <3> HIDE DEF K
    <3>3. K \subseteq 1 .. Len(m)
      BY <2>2, <3>1
    <3>4. IsFiniteSet(K)
      BY <3>2, <3>3, FS_Subset
    <3> QED BY <3>3, <3>4
  <2> HIDE DEF K
  <2>4. \E k \in K : \A l \in K : l <= k
    BY <2>1, <2>3, LastNumber
  <2>5. /\ LastOf(m, s) \in DOMAIN m
        /\ Usable(m[LastOf(m, s)])
    BY <2>4 DEF K, LastOf
  <2> QED BY <1>3, <2>5
<1>5. w = [s \in S |-> GivenRating(m[LastOf(m, s)])]
  BY DEF ScrapedWatches
<1>6. w \in [S -> Ratings]
  BY <1>4, <1>5
<1> QED BY <1>2, <1>6 DEF Watches

(* A payload is taken in by an idle import, whose kind is "profile".         *)
LEMMA BeginsHold ==
  ASSUME IInv, NEW i \in Imports, SyncProfile(i) \/ ImportExport(i)
  PROVE  IInv'
<1> USE DEF IInv
<1>1. imp[i] \in ImportSet /\ imp[i].pc = "idle"
  BY DEF RecordsType, SyncProfile, ImportExport
<1>2. imp[i].kind = "profile" /\ SeenHolds(imp[i])
  BY <1>1 DEF ImportsHold, ExportHolds, ImportSet
<1>3. CASE SyncProfile(i)
  <2>1. PICK w \in Payload : imp' = [imp EXCEPT ![i] =
                                       [imp[i] EXCEPT !.pc = "select_user", !.watches = w]]
    BY <1>3 DEF SyncProfile
  <2> DEFINE r == [imp[i] EXCEPT !.pc = "select_user", !.watches = w]
  <2>2. r \in ImportSet /\ r.user = imp[i].user /\ r.pc = "select_user"
        /\ r.kind = "profile" /\ r.seen = imp[i].seen
    BY <1>1, <1>2, PayloadType DEF ImportSet, ImportPC
  <2>3. SeenHolds(r) /\ ExportHolds(r)
    BY <1>2, <2>2 DEF SeenHolds, ExportHolds
  <2> HIDE DEF r
  <2> QED
    BY <1>1, <1>3, <2>1, <2>2, <2>3, ImportQuiet DEF r, SyncProfile
<1>4. CASE ImportExport(i)
  <2>1. PICK a \in Archives : Accepted(a) /\ Uploaded(i, Profile(a, films))
    BY <1>4 DEF ImportExport
  <2> DEFINE w == Profile(a, films)
             r == [imp[i] EXCEPT !.pc = "select_user", !.kind = "export", !.watches = w]
  <2>2. w \in Watches /\ DOMAIN w \subseteq films
    BY <2>1, ProfileType DEF TablesType
  <2> HIDE DEF w
  <2>3. r \in ImportSet /\ r.user = imp[i].user /\ r.pc = "select_user"
        /\ r.watches = w /\ r.seen = imp[i].seen
    BY <1>1, <2>2 DEF ImportSet, ImportPC
  <2>4. SeenHolds(r) /\ ExportHolds(r)
    BY <1>2, <2>2, <2>3 DEF SeenHolds, ExportHolds
  <2>5. imp' = [imp EXCEPT ![i] = r]
    BY <2>1 DEF Uploaded, w
  <2> HIDE DEF r
  <2> QED
    BY <1>1, <1>4, <2>3, <2>4, <2>5, ImportQuiet DEF ImportExport
<1> QED
  BY <1>3, <1>4

(* The user is found or inserted.                                            *)
LEMMA UserStepsHold ==
  ASSUME IInv, NEW i \in Imports, SelectUser(i) \/ InsertUser(i)
  PROVE  IInv'
<1> USE DEF IInv
<1>1. imp[i] \in ImportSet /\ imp[i].pc \in {"select_user", "insert_user"}
  BY DEF RecordsType, SelectUser, InsertUser, Step
<1>2. SeenHolds(imp[i]) /\ ExportHolds(imp[i])
  BY DEF ImportsHold
<1>3. PICK r : /\ imp' = [imp EXCEPT ![i] = r] /\ r \in ImportSet
               /\ r.pc \in {"read_catalog", "insert_user", "failed"}
               /\ r.user = imp[i].user /\ r.kind = imp[i].kind
               /\ r.watches = imp[i].watches /\ r.seen = imp[i].seen
  <2>0. \A p \in {"read_catalog", "insert_user", "failed"} :
          imp' = [imp EXCEPT ![i] = [imp[i] EXCEPT !.pc = p]] =>
          \E r : /\ imp' = [imp EXCEPT ![i] = r] /\ r \in ImportSet
                 /\ r.pc \in {"read_catalog", "insert_user", "failed"}
                 /\ r.user = imp[i].user /\ r.kind = imp[i].kind
                 /\ r.watches = imp[i].watches /\ r.seen = imp[i].seen
    <3> SUFFICES ASSUME NEW p \in {"read_catalog", "insert_user", "failed"},
                        imp' = [imp EXCEPT ![i] = [imp[i] EXCEPT !.pc = p]]
                 PROVE  \E r : /\ imp' = [imp EXCEPT ![i] = r] /\ r \in ImportSet
                               /\ r.pc \in {"read_catalog", "insert_user", "failed"}
                               /\ r.user = imp[i].user /\ r.kind = imp[i].kind
                               /\ r.watches = imp[i].watches /\ r.seen = imp[i].seen
      OBVIOUS
    <3> DEFINE q == [imp[i] EXCEPT !.pc = p]
    <3>1. /\ q \in ImportSet /\ q.pc = p /\ q.user = imp[i].user /\ q.kind = imp[i].kind
          /\ q.watches = imp[i].watches /\ q.seen = imp[i].seen
      BY <1>1 DEF ImportSet, ImportPC
    <3> HIDE DEF q
    <3> QED
      BY <3>1 DEF q
  <2>1. CASE SelectUser(i)
    BY <2>0, <2>1 DEF SelectUser, Step
  <2>2. CASE InsertUser(i) /\ imp[i].user \in users
    BY <2>0, <2>2 DEF InsertUser
  <2>3. CASE InsertUser(i) /\ imp[i].user \notin users
    <3> DEFINE r == [imp[i] EXCEPT !.pc = "read_catalog", !.newUser = TRUE]
    <3>1. /\ r \in ImportSet /\ r.pc = "read_catalog" /\ r.user = imp[i].user
          /\ r.kind = imp[i].kind /\ r.watches = imp[i].watches /\ r.seen = imp[i].seen
      BY <1>1 DEF ImportSet, ImportPC
    <3>2. imp' = [imp EXCEPT ![i] = r]
      BY <2>3 DEF InsertUser
    <3> HIDE DEF r
    <3> QED
      BY <3>1, <3>2
  <2> QED
    BY <2>1, <2>2, <2>3
<1>4. SeenHolds(r) /\ ExportHolds(r)
  BY <1>2, <1>3 DEF SeenHolds, ExportHolds
<1>5. UNCHANGED <<tables, batch, failures>>
  BY DEF SelectUser, InsertUser
<1> QED
  BY <1>1, <1>3, <1>4, <1>5, ImportQuiet
(* What a transaction reads is there when it reads it.                       *)
LEMMA ReadsHold ==
  ASSUME IInv, NEW i \in Imports, ReadCatalog(i) \/ ReadBacklog(i)
  PROVE  IInv'
<1> USE DEF IInv
<1>1. imp[i] \in ImportSet /\ imp[i].pc \in {"read_catalog", "read_backlog"}
  BY DEF RecordsType, ReadCatalog, ReadBacklog
<1>2. SeenHolds(imp[i]) /\ ExportHolds(imp[i])
  BY DEF ImportsHold
<1>3. CASE ReadCatalog(i)
  <2> DEFINE seen == [Unread EXCEPT !.known = films,
                                    !.logs = [s \in Slugs |-> logs[imp[i].user, s]]]
             r == [imp[i] EXCEPT !.pc = "read_backlog", !.seen = seen]
  <2>1. seen \in SeenSet
    BY <1>1, UnreadType DEF SeenSet, TablesType, ImportSet
  <2>2. /\ seen.known = films /\ seen.rows = Unread.rows
        /\ \A s \in Slugs : seen.logs[s] = logs[imp[i].user, s]
    BY UnreadType DEF SeenSet
  <2> HIDE DEF seen
  <2>3. /\ r \in ImportSet /\ r.user = imp[i].user /\ r.pc = "read_backlog"
        /\ r.kind = imp[i].kind /\ r.watches = imp[i].watches /\ r.seen = seen
    BY <1>1, <2>1 DEF ImportSet, ImportPC
  <2>4. SeenHolds(r)
    BY <2>2, <2>3, UnreadHolds DEF SeenHolds
  <2>5. ExportHolds(r)
    BY <1>2, <2>2, <2>3 DEF ExportHolds
  <2>6. imp' = [imp EXCEPT ![i] = r]
    BY <1>3 DEF ReadCatalog, seen
  <2> HIDE DEF r
  <2> QED
    BY <1>1, <1>3, <2>3, <2>4, <2>5, <2>6, ImportQuiet DEF ReadCatalog
<1>4. CASE ReadBacklog(i)
  <2> DEFINE rows == [x \in RowSlot |-> IF imp[x[1]].user = imp[i].user
                                       THEN pending[x] ELSE NoRow]
             seen == [Seen(i) EXCEPT !.queue = queue, !.rows = rows]
             r == [imp[i] EXCEPT !.pc = "commit", !.seen = seen]
  <2>0. Seen(i) \in SeenSet
    BY <1>1 DEF Seen, ImportSet
  <2>1. rows \in [RowSlot -> Row \cup {NoRow}]
    BY DEF TablesType
  <2>2. \A j \in Imports, s \in Slugs :
          rows[j, s] = IF imp[j].user = imp[i].user THEN pending[j, s] ELSE NoRow
    BY DEF RowSlot
  <2> HIDE DEF rows
  <2>3. seen \in SeenSet /\ seen.known = Seen(i).known /\ seen.rows = rows
        /\ seen.logs = Seen(i).logs
    BY <2>0, <2>1 DEF SeenSet, TablesType
  <2> HIDE DEF seen
  <2>4. /\ r \in ImportSet /\ r.user = imp[i].user /\ r.pc = "commit"
        /\ r.kind = imp[i].kind /\ r.watches = imp[i].watches /\ r.seen = seen
    BY <1>1, <2>3 DEF ImportSet, ImportPC
  <2>5. SeenHolds(r)
    <3>1. r.seen.known \subseteq films
          /\ \A s \in Slugs : r.seen.logs[s] # NoLog => logs[r.user, s] # NoLog
      BY <1>2, <2>3, <2>4 DEF SeenHolds, Seen
    <3>2. \A j \in Imports, s \in Slugs : r.seen.rows[j, s] # NoRow =>
              imp[j].user = r.user /\ pending[j, s] # NoRow
      BY <2>2, <2>3, <2>4
    <3> QED
      BY <3>1, <3>2 DEF SeenHolds
  <2>6. ExportHolds(r)
    BY <1>1, <1>2, <1>4, <2>3, <2>4 DEF ExportHolds, Seen, ReadBacklog
  <2>7. imp' = [imp EXCEPT ![i] = r]
    BY <1>4 DEF ReadBacklog, seen, rows
  <2> HIDE DEF r
  <2> QED
    BY <1>1, <1>4, <2>4, <2>5, <2>6, <2>7, ImportQuiet DEF ReadBacklog
<1> QED
  BY <1>3, <1>4

(* A transaction that is refused, fails or finds the queue inconsistent      *)
(* leaves nothing behind; an export never finds it so.                       *)
LEMMA EndsHold ==
  ASSUME IInv, NEW i \in Imports,
         CommitRefused(i) \/ RaiseInconsistent(i) \/ ImportFails(i)
  PROVE  IInv'
<1> USE DEF IInv
<1>1. imp[i] \in ImportSet /\ imp[i].pc \notin {"idle", "done"}
  BY DEF RecordsType, CommitRefused, RaiseInconsistent, ImportFails, Open
<1>2. SeenHolds(imp[i]) /\ ExportHolds(imp[i])
  BY DEF ImportsHold
<1>3. PICK p \in {"failed", "inconsistent"} :
          /\ imp' = Finished(i, p)
          /\ p = "inconsistent" => imp[i].kind # "export"
  <2>1. CASE RaiseInconsistent(i)
    <3>1. imp[i].pc = "commit" /\ Unknown(i) # {} /\ imp' = Finished(i, "inconsistent")
      BY <2>1 DEF RaiseInconsistent, Inconsistent
    <3>2. imp[i].kind # "export"
      BY <1>2, <3>1 DEF ExportHolds, Unknown, Watched, Seen
    <3> QED
      BY <3>1, <3>2
  <2>2. CASE ~RaiseInconsistent(i)
    BY <2>2 DEF CommitRefused, ImportFails
  <2> QED
    BY <2>1, <2>2
<1> DEFINE r == [imp[i] EXCEPT !.pc = p, !.newUser = FALSE, !.seen = Unread]
<1>4. /\ r \in ImportSet /\ r.pc = p /\ r.kind = imp[i].kind /\ r.user = imp[i].user
      /\ r.watches = imp[i].watches /\ r.seen = Unread
  BY <1>1, UnreadType DEF ImportSet, ImportPC
<1>5. imp' = [imp EXCEPT ![i] = r]
  BY <1>3 DEF Finished
<1> HIDE DEF r
<1>6. SeenHolds(r) /\ ExportHolds(r)
  BY <1>2, <1>3, <1>4, UnreadHolds DEF SeenHolds, ExportHolds
<1>7. UNCHANGED <<tables, batch, failures>>
  BY DEF CommitRefused, RaiseInconsistent, ImportFails
<1> QED
  BY <1>1, <1>4, <1>5, <1>6, <1>7, ImportQuiet
-----------------------------------------------------------------------------
(* The commit of an import.                                                  *)

(* The status an unknown film's row gets is never "PROCESSED": the           *)
(* transaction would have been refused as inconsistent.                      *)
LEMMA GoalStatus ==
  ASSUME NEW i \in Imports, Seen(i) \in SeenSet, Watched(i) \subseteq Slugs, ~Inconsistent(i),
         NEW s \in Unknown(i)
  PROVE  QueueStatus(i, s) \in Status \ {"PROCESSED"}
<1>1. s \in Slugs /\ Seen(i).queue[s] \in Status \cup {"absent"}
  BY DEF Unknown, SeenSet
<1>2. CASE s \in ToQueue(i)
  BY <1>2 DEF QueueStatus, Status
<1>3. CASE s \notin ToQueue(i)
  BY <1>1, <1>3 DEF QueueStatus, ToQueue, Inconsistent
<1> QED
  BY <1>2, <1>3

(* Logs are kept; those of the import's known films exist afterwards.        *)
LEMMA CommitLogs ==
  ASSUME IInv, NEW i \in Imports, Commit(i)
  PROVE  /\ logs' \in [Users \X Slugs -> Ratings \cup {NoLog}]
         /\ \A u \in Users, s \in Slugs : /\ HasLog(u, s) => HasLog(u, s)'
                                          /\ \/ logs'[u, s] = logs[u, s]
                                             \/ /\ u = imp[i].user /\ s \in Watched(i)
                                                /\ logs'[u, s] = imp[i].watches[s]
         /\ \A s \in Known(i) : HasLog(imp[i].user, s)'
<1> USE DEF IInv
<1>1. imp[i] \in ImportSet /\ SeenHolds(imp[i])
  BY DEF RecordsType, ImportsHold
<1>2. /\ Watched(i) \subseteq Slugs
      /\ \A s \in Watched(i) : imp[i].watches[s] \in Ratings /\ imp[i].watches[s] # NoLog
  BY <1>1, RatingIsLog DEF ImportSet, Watches, Watched
<1>3. \A u \in Users, s \in Slugs : logs'[u, s] = Relogged(i, u, s)
  BY DEF Commit
<1>4. \A u \in Users, s \in Slugs :
          \/ logs'[u, s] = logs[u, s]
          \/ /\ u = imp[i].user /\ s \in Watched(i)
             /\ logs'[u, s] = imp[i].watches[s]
  BY <1>3 DEF Relogged, Known
<1>5. \A u \in Users, s \in Slugs : logs[u, s] \in Ratings \cup {NoLog}
  BY DEF TablesType
<1>6. \A u \in Users, s \in Slugs : logs'[u, s] \in Ratings \cup {NoLog}
  BY <1>2, <1>4, <1>5
<1>7. logs' = [x \in Users \X Slugs |-> Relogged(i, x[1], x[2])]
  BY DEF Commit
<1>8. logs' \in [Users \X Slugs -> Ratings \cup {NoLog}]
  <2> SUFFICES ASSUME NEW x \in Users \X Slugs
               PROVE  Relogged(i, x[1], x[2]) \in Ratings \cup {NoLog}
    BY <1>7
  <2> QED
    BY <1>3, <1>6
<1>9. \A u \in Users, s \in Slugs : HasLog(u, s) => HasLog(u, s)'
  BY <1>2, <1>4 DEF HasLog
<1>10. ASSUME NEW s \in Known(i) PROVE HasLog(imp[i].user, s)'
  <2>1. s \in Watched(i) /\ s \in Slugs /\ imp[i].user \in Users
    BY <1>1, <1>2 DEF Known, ImportSet
  <2>2. logs'[imp[i].user, s] = IF Seen(i).logs[s] # imp[i].watches[s]
                                THEN imp[i].watches[s] ELSE logs[imp[i].user, s]
    BY <1>3, <2>1 DEF Relogged
  <2>3. Seen(i).logs[s] # NoLog => logs[imp[i].user, s] # NoLog
    BY <1>1, <2>1 DEF SeenHolds, Seen
  <2>4. imp'[i].user = imp[i].user
    BY <1>1 DEF Commit, Finished, ImportSet, RecordsType
  <2> QED
    BY <1>2, <2>1, <2>2, <2>3, <2>4 DEF HasLog
<1> QED
  BY <1>4, <1>8, <1>9, <1>10

(* Rows are kept.  A new rating is the import's own, a new "PROCESSED" one   *)
(* of a known film of the same user.                                         *)
LEMMA CommitRows ==
  ASSUME IInv, NEW i \in Imports, Commit(i), NEW j \in Imports, NEW s \in Slugs
  PROVE  /\ pending'[j, s] \in Row \cup {NoRow}
         /\ pending[j, s] # NoRow => pending'[j, s] # NoRow
         /\ pending'[j, s] # NoRow =>
              /\ pending[j, s] # NoRow \/ (j = i /\ s \in ToPend(i))
              /\ \/ pending[j, s] # NoRow /\ pending'[j, s].rating = pending[j, s].rating
                 \/ /\ imp[j].user = imp[i].user /\ s \in Watched(i)
                    /\ pending'[j, s].rating = imp[i].watches[s]
              /\ pending'[j, s].status = "PROCESSED" =>
                    \/ pending[j, s].status = "PROCESSED"
                    \/ imp[j].user = imp[i].user /\ s \in Known(i)
         /\ j = i /\ s \in ToPend(i) => pending'[j, s] # NoRow
<1> USE DEF IInv
<1>1. imp[i] \in ImportSet /\ SeenHolds(imp[i]) /\ ~Inconsistent(i)
  BY DEF RecordsType, ImportsHold, Commit
<1>2. /\ Watched(i) \subseteq Slugs /\ Seen(i) \in SeenSet
      /\ \A f \in Watched(i) : imp[i].watches[f] \in Ratings
  BY <1>1 DEF ImportSet, Watches, Watched, Seen
<1>3. pending[j, s] \in Row \cup {NoRow}
  BY DEF TablesType, RowSlot
<1>4. pending'[j, s] = IF j = i /\ s \in ToPend(i)
                       THEN [rating |-> imp[i].watches[s], status |-> QueueStatus(i, s)]
                       ELSE Reconciled(i, <<j, s>>)
  BY DEF Commit, RowSlot
<1>5. \A row \in Row : row # NoRow
  BY Absent
<1>6. CASE j = i /\ s \in ToPend(i)
  <2>1. s \in Unknown(i) /\ s \in Watched(i)
    BY <1>6 DEF ToPend, Unknown
  <2>2. QueueStatus(i, s) \in Status \ {"PROCESSED"}
    BY <1>1, <1>2, <2>1, GoalStatus
  <2>3. /\ pending'[j, s] \in Row /\ pending'[j, s].rating = imp[i].watches[s]
        /\ pending'[j, s].status # "PROCESSED"
    <3>1. pending'[j, s] = [rating |-> imp[i].watches[s], status |-> QueueStatus(i, s)]
      BY <1>4, <1>6
    <3>2. imp[i].watches[s] \in Ratings /\ QueueStatus(i, s) \in Status
      BY <1>2, <2>1, <2>2
    <3> QED
      <4> DEFINE a == imp[i].watches[s]
                 c == QueueStatus(i, s)
      <4>1. a \in Ratings /\ c \in Status /\ c # "PROCESSED"
        BY <2>2, <3>2
      <4>2. pending'[j, s] = [rating |-> a, status |-> c]
        BY <3>1
      <4> HIDE DEF a, c
      <4>3. /\ pending'[j, s] \in Row /\ pending'[j, s].rating = a
            /\ pending'[j, s].status = c
        <5> DEFINE row == [rating |-> a, status |-> c]
        <5>1. row \in Row /\ row.rating = a /\ row.status = c
          BY <4>1 DEF Row
        <5>2. pending'[j, s] = row
          BY <4>2
        <5> HIDE DEF row
        <5> QED
          BY <5>1, <5>2
      <4> QED
        BY <4>1, <4>3 DEF a
  <2> QED
    BY <1>5, <1>6, <2>1, <2>3
<1>7. CASE ~(j = i /\ s \in ToPend(i)) /\ (Seen(i).rows[j, s] = NoRow \/ s \notin Watched(i))
  <2>1. pending'[j, s] = pending[j, s]
    BY <1>4, <1>7 DEF Reconciled
  <2> QED
    BY <1>3, <1>7, <2>1
<1>8. CASE ~(j = i /\ s \in ToPend(i)) /\ Seen(i).rows[j, s] # NoRow /\ s \in Watched(i)
  <2>1. imp[j].user = imp[i].user /\ pending[j, s] \in Row
    BY <1>1, <1>3, <1>8 DEF SeenHolds, Seen
  <2> DEFINE goal == IF s \in Known(i) THEN "PROCESSED" ELSE QueueStatus(i, s)
  <2>2. goal \in Status /\ (goal = "PROCESSED" => s \in Known(i))
    <3>1. CASE s \in Known(i)
      BY <3>1 DEF Status
    <3>2. CASE s \notin Known(i)
      BY <1>1, <1>2, <1>8, <3>2, GoalStatus DEF Known, Unknown
    <3> QED
      BY <3>1, <3>2
  <2>3. PICK x, y : /\ pending'[j, s] = [rating |-> x, status |-> y]
                    /\ x \in {pending[j, s].rating, imp[i].watches[s]}
                    /\ y \in {pending[j, s].status, goal}
    BY <1>4, <1>8 DEF Reconciled
  <2> HIDE DEF goal
  <2>4. pending[j, s].rating \in Ratings /\ pending[j, s].status \in Status
    BY <2>1, Absent
  <2>5. pending'[j, s] \in Row /\ pending'[j, s].rating = x /\ pending'[j, s].status = y
    <3>1. x \in Ratings /\ y \in Status
      BY <1>2, <1>8, <2>2, <2>3, <2>4
    <3> QED
      <4> DEFINE row == [rating |-> x, status |-> y]
      <4>1. row \in Row /\ row.rating = x /\ row.status = y
        BY <3>1 DEF Row
      <4>2. pending'[j, s] = row
        BY <2>3
      <4> HIDE DEF row
      <4> QED
        BY <4>1, <4>2
  <2> QED
    BY <1>5, <1>8, <2>1, <2>2, <2>3, <2>5
<1> QED
  BY <1>6, <1>7, <1>8
LEMMA ArrivalsType ==
  ASSUME NEW S \in SUBSET Slugs, NEW q \in Arrivals(S)
  PROVE  q \in Seq(Slugs)
<1>1. IsFiniteSet(S)
  BY IngestionAssumption, FS_Subset
<1>2. Cardinality(S) \in Nat
  BY <1>1, FS_CardinalityType
<1>3. q \in [1 .. Cardinality(S) -> Slugs]
  BY DEF Arrivals
<1> QED
  BY <1>2, <1>3

(* The commit of an import preserves the invariant: whatever else committed  *)
(* since its reads, each of its watches has a log or a row afterwards.       *)
LEMMA CommitHolds ==
  ASSUME IInv, NEW i \in Imports, Commit(i)
  PROVE  IInv'
<1> USE DEF IInv
<1> DEFINE r == [imp[i] EXCEPT !.pc = "done", !.newUser = FALSE, !.seen = Unread]
<1>1. imp[i] \in ImportSet /\ imp[i].pc = "commit"
  BY DEF RecordsType, Commit
<1>2. /\ r \in ImportSet /\ r.pc = "done" /\ r.kind = imp[i].kind /\ r.user = imp[i].user
      /\ r.watches = imp[i].watches /\ r.seen = Unread
  BY <1>1, UnreadType DEF ImportSet, ImportPC
<1>3. imp' = [imp EXCEPT ![i] = r]
  BY DEF Commit, Finished
<1> HIDE DEF r
<1>4. /\ \A j \in Imports : imp'[j] = IF j = i THEN r ELSE imp[j]
      /\ \A j \in Imports : /\ imp'[j].user = imp[j].user /\ imp'[j].kind = imp[j].kind
                            /\ imp'[j].watches = imp[j].watches
      /\ imp'[i].pc = "done"
  BY <1>2, <1>3 DEF RecordsType
<1>5. Watched(i) \subseteq Slugs /\ imp[i].user \in Users
  BY <1>1 DEF Watched, ImportSet, Watches
<1>6. \A u, s, x : Given(u, s, x) => Given(u, s, x)'
  BY <1>4 DEF Given, Watched
<1>7. \A s \in Watched(i) : Given(imp[i].user, s, imp[i].watches[s])'
  BY <1>4 DEF Given, Watched
<1>8. films' = films /\ batch' = batch /\ failures' = failures
  BY DEF Commit
<1>9. /\ \A u \in Users, s \in Slugs : logs[u, s] # NoLog => logs'[u, s] # NoLog
      /\ \A u \in Users, s \in Slugs :
            \/ logs'[u, s] = logs[u, s]
            \/ u = imp[i].user /\ s \in Watched(i) /\ logs'[u, s] = imp[i].watches[s]
      /\ \A s \in Known(i) : logs'[imp[i].user, s] # NoLog
  <2>1. \A u \in Users, s \in Slugs : logs[u, s] # NoLog => logs'[u, s] # NoLog
    BY CommitLogs DEF HasLog
  <2>2. \A s \in Known(i) : HasLog(imp[i].user, s)'
    BY CommitLogs
  <2>3. ASSUME NEW s \in Known(i) PROVE logs'[imp[i].user, s] # NoLog
    <3>1. logs'[imp'[i].user, s] # NoLog
      BY <2>2, <2>3 DEF HasLog
    <3> QED
      BY <1>4, <3>1
  <2> QED
    BY <2>1, <2>3, CommitLogs
<1>10. TablesType'
  <2>1. users' \subseteq Users
    BY <1>5 DEF Commit, TablesType
  <2>2. queue' \in [Slugs -> Status \cup {"absent"}]
    BY DEF Commit, TablesType, Status
  <2>3. backlog' \in Seq(Slugs)
    <3>1. PICK q \in Arrivals(ToQueue(i)) : backlog' = backlog \o q
      BY DEF Commit
    <3>2. q \in Seq(Slugs)
      BY <1>5, ArrivalsType DEF ToQueue, Unknown
    <3> QED
      BY <3>1, <3>2 DEF TablesType
  <2>4. pending' \in [RowSlot -> Row \cup {NoRow}]
    <3>1. \A x \in RowSlot : pending'[x] \in Row \cup {NoRow}
      <4> SUFFICES ASSUME NEW x \in RowSlot PROVE pending'[x] \in Row \cup {NoRow}
        OBVIOUS
      <4>1. PICK j \in Imports, s \in Slugs : x = <<j, s>>
        BY DEF RowSlot
      <4>2. pending'[j, s] \in Row \cup {NoRow}
        BY CommitRows
      <4> QED
        BY <4>1, <4>2
    <3>2. DOMAIN pending' = RowSlot /\ pending' = [x \in RowSlot |-> pending'[x]]
      BY DEF Commit
    <3> QED
      BY <3>1, <3>2
  <2>5. logs' \in [Users \X Slugs -> Ratings \cup {NoLog}]
    BY CommitLogs
  <2> QED
    BY <1>8, <2>1, <2>2, <2>3, <2>4, <2>5 DEF TablesType
<1>11. RecordsType'
  BY <1>2, <1>3, <1>8 DEF RecordsType
<1>12. ProcessedHasFilm'
  BY <1>8 DEF ProcessedHasFilm, Commit, TablesType
<1>13. ResolvedHasLog'
  <2> SUFFICES ASSUME NEW j \in Imports, NEW s \in Slugs, pending'[j, s].status = "PROCESSED"
               PROVE  HasLog(imp[j].user, s)'
    BY <1>4 DEF ResolvedHasLog
  <2>1. pending'[j, s] # NoRow
    BY NoRowIsAbsent
  <2>2. imp[j].user \in Users
    BY DEF RecordsType, ImportSet
  <2>3. CASE pending[j, s].status = "PROCESSED"
    BY <1>4, <1>9, <2>2, <2>3 DEF ResolvedHasLog, HasLog
  <2>4. CASE imp[j].user = imp[i].user /\ s \in Known(i)
    <3>1. imp'[j].user = imp[i].user /\ logs'[imp[i].user, s] # NoLog
      BY <1>4, <1>9, <2>4
    <3> QED
      BY <3>1 DEF HasLog
  <2> QED
    BY <2>1, <2>3, <2>4, CommitRows
<1>14. DoneKept'
  <2> SUFFICES ASSUME NEW j \in Imports, imp'[j].pc = "done", NEW s \in Watched(j)
               PROVE  HasLog(imp[j].user, s)' \/ Kept(imp[j].user, s)'
    BY <1>4 DEF DoneKept, Watched
  <2>1. s \in Slugs /\ imp[j].user \in Users
    BY DEF RecordsType, ImportSet, Watches, Watched
  <2>2. \A k \in Imports : imp[k].user = imp[j].user /\ pending[k, s] # NoRow
                           => Kept(imp[j].user, s)'
    BY <1>4, <2>1, CommitRows DEF Kept
  <2>3. CASE j # i
    <3>1. HasLog(imp[j].user, s) \/ Kept(imp[j].user, s)
      BY <1>4, <2>3 DEF DoneKept
    <3>2. CASE HasLog(imp[j].user, s)
      BY <1>4, <1>9, <2>1, <3>2 DEF HasLog
    <3>3. CASE Kept(imp[j].user, s)
      BY <2>2, <3>3 DEF Kept
    <3> QED
      BY <3>1, <3>2, <3>3
  <2>4. CASE j = i /\ s \in Known(i)
    <3>1. imp'[j].user = imp[i].user /\ logs'[imp[i].user, s] # NoLog
      BY <1>4, <1>9, <2>4
    <3> QED
      BY <3>1 DEF HasLog
  <2>5. CASE j = i /\ s \in ToPend(i)
    <3>1. pending'[i, s] # NoRow
      BY <2>1, <2>5, CommitRows
    <3> QED
      BY <1>4, <2>5, <3>1 DEF Kept
  <2>6. CASE j = i /\ s \in Unknown(i) \ ToPend(i)
    <3>1. PICK k \in Imports : Seen(i).rows[k, s] # NoRow
      BY <2>6 DEF ToPend
    <3>2. imp[k].user = imp[i].user /\ pending[k, s] # NoRow
      BY <2>1, <3>1 DEF ImportsHold, SeenHolds, Seen
    <3> QED
      BY <2>2, <2>6, <3>2
  <2> QED
    BY <2>3, <2>4, <2>5, <2>6 DEF Known, Unknown
<1>15. RowsByDone' /\ RowsGiven'
  <2> SUFFICES ASSUME NEW j \in Imports, NEW s \in Slugs, pending'[j, s] # NoRow
               PROVE  imp'[j].pc = "done" /\ Given(imp[j].user, s, pending[j, s].rating)'
    BY DEF RowsByDone, RowsGiven
  <2>1. imp'[j].pc = "done"
    BY <1>4, CommitRows DEF RowsByDone
  <2>2. CASE pending[j, s] # NoRow /\ pending'[j, s].rating = pending[j, s].rating
    <3>1. Given(imp[j].user, s, pending[j, s].rating)
      BY <2>2 DEF RowsGiven
    <3>2. Given(imp[j].user, s, pending[j, s].rating)'
      BY <1>4, <1>6, <2>2, <3>1
    <3> QED
      BY <2>1, <3>2
  <2>3. CASE /\ imp[j].user = imp[i].user /\ s \in Watched(i)
             /\ pending'[j, s].rating = imp[i].watches[s]
    BY <1>4, <1>7, <2>1, <2>3
  <2> QED
    BY <2>2, <2>3, CommitRows
<1>16. LogsGiven'
  <2> SUFFICES ASSUME NEW u \in Users, NEW s \in Slugs, HasLog(u, s)'
               PROVE  Given(u, s, logs[u, s])'
    BY DEF LogsGiven
  <2>1. CASE logs'[u, s] = logs[u, s]
    BY <1>6, <2>1 DEF LogsGiven, HasLog
  <2>2. CASE u = imp[i].user /\ s \in Watched(i) /\ logs'[u, s] = imp[i].watches[s]
    BY <1>4, <1>7, <2>2
  <2> QED
    BY <1>9, <2>1, <2>2
<1>17. ExportsLeaveNoRow'
  <2> SUFFICES ASSUME NEW j \in Imports, imp[j].kind = "export", NEW s \in Slugs
               PROVE  pending'[j, s] = NoRow
    BY <1>4 DEF ExportsLeaveNoRow
  <2>1. pending[j, s] = NoRow
    BY DEF ExportsLeaveNoRow
  <2>2. j = i => Unknown(i) = {}
    BY <1>1 DEF ImportsHold, ExportHolds, Unknown, Watched, Seen
  <2>3. ~(j = i /\ s \in ToPend(i))
    BY <2>2 DEF ToPend
  <2> QED
    BY <2>1, <2>3, CommitRows
<1>18. ImportsHold'
  <2> SUFFICES ASSUME NEW j \in Imports PROVE SeenHolds(imp[j])' /\ ExportHolds(imp[j])'
    BY DEF ImportsHold
  <2>1. imp[j].user \in Users
    BY DEF RecordsType, ImportSet
  <2>2. CASE j = i
    <3>1. imp'[j] = r
      BY <1>4, <2>2
    <3>2. SeenHolds(imp[j])'
      BY <1>2, <3>1, UnreadHolds DEF SeenHolds
    <3>3. ExportHolds(imp[j])'
      BY <1>2, <1>8, <2>2, <3>1 DEF ImportsHold, ExportHolds
    <3> QED
      BY <3>2, <3>3
  <2>3. CASE j # i
    <3>1. imp'[j] = imp[j] /\ SeenHolds(imp[j]) /\ ExportHolds(imp[j])
      BY <1>4, <2>3 DEF ImportsHold
    <3>2. \A s \in Slugs : imp[j].seen.logs[s] # NoLog => logs'[imp[j].user, s] # NoLog
      BY <1>9, <2>1, <3>1 DEF SeenHolds
    <3>3. \A k \in Imports, s \in Slugs : imp[j].seen.rows[k, s] # NoRow =>
              imp'[k].user = imp[j].user /\ pending'[k, s] # NoRow
      BY <1>4, <3>1, CommitRows DEF SeenHolds
    <3>4. SeenHolds(imp[j])'
      BY <1>8, <3>1, <3>2, <3>3 DEF SeenHolds
    <3>5. ExportHolds(imp[j])'
      BY <1>8, <3>1 DEF ExportHolds
    <3> QED
      BY <3>4, <3>5
  <2> QED
    BY <2>2, <2>3
<1>19. BatchesHold'
  <2> SUFFICES ASSUME NEW b \in Batches PROVE BatchHolds(batch[b])'
    BY DEF BatchesHold
  <2>1. BatchHolds(batch[b]) /\ batch'[b] = batch[b] /\ batch[b] \in BatchSet
    BY <1>8 DEF BatchesHold, RecordsType
  <2>4. \A s \in Slugs : queue[s] # "absent" => queue'[s] # "absent"
    BY DEF Commit
  <2>2. \A j \in Imports : batch[b].rows[j] # NoLog =>
            /\ batch[b].slug \in Slugs /\ pending'[j, batch[b].slug] # NoRow
            /\ Given(imp[j].user, batch[b].slug, batch[b].rows[j])'
    BY <1>4, <1>6, <1>8, <2>1, CommitRows DEF BatchHolds
  <2>3. \A u \in batch[b].logged : batch[b].slug \in Slugs /\ logs'[u, batch[b].slug] # NoLog
    BY <1>9, <2>1 DEF BatchHolds, BatchSet
  <2> QED
    BY <1>8, <2>1, <2>2, <2>3, <2>4 DEF BatchHolds, BatchSet
<1> QED
  BY <1>10, <1>11, <1>12, <1>13, <1>14, <1>15, <1>16, <1>17, <1>18, <1>19
-----------------------------------------------------------------------------
(* The queue batches, up to their commits.                                   *)

LEMMA PendingRowsHold ==
  ASSUME IInv, NEW s \in Slugs
  PROVE  /\ PendingRows(s) \in [Imports -> Ratings \cup {NoLog}]
         /\ \A j \in Imports : PendingRows(s)[j] # NoLog =>
               pending[j, s] # NoRow /\ Given(imp[j].user, s, PendingRows(s)[j])
<1> USE DEF IInv
<1>1. ASSUME NEW j \in Imports, pending[j, s].status = "PENDING"
      PROVE  pending[j, s] # NoRow /\ pending[j, s].rating \in Ratings
  <2>1. pending[j, s] # NoRow
    BY <1>1, NoRowIsAbsent
  <2>2. pending[j, s] \in Row \cup {NoRow}
    BY DEF TablesType, RowSlot
  <2> QED
    BY <2>1, <2>2, Absent
<1>2. \A j \in Imports : pending[j, s].status = "PENDING" =>
          Given(imp[j].user, s, pending[j, s].rating)
  BY <1>1 DEF RowsGiven
<1> QED
  BY <1>1, <1>2 DEF PendingRows

LEMMA IdleHolds == IdleBatch \in BatchSet /\ IdleBatch.rows = NoRows /\ IdleBatch.logged = {}
                   /\ IdleBatch.pc = "idle"
  BY DEF IdleBatch, BatchSet, BatchPC, Terminal, Status, NoRows

(* A batch record that has nothing of its film read yet.                     *)
LEMMA CleanHolds ==
  ASSUME NEW r \in BatchSet, \A s \in r.todo : queue[s] # "absent",
         r.pc \notin AtFilm, r.rows = NoRows, r.logged = {}
  PROVE  BatchHolds(r)
  BY DEF BatchHolds, NoRows

LEMMA NextSlugHolds ==
  ASSUME IInv, NEW b \in Batches
  PROVE  NextSlug(b) \in BatchSet /\ BatchHolds(NextSlug(b))
<1>1. batch[b] \in BatchSet
  BY DEF IInv, RecordsType
<1>2. NextSlug(b) \in BatchSet
  BY <1>1 DEF NextSlug, IdleBatch, BatchSet, BatchPC, Terminal, Status, NoRows
<1>3. /\ NextSlug(b).pc = "next" /\ NextSlug(b).rows = NoRows /\ NextSlug(b).logged = {}
      /\ NextSlug(b).todo \subseteq batch[b].todo
  BY DEF NextSlug, IdleBatch
<1>4. \A s \in batch[b].todo : queue[s] # "absent"
  BY DEF IInv, BatchesHold, BatchHolds
<1> QED
  BY <1>2, <1>3, <1>4, CleanHolds DEF AtFilm

LEMMA FailingHolds ==
  ASSUME IInv, NEW b \in Batches, batch[b].pc \in AtFilm
  PROVE  Failing(b) \in BatchSet /\ BatchHolds(Failing(b))
<1>1. batch[b] \in BatchSet /\ BatchHolds(batch[b])
  BY DEF IInv, RecordsType, BatchesHold
<1>2. /\ Failing(b) \in BatchSet /\ Failing(b).slug = batch[b].slug
      /\ Failing(b).rows = batch[b].rows /\ Failing(b).logged = batch[b].logged
      /\ Failing(b).todo = batch[b].todo /\ Failing(b).pc = "mark"
  BY <1>1 DEF Failing, BatchSet, BatchPC, Terminal, Status
<1> QED
  BY <1>1, <1>2 DEF BatchHolds, AtFilm

(* A record that differs in its position only.                               *)
LEMMA MovedHolds ==
  ASSUME NEW q \in BatchSet, BatchHolds(q), NEW r \in BatchSet,
         r.pc \in AtFilm <=> q.pc \in AtFilm,
         r.todo = q.todo, r.slug = q.slug, r.rows = q.rows, r.logged = q.logged
  PROVE  BatchHolds(r)
  BY DEF BatchHolds

(* Every batch step but a commit.                                            *)
LEMMA BatchStepsHold ==
  ASSUME IInv, NEW b \in Batches,
         \/ StartBatch(b) \/ Scraped(b) \/ NextFilm(b) \/ MarkTerminal(b)
         \/ PersistSuccess(b) \/ InsertFilm(b) \/ AttachPendingLogs(b)
         \/ CommitSuccessRefused(b) \/ BatchFault(b)
  PROVE  IInv'
<1> USE DEF IInv
<1> DEFINE Quiet == \E r \in BatchSet : Become(b, r) /\ BatchHolds(r)
<1>1. batch[b] \in BatchSet /\ BatchHolds(batch[b]) /\ Slug(b) = batch[b].slug
  BY DEF RecordsType, BatchesHold, Slug
<1>2. batch[b].pc \in AtFilm => Slug(b) \in Slugs /\ queue[Slug(b)] \in Status
  BY <1>1 DEF BatchHolds, TablesType
<1>3. ASSUME StartBatch(b) PROVE Quiet
  <2> DEFINE beside == \E c \in Batches : batch[c].lockless
             r == [IdleBatch EXCEPT !.pc = "scraping", !.todo = PendingSlugs,
                                    !.beside = beside]
  <2>1. PendingSlugs \subseteq Slugs /\ \A s \in PendingSlugs : queue[s] = "PENDING"
    BY DEF PendingSlugs
  <2>2. beside \in BOOLEAN
    OBVIOUS
  <2>3. Become(b, r)
    BY <1>3 DEF StartBatch
  <2> HIDE DEF beside
  <2>4. /\ r \in BatchSet /\ r.pc = "scraping" /\ r.rows = NoRows /\ r.logged = {}
        /\ r.todo = PendingSlugs
    BY <2>1, <2>2 DEF IdleBatch, BatchSet, BatchPC, Terminal, Status, NoRows
  <2> HIDE DEF r
  <2>5. BatchHolds(r)
    BY <2>1, <2>4, CleanHolds DEF AtFilm
  <2> QED
    BY <2>3, <2>4, <2>5
<1>4. ASSUME Scraped(b) PROVE Quiet
  <2> DEFINE r == [batch[b] EXCEPT !.pc = "next"]
  <2>1. /\ r \in BatchSet /\ r.pc = "next" /\ r.slug = batch[b].slug
        /\ r.rows = batch[b].rows /\ r.logged = batch[b].logged /\ r.todo = batch[b].todo
    BY <1>1 DEF BatchSet, BatchPC
  <2>2. Become(b, r)
    BY <1>4 DEF Scraped
  <2>3. batch[b].pc \notin AtFilm /\ r.pc \notin AtFilm
    BY <1>4, <2>1 DEF Scraped, AtFilm
  <2> HIDE DEF r
  <2> QED
    BY <1>1, <2>1, <2>2, <2>3, MovedHolds
<1>5. ASSUME MarkTerminal(b) PROVE Quiet
  <2> DEFINE rows == PendingRows(Slug(b))
             r == [batch[b] EXCEPT !.pc = "mark_commit", !.rows = rows]
  <2>1. batch[b].pc \in AtFilm /\ Become(b, r)
    BY <1>5 DEF MarkTerminal, AtFilm
  <2>2. /\ rows \in [Imports -> Ratings \cup {NoLog}]
        /\ \A j \in Imports : rows[j] # NoLog =>
              pending[j, Slug(b)] # NoRow /\ Given(imp[j].user, Slug(b), rows[j])
    BY <1>2, <2>1, PendingRowsHold
  <2> HIDE DEF rows
  <2>3. /\ r \in BatchSet /\ r.slug = Slug(b) /\ r.rows = rows /\ r.pc = "mark_commit"
        /\ r.logged = batch[b].logged /\ r.todo = batch[b].todo
    BY <1>1, <2>2 DEF BatchSet, BatchPC
  <2> HIDE DEF r
  <2>4. BatchHolds(r)
    BY <1>1, <1>2, <2>1, <2>2, <2>3 DEF BatchHolds, AtFilm
  <2> QED
    BY <2>1, <2>3, <2>4
<1>6. ASSUME AttachPendingLogs(b) PROVE Quiet
  <2> DEFINE rows == PendingRows(Slug(b))
             logged == {u \in Users : logs[u, Slug(b)] # NoLog}
             r == [batch[b] EXCEPT !.pc = "persist_commit", !.rows = rows,
                                   !.logged = logged]
  <2>1. batch[b].pc \in AtFilm /\ Become(b, r)
    BY <1>6 DEF AttachPendingLogs, AtFilm
  <2>2. /\ rows \in [Imports -> Ratings \cup {NoLog}]
        /\ \A j \in Imports : rows[j] # NoLog =>
              pending[j, Slug(b)] # NoRow /\ Given(imp[j].user, Slug(b), rows[j])
    BY <1>2, <2>1, PendingRowsHold
  <2>3. logged \subseteq Users /\ \A u \in logged : logs[u, Slug(b)] # NoLog
    OBVIOUS
  <2> HIDE DEF rows, logged
  <2>4. /\ r \in BatchSet /\ r.slug = Slug(b) /\ r.rows = rows /\ r.pc = "persist_commit"
        /\ r.logged = logged /\ r.todo = batch[b].todo
    BY <1>1, <2>2, <2>3 DEF BatchSet, BatchPC
  <2> HIDE DEF r
  <2>5. r.slug \in Slugs /\ queue[r.slug] # "absent"
    BY <1>2, <2>1, <2>4 DEF Status
  <2>6. \A s \in r.todo : queue[s] # "absent"
    BY <1>1, <2>4 DEF BatchHolds
  <2>7. \A j \in Imports : r.rows[j] # NoLog =>
            /\ r.slug \in Slugs /\ pending[j, r.slug] # NoRow
            /\ Given(imp[j].user, r.slug, r.rows[j])
    BY <2>2, <2>4, <2>5
  <2>8. \A u \in r.logged : r.slug \in Slugs /\ logs[u, r.slug] # NoLog
    BY <2>3, <2>4, <2>5
  <2>9. BatchHolds(r)
    BY <2>4, <2>5, <2>6, <2>7, <2>8 DEF BatchHolds, AtFilm
  <2> QED
    BY <2>1, <2>4, <2>9
<1>7. ASSUME PersistSuccess(b) PROVE Quiet
  <2> DEFINE p == IF Slug(b) \in films THEN "attach" ELSE "insert_film"
             was == queue[Slug(b)]
             r == [batch[b] EXCEPT !.was = was, !.pc = p]
  <2>1. batch[b].pc \in AtFilm /\ Become(b, r)
    BY <1>7 DEF PersistSuccess, AtFilm
  <2>2. was \in Status /\ p \in BatchPC
    BY <1>2, <2>1 DEF BatchPC
  <2> HIDE DEF p, was
  <2>3. /\ r \in BatchSet /\ r.slug = batch[b].slug /\ r.rows = batch[b].rows
        /\ r.logged = batch[b].logged /\ r.todo = batch[b].todo /\ r.pc = p
    BY <1>1, <2>2 DEF BatchSet
  <2>4. p \in AtFilm
    BY DEF p, AtFilm
  <2> HIDE DEF r
  <2> QED
    BY <1>1, <2>1, <2>3, <2>4, MovedHolds
<1>8. ASSUME InsertFilm(b) PROVE Quiet
  <2> DEFINE r == [batch[b] EXCEPT !.pc = "attach", !.inserted = TRUE]
  <2>1. batch[b].pc \in AtFilm /\ (Become(b, Failing(b)) \/ Become(b, r))
    BY <1>8 DEF InsertFilm, AtFilm
  <2>2. /\ r \in BatchSet /\ r.slug = batch[b].slug /\ r.rows = batch[b].rows
        /\ r.logged = batch[b].logged /\ r.todo = batch[b].todo /\ r.pc = "attach"
    BY <1>1 DEF BatchSet, BatchPC
  <2> HIDE DEF r
  <2> QED
    BY <1>1, <2>1, <2>2, MovedHolds, FailingHolds DEF AtFilm
<1>9. ASSUME CommitSuccessRefused(b) \/ PersistFails(b) PROVE Quiet
  <2>1. batch[b].pc \in AtFilm /\ Become(b, Failing(b))
    BY <1>9 DEF CommitSuccessRefused, PersistFails, AtFilm
  <2> QED
    BY <2>1, FailingHolds
<1>10. ASSUME NextFilm(b) PROVE Quiet
  <2>1. CASE Become(b, IdleBatch)
    BY <2>1, IdleHolds, CleanHolds DEF AtFilm, IdleBatch
  <2>2. CASE ~Become(b, IdleBatch)
    <3>1. PICK s \in batch[b].todo, st \in Terminal, p \in {"mark", "persist"} :
              Become(b, IF p = "mark"
                        THEN [batch[b] EXCEPT !.pc = "mark", !.slug = s, !.status = st]
                        ELSE [batch[b] EXCEPT !.pc = "persist", !.slug = s])
      <4>1. PICK s \in batch[b].todo :
                \/ \E st \in Terminal : Become(b, [batch[b] EXCEPT !.pc = "mark",
                                                      !.slug = s, !.status = st])
                \/ Become(b, [batch[b] EXCEPT !.pc = "persist", !.slug = s])
        BY <1>10, <2>2 DEF NextFilm
      <4>2. "FAILED" \in Terminal
        BY DEF Terminal
      <4> QED
        BY <4>1, <4>2
    <3> DEFINE r == IF p = "mark"
                    THEN [batch[b] EXCEPT !.pc = "mark", !.slug = s, !.status = st]
                    ELSE [batch[b] EXCEPT !.pc = "persist", !.slug = s]
    <3>2. batch[b].pc = "next" /\ s \in Slugs /\ queue[s] # "absent"
      BY <1>1, <1>10 DEF NextFilm, BatchHolds, BatchSet
    <3>3. /\ r \in BatchSet /\ r.pc = p /\ r.slug = s /\ r.todo = batch[b].todo
          /\ r.rows = batch[b].rows /\ r.logged = batch[b].logged
      <4>1. CASE p = "mark"
        BY <1>1, <3>2, <4>1 DEF BatchSet, BatchPC
      <4>2. CASE p = "persist"
        BY <1>1, <3>2, <4>2 DEF BatchSet, BatchPC
      <4> QED
        BY <4>1, <4>2
    <3>4. Become(b, r)
      BY <3>1
    <3> HIDE DEF r
    <3>5. BatchHolds(r)
      BY <1>1, <3>2, <3>3 DEF BatchHolds, AtFilm, NoRows
    <3> QED
      BY <3>3, <3>4, <3>5
  <2> QED
    BY <2>1, <2>2
<1>11. ASSUME BatchFails(b) \/ LosesLock(b) PROVE Quiet
  <2>1. CASE BatchFails(b)
    BY <2>1, IdleHolds, CleanHolds DEF BatchFails, AtFilm, IdleBatch
  <2>2. CASE LosesLock(b)
    <3> DEFINE r == [batch[b] EXCEPT !.lockless = TRUE]
    <3>1. /\ r \in BatchSet /\ r.pc = batch[b].pc /\ r.slug = batch[b].slug
          /\ r.rows = batch[b].rows /\ r.logged = batch[b].logged /\ r.todo = batch[b].todo
      BY <1>1 DEF BatchSet
    <3>2. Become(b, r)
      BY <2>2 DEF LosesLock
    <3> HIDE DEF r
    <3> QED
      BY <1>1, <3>1, <3>2, MovedHolds
  <2> QED
    BY <1>11, <2>1, <2>2
<1>12. PICK r \in BatchSet : Become(b, r) /\ BatchHolds(r)
  BY <1>3, <1>4, <1>5, <1>6, <1>7, <1>8, <1>9, <1>10, <1>11 DEF BatchFault, Abandon, Outlive
<1>13. UNCHANGED <<tables, imp>> /\ failures' \in 0 .. MaxFailures
  <2>1. CASE BatchFails(b)
    BY <2>1, IngestionAssumption DEF BatchFails, RecordsType
  <2>2. CASE ~BatchFails(b)
    BY <2>2 DEF RecordsType, StartBatch, Scraped, NextFilm, MarkTerminal, PersistSuccess,
                InsertFilm, AttachPendingLogs, CommitSuccessRefused, BatchFault,
                PersistFails, Abandon, Outlive, LosesLock
  <2> QED
    BY <2>1, <2>2
<1> QED
  BY <1>12, <1>13, BatchQuiet
-----------------------------------------------------------------------------
(* The commits of a batch.                                                   *)

(* A row that was read keeps its rating; it is "PROCESSED" afterwards only   *)
(* where it was before or the commit says so.                                *)
LEMMA SettledRows ==
  ASSUME IInv, NEW b \in Batches, NEW st \in [Users -> Status], pending' = Settled(b, st),
         NEW j \in Imports, NEW s \in Slugs
  PROVE  /\ pending'[j, s] \in Row \cup {NoRow}
         /\ pending[j, s] # NoRow <=> pending'[j, s] # NoRow
         /\ pending'[j, s] # NoRow => pending'[j, s].rating = pending[j, s].rating
         /\ pending'[j, s].status = "PROCESSED" =>
               \/ pending[j, s].status = "PROCESSED"
               \/ j \in Read(b) /\ s = Slug(b) /\ st[imp[j].user] = "PROCESSED"
<1> USE DEF IInv
<1>1. pending[j, s] \in Row \cup {NoRow}
  BY DEF TablesType, RowSlot
<1>2. pending'[j, s] = IF j \in Read(b) /\ s = Slug(b)
                       THEN [rating |-> pending[j, s].rating, status |-> st[imp[j].user]]
                       ELSE pending[j, s]
  BY DEF Settled, RowSlot
<1>3. CASE ~(j \in Read(b) /\ s = Slug(b))
  BY <1>1, <1>2, <1>3
<1>4. CASE j \in Read(b) /\ s = Slug(b)
  <2>1. batch[b].rows[j] # NoLog
    BY <1>4 DEF Read
  <2>2. pending[j, s] # NoRow
    BY <1>4, <2>1 DEF BatchesHold, BatchHolds, Slug
  <2>3. pending[j, s].rating \in Ratings /\ st[imp[j].user] \in Status
    BY <1>1, <2>2, Absent DEF RecordsType, ImportSet
  <2> DEFINE row == [rating |-> pending[j, s].rating, status |-> st[imp[j].user]]
  <2>4. row \in Row /\ row.rating = pending[j, s].rating /\ row.status = st[imp[j].user]
    BY <2>3 DEF Row
  <2>5. pending'[j, s] = row
    BY <1>2, <1>4
  <2> HIDE DEF row
  <2>6. row # NoRow
    BY <2>4, Absent
  <2> QED
    BY <1>4, <2>2, <2>4, <2>5, <2>6
<1> QED
  BY <1>3, <1>4

(* What both commits of a batch have in common: rows that were read take the *)
(* status of their user, films and logs are only added, and a "PROCESSED"    *)
(* row comes with its log.                                                   *)
LEMMA SettleHolds ==
  ASSUME IInv, NEW b \in Batches, NEW st \in [Users -> Status],
         pending' = Settled(b, st), Become(b, NextSlug(b)),
         UNCHANGED <<users, backlog, imp, failures>>,
         films \subseteq films', films' \subseteq Slugs, ProcessedHasFilm',
         queue' \in [Slugs -> Status \cup {"absent"}],
         \A s \in Slugs : queue[s] # "absent" => queue'[s] # "absent",
         logs' \in [Users \X Slugs -> Ratings \cup {NoLog}],
         \A u \in Users, s \in Slugs : logs[u, s] # NoLog => logs'[u, s] # NoLog,
         \A u \in Users, s \in Slugs :
            logs'[u, s] = logs[u, s] \/ Given(u, s, logs'[u, s]),
         \A j \in Read(b) : st[imp[j].user] = "PROCESSED" =>
                              logs'[imp[j].user, Slug(b)] # NoLog
  PROVE  IInv'
<1> USE DEF IInv
<1>1. \A j \in Imports, s \in Slugs :
         /\ pending'[j, s] \in Row \cup {NoRow}
         /\ pending[j, s] # NoRow <=> pending'[j, s] # NoRow
         /\ pending'[j, s] # NoRow => pending'[j, s].rating = pending[j, s].rating
         /\ pending'[j, s].status = "PROCESSED" =>
               \/ pending[j, s].status = "PROCESSED"
               \/ j \in Read(b) /\ s = Slug(b) /\ st[imp[j].user] = "PROCESSED"
  BY SettledRows
<1>2. \A j \in Imports : imp[j].user \in Users /\ imp[j].watches \in Watches
  BY DEF RecordsType, ImportSet
<1>3. \A u, s, x : Given(u, s, x) <=> Given(u, s, x)'
  BY DEF Given, Watched
<1>4. TablesType'
  <2>1. \A x \in RowSlot : pending'[x] \in Row \cup {NoRow}
    <3> SUFFICES ASSUME NEW x \in RowSlot PROVE pending'[x] \in Row \cup {NoRow}
      OBVIOUS
    <3>1. PICK j \in Imports, s \in Slugs : x = <<j, s>>
      BY RowSlots
    <3> QED
      BY <1>1, <3>1
  <2>2. DOMAIN pending' = RowSlot /\ pending' = [x \in RowSlot |-> pending'[x]]
    BY DEF Settled
  <2>3. pending' \in [RowSlot -> Row \cup {NoRow}]
    BY <2>1, <2>2
  <2> QED
    BY <2>3 DEF TablesType
<1>5. RecordsType'
  BY NextSlugHolds DEF RecordsType, Become
<1>6. ResolvedHasLog'
  <2> SUFFICES ASSUME NEW j \in Imports, NEW s \in Slugs, pending'[j, s].status = "PROCESSED"
               PROVE  logs'[imp[j].user, s] # NoLog
    BY DEF ResolvedHasLog, HasLog
  <2>1. CASE pending[j, s].status = "PROCESSED"
    BY <1>2, <2>1 DEF ResolvedHasLog, HasLog
  <2> QED
    BY <1>1, <2>1
<1>7. DoneKept'
  <2> SUFFICES ASSUME NEW j \in Imports, imp[j].pc = "done", NEW s \in Watched(j)
               PROVE  HasLog(imp[j].user, s)' \/ Kept(imp[j].user, s)'
    BY DEF DoneKept, Watched
  <2>1. s \in Slugs
    <3>1. imp[j].watches \in Watches
      BY <1>2
    <3> QED
      BY <3>1, WatchesDomain DEF Watched
  <2>2. CASE HasLog(imp[j].user, s)
    BY <1>2, <2>1, <2>2 DEF HasLog
  <2>3. CASE Kept(imp[j].user, s)
    BY <1>1, <2>1, <2>3 DEF Kept
  <2> QED
    BY <2>2, <2>3 DEF DoneKept
<1>8. RowsByDone' /\ RowsGiven' /\ ExportsLeaveNoRow'
  <2>1. RowsByDone' /\ ExportsLeaveNoRow'
    BY <1>1 DEF RowsByDone, ExportsLeaveNoRow
  <2>2. \A j \in Imports, s \in Slugs : pending'[j, s] # NoRow =>
            Given(imp[j].user, s, pending'[j, s].rating)
    BY <1>1 DEF RowsGiven
  <2> QED
    BY <1>3, <2>1, <2>2 DEF RowsGiven
<1>9. LogsGiven'
  <2>1. \A u \in Users, s \in Slugs : logs'[u, s] # NoLog => Given(u, s, logs'[u, s])
    BY DEF LogsGiven, HasLog
  <2> QED
    BY <1>3, <2>1 DEF LogsGiven, HasLog
<1>10. ImportsHold'
  <2> SUFFICES ASSUME NEW j \in Imports PROVE SeenHolds(imp[j])' /\ ExportHolds(imp[j])'
    BY DEF ImportsHold
  <2>1. SeenHolds(imp[j]) /\ ExportHolds(imp[j])
    BY DEF ImportsHold
  <2>2. SeenHolds(imp[j])'
    BY <1>1, <1>2, <2>1 DEF SeenHolds
  <2>3. ExportHolds(imp[j])'
    BY <2>1 DEF ExportHolds
  <2> QED
    BY <2>2, <2>3
<1>11. BatchesHold'
  <2> SUFFICES ASSUME NEW c \in Batches PROVE BatchHolds(batch[c])'
    BY DEF BatchesHold
  <2>1. batch'[c] \in BatchSet /\ BatchHolds(batch'[c])
    BY NextSlugHolds DEF Become, RecordsType, BatchesHold
  <2>2. PICK r \in BatchSet : r = batch'[c] /\ BatchHolds(r)
    BY <2>1
  <2>3. \A j \in Imports : r.rows[j] # NoLog =>
            /\ r.slug \in Slugs /\ pending[j, r.slug] # NoRow
            /\ Given(imp[j].user, r.slug, r.rows[j])
    BY <2>2 DEF BatchHolds
  <2>4. \A j \in Imports : r.rows[j] # NoLog =>
            /\ r.slug \in Slugs /\ pending'[j, r.slug] # NoRow
            /\ Given(imp[j].user, r.slug, r.rows[j])'
    <3> SUFFICES ASSUME NEW j \in Imports, r.rows[j] # NoLog
                 PROVE  /\ r.slug \in Slugs /\ pending'[j, r.slug] # NoRow
                        /\ Given(imp[j].user, r.slug, r.rows[j])'
      OBVIOUS
    <3>1. r.slug \in Slugs /\ pending[j, r.slug] # NoRow
      BY <2>3
    <3>2. pending'[j, r.slug] # NoRow
      BY <1>1, <3>1
    <3>3. Given(imp[j].user, r.slug, r.rows[j])
      BY <2>3
    <3>4. \A k \in Imports : imp'[k] = imp[k]
      OBVIOUS
    <3>5. Given(imp[j].user, r.slug, r.rows[j])'
      BY <3>3, <3>4, <2>2 DEF Given, Watched
    <3> QED
      BY <3>1, <3>2, <3>5
  <2>5. \A u \in r.logged : r.slug \in Slugs /\ logs'[u, r.slug] # NoLog
    <3> SUFFICES ASSUME NEW u \in r.logged
                 PROVE  r.slug \in Slugs /\ logs'[u, r.slug] # NoLog
      OBVIOUS
    <3>1. u \in Users
      BY DEF BatchSet
    <3>2. r.slug \in Slugs /\ logs[u, r.slug] # NoLog
      BY <2>2 DEF BatchHolds
    <3> QED
      BY <3>1, <3>2
  <2>6. \A s \in r.todo : queue'[s] # "absent"
    BY <2>2 DEF BatchHolds, BatchSet
  <2>7. r.pc \in AtFilm => r.slug \in Slugs /\ queue'[r.slug] # "absent"
    BY <2>2 DEF BatchHolds
  <2>8. r.pc \notin AtFilm => r.rows = NoRows /\ r.logged = {}
    BY <2>2 DEF BatchHolds
  <2> QED
    BY <2>2, <2>4, <2>5, <2>6, <2>7, <2>8 DEF BatchHolds
<1> QED
  BY <1>4, <1>5, <1>6, <1>7, <1>8, <1>9, <1>10, <1>11
(* mark terminal: the film's row and the rows read for it fail with it.      *)
LEMMA CommitTerminalHolds ==
  ASSUME IInv, NEW b \in Batches, CommitTerminal(b)
  PROVE  IInv'
<1> USE DEF IInv
<1> DEFINE st == [u \in Users |-> batch[b].status]
<1>1. batch[b] \in BatchSet /\ batch[b].status \in Terminal
  BY DEF RecordsType, BatchSet
<1>2. Terminal \subseteq Status /\ "absent" \notin Terminal /\ "PROCESSED" \notin Terminal
  BY DEF Terminal, Status
<1>3. /\ st \in [Users -> Status]
      /\ \A u \in Users : st[u] # "PROCESSED"
  BY <1>1, <1>2
<1>4. /\ pending' = Settled(b, st) /\ Become(b, NextSlug(b))
      /\ queue' = [queue EXCEPT ![Slug(b)] = batch[b].status]
      /\ UNCHANGED <<films, users, logs, backlog, imp, failures>>
  BY DEF CommitTerminal
<1> HIDE DEF st
<1>5. queue' \in [Slugs -> Status \cup {"absent"}]
  BY <1>1, <1>2, <1>4 DEF TablesType
<1>6. \A s \in Slugs : queue[s] # "absent" => queue'[s] # "absent"
  BY <1>1, <1>2, <1>4 DEF TablesType
<1>7. ProcessedHasFilm'
  BY <1>1, <1>2, <1>4 DEF TablesType, ProcessedHasFilm
<1>8. films \subseteq films' /\ films' \subseteq Slugs /\ logs' = logs
      /\ logs' \in [Users \X Slugs -> Ratings \cup {NoLog}]
  BY <1>4 DEF TablesType
<1>9. \A j \in Read(b) : imp[j].user \in Users
  BY DEF Read, RecordsType, ImportSet
<1>10. /\ \A u \in Users, s \in Slugs : logs[u, s] # NoLog => logs'[u, s] # NoLog
       /\ \A u \in Users, s \in Slugs :
             logs'[u, s] = logs[u, s] \/ Given(u, s, logs'[u, s])
  BY <1>8
<1>11. \A j \in Read(b) : st[imp[j].user] = "PROCESSED" =>
                           logs'[imp[j].user, Slug(b)] # NoLog
  BY <1>3, <1>9
<1>12. UNCHANGED <<users, backlog, imp, failures>>
  BY <1>4
<1> QED
  BY <1>3, <1>4, <1>5, <1>6, <1>7, <1>8, <1>10, <1>11, <1>12, SettleHolds

(* persist success: the rows read for the film become logs of their users.   *)
LEMMA CommitSuccessHolds ==
  ASSUME IInv, NEW b \in Batches, CommitSuccess(b)
  PROVE  IInv'
<1> USE DEF IInv
<1> DEFINE st == [u \in Users |-> IF u \in users THEN "PROCESSED" ELSE "FAILED"]
<1>1. /\ batch[b] \in BatchSet /\ BatchHolds(batch[b]) /\ batch[b].pc = "persist_commit"
      /\ batch[b].was \in Status /\ Slug(b) = batch[b].slug
  BY DEF RecordsType, BatchSet, BatchesHold, CommitSuccess, Slug
<1>2. Slug(b) \in Slugs
  BY <1>1 DEF BatchHolds, AtFilm
<1>3. /\ st \in [Users -> Status]
      /\ \A u \in Users : st[u] = "PROCESSED" => u \in users
  BY DEF Status
<1>4. /\ pending' = Settled(b, st) /\ Become(b, NextSlug(b))
      /\ films' = films \cup {Slug(b)}
      /\ UNCHANGED <<users, backlog, imp, failures>>
  BY DEF CommitSuccess
<1> HIDE DEF st
<1>5. PICK q \in Status : queue' = [queue EXCEPT ![Slug(b)] = q]
  <2> DEFINE q == IF batch[b].was = "PROCESSED" THEN queue[Slug(b)] ELSE "PROCESSED"
  <2>1. queue[Slug(b)] \in Status
    BY <1>1, <1>2 DEF BatchHolds, AtFilm, TablesType
  <2>2. q \in Status
    BY <2>1 DEF Status
  <2>3. queue' = [queue EXCEPT ![Slug(b)] = q]
    BY DEF CommitSuccess
  <2> HIDE DEF q
  <2> QED
    BY <2>2, <2>3
<1>6. queue' \in [Slugs -> Status \cup {"absent"}]
  BY <1>5 DEF TablesType
<1>7. \A s \in Slugs : queue[s] # "absent" => queue'[s] # "absent"
  BY <1>5 DEF TablesType, Status
<1>8. ProcessedHasFilm'
  BY <1>4, <1>5 DEF TablesType, ProcessedHasFilm
<1>9. films \subseteq films' /\ films' \subseteq Slugs
  BY <1>2, <1>4 DEF TablesType
<1>10. PICK f \in FirstRows(b) :
          logs' = [x \in Users \X Slugs |->
                      IF x[1] \in Promoted(b) /\ x[2] = Slug(b)
                      THEN batch[b].rows[f[x[1]]] ELSE logs[x]]
  BY DEF CommitSuccess
<1>11. \A u \in Promoted(b) : f[u] \in Read(b) /\ imp[f[u]].user = u
  BY <1>10 DEF FirstRows
<1>12. \A j \in Read(b) : /\ j \in Imports /\ imp[j].user \in Users
                          /\ batch[b].rows[j] \in Ratings /\ batch[b].rows[j] # NoLog
                          /\ Given(imp[j].user, Slug(b), batch[b].rows[j])
  BY <1>1 DEF Read, RecordsType, ImportSet, BatchSet, BatchHolds
<1>13. \A u \in Users, s \in Slugs :
          logs'[u, s] = IF u \in Promoted(b) /\ s = Slug(b)
                        THEN batch[b].rows[f[u]] ELSE logs[u, s]
  BY <1>10
<1>14. \A u \in Users, s \in Slugs : logs'[u, s] = logs[u, s] \/ Given(u, s, logs'[u, s])
  BY <1>11, <1>12, <1>13
<1>15. \A u \in Users, s \in Slugs : logs[u, s] # NoLog => logs'[u, s] # NoLog
  BY <1>11, <1>12, <1>13
<1>16. logs' \in [Users \X Slugs -> Ratings \cup {NoLog}]
  <2>1. \A x \in Users \X Slugs : logs'[x] \in Ratings \cup {NoLog}
    <3> SUFFICES ASSUME NEW x \in Users \X Slugs PROVE logs'[x] \in Ratings \cup {NoLog}
      OBVIOUS
    <3>1. PICK u \in Users, s \in Slugs : x = <<u, s>>
      BY LogSlots
    <3>2. logs[u, s] \in Ratings \cup {NoLog}
      BY DEF TablesType
    <3>3. logs'[u, s] \in Ratings \cup {NoLog}
      BY <1>11, <1>12, <1>13, <3>2
    <3> QED
      BY <3>1, <3>3
  <2>2. DOMAIN logs' = Users \X Slugs /\ logs' = [x \in Users \X Slugs |-> logs'[x]]
    BY <1>10
  <2> QED
    BY <2>1, <2>2
<1>17. ASSUME NEW j \in Read(b), st[imp[j].user] = "PROCESSED"
       PROVE  logs'[imp[j].user, Slug(b)] # NoLog
  <2> DEFINE u == imp[j].user
  <2>1. u \in Users /\ u \in users /\ u \in RowUsers(b)
    BY <1>3, <1>12, <1>17 DEF RowUsers
  <2>2. CASE u \in batch[b].logged
    BY <1>1, <1>2, <1>15, <2>1, <2>2 DEF BatchHolds
  <2>3. CASE u \notin batch[b].logged
    <3>1. u \in Promoted(b)
      BY <2>1, <2>3 DEF Promoted
    <3> QED
      BY <1>2, <1>11, <1>12, <1>13, <2>1, <3>1
  <2> QED
    BY <2>2, <2>3
<1> QED
  BY <1>3, <1>4, <1>6, <1>7, <1>8, <1>9, <1>14, <1>15, <1>16, <1>17, SettleHolds

-----------------------------------------------------------------------------
(* The specification.                                                        *)

(* Films that are loaded stay.                                               *)
LEMMA LoadHolds == ASSUME IInv, LoadFilms PROVE IInv'
<1> USE DEF IInv
<1>1. /\ films \subseteq films' /\ films' \subseteq Slugs
      /\ UNCHANGED <<users, logs, queue, backlog, pending, imp, batch, failures>>
  BY DEF LoadFilms, TablesType
<1>2. TablesType' /\ RecordsType' /\ ProcessedHasFilm'
  BY <1>1 DEF TablesType, RecordsType, ProcessedHasFilm
<1>3. ResolvedHasLog' /\ DoneKept' /\ RowsByDone' /\ ExportsLeaveNoRow'
  BY <1>1 DEF ResolvedHasLog, DoneKept, HasLog, Kept, Watched, RowsByDone, ExportsLeaveNoRow
<1>4. RowsGiven' /\ LogsGiven' /\ BatchesHold'
  <2>1. \A u, f, x : Given(u, f, x) <=> Given(u, f, x)'
    BY <1>1 DEF Given, Watched
  <2>2. RowsGiven' /\ LogsGiven'
    BY <1>1, <2>1 DEF RowsGiven, LogsGiven, HasLog
  <2>3. BatchesHold'
    BY <1>1, <2>1 DEF BatchesHold, BatchHolds
  <2> QED
    BY <2>2, <2>3
<1>5. ImportsHold'
  BY <1>1 DEF ImportsHold, SeenHolds, ExportHolds
<1> QED
  BY <1>2, <1>3, <1>4, <1>5

LEMMA StutterHolds == ASSUME IInv, UNCHANGED vars PROVE IInv'
<1> USE DEF IInv, vars, tables
<1>1. TablesType' /\ RecordsType' /\ ProcessedHasFilm'
  BY DEF TablesType, RecordsType, ProcessedHasFilm
<1>2. ResolvedHasLog' /\ DoneKept' /\ RowsByDone' /\ ExportsLeaveNoRow'
  BY DEF ResolvedHasLog, DoneKept, HasLog, Kept, Watched, RowsByDone, ExportsLeaveNoRow
<1>3. RowsGiven' /\ LogsGiven' /\ BatchesHold'
  <2>1. \A u, f, x : Given(u, f, x) <=> Given(u, f, x)'
    BY DEF Given, Watched
  <2>2. RowsGiven' /\ LogsGiven'
    BY <2>1 DEF RowsGiven, LogsGiven, HasLog
  <2>3. BatchesHold'
    BY <2>1 DEF BatchesHold, BatchHolds
  <2> QED
    BY <2>2, <2>3
<1>4. ImportsHold'
  BY DEF ImportsHold, SeenHolds, ExportHolds
<1> QED
  BY <1>1, <1>2, <1>3, <1>4

LEMMA StepHolds == IInv /\ [Next]_vars => IInv'
<1> SUFFICES ASSUME IInv, [Next]_vars PROVE IInv'
  OBVIOUS
<1>1. ASSUME NEW i \in Imports,
             \/ SyncProfile(i) \/ RefuseProfile(i) \/ ImportExport(i)
             \/ RefuseExport(i) \/ ImportStep(i)
             \/ ImportFails(i)
      PROVE  IInv'
  <2>1. CASE SyncProfile(i) \/ ImportExport(i)
    BY <2>1, BeginsHold
  <2>2. CASE RefuseProfile(i) \/ RefuseExport(i)
    BY <2>2, StutterHolds DEF RefuseProfile, RefuseExport
  <2>3. CASE SelectUser(i) \/ InsertUser(i)
    BY <2>3, UserStepsHold
  <2>4. CASE ReadCatalog(i) \/ ReadBacklog(i)
    BY <2>4, ReadsHold
  <2>5. CASE Commit(i)
    BY <2>5, CommitHolds
  <2>6. CASE CommitRefused(i) \/ RaiseInconsistent(i) \/ ImportFails(i)
    BY <2>6, EndsHold
  <2> QED
    BY <1>1, <2>1, <2>2, <2>3, <2>4, <2>5, <2>6 DEF ImportStep
<1>2. ASSUME NEW b \in Batches, BatchStep(b) \/ EmptyBatch(b) \/ BatchFault(b)
      PROVE  IInv'
  <2>1. CASE EmptyBatch(b)
    BY <2>1, StutterHolds DEF EmptyBatch
  <2>2. CASE CommitTerminal(b)
    BY <2>2, CommitTerminalHolds
  <2>3. CASE CommitSuccess(b)
    BY <2>3, CommitSuccessHolds
  <2>4. CASE \/ StartBatch(b) \/ Scraped(b) \/ NextFilm(b) \/ MarkTerminal(b)
             \/ PersistSuccess(b) \/ InsertFilm(b) \/ AttachPendingLogs(b)
             \/ CommitSuccessRefused(b) \/ BatchFault(b)
    BY <2>4, BatchStepsHold
  <2> QED
    BY <1>2, <2>1, <2>2, <2>3, <2>4 DEF BatchStep
<1>3. CASE LoadFilms
  BY <1>3, LoadHolds
<1>4. CASE UNCHANGED vars
  BY <1>4, StutterHolds
<1> QED
  BY <1>1, <1>2, <1>3, <1>4 DEF Next

(* The invariant holds throughout: what each transaction and each batch has  *)
(* read is still there, whatever the others have committed since.            *)
THEOREM Inductive == Spec => []IInv
<1> QED
  BY InitHolds, StepHolds, PTL DEF Spec

(* Every table and every record keeps its type.                              *)
THEOREM TypeCorrect == Spec => []TypeOK
<1>1. IInv => TypeOK
  BY TypesTogether DEF IInv
<1> QED
  BY <1>1, Inductive, PTL

(* A queue row says PROCESSED only beside its film, for any number of        *)
(* imports and of batches left behind by the soft limit.                     *)
THEOREM ProcessedHasFilmSafe == Spec => []ProcessedHasFilm
<1>1. IInv => ProcessedHasFilm
  BY DEF IInv
<1> QED
  BY <1>1, Inductive, PTL

(* No watch of a committed import is lost and no row is resolved without its *)
(* log, whatever interleaves, fails or is left behind.                       *)
THEOREM NothingLostSafe == Spec => []NothingLost
<1>1. IInv => NothingLost
  BY DEF IInv, NothingLost, DoneKept
<1> QED
  BY <1>1, Inductive, PTL

(* Every log shows a rating its user gave the film in a committed import.    *)
THEOREM LogsAreImportedSafe == Spec => []LogsAreImported
<1>1. IInv => LogsAreImported
  BY DEF IInv, LogsAreImported, LogsGiven, Given
<1> QED
  BY <1>1, Inductive, PTL

(* A ZIP import leaves nothing pending and is never refused as inconsistent. *)
THEOREM ExportStaysResolvedSafe == Spec => []ExportStaysResolved
<1>1. IInv => ExportStaysResolved
  BY DEF IInv, ExportStaysResolved, ExportsLeaveNoRow, ImportsHold, ExportHolds
<1> QED
  BY <1>1, Inductive, PTL

-----------------------------------------------------------------------------
(* Batches one after the other.                                              *)

(* A batch that started when every other was at rest, and that has kept its  *)
(* lock, is alone, and its slugs still wait.                                 *)
Undisturbed(b) == batch[b].pc # "idle" /\ ~batch[b].lockless /\ ~batch[b].beside

AloneHolds == \A b \in Batches : Undisturbed(b) =>
    /\ \A c \in Batches \ {b} : batch[c].pc = "idle"
    /\ \A s \in batch[b].todo : queue[s] = "PENDING"
    /\ batch[b].pc \in AtFilm => batch[b].slug \in batch[b].todo

(* A step of one batch that leaves the queue, or changes its own film only.  *)
LEMMA AloneKept ==
  ASSUME IInv, AloneHolds, NEW b \in Batches, NEW r \in BatchSet, Become(b, r),
         batch[b].pc # "idle",
         r.pc # "idle" /\ ~r.lockless => ~batch[b].lockless,
         r.beside = batch[b].beside \/ r.pc = "idle",
         r.todo \subseteq batch[b].todo,
         r.pc \in AtFilm => r.slug \in r.todo \/ ~Undisturbed(b),
         \A s \in Slugs : queue'[s] = queue[s] \/ (s = Slug(b) /\ s \notin r.todo)
  PROVE  AloneHolds'
<1>1. \A c \in Batches : batch'[c] = IF c = b THEN r ELSE batch[c]
  BY DEF IInv, RecordsType, Become
<1>2. batch[b] \in BatchSet /\ \A c \in Batches : batch[c].todo \subseteq Slugs
  BY DEF IInv, RecordsType, BatchSet
<1> SUFFICES ASSUME NEW c \in Batches, Undisturbed(c)'
             PROVE  /\ \A d \in Batches \ {c} : batch'[d].pc = "idle"
                    /\ \A s \in batch'[c].todo : queue'[s] = "PENDING"
                    /\ batch'[c].pc \in AtFilm => batch'[c].slug \in batch'[c].todo
  BY DEF AloneHolds
<1>3. CASE c = b
  <2>1. Undisturbed(b)
    BY <1>1, <1>3 DEF Undisturbed
  <2>2. /\ \A d \in Batches \ {b} : batch[d].pc = "idle"
        /\ \A s \in batch[b].todo : queue[s] = "PENDING"
    BY <2>1 DEF AloneHolds
  <2> QED
    BY <1>1, <1>2, <1>3, <2>1, <2>2
<1>4. CASE c # b
  <2>1. Undisturbed(c) /\ batch'[c] = batch[c]
    BY <1>1, <1>4 DEF Undisturbed
  <2>2. batch[b].pc = "idle"
    BY <1>4, <2>1 DEF AloneHolds
  <2> QED
    BY <2>2
<1> QED
  BY <1>3, <1>4

(* What is common to the steps of a batch that stays with the films it       *)
(* selected: the record keeps what tells whether it is disturbed.            *)
LEMMA SameTodoKept ==
  ASSUME IInv, AloneHolds, NEW b \in Batches, NEW r \in BatchSet, Become(b, r),
         batch[b].pc # "idle", queue' = queue, r.todo = batch[b].todo,
         r.beside = batch[b].beside, batch[b].lockless => r.lockless,
         r.pc \in AtFilm => r.slug \in r.todo \/ (batch[b].pc \in AtFilm /\ r.slug = Slug(b))
  PROVE  AloneHolds'
<1>1. r.pc \in AtFilm => r.slug \in r.todo \/ ~Undisturbed(b)
  BY DEF AloneHolds, Slug
<1> QED
  BY <1>1, AloneKept

(* Both commits of a batch drop the film from its todo.                      *)
LEMMA NextSlugKept ==
  ASSUME IInv, AloneHolds, NEW b \in Batches, Become(b, NextSlug(b)),
         batch[b].pc # "idle", \A s \in Slugs \ {Slug(b)} : queue'[s] = queue[s]
  PROVE  AloneHolds'
<1>1. /\ NextSlug(b).pc = "next" /\ NextSlug(b).todo = batch[b].todo \ {Slug(b)}
      /\ NextSlug(b).lockless = batch[b].lockless /\ NextSlug(b).beside = batch[b].beside
  BY DEF NextSlug, IdleBatch
<1>2. NextSlug(b) \in BatchSet
  BY NextSlugHolds
<1> QED
  BY <1>1, <1>2, AloneKept DEF AtFilm

LEMMA StartKept ==
  ASSUME IInv, AloneHolds, NEW b \in Batches, StartBatch(b)
  PROVE  AloneHolds'
<1> DEFINE beside == \E c \in Batches : batch[c].lockless
           r == [IdleBatch EXCEPT !.pc = "scraping", !.todo = PendingSlugs,
                                  !.beside = beside]
<1>1. /\ Become(b, r) /\ queue' = queue /\ batch[b].pc = "idle"
      /\ \A c \in Batches \ {b} : batch[c].pc = "idle" \/ batch[c].lockless
  BY DEF StartBatch, Alone, tables
<1> HIDE DEF beside
<1>2. r.pc = "scraping" /\ r.todo = PendingSlugs /\ r.beside = beside
  BY DEF IdleBatch
<1> HIDE DEF r
<1>3. \A c \in Batches : batch'[c] = IF c = b THEN r ELSE batch[c]
  BY <1>1 DEF IInv, RecordsType, Become
<1>4. \A s \in PendingSlugs : queue[s] = "PENDING"
  BY DEF PendingSlugs
<1> SUFFICES ASSUME NEW c \in Batches, Undisturbed(c)'
             PROVE  /\ \A d \in Batches \ {c} : batch'[d].pc = "idle"
                    /\ \A s \in batch'[c].todo : queue'[s] = "PENDING"
                    /\ batch'[c].pc \in AtFilm => batch'[c].slug \in batch'[c].todo
  BY DEF AloneHolds
<1>5. CASE c = b
  <2>1. ~beside
    BY <1>2, <1>3, <1>5 DEF Undisturbed
  <2>2. \A d \in Batches \ {b} : batch[d].pc = "idle"
    BY <1>1, <2>1 DEF beside
  <2> QED
    BY <1>1, <1>2, <1>3, <1>4, <1>5, <2>2 DEF AtFilm
<1>6. CASE c # b
  BY <1>1, <1>3, <1>6 DEF Undisturbed
<1> QED
  BY <1>5, <1>6

LEMMA BatchStepsKeep ==
  ASSUME IInv, AloneHolds, NEW b \in Batches, BatchStep(b) \/ BatchFault(b), ~StartBatch(b)
  PROVE  AloneHolds'
<1>1. batch[b] \in BatchSet /\ Slug(b) = batch[b].slug
  BY DEF IInv, RecordsType, Slug
<1>2. CASE CommitTerminal(b) \/ CommitSuccess(b)
  <2>1. /\ batch[b].pc # "idle" /\ Become(b, NextSlug(b))
        /\ \A s \in Slugs \ {Slug(b)} : queue'[s] = queue[s]
    BY <1>2 DEF CommitTerminal, CommitSuccess, IInv, TablesType
  <2> QED
    BY <2>1, NextSlugKept
<1>3. CASE Become(b, IdleBatch) /\ queue' = queue /\ batch[b].pc # "idle"
  <2>1. IdleBatch \in BatchSet /\ IdleBatch.pc = "idle" /\ IdleBatch.todo = {}
    BY DEF IdleBatch, BatchSet, BatchPC, Terminal, Status, NoRows
  <2> QED
    BY <1>3, <2>1, AloneKept DEF AtFilm
<1>4. CASE batch[b].pc \in AtFilm /\ Become(b, Failing(b)) /\ queue' = queue
  <2>1. /\ Failing(b) \in BatchSet /\ Failing(b).slug = Slug(b) /\ Failing(b).pc = "mark"
        /\ Failing(b).todo = batch[b].todo /\ Failing(b).beside = batch[b].beside
        /\ Failing(b).lockless = batch[b].lockless
    BY <1>1 DEF Failing, BatchSet, BatchPC, Terminal, Status
  <2> QED
    BY <1>4, <2>1, SameTodoKept DEF AtFilm
<1>5. CASE Scraped(b)
  <2> DEFINE r == [batch[b] EXCEPT !.pc = "next"]
  <2>1. /\ r \in BatchSet /\ r.pc = "next" /\ r.todo = batch[b].todo
        /\ r.beside = batch[b].beside /\ r.lockless = batch[b].lockless
    BY <1>1 DEF BatchSet, BatchPC
  <2>2. Become(b, r) /\ queue' = queue /\ batch[b].pc # "idle"
    BY <1>5 DEF Scraped, tables
  <2> HIDE DEF r
  <2> QED
    BY <2>1, <2>2, SameTodoKept DEF AtFilm
<1>6. CASE NextFilm(b) /\ ~Become(b, IdleBatch)
  <2>1. PICK s \in batch[b].todo :
            \/ \E st \in Terminal : Become(b, [batch[b] EXCEPT !.pc = "mark",
                                                  !.slug = s, !.status = st])
            \/ Become(b, [batch[b] EXCEPT !.pc = "persist", !.slug = s])
    BY <1>6 DEF NextFilm
  <2>2. /\ batch[b].pc # "idle" /\ queue' = queue /\ s \in Slugs
    BY <1>1, <1>6 DEF NextFilm, tables, BatchSet
  <2>3. ASSUME NEW st \in Terminal,
               Become(b, [batch[b] EXCEPT !.pc = "mark", !.slug = s, !.status = st])
        PROVE  AloneHolds'
    <3> DEFINE r == [batch[b] EXCEPT !.pc = "mark", !.slug = s, !.status = st]
    <3>1. /\ r \in BatchSet /\ r.pc = "mark" /\ r.todo = batch[b].todo /\ r.slug = s
          /\ r.beside = batch[b].beside /\ r.lockless = batch[b].lockless
      BY <1>1, <2>2 DEF BatchSet, BatchPC
    <3>2. Become(b, r)
      BY <2>3
    <3> HIDE DEF r
    <3> QED
      BY <2>2, <3>1, <3>2, SameTodoKept
  <2>4. ASSUME Become(b, [batch[b] EXCEPT !.pc = "persist", !.slug = s])
        PROVE  AloneHolds'
    <3> DEFINE r == [batch[b] EXCEPT !.pc = "persist", !.slug = s]
    <3>1. /\ r \in BatchSet /\ r.pc = "persist" /\ r.todo = batch[b].todo /\ r.slug = s
          /\ r.beside = batch[b].beside /\ r.lockless = batch[b].lockless
      BY <1>1, <2>2 DEF BatchSet, BatchPC
    <3>2. Become(b, r)
      BY <2>4
    <3> HIDE DEF r
    <3> QED
      BY <2>2, <3>1, <3>2, SameTodoKept
  <2> QED
    BY <2>1, <2>3, <2>4
<1>7. CASE MarkTerminal(b) \/ PersistSuccess(b) \/ AttachPendingLogs(b)
           \/ (InsertFilm(b) /\ ~Become(b, Failing(b)))
  <2>1. /\ batch[b].pc \in AtFilm /\ batch[b].pc # "idle" /\ queue' = queue
        /\ Slug(b) \in Slugs /\ queue[Slug(b)] \in Status
    BY <1>1, <1>7 DEF MarkTerminal, PersistSuccess, AttachPendingLogs, InsertFilm, AtFilm,
                      tables, IInv, BatchesHold, BatchHolds, TablesType
  <2>2. PendingRows(Slug(b)) \in [Imports -> Ratings \cup {NoLog}]
    BY <2>1, PendingRowsHold
  <2>3. PICK r \in BatchSet : /\ Become(b, r) /\ r.todo = batch[b].todo /\ r.slug = Slug(b)
                              /\ r.beside = batch[b].beside /\ r.lockless = batch[b].lockless
    <3>1. CASE MarkTerminal(b)
      <4> DEFINE rows == PendingRows(Slug(b))
                 r == [batch[b] EXCEPT !.pc = "mark_commit", !.rows = rows]
      <4>1. Become(b, r)
        BY <3>1 DEF MarkTerminal
      <4>2. rows \in [Imports -> Ratings \cup {NoLog}]
        BY <2>2
      <4> HIDE DEF rows
      <4>3. /\ r \in BatchSet /\ r.todo = batch[b].todo /\ r.slug = Slug(b)
            /\ r.beside = batch[b].beside /\ r.lockless = batch[b].lockless
        BY <1>1, <4>2 DEF BatchSet, BatchPC
      <4> HIDE DEF r
      <4> QED
        BY <4>1, <4>3
    <3>2. CASE PersistSuccess(b)
      <4> DEFINE p == IF Slug(b) \in films THEN "attach" ELSE "insert_film"
                 was == queue[Slug(b)]
                 r == [batch[b] EXCEPT !.was = was, !.pc = p]
      <4>1. Become(b, r)
        BY <3>2 DEF PersistSuccess
      <4>2. p \in BatchPC /\ was \in Status
        BY <2>1 DEF BatchPC
      <4> HIDE DEF p, was
      <4>3. /\ r \in BatchSet /\ r.todo = batch[b].todo /\ r.slug = Slug(b)
            /\ r.beside = batch[b].beside /\ r.lockless = batch[b].lockless
        BY <1>1, <4>2 DEF BatchSet
      <4> HIDE DEF r
      <4> QED
        BY <4>1, <4>3
    <3>3. CASE AttachPendingLogs(b)
      <4> DEFINE rows == PendingRows(Slug(b))
                 logged == {u \in Users : logs[u, Slug(b)] # NoLog}
                 r == [batch[b] EXCEPT !.pc = "persist_commit", !.rows = rows,
                                       !.logged = logged]
      <4>1. Become(b, r)
        BY <3>3 DEF AttachPendingLogs
      <4>2. rows \in [Imports -> Ratings \cup {NoLog}] /\ logged \subseteq Users
        BY <2>2
      <4> HIDE DEF rows, logged
      <4>3. /\ r \in BatchSet /\ r.todo = batch[b].todo /\ r.slug = Slug(b)
            /\ r.beside = batch[b].beside /\ r.lockless = batch[b].lockless
        BY <1>1, <4>2 DEF BatchSet, BatchPC
      <4> HIDE DEF r
      <4> QED
        BY <4>1, <4>3
    <3>4. CASE InsertFilm(b) /\ ~Become(b, Failing(b))
      <4> DEFINE r == [batch[b] EXCEPT !.pc = "attach", !.inserted = TRUE]
      <4>1. Become(b, r)
        BY <3>4 DEF InsertFilm
      <4>2. /\ r \in BatchSet /\ r.todo = batch[b].todo /\ r.slug = Slug(b)
            /\ r.beside = batch[b].beside /\ r.lockless = batch[b].lockless
        BY <1>1 DEF BatchSet, BatchPC
      <4> HIDE DEF r
      <4> QED
        BY <4>1, <4>2
    <3> QED
      BY <1>7, <3>1, <3>2, <3>3, <3>4
  <2> QED
    BY <2>1, <2>3, SameTodoKept
<1>8. CASE LosesLock(b)
  <2> DEFINE r == [batch[b] EXCEPT !.lockless = TRUE]
  <2>1. /\ r \in BatchSet /\ r.pc = batch[b].pc /\ r.slug = Slug(b) /\ r.todo = batch[b].todo
        /\ r.beside = batch[b].beside /\ r.lockless
    BY <1>1 DEF BatchSet
  <2>2. Become(b, r) /\ queue' = queue /\ batch[b].pc # "idle"
    BY <1>8 DEF LosesLock, tables
  <2> HIDE DEF r
  <2> QED
    BY <2>1, <2>2, SameTodoKept
<1>9. ASSUME CommitSuccessRefused(b) \/ PersistFails(b)
             \/ (InsertFilm(b) /\ Become(b, Failing(b)))
      PROVE  batch[b].pc \in AtFilm /\ Become(b, Failing(b)) /\ queue' = queue
  BY <1>9 DEF CommitSuccessRefused, PersistFails, InsertFilm, AtFilm, tables
<1>10. ASSUME BatchFails(b) \/ (NextFilm(b) /\ Become(b, IdleBatch))
       PROVE  Become(b, IdleBatch) /\ queue' = queue /\ batch[b].pc # "idle"
  BY <1>10 DEF BatchFails, NextFilm, tables
<1> QED
  BY <1>2, <1>3, <1>4, <1>5, <1>6, <1>7, <1>8, <1>9, <1>10 DEF BatchStep, BatchFault, Abandon, Outlive

(* The queue between one state and the next: a commit of an import adds      *)
(* waiting slugs, a commit of a batch writes its own, nothing else writes.   *)
LEMMA QueueWrites ==
  ASSUME IInv, [Next]_vars
  PROVE  \/ queue' = queue /\ backlog' = backlog
         \/ \E i \in Imports : Commit(i)
         \/ \E b \in Batches : CommitTerminal(b) \/ CommitSuccess(b)
<1>1. ASSUME NEW i \in Imports,
             \/ SyncProfile(i) \/ RefuseProfile(i) \/ ImportExport(i)
             \/ RefuseExport(i) \/ ImportStep(i)
             \/ ImportFails(i), ~Commit(i)
      PROVE  queue' = queue /\ backlog' = backlog
  BY <1>1 DEF SyncProfile, RefuseProfile, ImportExport, RefuseExport, ImportStep, SelectUser, InsertUser,
              ReadCatalog, ReadBacklog, CommitRefused, RaiseInconsistent, ImportFails,
              tables, vars
<1>2. ASSUME NEW b \in Batches, BatchStep(b) \/ EmptyBatch(b) \/ BatchFault(b),
             ~CommitTerminal(b), ~CommitSuccess(b)
      PROVE  queue' = queue /\ backlog' = backlog
  BY <1>2 DEF BatchStep, EmptyBatch, BatchFault, StartBatch, Scraped, NextFilm, MarkTerminal,
              PersistSuccess, InsertFilm, AttachPendingLogs, CommitSuccessRefused,
              BatchFails, PersistFails, Abandon, Outlive, LosesLock, tables, vars
<1>3. CASE LoadFilms
  BY <1>3 DEF LoadFilms
<1>4. CASE UNCHANGED vars
  BY <1>4 DEF vars
<1> QED
  BY <1>1, <1>2, <1>3, <1>4 DEF Next

(* What a commit of an import does to the statuses of the queue.             *)
LEMMA CommitQueues ==
  ASSUME IInv, NEW i \in Imports, Commit(i)
  PROVE  /\ batch' = batch
         /\ \A s \in Slugs : /\ s \in ToQueue(i) => queue[s] = "absent" /\ queue'[s] = "PENDING"
                             /\ s \notin ToQueue(i) => queue'[s] = queue[s]
  BY DEF Commit, KeyTaken

LEMMA BatchQueues ==
  ASSUME IInv, NEW b \in Batches, CommitTerminal(b) \/ CommitSuccess(b)
  PROVE  /\ backlog' = backlog /\ Slug(b) \in Slugs
         /\ queue[Slug(b)] # "absent" /\ queue'[Slug(b)] # "absent"
         /\ \A s \in Slugs : s # Slug(b) => queue'[s] = queue[s]
         /\ CommitSuccess(b) /\ queue[Slug(b)] = "PROCESSED" => queue'[Slug(b)] = "PROCESSED"
<1> USE DEF IInv
<1>1. /\ batch[b] \in BatchSet /\ batch[b].status \in Terminal
      /\ Slug(b) \in Slugs /\ queue[Slug(b)] # "absent"
  BY DEF RecordsType, BatchSet, BatchesHold, BatchHolds, Slug, AtFilm, CommitTerminal,
         CommitSuccess
<1>2. "absent" \notin Terminal
  BY DEF Terminal
<1>3. CASE CommitTerminal(b)
  <2>1. queue' = [queue EXCEPT ![Slug(b)] = batch[b].status] /\ backlog' = backlog
        /\ ~CommitSuccess(b)
    BY <1>3 DEF CommitTerminal, CommitSuccess
  <2> QED
    BY <1>1, <1>2, <2>1 DEF TablesType
<1>4. CASE CommitSuccess(b)
  <2>1. backlog' = backlog /\ queue' = [queue EXCEPT ![Slug(b)] =
            IF batch[b].was = "PROCESSED" THEN queue[Slug(b)] ELSE "PROCESSED"]
    BY <1>4 DEF CommitSuccess
  <2> QED
    BY <1>1, <2>1 DEF TablesType
<1> QED
  BY <1>3, <1>4

LEMMA AloneStep == IInv /\ AloneHolds /\ [Next]_vars => AloneHolds'
<1> SUFFICES ASSUME IInv, AloneHolds, [Next]_vars PROVE AloneHolds'
  OBVIOUS
<1>1. ASSUME NEW b \in Batches, BatchStep(b) \/ BatchFault(b) PROVE AloneHolds'
  BY <1>1, StartKept, BatchStepsKeep
<1>2. ASSUME NEW i \in Imports, Commit(i) PROVE AloneHolds'
  <2>1. batch' = batch /\ \A s \in Slugs : queue[s] = "PENDING" => queue'[s] = "PENDING"
    BY <1>2, CommitQueues
  <2>2. \A b \in Batches : batch[b].todo \subseteq Slugs
    BY DEF IInv, RecordsType, BatchSet
  <2> QED
    BY <2>1, <2>2 DEF AloneHolds, Undisturbed
<1>3. CASE batch' = batch /\ queue' = queue
  BY <1>3 DEF AloneHolds, Undisturbed
<1>4. ASSUME NEW i \in Imports,
             \/ SyncProfile(i) \/ RefuseProfile(i) \/ ImportExport(i)
             \/ RefuseExport(i) \/ ImportStep(i)
             \/ ImportFails(i), ~Commit(i)
      PROVE  batch' = batch /\ queue' = queue
  BY <1>4 DEF SyncProfile, RefuseProfile, ImportExport, RefuseExport, ImportStep, SelectUser, InsertUser,
              ReadCatalog, ReadBacklog, CommitRefused, RaiseInconsistent, ImportFails,
              tables, vars
<1>5. ASSUME (\E b \in Batches : EmptyBatch(b)) \/ LoadFilms \/ UNCHANGED vars
      PROVE  batch' = batch /\ queue' = queue
  BY <1>5 DEF EmptyBatch, LoadFilms, vars
<1> QED
  BY <1>1, <1>2, <1>3, <1>4, <1>5 DEF Next

(* A processed row loses its status only to a batch that works on without    *)
(* its lock, or that started beside one: any other batch is alone with slugs *)
(* that wait.                                                                *)
THEOREM ProcessedFallsSafe == Spec => ProcessedFallsToOverlap
<1>1. Init => AloneHolds
  BY DEF Init, AloneHolds, Undisturbed, IdleBatch
<1>2. IInv /\ AloneHolds /\ [Next]_vars =>
        [\A s \in Slugs : queue[s] = "PROCESSED" /\ queue'[s] # "PROCESSED" =>
            \E b \in Batches : /\ batch[b].pc = "mark_commit" /\ Slug(b) = s
                               /\ batch[b].lockless \/ batch[b].beside]_vars
  <2> SUFFICES ASSUME IInv, AloneHolds, [Next]_vars, NEW s \in Slugs,
                      queue[s] = "PROCESSED", queue'[s] # "PROCESSED"
               PROVE  \E b \in Batches : /\ batch[b].pc = "mark_commit" /\ Slug(b) = s
                                         /\ batch[b].lockless \/ batch[b].beside
    OBVIOUS
  <2>1. PICK b \in Batches : CommitTerminal(b) \/ CommitSuccess(b)
    BY QueueWrites, CommitQueues
  <2>2. Slug(b) = s /\ CommitTerminal(b)
    BY <2>1, BatchQueues
  <2>3. batch[b].pc = "mark_commit"
    BY <2>2 DEF CommitTerminal
  <2>4. ~Undisturbed(b)
    BY <2>2, <2>3 DEF AloneHolds, AtFilm, Slug
  <2> QED
    BY <2>2, <2>3, <2>4 DEF Undisturbed
<1> QED
  BY <1>1, <1>2, InitHolds, StepHolds, AloneStep, PTL DEF Spec, ProcessedFallsToOverlap

(* New rows arrive in some order, each once.                                 *)
LEMMA ArrivesOnce ==
  ASSUME NEW S \in SUBSET Slugs, NEW q \in Arrivals(S)
  PROVE  /\ q \in Seq(S) /\ \A s \in S : \E k \in DOMAIN q : q[k] = s
         /\ \A k, l \in DOMAIN q : q[k] = q[l] => k = l
<1> DEFINE n == Cardinality(S)
<1>1. IsFiniteSet(S) /\ n \in Nat
  BY IngestionAssumption, FS_Subset, FS_CardinalityType
<1>2. q \in [1 .. n -> S] /\ DOMAIN q = 1 .. n /\ \A s \in S : \E k \in DOMAIN q : q[k] = s
  BY DEF Arrivals
<1>3. IsFiniteSet(1 .. n) /\ Cardinality(1 .. n) = n
  BY <1>1, FS_Interval
<1>4. q \in Surjection(1 .. n, S)
  BY <1>2 DEF Surjection
<1>5. q \in Injection(1 .. n, S)
  BY <1>3, <1>4, FS_SurjSameCardinalityImpliesInj
<1> QED
  BY <1>1, <1>2, <1>5 DEF Injection, IsInjective

(* Each queued slug waits once: the unique key refuses a second row, and no  *)
(* commit of a batch removes one.                                            *)
THEOREM QueuedOnceSafe == Spec => []QueuedOnce
<1>1. Init => QueuedOnce
  BY DEF Init, QueuedOnce
<1>2. IInv /\ QueuedOnce /\ [Next]_vars => QueuedOnce'
  <2> SUFFICES ASSUME IInv, QueuedOnce, [Next]_vars PROVE QueuedOnce'
    OBVIOUS
  <2>1. CASE queue' = queue /\ backlog' = backlog
    BY <2>1 DEF QueuedOnce
  <2>2. ASSUME NEW b \in Batches, CommitTerminal(b) \/ CommitSuccess(b) PROVE QueuedOnce'
    <3>1. /\ backlog' = backlog
          /\ \A s \in Slugs : queue'[s] # "absent" <=> queue[s] # "absent"
      BY <2>2, BatchQueues
    <3> QED
      BY <3>1 DEF QueuedOnce
  <2>3. ASSUME NEW i \in Imports, Commit(i) PROVE QueuedOnce'
    <3> DEFINE S == ToQueue(i)
    <3>1. S \subseteq Slugs
      BY DEF ToQueue, Unknown, Watched, IInv, RecordsType, ImportSet, Watches
    <3>2. PICK q \in Arrivals(S) : backlog' = backlog \o q
      BY <2>3 DEF Commit
    <3>3. /\ q \in Seq(S) /\ \A s \in S : \E k \in DOMAIN q : q[k] = s
          /\ \A k, l \in DOMAIN q : q[k] = q[l] => k = l
      BY <3>1, <3>2, ArrivesOnce
    <3>4. \A s \in Slugs : /\ s \in S => queue[s] = "absent" /\ queue'[s] = "PENDING"
                           /\ s \notin S => queue'[s] = queue[s]
      BY <2>3, CommitQueues
    <3> HIDE DEF S
    <3>5. /\ backlog \in Seq(Slugs) /\ q \in Seq(Slugs)
          /\ \A s \in Slugs : queue[s] # "absent" <=> \E k \in DOMAIN backlog : backlog[k] = s
          /\ \A k, l \in DOMAIN backlog : backlog[k] = backlog[l] => k = l
      BY <3>1, <3>3 DEF IInv, TablesType, QueuedOnce
    <3> DEFINE m == Len(backlog)
               n == Len(q)
               both == backlog \o q
    <3>6. /\ m \in Nat /\ n \in Nat /\ DOMAIN backlog = 1 .. m /\ DOMAIN q = 1 .. n
          /\ DOMAIN both = 1 .. m + n
          /\ \A k \in 1 .. m : both[k] = backlog[k]
          /\ \A k \in 1 .. n : both[m + k] = q[k]
          /\ \A k \in m + 1 .. m + n : k - m \in 1 .. n /\ both[k] = q[k - m]
      BY <3>5
    <3>7. /\ \A k \in 1 .. m : backlog[k] \in Slugs \ S
          /\ \A k \in 1 .. n : q[k] \in S
      <4>1. ASSUME NEW k \in 1 .. m PROVE backlog[k] \in Slugs \ S
        <5>1. backlog[k] \in Slugs /\ queue[backlog[k]] # "absent"
          BY <3>5, <3>6
        <5> QED
          BY <3>4, <5>1
      <4>2. \A k \in 1 .. n : q[k] \in S
        BY <3>3, <3>6
      <4> QED
        BY <4>1, <4>2
    <3> HIDE DEF m, n, both
    <3>8. \A s \in Slugs : queue'[s] # "absent" <=> \E k \in DOMAIN both : both[k] = s
      <4> SUFFICES ASSUME NEW s \in Slugs
                   PROVE  queue'[s] # "absent" <=> \E k \in DOMAIN both : both[k] = s
        OBVIOUS
      <4>1. CASE s \in S
        <5>1. PICK k \in 1 .. n : q[k] = s
          BY <3>3, <3>6, <4>1
        <5>2. m + k \in DOMAIN both /\ both[m + k] = s
          BY <3>6, <5>1
        <5>3. queue'[s] = "PENDING"
          BY <3>4, <4>1
        <5> QED
          BY <5>2, <5>3
      <4>2. CASE s \notin S
        <5>1. queue'[s] = queue[s]
          BY <3>4, <4>2
        <5>2. ASSUME NEW k \in 1 .. m, backlog[k] = s PROVE k \in DOMAIN both /\ both[k] = s
          BY <3>6, <5>2
        <5>3. ASSUME NEW k \in DOMAIN both, both[k] = s PROVE k \in 1 .. m /\ backlog[k] = s
          <6>1. k \notin m + 1 .. m + n
            BY <3>6, <3>7, <4>2, <5>3
          <6> QED
            BY <3>6, <5>3, <6>1
        <5> QED
          BY <3>5, <3>6, <5>1, <5>2, <5>3
      <4> QED
        BY <4>1, <4>2
    <3>9. \A k, l \in DOMAIN both : both[k] = both[l] => k = l
      <4> SUFFICES ASSUME NEW k \in DOMAIN both, NEW l \in DOMAIN both, both[k] = both[l]
                   PROVE  k = l
        OBVIOUS
      <4>1. CASE k \in 1 .. m /\ l \in 1 .. m
        BY <3>5, <3>6, <4>1
      <4>2. CASE k \notin 1 .. m /\ l \notin 1 .. m
        <5>1. k \in m + 1 .. m + n /\ l \in m + 1 .. m + n
          BY <3>6, <4>2
        <5>2. q[k - m] = q[l - m] /\ k - m \in DOMAIN q /\ l - m \in DOMAIN q
          BY <3>6, <5>1
        <5>3. k - m = l - m
          BY <3>3, <5>2
        <5> QED
          BY <3>6, <5>1, <5>3
      <4>3. CASE ~(k \in 1 .. m <=> l \in 1 .. m)
        <5>1. \A j \in DOMAIN both : j \notin 1 .. m => both[j] \in S
          BY <3>6, <3>7
        <5>2. \A j \in 1 .. m : both[j] \notin S
          BY <3>6, <3>7
        <5> QED
          BY <4>3, <5>1, <5>2
      <4> QED
        BY <4>1, <4>2, <4>3
    <3>10. backlog' = both
      BY <3>2 DEF both
    <3> QED
      BY <3>8, <3>9, <3>10 DEF QueuedOnce
  <2> QED
    BY <2>1, <2>2, <2>3, QueueWrites
<1> QED
  BY <1>1, <1>2, InitHolds, StepHolds, PTL DEF Spec
=============================================================================
