----------------------------- MODULE Ingestion -----------------------------
(* Interactions on their way into PostgreSQL: profile imports reconcile      *)
(* watches with the catalog, queue batches resolve the slugs it lacks.       *)
(*                                                                           *)
(* Transactions run READ COMMITTED: each SELECT sees what is committed when  *)
(* it runs, and a transaction keeps what it read in its own record.  A       *)
(* transaction's own writes all follow its last read (a new user and a new   *)
(* film excepted, which are flushed early and hold their unique key), so     *)
(* they take effect with the commit as one action that fails if a unique key *)
(* has been taken meanwhile.  UPDATEs go by primary key and are blind.       *)
EXTENDS Integers, Sequences, FiniteSets, LetterboxdExport, Scraping

CONSTANTS
    Imports,    \* the transactions of sync_user_logs
    Batches,    \* the processes that run sync_film_queue
    Users,      \* Letterboxd usernames
    Slugs,      \* film slugs
    Archives,   \* the export archives users upload
    NoLog,      \* there is no Log row
    NoSlug,     \* a batch that is at no film
    BatchSize,  \* FILM_QUEUE_BATCH_SIZE
    MaxFailures, \* bound: batches that end before their last film
    Events      \* the environment events this instance admits

(*   abandoned      the soft limit leaves a running batch behind, its lock   *)
(*                  released, its coroutine pending on the worker loop       *)
(*   outlives       the process-film-queue command, which has no time limit, *)
(*                  works on after the lock it took has expired              *)
(*   batch_fails    the scrape of the whole batch or _mark_terminal raises,  *)
(*                  or the batch's process dies                              *)
(*   persist_fails  one film's persistence raises on its own data            *)
(*   import_fails   an import loses its connection or its process            *)
(*   catalog_load   the historical loader adds films                         *)
AllEvents == {"abandoned", "outlives", "batch_fails", "persist_fails",
              "import_fails", "catalog_load"}

Ratings == HalfStars \cup {NoRating}

ASSUME IngestionAssumption ==
    /\ DOMAIN Catalog = Slugs /\ NoLog \notin Ratings /\ NoSlug \notin Slugs /\ IsFiniteSet(Slugs)
    /\ BatchSize \in Nat \ {0}
    /\ MaxFailures \in Nat
    /\ Events \subseteq AllEvents

(* What a profile names are slugs and ratings; None is the absent rating.    *)
ASSUME AnswersAssumption ==
    /\ None = NoRating /\ Unusable \notin Ratings \cup Slugs
    /\ \A answer \in Answers : Taken(answer) =>
       /\ answer.movies \in Seq(Range(answer.movies))
       /\ \A k \in DOMAIN answer.movies : Usable(answer.movies[k]) =>
             /\ SlugOf(answer.movies[k]) \in Slugs
             /\ answer.movies[k].rating \in Ratings \cup {Unusable}

VARIABLES
    films,    \* slugs of committed Film rows
    users,    \* usernames of committed User rows
    logs,     \* the rating of each user's Log of each film
    queue,    \* status of each slug's FilmQueue row
    backlog,  \* FilmQueue rows in the order of created_at, id
    pending,  \* the LogPending row each import inserted for each slug
    imp,      \* the imports
    batch,    \* the queue batches; a lockless one works on without its lock,
              \* one that is beside started while another was lockless
    failures  \* batches that ended before their last film, so far

tables == <<films, users, logs, queue, backlog, pending>>
vars   == <<films, users, logs, queue, backlog, pending, imp, batch, failures>>

Status   == {"PENDING", "PROCESSED", "FILTERED", "FAILED"}
Terminal == {"FILTERED", "FAILED"}
Row      == [rating : Ratings, status : Status]
NoRow    == [rating |-> NoLog, status |-> "absent"]
RowSlot  == Imports \X Slugs

(* Repeated watches of one payload collapse by film, the last one wins: a    *)
(* payload is a function.                                                    *)
Watches == UNION {[S -> Ratings] : S \in SUBSET Slugs}
Payload == {ScrapedWatches(answer.movies) : answer \in {a \in Answers : Taken(a)}}

(* What a transaction has read: catalog slugs, the user's logs, the queue    *)
(* and the user's pending rows.                                              *)
Unread == [known |-> {}, logs |-> [s \in Slugs |-> NoLog],
           queue |-> [s \in Slugs |-> "absent"],
           rows  |-> [x \in RowSlot |-> NoRow]]

ImportPC == {"idle", "select_user", "insert_user", "read_catalog",
             "read_backlog", "commit", "done", "failed", "inconsistent"}
BatchPC  == {"idle", "scraping", "next", "mark", "mark_commit", "persist",
             "insert_film", "attach", "persist_commit"}

(* The pending rows a batch has read for its film, with the ratings it read. *)
NoRows == [i \in Imports |-> NoLog]

IdleBatch == [pc |-> "idle", todo |-> {}, slug |-> NoSlug, status |-> "FAILED",
              was |-> "PENDING", rows |-> NoRows,
              logged |-> {}, inserted |-> FALSE, lockless |-> FALSE, beside |-> FALSE]

TypeOK ==
    /\ films \subseteq Slugs /\ users \subseteq Users
    /\ logs \in [Users \X Slugs -> Ratings \cup {NoLog}]
    /\ queue \in [Slugs -> Status \cup {"absent"}]
    /\ backlog \in Seq(Slugs)
    /\ pending \in [RowSlot -> Row \cup {NoRow}]
    /\ imp \in [Imports -> [pc : ImportPC, kind : {"profile", "export"},
                            user : Users, watches : Watches, newUser : BOOLEAN,
                            seen : [known : SUBSET Slugs,
                                    logs : [Slugs -> Ratings \cup {NoLog}],
                                    queue : [Slugs -> Status \cup {"absent"}],
                                    rows : [RowSlot -> Row \cup {NoRow}]]]]
    /\ batch \in [Batches -> [pc : BatchPC, todo : SUBSET Slugs,
                              slug : Slugs \cup {NoSlug}, status : Terminal, was : Status,
                              rows : [Imports -> Ratings \cup {NoLog}],
                              logged : SUBSET Users,
                              inserted : BOOLEAN, lockless : BOOLEAN, beside : BOOLEAN]]
    /\ failures \in 0 .. MaxFailures

Init ==
    /\ films \in SUBSET Slugs
    /\ users = {}
    /\ logs = [x \in Users \X Slugs |-> NoLog]
    /\ queue = [s \in Slugs |-> "absent"]
    /\ backlog = <<>>
    /\ pending = [x \in RowSlot |-> NoRow]
    /\ imp \in [Imports -> {[pc |-> "idle", kind |-> "profile", user |-> u,
                             watches |-> <<>>, newUser |-> FALSE,
                             seen |-> Unread] : u \in Users}]
    /\ batch = [b \in Batches |-> IdleBatch]
    /\ failures = 0

-----------------------------------------------------------------------------
(* Imports: sync_user_logs under a profile synchronization or a ZIP import.  *)

Open(i) == imp[i].pc \in {"insert_user", "read_catalog", "read_backlog", "commit"}

Watched(i) == DOMAIN imp[i].watches
Seen(i)    == imp[i].seen

Step(i, from, to) ==
    /\ imp[i].pc = from
    /\ imp' = [imp EXCEPT ![i] = [imp[i] EXCEPT !.pc = to]]

SyncProfile(i) ==
    /\ imp[i].pc = "idle"
    /\ \E w \in Payload :
          imp' = [imp EXCEPT ![i] = [imp[i] EXCEPT !.pc = "select_user", !.watches = w]]
    /\ UNCHANGED <<tables, batch, failures>>

(* The profile cannot be read now, or ever, or has no watches: the task is   *)
(* retried or fails, and no transaction is begun.                            *)
RefuseProfile(i) ==
    /\ imp[i].pc = "idle"
    /\ \E answer \in Answers : ~Taken(answer)
    /\ UNCHANGED vars

(* An export is resolved against the catalog of its own earlier read: every  *)
(* watch that reaches the import was a film then.                            *)
Uploaded(i, watches) ==
    /\ watches # <<>>
    /\ imp' = [imp EXCEPT ![i] = [imp[i] EXCEPT !.pc = "select_user",
                                     !.kind = "export", !.watches = watches]]

ImportUnresolved(i) ==                         \* mutant of ImportExport
    /\ imp[i].pc = "idle"
    /\ \E a \in Archives : Accepted(a) /\ Uploaded(i, Profile(a, Slugs))
    /\ UNCHANGED <<tables, batch, failures>>

ImportExport(i) ==
    /\ imp[i].pc = "idle"
    /\ \E a \in Archives : Accepted(a) /\ Uploaded(i, Profile(a, films))
    /\ UNCHANGED <<tables, batch, failures>>

(* The request is answered with 400, or 422 for lack of a resolved film, and *)
(* no transaction is begun.                                                  *)
RefuseExport(i) ==
    /\ imp[i].pc = "idle"
    /\ \E a \in Archives : Accepted(a) => Profile(a, films) = <<>>
    /\ UNCHANGED vars

SelectUser(i) ==
    /\ Step(i, "select_user",
            IF imp[i].user \in users THEN "read_catalog" ELSE "insert_user")
    /\ UNCHANGED <<tables, batch, failures>>

(* The flush waits for another transaction that inserts the same username.   *)
InsertUser(i) ==
    /\ imp[i].pc = "insert_user"
    /\ \A j \in Imports : ~(Open(j) /\ imp[j].newUser /\ imp[j].user = imp[i].user)
    /\ imp' = [imp EXCEPT ![i] =
                  IF imp[i].user \in users
                  THEN [imp[i] EXCEPT !.pc = "failed"]
                  ELSE [imp[i] EXCEPT !.pc = "read_catalog", !.newUser = TRUE]]
    /\ UNCHANGED <<tables, batch, failures>>

(* Films, then the user's logs.  A log committed between the two SELECTs     *)
(* matters only for a film the first one saw, as it would after both.        *)
ReadCatalog(i) ==
    /\ imp[i].pc = "read_catalog"
    /\ imp' = [imp EXCEPT ![i] = [imp[i] EXCEPT !.pc = "read_backlog",
                  !.seen = [Unread EXCEPT !.known = films,
                               !.logs = [s \in Slugs |-> logs[imp[i].user, s]]]]]
    /\ UNCHANGED <<tables, batch, failures>>

(* The queue, then the username's pending rows.                              *)
ReadBacklog(i) ==
    /\ imp[i].pc = "read_backlog"
    /\ imp' = [imp EXCEPT ![i] = [imp[i] EXCEPT !.pc = "commit",
                  !.seen = [Seen(i) EXCEPT !.queue = queue,
                               !.rows = [x \in RowSlot |->
                                   IF imp[x[1]].user = imp[i].user
                                   THEN pending[x] ELSE NoRow]]]]
    /\ UNCHANGED <<tables, batch, failures>>

-----------------------------------------------------------------------------
(* The reconciliation of one payload with what was read.                     *)

Known(i)    == Watched(i) \cap Seen(i).known
Unknown(i)  == Watched(i) \ Seen(i).known
NewLogs(i)  == {s \in Known(i) : Seen(i).logs[s] = NoLog}
ToQueue(i)  == {s \in Unknown(i) : Seen(i).queue[s] = "absent"}
ToPendFresh(i) ==                              \* mutant of ToPend
    {s \in ToQueue(i) : \A j \in Imports : Seen(i).rows[j, s] = NoRow}
ToPend(i)   == {s \in Unknown(i) : \A j \in Imports : Seen(i).rows[j, s] = NoRow}

QueueStatusAsRead(i, s) == Seen(i).queue[s]   \* mutant of QueueStatus
QueueStatus(i, s) == IF s \in ToQueue(i) THEN "PENDING" ELSE Seen(i).queue[s]

Inconsistent(i) == \E s \in Unknown(i) : Seen(i).queue[s] = "PROCESSED"

KeyTakenByLog(i) ==                            \* mutant of KeyTaken
    \E s \in NewLogs(i) : logs[imp[i].user, s] # NoLog

(* IntegrityError: another transaction committed the key first.              *)
KeyTaken(i) == \/ \E s \in ToQueue(i) : queue[s] # "absent"
               \/ \E s \in NewLogs(i) : logs[imp[i].user, s] # NoLog

(* An ORM attribute is written only if it differs from the value read.       *)
Reconciled(i, x) ==
    LET read == Seen(i).rows[x]
        goal == IF x[2] \in Known(i) THEN "PROCESSED" ELSE QueueStatus(i, x[2])
    IN  IF read = NoRow \/ x[2] \notin Watched(i) THEN pending[x]
        ELSE [rating |-> IF read.rating # imp[i].watches[x[2]]
                         THEN imp[i].watches[x[2]] ELSE pending[x].rating,
              status |-> IF read.status = "PENDING" /\ goal # "PENDING"
                         THEN goal ELSE pending[x].status]

Relogged(i, u, s) ==
    IF u # imp[i].user \/ s \notin Known(i) THEN logs[u, s]
    ELSE IF Seen(i).logs[s] # imp[i].watches[s] THEN imp[i].watches[s]
    ELSE logs[u, s]

Finished(i, pc) == [imp EXCEPT ![i] = [imp[i] EXCEPT !.pc = pc, !.newUser = FALSE,
                                                    !.seen = Unread]]

(* One order of the new rows' ids; their created_at is the transaction's.    *)
Arrivals(S) == {q \in [1 .. Cardinality(S) -> S] : \A s \in S : \E k \in DOMAIN q : q[k] = s}

Commit(i) ==
    /\ imp[i].pc = "commit" /\ ~Inconsistent(i) /\ ~KeyTaken(i)
    /\ imp' = Finished(i, "done")
    /\ users' = users \cup {imp[i].user}
    /\ logs' = [x \in Users \X Slugs |-> Relogged(i, x[1], x[2])]
    /\ queue' = [s \in Slugs |-> IF s \in ToQueue(i) THEN "PENDING" ELSE queue[s]]
    /\ \E q \in Arrivals(ToQueue(i)) : backlog' = backlog \o q
    /\ pending' = [x \in RowSlot |->
                      IF x[1] = i /\ x[2] \in ToPend(i)
                      THEN [rating |-> imp[i].watches[x[2]],
                            status |-> QueueStatus(i, x[2])]
                      ELSE Reconciled(i, x)]
    /\ UNCHANGED <<films, batch, failures>>

CommitRefused(i) ==
    /\ imp[i].pc = "commit" /\ ~Inconsistent(i) /\ KeyTaken(i)
    /\ imp' = Finished(i, "failed")
    /\ UNCHANGED <<tables, batch, failures>>

RaiseInconsistent(i) ==
    /\ imp[i].pc = "commit" /\ Inconsistent(i)
    /\ imp' = Finished(i, "inconsistent")
    /\ UNCHANGED <<tables, batch, failures>>

ImportFails(i) ==
    /\ "import_fails" \in Events /\ Open(i)
    /\ imp' = Finished(i, "failed")
    /\ UNCHANGED <<tables, batch, failures>>

-----------------------------------------------------------------------------
(* Queue batches: sync_film_queue under the film-queue lock.                 *)

Slug(b)  == batch[b].slug
AlwaysAlone(b) == TRUE                         \* mutant of Alone
Alone(b) == \A c \in Batches \ {b} : batch[c].pc = "idle" \/ batch[c].lockless

Position(s) == CHOOSE k \in DOMAIN backlog : backlog[k] = s

(* The oldest pending slugs, at most BatchSize.                              *)
PendingSlugs ==
    LET waiting == {s \in Slugs : queue[s] = "PENDING"}
    IN  {s \in waiting :
            Cardinality({t \in waiting : Position(t) < Position(s)}) < BatchSize}

Become(b, r) == batch' = [batch EXCEPT ![b] = r]

StartBatch(b) ==
    /\ batch[b].pc = "idle" /\ Alone(b)
    /\ PendingSlugs # {}
    /\ Become(b, [IdleBatch EXCEPT !.pc = "scraping", !.todo = PendingSlugs,
                                   !.beside = \E c \in Batches : batch[c].lockless])
    /\ UNCHANGED <<tables, imp, failures>>

(* Nothing is pending: the run ends at once and changes nothing.             *)
EmptyBatch(b) ==
    /\ batch[b].pc = "idle" /\ Alone(b)
    /\ PendingSlugs = {}
    /\ UNCHANGED vars

(* The scraper classifies each slug by itself; an outcome matters only once  *)
(* its slug is reached, so it is drawn there.                                *)
Scraped(b) ==
    /\ batch[b].pc = "scraping"
    /\ Become(b, [batch[b] EXCEPT !.pc = "next"])
    /\ UNCHANGED <<tables, imp, failures>>

NextFilm(b) ==
    /\ batch[b].pc = "next"
    /\ \/ /\ batch[b].todo = {}
          /\ Become(b, IdleBatch)
       \/ \E s \in batch[b].todo :
             /\ \A t \in batch[b].todo : Position(s) <= Position(t)
             /\ \/ \E st \in Terminal \cap ScrapeOutcomes :
                      Become(b, [batch[b] EXCEPT !.pc = "mark", !.slug = s, !.status = st])
                \/ /\ "SUCCESS" \in ScrapeOutcomes
                   /\ Become(b, [batch[b] EXCEPT !.pc = "persist", !.slug = s])
    /\ UNCHANGED <<tables, imp, failures>>

(* The queue row is updated, and so locked, by the autoflush before the      *)
(* pending rows are read.                                                    *)
RowLocked(s) == \E c \in Batches : batch[c].pc = "mark_commit" /\ Slug(c) = s

PendingRows(s) == [i \in Imports |-> IF pending[i, s].status = "PENDING"
                                     THEN pending[i, s].rating ELSE NoLog]

MarkTerminal(b) ==
    /\ batch[b].pc = "mark" /\ ~RowLocked(Slug(b))
    /\ Become(b, [batch[b] EXCEPT !.pc = "mark_commit", !.rows = PendingRows(Slug(b))])
    /\ UNCHANGED <<tables, imp, failures>>

NextSlug(b) == [IdleBatch EXCEPT !.pc = "next", !.todo = batch[b].todo \ {Slug(b)},
                                 !.lockless = batch[b].lockless,
                                 !.beside = batch[b].beside]

Read(b) == {i \in Imports : batch[b].rows[i] # NoLog}

(* The status of every row read is written, whatever it has become.          *)
Settled(b, st) ==
    [x \in RowSlot |-> IF x[1] \in Read(b) /\ x[2] = Slug(b)
                       THEN [rating |-> pending[x].rating, status |-> st[imp[x[1]].user]]
                       ELSE pending[x]]

CommitTerminal(b) ==
    /\ batch[b].pc = "mark_commit"
    /\ queue' = [queue EXCEPT ![Slug(b)] = batch[b].status]
    /\ pending' = Settled(b, [u \in Users |-> batch[b].status])
    /\ Become(b, NextSlug(b))
    /\ UNCHANGED <<films, users, logs, backlog, imp, failures>>

SkipFailing(b) == NextSlug(b)                  \* mutant of Failing
Failing(b) == [batch[b] EXCEPT !.pc = "mark", !.status = "FAILED", !.was = "PENDING",
                                !.inserted = FALSE]

PersistSuccess(b) ==
    /\ batch[b].pc = "persist"
    /\ Become(b, [batch[b] EXCEPT !.was = queue[Slug(b)],
                     !.pc = IF Slug(b) \in films THEN "attach" ELSE "insert_film"])
    /\ UNCHANGED <<tables, imp, failures>>

(* The flush of a new Film waits for another batch inserting the same slug.  *)
InsertFilm(b) ==
    /\ batch[b].pc = "insert_film"
    /\ \A c \in Batches : ~(batch[c].inserted /\ Slug(c) = Slug(b))
    /\ Become(b, IF Slug(b) \in films THEN Failing(b)
                 ELSE [batch[b] EXCEPT !.pc = "attach", !.inserted = TRUE])
    /\ UNCHANGED <<tables, imp, failures>>

(* The pending rows, then their users' logs of the film.                     *)
AttachPendingLogs(b) ==
    /\ batch[b].pc = "attach"
    /\ Become(b, [batch[b] EXCEPT !.pc = "persist_commit", !.rows = PendingRows(Slug(b)),
                     !.logged = {u \in Users : logs[u, Slug(b)] # NoLog}])
    /\ UNCHANGED <<tables, imp, failures>>

RowUsers(b) == {imp[i].user : i \in Read(b)}
Promoted(b) == (RowUsers(b) \cap users) \ batch[b].logged
LogTaken(b) == \E u \in Promoted(b) : logs[u, Slug(b)] # NoLog

AnyRows(b) == [Promoted(b) -> Read(b)]         \* mutant of FirstRows

(* Of several rows of a username the first one read gives the rating.        *)
FirstRows(b) == {f \in [Promoted(b) -> Read(b)] :
                    \A u \in Promoted(b) : imp[f[u]].user = u}

CommitSuccess(b) ==
    /\ batch[b].pc = "persist_commit" /\ ~RowLocked(Slug(b)) /\ ~LogTaken(b)
    /\ films' = films \cup {Slug(b)}
    /\ queue' = [queue EXCEPT ![Slug(b)] =
                     IF batch[b].was = "PROCESSED" THEN @ ELSE "PROCESSED"]
    /\ \E f \in FirstRows(b) :
          logs' = [x \in Users \X Slugs |->
                      IF x[1] \in Promoted(b) /\ x[2] = Slug(b)
                      THEN batch[b].rows[f[x[1]]] ELSE logs[x]]
    /\ pending' = Settled(b, [u \in Users |-> IF u \in users THEN "PROCESSED" ELSE "FAILED"])
    /\ Become(b, NextSlug(b))
    /\ UNCHANGED <<users, backlog, imp, failures>>

CommitSuccessRefused(b) ==
    /\ batch[b].pc = "persist_commit" /\ LogTaken(b)
    /\ Become(b, Failing(b))
    /\ UNCHANGED <<tables, imp, failures>>

PersistFailsHalfway(b) ==                      \* mutant of PersistFails
    /\ "persist_fails" \in Events
    /\ batch[b].pc \in {"insert_film", "attach", "persist_commit"}
    /\ Become(b, Failing(b))
    /\ queue' = [queue EXCEPT ![Slug(b)] = "PROCESSED"]
    /\ UNCHANGED <<films, users, logs, backlog, pending, imp, failures>>

PersistFails(b) ==
    /\ "persist_fails" \in Events
    /\ batch[b].pc \in {"insert_film", "attach", "persist_commit"}
    /\ Become(b, Failing(b))
    /\ UNCHANGED <<tables, imp, failures>>

(* What is committed stays, the slugs that are left stay pending.            *)
BatchFails(b) ==
    /\ "batch_fails" \in Events /\ batch[b].pc # "idle" /\ failures < MaxFailures
    /\ Become(b, IdleBatch)
    /\ failures' = failures + 1
    /\ UNCHANGED <<tables, imp>>

LosesLock(b) ==
    /\ batch[b].pc # "idle" /\ ~batch[b].lockless
    /\ Become(b, [batch[b] EXCEPT !.lockless = TRUE])
    /\ UNCHANGED <<tables, imp, failures>>

(* SoftTimeLimitExceeded leaves the worker loop: the lock is released, the   *)
(* coroutine stays and goes on whenever the loop runs again.                 *)
Abandon(b) == "abandoned" \in Events /\ LosesLock(b)

(* The lock of a command expires under it: nothing stops or renews it.       *)
Outlive(b) == "outlives" \in Events /\ LosesLock(b)

(* The bootstrap import adds films in one transaction of its own; a slug the *)
(* catalog has, or gets first, makes the whole of it fail.                   *)
LoadFilms ==
    /\ "catalog_load" \in Events
    /\ \E S \in SUBSET (Slugs \ films) :
          /\ S # {}
          /\ \A b \in Batches : batch[b].inserted => Slug(b) \notin S
          /\ films' = films \cup S
    /\ UNCHANGED <<users, logs, queue, backlog, pending, imp, batch, failures>>

ImportStep(i) ==
    \/ SelectUser(i) \/ InsertUser(i) \/ ReadCatalog(i) \/ ReadBacklog(i)
    \/ Commit(i) \/ CommitRefused(i) \/ RaiseInconsistent(i)

BatchStep(b) ==
    \/ StartBatch(b) \/ Scraped(b) \/ NextFilm(b) \/ MarkTerminal(b)
    \/ CommitTerminal(b) \/ PersistSuccess(b) \/ InsertFilm(b)
    \/ AttachPendingLogs(b) \/ CommitSuccess(b) \/ CommitSuccessRefused(b)

BatchFault(b) == BatchFails(b) \/ PersistFails(b) \/ Abandon(b) \/ Outlive(b)

Next ==
    \/ \E i \in Imports : \/ SyncProfile(i) \/ RefuseProfile(i)
                          \/ ImportExport(i) \/ RefuseExport(i)
                          \/ ImportStep(i) \/ ImportFails(i)
    \/ \E b \in Batches : BatchStep(b) \/ EmptyBatch(b) \/ BatchFault(b)
    \/ LoadFilms

Spec == Init /\ [][Next]_vars

(* An import runs to its end, Beat publishes a batch every week and a batch  *)
(* goes on, an abandoned one whenever the loop of its process runs again.    *)
FairSpec == /\ Spec
            /\ \A i \in Imports : WF_vars(ImportStep(i))
            /\ \A b \in Batches : WF_vars(BatchStep(b))

-----------------------------------------------------------------------------
(* Properties.                                                               *)

(* The state sync_user_logs refuses as inconsistent never arises: a queue    *)
(* row says PROCESSED only beside its film, also when batches overlap, fail  *)
(* half-way or mark terminal what another one persisted.                     *)
ProcessedHasFilm == \A s \in Slugs : queue[s] = "PROCESSED" => s \in films

(* "without losing ratings": whatever interleaves, each watch of a committed *)
(* import has its Log or a row that has not been resolved, and a resolved    *)
(* row has its Log.                                                          *)
HasLog(u, s) == logs[u, s] # NoLog
Kept(u, s)   == \E j \in Imports : imp[j].user = u /\ pending[j, s] # NoRow

ResolvedHasLog == \A i \in Imports, s \in Slugs :
    pending[i, s].status = "PROCESSED" => HasLog(imp[i].user, s)

NothingLost ==
    /\ ResolvedHasLog
    /\ \A i \in Imports : imp[i].pc = "done" =>
          \A s \in Watched(i) : HasLog(imp[i].user, s) \/ Kept(imp[i].user, s)

(* A Log shows a rating that some committed import of its user gave to that  *)
(* film, whoever wrote it.                                                   *)
LogsAreImported == \A u \in Users, s \in Slugs : HasLog(u, s) =>
    \E i \in Imports : /\ imp[i].pc = "done" /\ imp[i].user = u
                       /\ s \in Watched(i) /\ imp[i].watches[s] = logs[u, s]

(* A ZIP import touches resolved films only: it leaves nothing pending and   *)
(* is never refused for a queue row, whatever happens between its catalog    *)
(* read and its transaction.                                                 *)
ExportStaysResolved == \A i \in Imports : imp[i].kind = "export" =>
    /\ imp[i].pc # "inconsistent"
    /\ \A s \in Slugs : pending[i, s] = NoRow

(* Each queued slug waits once, however many imports met it first.           *)
QueuedOnce ==
    /\ \A s \in Slugs : queue[s] # "absent" <=> \E k \in DOMAIN backlog : backlog[k] = s
    /\ \A k, l \in DOMAIN backlog : backlog[k] = backlog[l] => k = l

(* A processed row loses its status only to a batch that works on without    *)
(* its lock, left behind by the soft limit or a command that outlived it, or *)
(* to one that started beside such a batch: the lock keeps every other batch *)
(* from selecting the slug.                                                  *)
ProcessedFallsToOverlap ==
    [][\A s \in Slugs : queue[s] = "PROCESSED" /\ queue'[s] # "PROCESSED" =>
          \E b \in Batches : /\ batch[b].pc = "mark_commit" /\ Slug(b) = s
                             /\ batch[b].lockless \/ batch[b].beside]_vars

(* Every queued slug leaves PENDING, one batch after the other.              *)
QueueDrains == \A s \in Slugs : queue[s] = "PENDING" ~> queue[s] # "PENDING"

(* "read each reconciliation universe once so known and unknown paths share  *)
(* one transaction snapshot": an import is refused only over a processed row *)
(* without a film.                                                           *)
SharedSnapshot == \A i \in Imports : imp[i].pc = "inconsistent" =>
    \E s \in Watched(i) : queue[s] = "PROCESSED" /\ s \notin films
=============================================================================
