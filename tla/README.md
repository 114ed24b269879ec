# A TLA+ model of NexdWatch

NexdWatch synchronizes Letterboxd profiles into PostgreSQL, keeps a film
catalogue, trains an SVD model from what it has gathered and serves
recommendations from the selected model. This directory models the program from
the submission of a username to the shelves of a response, with the offline
benchmark that ranks the same candidates. Paths below are relative to the
repository.

Section 1 is the inventory, 2 the modules and their order, 3 each module and its
correspondence to the code, 4 the runs, 5 the proofs, 6 what is only
model-checked, 7 what is not modelled.

## 1. The system

### Components, state and operations

| Component | State | Operations | Correct when |
|---|---|---|---|
| Profile-sync submission, `src/app/services/task_service.py` | Redis keys `task:{id}`, `profile-sync:active:{username}`, `profile-sync:fresh:{username}` | reuse a live or fresh task, create with race recovery, publish, undo a failed publication | one live task per username; a failed publication never harms another task |
| Task store, `src/app/infrastructure/task_store.py` | the same keys, three Lua scripts | compare-and-delete, claim, create-if-inactive | only an owner loses its key |
| Profile-sync execution, `src/app/tasks/profile_sync.py` | one execution per pool process | read metadata, claim, scrape, import, complete, retry, fail, release | one scrape of a username at a time; terminal metadata is final |
| Celery and the worker loop, `src/app/workers/` | messages, a persistent event loop per process | late acknowledgement, requeue of lost processes, soft and hard limit | a message is executed at least once |
| Maintenance lock, tasks, Beat and commands, `src/app/infrastructure/maintenance_lock.py`, `src/app/tasks/maintenance.py`, `src/manage.py` | one Redis key per operation | acquire, work, retry, release, skip on contention; the evaluation that publishes a retraining | an operation is done by one process at a time and never stays locked |
| Profile ingestion, log persistence and film queue, `src/app/services/profile_service.py`, `src/app/db/loaders/sync_logs.py`, `sync_queue.py` | users, films, logs, film queue, pending logs in PostgreSQL (READ COMMITTED) | profile import, queue batch | no rating is lost between film and queue |
| ZIP import, `src/app/services/letterboxd_import_service.py`, `src/app/importers/` | the same tables | check the archive, resolve titles, import | only resolved films are touched |
| Scrapers and catalogue refresh, `src/app/scraper/`, `src/app/services/catalog_maintenance.py` | none; one blind UPDATE per film | classify a page or an answer, choose and refresh years | outcomes are classified entry by entry |
| Training and retraining decision, `src/app/ml/production_training.py`, `popularity.py`, `model_lifecycle.py` | none | training universe, its cheap measurement, popularity ranking, `decide_retraining` | what is measured is what is trained |
| Model registry and lifecycle, `src/app/ml/model_registry.py`, `model_lifecycle.py` | version directories, `current.json` | build, validate, promote, roll back, retain, recover | the selected bundle is complete; retention keeps rollback bundles |
| Activation, `src/app/services/model_activation.py`, `src/app/main.py` | the version a process has loaded | resolve, recover once, load, watch, recycle | processes reach the selected model |
| Candidates, category policy, recommendation services, `src/app/ml/candidate_retrieval.py`, `candidate_policy.py`, `src/app/policy/`, `src/app/services/*recommendation_service.py`, `candidate_generation_service.py` | one request: what it has read and the rows it has filled | retrieve, fuse, propose, allocate, answer | rows are varied, repeat only what they may, and the allocation ends |
| Offline ranker benchmark, `src/experiments/ranker/` | an output directory of folds, manifest and reports | benchmark, refit, calibrate | no target leaks, every target counts once, a report stands on its own files |
| Front end, migrations, other experiments | | | section 7 |

`PROJECT.json` lists the components with the modules that answer for them, and
every hazard of the code at its line with the properties that would notice.

### Interactions

* The API and the workers meet in Redis only: submission writes `task` and the
  active key in one script, publishes a message, and a worker later reads,
  claims and rewrites them. Between any two commands everyone else may move.
* Profile imports, ZIP imports, queue batches and the historical loader meet in
  PostgreSQL, each in transactions of its own. Nothing keeps two imports of one
  user apart: two spellings of a name own two active keys, and a ZIP import owns none.
* Beat, the evaluation task and the management commands meet in the keys of
  `MaintenanceLock`; `retrain` and `rollback-model` share the key `retraining`.
* Whoever holds that key writes the model directory and the pointer; every API
  process reads both without the key, and a recovering one also writes the
  pointer.
* A request for recommendations reads the user's history while imports commit
  to it. The feed reads once; the legacy list reads twice.
* The offline jobs meet in files only, and run one at a time.

### What is hard

Two submissions creating at once; stale owners; publication that fails or only
seems to; lost, repeated and late deliveries; a soft limit that unwinds the task
body and not the coroutine it was running; keys that lapse under slow work;
process death between any two writes; transactions that decide on what they read
earlier while another commits; a batch that goes on beside its own retry, or
outlives its lock;
selection, retention and recovery that work from values read earlier; an
allocation in four passes that share one count of appearances; benchmark
directories written file by file.

## 2. Modules and their order

| Module | Extends | Models |
|---|---|---|
| `ProfileSync` | | submission, task store, broker, executions of one username |
| `SyncContract` | | what a client is promised; `ProfileSync` is shown to implement it |
| `Maintenance` | | locks, tasks, schedule and commands |
| `ModelRegistry` | | bundles, pointer, retraining, rollback, retention, API processes |
| `LetterboxdExport`, `Scraping` | | the two sources of an import, as operators |
| `Ingestion` | both of these | imports and queue batches over the tables |
| `TrainingData` | | training universe, popularity, retraining decision |
| `CategoryPolicy` | | retrieval, fusion, preferences, proposals, as operators |
| `CategoryFeed` | `CategoryPolicy` | requests, allocation, imports beside them |
| `OfflineSplits`, `OfflineRanking` | the first by the second | one fold's data, groups and metrics |
| `RankerBenchmark` | `OfflineRanking` | the jobs over the output directory |
| `FiniteLemmas` | | facts on finite sets, orders and sums, for the proofs |
| `*Proofs` | the module of that name | theorems |
| `MC*` | the module of that name | constants and symmetry for TLC |

They were written from the most concurrent part outwards: tasks, locks,
registry, ingestion, feed, training, benchmark. Compositions: `Ingestion` takes
its payloads from `Scraping` and `LetterboxdExport`; `MCCategoryFeed` takes the
popularity ranking and the catalogue of its request from rows of logs and links, by
`TrainingData` and `LoadedCatalog`; `ModelRegistry` takes `LockIsFree` from
`Singleton` of `Maintenance`; `SyncContract` is instantiated in `ProfileSync` with
a refinement mapping. No module uses a RECURSIVE operator.

What remains to be done: a composition of `Maintenance` with `ModelRegistry` for
the overlap of two retrainings.

## 3. The modules and the code

### ProfileSync

One username, because the Redis keys of two usernames have nothing in common.
Each action is one Redis command or script, one publication or one database
transaction.

| Variable | In the program |
|---|---|
| `task` | status and attempt count of `task:{id}`; `unissued` before `uuid4` draws it, `expired` after its retention |
| `lock` | owner and remaining TTL of the active key |
| `fresh` | the freshness key |
| `queue` | messages in the broker, with Celery's retry count |
| `req` | where each `submit_profile_sync` call is, with what it has read |
| `run` | where each pool process is in `execute_profile_sync`, the attempt it read, time since delivery, the profile version it scraped |
| `ghosts` | scrapes left on a worker's loop when the soft limit unwound `Runner.run` |
| `letterboxd`, `imported` | version of the remote profile and of the one PostgreSQL holds |
| `losses` | bound on repeated deliveries |

`GetActive` to `ReleaseUnpublished` follow `TaskService`: `_get_active` is three
commands (`GetActive`, `GetOwner`, `ReleaseStale`), `_get_fresh` two, creation
with `_create_with_race_recovery` is `CreateQueued` and `CreateLosesRace` with at
most three creations, a failed publication writes `failed` and then releases.
`Deliver` to `Release` follow `execute_profile_sync` and `_fail_task`.
`StoreError` is a Redis call that raises: only `set_fresh` and the release are
guarded in the code, so everything else ends the execution and Celery
acknowledges the message. The acknowledgement is late: after `TransientError` has
published the retry the execution stands at `retried` until `Acknowledge`, and a
worker lost there leaves the original and the retry of one task in the broker (event
`lost_after_retry`). At every other end of an execution a loss before the
acknowledgement only repeats a message whose execution is over, which is the state a
loss one step earlier leaves. `SoftTimeLimit` and `GhostResumes` are the
`async_bridge` behaviour: the abandoned coroutine advances only while the same
loop runs another.

Simplifications: the TTL, the limits and the elapsed time are in common clock
ticks, and an execution that reaches the hard limit is killed or ends before
time passes (the pool does this); metadata lives for a day, so `TaskExpires`
waits until no key, request or execution refers to the task. The production
worker runs with concurrency one; the model allows several, as the deployment may.

### SyncContract

The promise to whoever submits a username and polls its task: `status` of each
task, the `owner` of the username, and how far the work on each task is
(`stage`). A task is submitted only where nobody owns, work begins only under
ownership, completion follows a stored profile, a terminal status stays and nothing works on a
terminal task. `ProfileSync` maps its metadata to `status`, its key
to `owner`, and the position of the one execution of a task to `stage`
(`Stage`); messages, TTLs, retries, requests and workers disappear.
`ImplementsContract` is the specification of `SyncContract` under that mapping.

### Maintenance

`lock[o]` is the Redis key of operation `o`. A token is known by the process
whose live execution drew it; once that execution is gone without releasing, the
key holds `Orphan`. `proc` says where a process is in `with lock.held()`:
acquiring, past the SET but not yet inside the `try` (`acquired`), working, or in the
`finally`. Failure, soft limit and retry
all go through `Fail`, which publishes the retry while the key is still held,
as `_retry` does. The soft limit is a signal and lands anywhere: in the work it is a
failure (`SoftTimeLimit`), in `acquire()` or `release()` it ends the execution and may
leave the key to its TTL (`SoftLimitInLock`). Tasks have a hard limit; commands and the evaluation
task have none (`Limited`), and when `unbounded` is admitted their work may last
longer than any TTL. `elapsed` saturates at the hard limit.

The `catalog` key is in the program one key per refreshed period; the model has
one period. A redelivered message that meets the token of its dead execution is
skipped and acknowledged as a success, as in the code. With unbounded work two
processes may do one operation at once, against `src/app/tasks/maintenance.py:144`;
`Singleton` says exactly when.

### ModelRegistry

`bundle[v]` is the directory of version `v`: absent, valid, incomplete (never
validates: rename of something unsound, or a removal that was interrupted) or
damaged (validated once, no longer does). Versions are numbered in the order of
training time. `pointer` is `current.json` with its lineage; an absent file is
`NoVersion`. `operator` steps through `retrain_and_promote` or `rollback_model`,
`api` through `resolve_startup_model`, `recover_previous_model`, loading and
`ModelPointerWatcher.check_once`. Validating, hashing or loading a bundle is one
action; every pointer read and every replacement is an action of its own, and so
is each directory retention removes.

Simplifications: `select_rollback_target` is one action; the pointer is never
malformed, since only `os.replace` writes it and a host crash before the `fsync` is
not modelled; the decision to retrain is a free choice, and when it reads a
selected bundle that does not validate the run ends, as the code raises.
`.building-*` directories are invisible to every reader and are not kept.

`RetentionKeeps` counts, for each sound bundle that is removed, the newer sound ones that
stay, and excludes the selected one from the count only where a promotion selected it. Around an
arbitrary selection the code does not keep the promise: a recovery takes no lock, and two that
read the pointer early can move it between the listing and the removal.

### LetterboxdExport and Scraping

The two sources an import reads, as operators without state.

`LetterboxdExport` takes an uploaded archive as the record of what the checks
look at: whether every limit holds (`bounded`), and for each member its name,
whether it decompresses, decodes and parses strictly, its columns and its rows. A
title is a pair of a folded `key` and a `spelling`, because resolution compares
folded names and two catalogue films may share one. `Accepted` is the
conjunction of the checks, `Profile` merges the two tables and `Resolved` looks
for a title by title, original title and year and gives up where two films answer. A
refused archive changes nothing (`RefuseExport`).

`Scraping` takes the answer of the profile client as `[error, code, movies]`, as the
library delivers it, and a film page as `[loads, title, tmdb, count, average]`.
`Taken`, `Usable` and `ScrapedWatches` say which answers become a payload and which
entries of one are dropped; `Outcome` classifies a page into SUCCESS, FILTERED or
FAILED; `RefreshYears` and `Refreshed` are the monthly choice of years and
what a refresh writes. HTTP and HTML are outside.

### Ingestion

| Variable | In the program |
|---|---|
| `films`, `users`, `logs` | committed rows |
| `queue`, `backlog` | the `film_queue` row of each slug and their order by `created_at` |
| `pending` | the `logs_pending` row each import inserted for each slug |
| `imp` | where each import transaction is and what it has read |
| `batch` | where each queue batch is; `beside` is a history variable: another batch was running when this one started |
| `failures` | bound on batches that end early |

`SyncProfile` and `ImportExport` give an import its payload; it then selects or
inserts its user, reads the catalogue with the user's logs, reads the queue with the
pending rows, and commits. A read keeps what it returned, so whatever another
transaction commits afterwards is missed, as under READ COMMITTED. The writes
of a transaction follow its last read and are one action with the
commit, which fails where a unique key has been taken meanwhile. A SELECT of a
row and the UPDATE of that row in one statement batch are one action. Victims of
a deadlock and lost connections are `import_fails` and `persist_fails`.

`StartBatch` to `CommitSuccess` follow `sync_queue.py` and the task around it: select
by `created_at`, scrape the whole batch, then per film either mark it
terminal or persist it with the logs that wait for it. A batch abandoned at the soft limit
(`Abandon`) keeps its place and may go on beside the batch of the retry; so does a batch of the
`process-film-queue` command, which has no time limit, when its key expires (`Outlive`). Both are
`lockless` from then on, and only beside a lockless batch may another start (`Alone`).
`LoadFilms` is the historical loader.

What the model shows and nothing forbids: a rating imported again while its older
value is pending can be stale until the next import; and a pending row
inserted under a queue row that another transaction has just made terminal stays
PENDING, against the comment at `src/app/db/loaders/sync_queue.py:119-120`.

### TrainingData

`Interactions` are the rated rows, of duplicates the lowest id; `Snapshot` is
what training counts and `Measured` what the cheap aggregate query counts;
`PopularityRanks` is the exported ranking and `ValidPopularity` its validator;
`Reasons` is `decide_retraining`, with its two forms of baseline.

### CategoryPolicy and CategoryFeed

`CategoryPolicy` holds what a request computes: retrieval from SVD and
popularity, reciprocal rank fusion, the preferences of the profile, and the
ten proposal builders. Scores are exact fractions compared by cross-multiplication;
an ordered list of films is a function from film to sort key, so that a set and
its order are one value. Cosine similarity is an integer table, and the order of
equal scores, which FAISS does not promise, is a choice among `Ties`. Assumed of the
bundle is what its loader checks (popular films have vectors, no rank is given twice), of
the policy that its depths, caps and minima are counts and that no length a loop stops at is 0
(`CandidateGenerationService` would return every popular film at depth 0), of a history that who rated a film
has watched it. The
configuration switches stand at their defaults and the backends behind the others are not
modelled.

`CategoryFeed` is one request while imports commit. `ReadHistory`, `Propose`, `AllocateTopPicks`,
`PassOver`, `StartRow`, `Scan`, `NextPass`, `AddRow`, `DropRow` and
`AnswerFeed` follow `allocation.py`: Top Picks first, then the best
remaining proposal for the role that is due, one film of one pass at a time,
strict passes before relaxed ones. The legacy list (`ReadWatched`, `AnswerList`) shows the films
the database knows at the request, the feed those of the catalogue loaded at startup. It reads
twice; an import between the reads lets a list be computed from a film it does not
exclude. `src/app/services/recommendation_service.py:116-119` expects otherwise;
the outcome is reachable in the model and no property is stated, since the code
keeps none.

### OfflineSplits, OfflineRanking and RankerBenchmark

`OfflineSplits` is the loading of the CSV and the split of one seed and fold;
shuffles are rotations by a drawn number, `Draw` being the generator.
`OfflineRanking` builds the groups of a partition, the baselines, fusion and the
metrics, in sixtieths of a thousandth so that they stay integers. What SVD and LightGBM
predict is the constant `Prediction`. Assumed of the configuration are a cutoff within
the twenty ranks of the gain table and a holdout that fits the group
(`src/experiments/ranker/config.py:9-10`), so that the positives never overflow a group.

`RankerBenchmark` runs the three jobs over one output directory: the benchmark
(`StartBenchmark` to `Summarize`), which reuses a fold that has a report; the refit
of persisted folds; the fusion calibration, which validates every fold, chooses, and
then tests every fold. Each file is written by an action of its own, `Crash` ends a
job between two of them, a model takes two (`OpenModel`, `SaveModel`), because
`booster_.save_model` writes in place and a crash in between leaves it `torn`, and `ReplaceCsv` changes the input between jobs. File
contents are named by the CSV they come from; what an earlier version left behind before the
first job is over the first CSV (`LeftoverAssumption`). `job.fitted`, `job.tuned` and `job.tested`
record which targets a job has used for what.

Reachable and not excluded by a property, because the code does not prevent it:
a changed CSV with the same output directory leaves reports of the old one
under the newest manifest; a model that the first report has and another lacks
ends a job with `KeyError` (`Comparable`); a refit does not look at the protocol
of the report it updates; a refit killed while it writes a model leaves a truncated one
under a `metrics.json` that later benchmarks reuse, although
`src/experiments/ranker/training.py:187` speaks of persisting "text models and report
atomically"; across seeds the validation of the recommended
configuration may use a film that is the target of another seed's test
(`src/experiments/ranker/rrf_calibration.py:264`).

### MC modules

* `MCProfileSync`, `MCMaintenance`: symmetry of workers, requests, tasks,
  commands. Runs with temporal formulas of the `~>` kind use none.
* `MCIngestion`: archives with one defect each beside sound ones, one answer of
  every class, pages on both sides of each threshold, a catalogue in which all films
  share one original title. Symmetry of imports, batches, users, slugs: no
  definition orders them and the sets of answers and archives are closed under it.
* `MCCategoryFeed`: eight films, popularity computed from twelve rows of logs, a
  policy with its limits scaled to eight films.
* `MCRankerBenchmark`: nine films, three CSVs (a base, one with a new user and an unknown
  slug, one that is refused).

Their ASSUMEs are evaluated by every run of the module: `RankingOfRows`,
`CatalogOfLinks`, `TrainingOfRows`, `RefreshOfRows`. They compare the pure
algorithms with rows given as data. `ModelRegistry` is run as it is.

## 4. Runs

Passing runs, with distinct states and seconds on two cores:

| Run | States | Time | Properties |
|---|---|---|---|
| `sync_faults` | 1.9 M | 115 | `TypeOK`, `MutualExclusion`, `OwnershipOutlivesScrape`, `FreshIsCompleted`, `LiveOwnerOnlyLapses`, `ImportNeverRegresses`, `ImplementsContract` |
| `sync_liveness` | 2.2 M | 220 | `OwnershipEnds`, `PublishedTaskSettles` |
| `locks` | 254 k | 105 | `TypeOK`, `Singleton`, `HeldOutlivesWork`, `WorkGivesKeyBack`, `OnlyOwnerReleases`, `OwnershipEnds` |
| `registry_lifecycle` | 2.1 M | 110 | `TypeOK`, `PromotedIsSound`, `RetentionKeeps`, `ActivationCatchesUp` |
| `ingest_races` | 2.3 M | 110 | `TypeOK`, `ProcessedHasFilm`, `NothingLost`, `LogsAreImported`, `ExportStaysResolved`, `QueuedOnce`, `ProcessedFallsToOverlap` |
| `ingest_drains` | 320 k | 40 | `QueueDrains` |
| `feed_rows` | 100 k | 45 | `TypeOK`, `RepeatsAllowed`, `RowsVaried`, `RelaxedOnlyForMinimum`, `FusionRespectsSources`, `SourcesAreFull`, `ShelvesWorthShowing`, `AllocationEnds` |
| `offline_jobs` | 176 k | 110 | `TypeOK`, `NoLeak`, `GroupsHonest`, `EveryTargetCountedOnce`, `ReportOverOwnFiles` |

What they show:

* `sync_faults`: with refused publications, aborted requests, store errors, a
  lost worker, hung workers and abandoned scrapes, but one message of a task, one execution at a time
  scrapes, a live task loses its key by lapse only, and the service is a `SyncContract`.
* `sync_liveness`: with misreported publications, redelivery, a retry and a worker lost before
  or after it published one, no fault keeps
  a username locked and a published task reaches terminal metadata.
* `locks`: an operation is done once at a time except by work that has outlived its
  TTL; however the work itself ends the key is given back, and only a death, an unreachable
  Redis or a signal inside the lock's own calls leaves it behind; nobody deletes a
  successor's key; every key ends.
* `registry_lifecycle`: a selected version with lineage validates, retention
  keeps what rollback needs, and API processes reach the selected model.
* `ingest_races`: imports and batches that overlap, fail and are abandoned neither
  lose a rating nor invent one; a slug is queued once; and a processed film is
  marked failed only by a batch that lost its lock or started beside one.
* `ingest_drains`: under weekly batches the queue empties of what is pending.
* `feed_rows`: a film is repeated only where two rows may share it, rows respect
  their caps, a relaxed film appears only to reach a minimum, fusion never
  prefers a film that both sources place lower, and every allocation ends.
* `offline_jobs`: over crashes, reruns and replaced input no target is trained
  on or tuned on, negatives of a group are no positives, a report counts each target once and
  speaks of its own files, whole but for what a refit was writing.

Runs that show a disagreement with a sentence of the repository:

| Run | Property | What happens |
|---|---|---|
| `sync_ghost` | `NoConcurrentScrapes` | A scrape hits the soft limit, `_fail_task` releases, the next task scrapes while the first scrape is still pending; `src/app/tasks/profile_sync.py:75` says ownership prevents this. |
| `registry_recovery` | `RecoveryReplacesFailed` | A bundle is damaged, an API process reads the pointer and goes on to write its predecessor over a promotion made in between; `src/app/ml/model_registry.py:555-556` says recovery never overwrites a newer promotion. |
| `registry_lineage` | `LineagePermitsRestore` | No fault: train four times with two rollbacks before the last; the last retraining records the old selection as its predecessor and its own retention removes it; `docs/model-lifecycle.md:72` promises one restore from that lineage. |
| `ingest_snapshot` | `SharedSnapshot` | A batch commits between the two reads of an import, which finds a film neither in the catalogue it read nor pending in the queue; `src/app/db/loaders/sync_logs.py:89-90` says the reads share one snapshot. |

### Bounds

Two of each actor is enough for every pairwise race in the code: each key has
one owner, and each hazard needs at most an owner, a stale reader and a
newcomer.

* `sync_faults`: 2 requests, 2 tasks, 2 workers; TTL 3 above hard limit 2 above soft
  limit 1, the order the settings validator enforces, with a tick between each two; one
  retry gives a first and a last attempt; two losses give a message met by its own
  orphan, twice; two remote versions (`MaxVersion` 1) an older and a newer profile. `sync_ghost` has
  TTL 3, limits 2 and 1, so that the abandoned scrape overlaps with a tick to spare.
* `sync_liveness`: one worker, TTL 1, hard limit 0, one retry, one loss: every way
  out of ownership, two messages of one task included, within the reach of a liveness check.
* `locks`: retraining and evaluation (one task with a limit that publishes another, one
  without), 2 workers, 1 command, TTL 3 above 2 above 1, `MaxMessages` 2,
  `MaxLosses` 1.
* `registry_lifecycle`: 1 operator, because the key `retraining` admits one; 2 API
  processes; 3 versions with one rollback bundle, so that retention removes, after a
  rollback, a bundle newer than the current and an older one; 2 faults; the legacy layout.
  `registry_lineage` has 4 versions and the default retention of two, the least
  at which the lineage is lost; `registry_recovery` one fault.
* `ingest_races`: 2 imports, 2 batches, 2 users, 2 slugs, one rating and "unrated",
  batches and payloads of one film, one batch that ends early. Two imports of one user or
  of two, on one film or on two, are all in it. `ingest_drains` has one import of up to
  two films; `ingest_snapshot` one slug.
* `feed_rows`: eight films, every history over three of them in four grades and over
  four in all; one import of one watch; two orders of ties. The policy's limits are scaled so that
  each cap, minimum and pass is reached.
* `offline_jobs`: nine films, six or seven users, three folds, two seeds, three jobs and
  one crash: a run, a rerun over its remains, and a third job over both. It sets
  `CHECK_DEADLOCK FALSE`, because the jobs are bounded and nothing is left to do after the last.

`MaxLosses`, `MaxMessages`, `MaxFaults`, `MaxVersion`, `MaxFailures`, `MaxWatches`,
`MaxImports`, `MaxJobs`, `MaxCrashes` only cap what the program leaves open.

### Fairness

* ProfileSync and Maintenance: weak fairness of each worker's own execution (a
  pool process keeps taking messages, and every call it makes has a time-out or
  the hard limit behind it) and of time. Weak fairness of a worker is one formula
  over all its outcomes: no particular outcome, success included, is promised. Requests,
  commands, Beat, losses and expiry are not fair.
* ModelRegistry: weak fairness of each API process alone: Compose restarts it
  (`restart: unless-stopped`) and the watcher polls. Operators may stop for ever
  in the middle of anything; two processes may fail a bounded number of times.
* Ingestion: weak fairness of each import's and each batch's next step. Beat starts
  a batch every week, and a transaction that has begun either
  commits or fails.
* CategoryFeed and RankerBenchmark: none. `AllocationEnds` is no liveness
  formula but a measure that every step of the allocation lowers.

### What the runs leave out, and what then happens

* None of the safety properties of `sync_faults` but `TypeOK` is claimed with `redelivered`,
  `lost_after_retry` or `publish_misreported`. In the first two the broker holds two messages of
  one task. Each execution finds its own key and claims it: both
  scrape, the one that ends first releases the key of the other, one can write `failed` over the
  other's `completed` or put it back to `processing`, and their imports commit in either order. The
  broker delivers an executing message again only after a visibility time-out
  much longer than the hard limit, or by a fault of its own; a worker is lost between
  `src/app/tasks/profile_sync.py:127` and the acknowledgement (188-189) in the moment that
  raising the retry and closing the store take. `sync_liveness` admits both. With
  `publish_misreported` the contract fails too: the API writes `failed` over a task a
  worker has begun.
* `ImportNeverRegresses` speaks of commits by executions. A ghost, a scrape abandoned at
  the soft limit, may commit an older profile.
* `PublishedTaskSettles` fails with `hung_worker`, `store_error` or a refused retry: the message is
  acknowledged and nobody writes the metadata again; pollers read `processing`
  until the key expires. It is checked for losses and redelivery, where the
  code has an answer.
* `PromotedIsSound` is restricted to a pointer with lineage. Recovery takes no
  lock and may select a bundle that retention has listed for removal; its
  pointer has no lineage. This needs four versions.
* Recovery reads the failed version again, so what it demotes need not be what
  failed to validate.

## 5. Proofs

All theorems are checked by TLAPS for every value of the constants that
satisfies the named assumptions, and TLC evaluates those in the runs:
`ConfigAssumption` and `MaintenanceAssumption` (the relations the settings validator
enforces, distinct model values), `RegistryAssumption`, `ExportAssumption`,
`IngestionAssumption`, `AnswersAssumption` (what a profile names are slugs and
ratings), `BundleAssumption`, `PolicyAssumption`, `RequestAssumption`, `BoundAssumption`,
`ThresholdAssumption`, `BaselineAssumption`, `SplitAssumption`, `RankingAssumption`,
`JobAssumption` and `LeftoverAssumption`.

Two hypotheses are stated in the theorems that need them. `Reliable` restricts the
events of ProfileSync. `DrawsBelow` says that the seeded generator asked for a number
below `n` gives one; it speaks of every stream, which TLC cannot enumerate, and the
generator of `MCRankerBenchmark` satisfies it by its final `% n`.

Every safety invariant and every action property of the passing runs is a theorem, and so
is the refinement. None of them is inductive as it stands. TLC checked the inductive invariants on the runs of their modules.

**ProfileSyncProofs**, under `Reliable` (no redelivery during execution, no
misreported publication, no worker lost between publishing a retry and acknowledging the
original; workers lost at any other point, hard kills, refused publications, aborted
requests, store errors and abandoned scrapes are all allowed). A task identity is either unpublished in
one request, or in one message, or in one execution (`UniqueInv`), so whoever
holds it is alone with it; therefore what it knows of the metadata stays true until it acts
(`LiveInv`): an execution before its terminal write has a live task, and a
request about to delete a stale owner has a task that is not live, because
missing and terminal never become live again. With that, no compare-and-delete
can hit the key of an execution that has claimed, and the full TTL the claim
wrote exceeds the hard limit by the settings validator (`LockInv`). From
the invariant follow `TypeCorrect`, `OwnershipSafe`, `MutualExclusionSafe`,
`FreshSafe`, `TerminalFinalSafe` and `LiveOwnerSafe`. `ImportSafe` adds that no import lies
after the start of a scrape that is in progress (`ScrapeInv`).

`ImplementsContractSafe` is the refinement of `SyncContract`. The stage of a task is read
from its only execution, so each step changes the stage of at most
one task; the lemmas about one abstract step each (begin, store, complete, fail, end) are
then matched with the concrete actions. Ownership under the work follows because the
TTL outlasts the hard limit.

**MaintenanceProofs**. An execution which cannot outlive
the hard limit owns its key, with time left for the rest of its limit, from
acquisition to the end of release (`Holds`), for every process at once. Two
holders of one key are then one process; `SingletonSafe` is proved with its
exception for work that may outlive its key. `TypeCorrect`, `HeldSafe`,
`OnlyOwnerReleasesSafe` and `WorkGivesKeyBackSafe` complete the module.

**ModelRegistryProofs**. `PromotedIsSound` holds because one operator works at a
time, writes a version it has found valid and removes only versions it is not
the target of. The difficulty is that an API process can take the pointer from
the operator between any two of its steps: the invariant therefore speaks of
`Promoted` (a pointer with lineage), which only the operator can create, and says
for every operator position what its target is worth and that it is not among
the doomed bundles (`OperatorKnows`), that nothing is on disk that was not drawn
(`Drawn`), and that a recovery always has a version to write (`ApiKnows`).
`TypeCorrect` and `PromotedSafe` follow. `RetentionSafe` needs one fact more: while
anything is doomed, at least `KeepPrevious` sound bundles other than the target are newer
than all of it (`Kept`). No removal, damage or recovery lowers that count, because the operator
removes only what it has doomed and nobody else removes.

**IngestionProofs**. Films, users and logs are never removed, so what a
transaction has read of them is still there when it commits; of the queue,
which does change, only weaker facts survive, and each position of an import or
batch keeps those it needs. With them `Inductive` is proved, and from
it `TypeCorrect`, `ProcessedHasFilmSafe`, `NothingLostSafe`, `LogsAreImportedSafe`,
`ExportStaysResolvedSafe`, `QueuedOnceSafe`. `ProcessedFallsSafe` rests on the fact that
a batch which started alone, and still has its lock, is the only one that
writes the queue rows it has listed.

**CategoryFeedProofs**. The place of a film in a strict order on a finite
set is a bijection onto an initial segment, so ranks have no gaps and fusion is
monotone in both (`FeedFusionRespectsSources`); every proposal builder returns a
finite order over candidates. `FeedInvariant` gives `FeedTypeOK`, `FeedRepeatsAllowed` and
`FeedRowsVaried`. `FeedAllocationEnds` lowers a lexicographic measure: proposals, then
passes, then films not yet looked at. `FeedRelaxedOnlyForMinimum` needs that whatever a strict
pass left does not fit later either, since a row's films only grow.

`FeedSourcesAreFull`: one more neighbour is requested of the index for every film that
may be excluded, so that what the answer loses to exclusions does not shorten it below
the depth; the popularity list counts places after exclusion. The request has read one whole
history (`SourceInv`), whatever was imported meanwhile. `FeedShelvesWorthShowing`: each
row lists films of the inventory, each once (`Shows`), the proposals that remain and
the rows made of others never share a category (`KeysApart`), and a row short of its
minimum was dropped; the response then filters the rows by the catalogue, in order
(`Subsequence`), and drops the ones that the filter has made too short.

**TrainingDataProofs**. `MeasureAgrees`: the cheap measurement counts what the
training counts, by a bijection of interactions and pairs. `RankingValid`: every
exported ranking passes its own validator. `JustTrainedRests` and
`DueStaysDue`: a model just trained is not due, and a model that is due stays
due while the data grows.

**RankerBenchmarkProofs**, for every CSV, plan, grid, seed, number of folds and of crashes.

* `ReportSafe`, that a report stands on files and models of its own CSV. Its invariant says
  which of a fold's files the running benchmark has already replaced (`ArraysDone`,
  `MetadataDone`, the models saved so far), and that there is no report while it does so;
  a refit writes a report only over the arrays it has loaded; what it has opened is torn until it
  is saved, and a benchmark tears nothing under a report (`Whole`).
* `LeakSafe`. A split takes both targets out of the context, and they differ; a fold is fitted
  on the contexts of training users less the labels held out for the ranker (`FittedApart`).
  `Learning` carries what the job has used: tuned targets are validation targets of folds the CSV
  can fit, tested ones test targets. The split of a user depends on the seed and not on
  the fold, so under one seed no pair of user and film is both.
* `GroupsSafe`. The seven quotas of a sampled group add up to what is left, each stratum
  takes from the films not taken yet, and a last pass fills the group from the whole pool. The positives
  go first, and a target or context film of another kind is forbidden to every pass.
  Donors are the users rotated by at least one and less than all places, which gives
  each profile to one user and never to its own.
* `CountedSafe`. The fold users partition the users of a seed, the segments of a report
  partition the users of a fold (`SegmentsAddUp`), and the place that the sort of the code
  gives a target is its rank (`PlaceIsTargetRank`), so that the metrics computed
  from checkpoints count it once, missed or found. A second
  invariant, `CInv`, relates what is stored: every report on disk, in a job or in a
  summary is of a fold its CSV can fit, and a calibration report compares strategies
  chosen from the grid over all its folds. A finite set of sort keys
  has a least one, hence the configuration that the selection names exists.

**FiniteLemmas**. The library's induction theorems take an operator, which no installed prover
instantiates. A least counterexample does without one: the numbers for which
a fact fails, if there are any, have a least one (`LeastOf`), and the step to it is
refuted. With it the module shows that a sum over a finite set, written as a recursive
function, is determined by its values, and adds over disjoint sets.

## 6. Only model-checked

`OwnershipEnds` of both modules, `PublishedTaskSettles`, `ActivationCatchesUp` and
`QueueDrains`: liveness under fairness is out of this prover's reach. What the
similarities, metrics and gains of the offline ranking evaluate to is not proved either: the theorems
speak of which films and users they are computed over, not of their values.

## 7. Not modelled

* Front end: presentation and a pass-through.
* HTTP, HTML and JSON: the classified outcomes of a page or an answer are modelled, not
  how they are read. Schemas, mappers and repositories have no state of their own; the
  orders and classifications they decide are in the modules that use them.
* Migrations and the historical log loader: run by an operator, once, alone. The film
  loader is `LoadFilms`, because it may run beside imports.
* SVD, FAISS and LightGBM: floating-point numerics and file formats. A bundle is
  valid or not; similarities and predictions are constants.
* Catalogue refresh as a state machine: each film is one blind UPDATE of columns no other
  component decides on. Its choice of years and its classification are operators.
* Neural retrieval, recall studies and the evaluation of the category policy: reports
  computed once from their input. The feature columns and diagnostics
  of the benchmark: plain arithmetic over one row.
* The replacement of the loaded resources under a running request, and retrieval
  back ends that are off by default.
* Runtime settings: the relations a validator enforces are the modules' assumptions;
  the remaining values are plain data.
