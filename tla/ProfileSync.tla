---------------------------- MODULE ProfileSync ----------------------------
(* Profile synchronization of one Letterboxd username: API submissions,      *)
(* the Redis task store, the Celery broker and the worker executions that    *)
(* scrape the profile and import it into PostgreSQL.                         *)
(*                                                                           *)
(* Redis keys are namespaced by username and task id, so usernames share no  *)
(* state and one username is the unit of interaction.  Every Redis command   *)
(* (a Lua script is one command) is one action; between two commands of a    *)
(* request or of an execution every other actor may move.                    *)
EXTENDS Integers

CONSTANTS
    Requests,    \* POST /users/{username}/sync-logs calls, each submits once
    Tasks,       \* the uuid4 task identifiers that will ever be drawn
    Workers,     \* Celery pool processes serving the profile_sync queue
    NoTask,      \* an absent active or freshness key
    ActiveTTL,   \* PROFILE_SYNC_ACTIVE_TTL_SECONDS, in clock ticks
    SoftLimit,   \* PROFILE_SYNC_SOFT_TIME_LIMIT_SECONDS, in clock ticks
    HardLimit,   \* PROFILE_SYNC_HARD_TIME_LIMIT_SECONDS, in clock ticks
    MaxRetries,  \* max_retries of profile_sync_task
    Events,      \* the environment events this instance admits
    MaxLosses,   \* bound: messages the broker delivers once more
    MaxVersion   \* bound: changes of the remote profile

(* What the environment may do, each switched by membership in Events:       *)
(*   request_aborts       a store call of a request fails, or its process    *)
(*                        dies: the caller sees an error, nothing is undone  *)
(*   publish_refused      the broker refuses a message                       *)
(*   publish_misreported  the broker takes a message and the producer still  *)
(*                        raises, as a lost acknowledgement does             *)
(*   store_error          a Redis call of an execution raises                *)
(*   worker_lost          a pool process dies, its message is requeued       *)
(*   lost_after_retry     it may also die between the publication of a retry *)
(*                        and the acknowledgement: both messages go on       *)
(*   redelivered          a message is delivered again during its execution  *)
(*   slow_scrape          a scrape reaches the soft time limit               *)
(*   hung_worker          an execution reaches the hard time limit           *)
AllEvents == {"request_aborts", "publish_refused", "publish_misreported",
              "store_error", "worker_lost", "lost_after_retry", "redelivered",
              "slow_scrape", "hung_worker"}

(* Settings.validate_task_timeouts refuses an active TTL that does not       *)
(* exceed the hard limit.                                                    *)
ASSUME ConfigAssumption ==
    /\ NoTask \notin Tasks
    /\ ActiveTTL \in Nat /\ SoftLimit \in Nat /\ HardLimit \in Nat
    /\ ActiveTTL > HardLimit
    /\ MaxRetries \in Nat /\ MaxLosses \in Nat /\ MaxVersion \in Nat
    /\ Events \subseteq AllEvents

VARIABLES
    task,        \* task:{id} keys: what pollers read
    lock,        \* the profile-sync:active:{username} key and its TTL
    fresh,       \* the profile-sync:fresh:{username} key
    queue,       \* messages waiting in the broker
    req,         \* the submissions in progress
    run,         \* the execution each worker is in
    ghosts,      \* scrapes that outlive their execution, per worker process
    letterboxd,  \* version of the remote profile
    imported,    \* version of the profile PostgreSQL holds
    losses       \* messages delivered once more so far

vars == <<task, lock, fresh, queue, req, run, ghosts, letterboxd, imported, losses>>

Live     == {"queued", "processing"}
Terminal == {"completed", "failed"}
Missing  == {"unissued", "expired"}
Status   == Live \cup Terminal \cup Missing

Message  == [task : Tasks, retries : 0 .. MaxRetries]
NoMsg    == [task |-> NoTask, retries |-> 0]
Free     == [owner |-> NoTask, left |-> 0]

RequestPC == {"get_active", "get_owner", "release_stale", "get_fresh",
              "get_fresh_task", "create", "publish", "save_failed",
              "release_failed", "reused", "created", "error"}
Replied   == {"reused", "created", "error"}

RunPC == {"idle", "get_task", "claim", "save_superseded", "save_processing",
          "scraping", "import", "read_user", "save_completed", "set_fresh",
          "save_failed", "release", "retried"}

(* Inside bridge.run(profile_service.sync_profile(username)).                *)
InBridge == {"scraping", "import", "read_user"}

IdleRun == [pc |-> "idle", msg |-> NoMsg, attempt |-> 0, elapsed |-> 0,
            scraped |-> 0]

TypeOK ==
    /\ task \in [Tasks -> [status : Status, attempt : Nat]]
    /\ lock \in [owner : Tasks \cup {NoTask}, left : 0 .. ActiveTTL]
    /\ fresh \in Tasks \cup {NoTask}
    /\ queue \subseteq Message
    /\ req \in [Requests -> [pc : RequestPC, force : BOOLEAN,
                             seen : Tasks \cup {NoTask},
                             mine : Tasks \cup {NoTask}, tries : 0 .. 3]]
    /\ run \in [Workers -> [pc : RunPC, msg : Message \cup {NoMsg},
                            attempt : Nat, elapsed : 0 .. HardLimit,
                            scraped : 0 .. MaxVersion]]
    /\ ghosts \in [Workers -> SUBSET (0 .. MaxVersion)]
    /\ letterboxd \in 0 .. MaxVersion
    /\ imported \in 0 .. MaxVersion
    /\ losses \in 0 .. MaxLosses

Init ==
    /\ task = [t \in Tasks |-> [status |-> "unissued", attempt |-> 0]]
    /\ lock = Free
    /\ fresh = NoTask
    /\ queue = {}
    /\ req \in [Requests -> {[pc |-> "get_active", force |-> f, seen |-> NoTask,
                              mine |-> NoTask, tries |-> 0] : f \in BOOLEAN}]
    /\ run = [w \in Workers |-> IdleRun]
    /\ ghosts = [w \in Workers |-> {}]
    /\ letterboxd = 0
    /\ imported = 0
    /\ losses = 0

-----------------------------------------------------------------------------
(* Redis scripts                                                             *)

DeleteWithoutCompare(t) == lock' = Free   \* mutant of CompareAndDelete

(* _COMPARE_AND_DELETE_SCRIPT: drop the active key only for its owner.       *)
CompareAndDelete(t) == lock' = IF lock.owner = t THEN Free ELSE lock

OwnWithoutRefresh(t) ==                   \* mutant of Own
    lock' = [owner |-> t, left |-> IF lock.owner = t THEN lock.left ELSE ActiveTTL]

(* The active key written with its full TTL, by creation or by a claim.      *)
Own(t) == lock' = [owner |-> t, left |-> ActiveTTL]

SaveTask(t, status, attempt) ==
    task' = [task EXCEPT ![t] = [status |-> status, attempt |-> attempt]]

-----------------------------------------------------------------------------
(* TaskService.submit_profile_sync                                           *)

At(r, pc) == req[r].pc = pc

(* A submission remembers the task it read until it has acted on it, and     *)
(* none once it has replied.                                                 *)
Goto(r, pc) ==
    req' = [req EXCEPT ![r] =
              IF pc \in Replied
              THEN [pc |-> pc, force |-> FALSE, seen |-> NoTask, mine |-> NoTask, tries |-> 0]
              ELSE [@ EXCEPT !.pc = pc, !.seen = IF pc = "release_stale"
                                                 THEN req[r].seen ELSE NoTask]]

(* Where a submission goes when _get_active returned None: first to the      *)
(* freshness check or to creation, later round the race-recovery loop, which *)
(* makes three attempts.                                                     *)
NoActive(r) ==
    IF req[r].tries = 0
    THEN IF req[r].force THEN "create" ELSE "get_fresh"
    ELSE IF req[r].tries < 3 THEN "create" ELSE "error"

GetActive(r) ==
    /\ At(r, "get_active")
    /\ \/ lock.owner = NoTask /\ Goto(r, NoActive(r))
       \/ /\ lock.owner # NoTask
          /\ req' = [req EXCEPT ![r].pc = "get_owner", ![r].seen = lock.owner]
    /\ UNCHANGED <<task, lock, fresh, queue, run, ghosts, letterboxd, imported, losses>>

GetOwnerProcessingOnly(r) ==              \* mutant of GetOwner
    /\ At(r, "get_owner")
    /\ Goto(r, IF task[req[r].seen].status = "processing" THEN "reused" ELSE "release_stale")
    /\ UNCHANGED <<task, lock, fresh, queue, run, ghosts, letterboxd, imported, losses>>

GetOwner(r) ==
    /\ At(r, "get_owner")
    /\ Goto(r, IF task[req[r].seen].status \in Live THEN "reused" ELSE "release_stale")
    /\ UNCHANGED <<task, lock, fresh, queue, run, ghosts, letterboxd, imported, losses>>

ReleaseStale(r) ==
    /\ At(r, "release_stale")
    /\ CompareAndDelete(req[r].seen)
    /\ Goto(r, NoActive(r))
    /\ UNCHANGED <<task, fresh, queue, run, ghosts, letterboxd, imported, losses>>

GetFresh(r) ==
    /\ At(r, "get_fresh")
    /\ \/ fresh = NoTask /\ Goto(r, "create")
       \/ /\ fresh # NoTask
          /\ req' = [req EXCEPT ![r].pc = "get_fresh_task", ![r].seen = fresh]
    /\ UNCHANGED <<task, lock, fresh, queue, run, ghosts, letterboxd, imported, losses>>

GetFreshTask(r) ==
    /\ At(r, "get_fresh_task")
    /\ Goto(r, IF task[req[r].seen].status = "completed" THEN "reused" ELSE "create")
    /\ UNCHANGED <<task, lock, fresh, queue, run, ghosts, letterboxd, imported, losses>>

(* create_queued_if_inactive: metadata and ownership in one script.          *)
CreateQueued(r, t) ==
    /\ At(r, "create")
    /\ lock.owner = NoTask
    /\ task[t].status = "unissued"
    /\ Own(t)
    /\ SaveTask(t, "queued", 0)
    /\ req' = [req EXCEPT ![r].pc = "publish", ![r].mine = t]
    /\ UNCHANGED <<fresh, queue, run, ghosts, letterboxd, imported, losses>>

CreateLosesRace(r) ==
    /\ At(r, "create")
    /\ lock.owner # NoTask
    /\ req' = [req EXCEPT ![r].pc = "get_active", ![r].tries = @ + 1]
    /\ UNCHANGED <<task, lock, fresh, queue, run, ghosts, letterboxd, imported, losses>>

FirstMessage(t) == [task |-> t, retries |-> 0]

Publish(r) ==
    /\ At(r, "publish")
    /\ queue' = queue \cup {FirstMessage(req[r].mine)}
    /\ Goto(r, "created")
    /\ UNCHANGED <<task, lock, fresh, run, ghosts, letterboxd, imported, losses>>

(* apply_async raised: the message did not reach the broker.                 *)
PublishRefused(r) ==
    /\ "publish_refused" \in Events
    /\ At(r, "publish")
    /\ Goto(r, "save_failed")
    /\ UNCHANGED <<task, lock, fresh, queue, run, ghosts, letterboxd, imported, losses>>

(* apply_async raised although the broker has the message.                   *)
PublishMisreported(r) ==
    /\ "publish_misreported" \in Events
    /\ At(r, "publish")
    /\ queue' = queue \cup {FirstMessage(req[r].mine)}
    /\ Goto(r, "save_failed")
    /\ UNCHANGED <<task, lock, fresh, run, ghosts, letterboxd, imported, losses>>

(* task.failed(...) of the copy built at creation, attempt 0.                *)
SaveUnpublished(r) ==
    /\ At(r, "save_failed")
    /\ SaveTask(req[r].mine, "failed", 0)
    /\ Goto(r, "release_failed")
    /\ UNCHANGED <<lock, fresh, queue, run, ghosts, letterboxd, imported, losses>>

ReleaseUnpublished(r) ==
    /\ At(r, "release_failed")
    /\ CompareAndDelete(req[r].mine)
    /\ Goto(r, "error")
    /\ UNCHANGED <<task, fresh, queue, run, ghosts, letterboxd, imported, losses>>

RequestAborts(r) ==
    /\ "request_aborts" \in Events
    /\ req[r].pc \notin Replied
    /\ Goto(r, "error")
    /\ UNCHANGED <<task, lock, fresh, queue, run, ghosts, letterboxd, imported, losses>>

RequestStep(r) ==
    \/ GetActive(r) \/ GetOwner(r) \/ ReleaseStale(r)
    \/ GetFresh(r) \/ GetFreshTask(r)
    \/ \E t \in Tasks : CreateQueued(r, t)
    \/ CreateLosesRace(r)
    \/ Publish(r) \/ PublishRefused(r) \/ PublishMisreported(r)
    \/ SaveUnpublished(r) \/ ReleaseUnpublished(r)
    \/ RequestAborts(r)

-----------------------------------------------------------------------------
(* execute_profile_sync                                                      *)

Executes(w, pc) == run[w].pc = pc
TaskOf(w)       == run[w].msg.task
Advance(w, pc)  == run' = [run EXCEPT ![w].pc = pc]

(* The message is acknowledged when the task body ends, however it ends      *)
(* (acks_late, acks_on_failure_or_timeout).  A death between the last effect *)
(* and the acknowledgement only brings back a message that GetTask drops, or *)
(* one that WorkerLost had brought back before the effect; not so for a      *)
(* retry, whose acknowledgement is an action of its own.                     *)
EndRun(w) == run' = [run EXCEPT ![w] = IdleRun]

Deliver(w, m) ==
    /\ Executes(w, "idle")
    /\ m \in queue
    /\ queue' = queue \ {m}
    /\ run' = [run EXCEPT ![w] = [pc |-> "get_task", msg |-> m, attempt |-> 0,
                                  elapsed |-> 0, scraped |-> 0]]
    /\ UNCHANGED <<task, lock, fresh, req, ghosts, letterboxd, imported, losses>>

Proceeds(w) == task[TaskOf(w)].status \in Live

GetTask(w) ==
    /\ Executes(w, "get_task")
    /\ \/ ~Proceeds(w) /\ EndRun(w)
       \/ /\ Proceeds(w)
          /\ run' = [run EXCEPT ![w].pc = "claim",
                                ![w].attempt = task[TaskOf(w)].attempt]
    /\ UNCHANGED <<task, lock, fresh, queue, req, ghosts, letterboxd, imported, losses>>

(* _CLAIM_ACTIVE_SCRIPT: absent or own ownership is taken for a full TTL.    *)
MayAlwaysClaim(w) == TRUE                 \* mutant of MayClaim
MayClaim(w) == lock.owner \in {NoTask, TaskOf(w)}

Claim(w) ==
    /\ Executes(w, "claim")
    /\ \/ /\ MayClaim(w)
          /\ Own(TaskOf(w))
          /\ Advance(w, "save_processing")
       \/ /\ ~MayClaim(w)
          /\ Advance(w, "save_superseded")
          /\ UNCHANGED lock
    /\ UNCHANGED <<task, fresh, queue, req, ghosts, letterboxd, imported, losses>>

DropSuperseded(w) ==                      \* mutant of SaveSuperseded
    /\ Executes(w, "save_superseded")
    /\ EndRun(w)
    /\ UNCHANGED <<task, lock, fresh, queue, req, ghosts, letterboxd, imported, losses>>

SaveSuperseded(w) ==
    /\ Executes(w, "save_superseded")
    /\ SaveTask(TaskOf(w), "failed", run[w].attempt)
    /\ EndRun(w)
    /\ UNCHANGED <<lock, fresh, queue, req, ghosts, letterboxd, imported, losses>>

(* metadata.processing() is saved and the bridge starts the scrape, which    *)
(* can see nothing older than the profile of this moment.                    *)
SaveProcessing(w) ==
    /\ Executes(w, "save_processing")
    /\ SaveTask(TaskOf(w), "processing", run[w].attempt + 1)
    /\ run' = [run EXCEPT ![w].pc = "scraping", ![w].attempt = @ + 1,
                          ![w].scraped = letterboxd]
    /\ UNCHANGED <<lock, fresh, queue, req, ghosts, letterboxd, imported, losses>>

FinishScrape(w) ==
    /\ Executes(w, "scraping")
    /\ Advance(w, "import")
    /\ UNCHANGED <<task, lock, fresh, queue, req, ghosts, letterboxd, imported, losses>>

SoftLimitReached(w) == "slow_scrape" \in Events /\ run[w].elapsed >= SoftLimit

CanRetryOnceMore(w) == run[w].msg.retries <= MaxRetries   \* mutant of CanRetry
CanRetry(w) == run[w].msg.retries < MaxRetries
RetryMessage(w) == [task |-> TaskOf(w), retries |-> run[w].msg.retries + 1]

(* TransientProfileScrapeError: task.retry publishes the message again with  *)
(* a countdown; metadata and ownership stay as they are.  Without retries    *)
(* left the task fails.                                                      *)
TransientError(w) ==
    /\ Executes(w, "scraping")
    /\ \/ /\ CanRetry(w)
          /\ queue' = queue \cup {RetryMessage(w)}
          /\ Advance(w, "retried")
       \/ ~CanRetry(w) /\ Advance(w, "save_failed") /\ UNCHANGED queue
    /\ UNCHANGED <<task, lock, fresh, req, ghosts, letterboxd, imported, losses>>

(* The retry signal has left the body and the store is closed: only now is   *)
(* the message that was retried acknowledged.                                *)
Acknowledge(w) ==
    /\ Executes(w, "retried")
    /\ EndRun(w)
    /\ UNCHANGED <<task, lock, fresh, queue, req, ghosts, letterboxd, imported, losses>>

(* task.retry cannot publish, or the soft limit interrupts it: Celery        *)
(* rejects the message without requeueing, or takes the task as failed.      *)
RetryRefused(w) ==
    /\ "publish_refused" \in Events \/ SoftLimitReached(w)
    /\ Executes(w, "scraping")
    /\ CanRetry(w)
    /\ EndRun(w)
    /\ UNCHANGED <<task, lock, fresh, queue, req, ghosts, letterboxd, imported, losses>>

(* EmptyProfileError, a permanent scrape error, a failed transaction, or a   *)
(* failed read of the committed user.                                        *)
PermanentError(w) ==
    /\ run[w].pc \in InBridge
    /\ Advance(w, "save_failed")
    /\ UNCHANGED <<task, lock, fresh, queue, req, ghosts, letterboxd, imported, losses>>

(* SoftTimeLimitExceeded leaves Runner.run while the coroutine and its       *)
(* scraper thread stay pending on the worker's persistent loop.              *)
SoftTimeLimit(w) ==
    /\ SoftLimitReached(w)
    /\ run[w].pc \in InBridge
    /\ ghosts' = [ghosts EXCEPT ![w] = @ \cup IF Executes(w, "read_user") THEN {}
                                               ELSE {run[w].scraped}]
    /\ Advance(w, "save_failed")
    /\ UNCHANGED <<task, lock, fresh, queue, req, letterboxd, imported, losses>>

(* sync_user_logs commits the scraped profile in one transaction.            *)
Import(w) ==
    /\ Executes(w, "import")
    /\ imported' = run[w].scraped
    /\ Advance(w, "read_user")
    /\ UNCHANGED <<task, lock, fresh, queue, req, ghosts, letterboxd, losses>>

MarkFreshFirst(w) ==                      \* mutant of ReadUser
    /\ Executes(w, "read_user")
    /\ fresh' = TaskOf(w)
    /\ Advance(w, "save_completed")
    /\ UNCHANGED <<task, lock, queue, req, ghosts, letterboxd, imported, losses>>

(* The committed user is read back for the result, still inside the bridge.  *)
ReadUser(w) ==
    /\ Executes(w, "read_user")
    /\ Advance(w, "save_completed")
    /\ UNCHANGED <<task, lock, fresh, queue, req, ghosts, letterboxd, imported, losses>>

SaveCompleted(w) ==
    /\ Executes(w, "save_completed")
    /\ SaveTask(TaskOf(w), "completed", run[w].attempt)
    /\ Advance(w, "set_fresh")
    /\ UNCHANGED <<lock, fresh, queue, req, ghosts, letterboxd, imported, losses>>

SetFresh(w) ==
    /\ Executes(w, "set_fresh")
    /\ fresh' = TaskOf(w)
    /\ Advance(w, "release")
    /\ UNCHANGED <<task, lock, queue, req, ghosts, letterboxd, imported, losses>>

(* _fail_task: terminal metadata first, ownership second.                    *)
SaveFailed(w) ==
    /\ Executes(w, "save_failed")
    /\ SaveTask(TaskOf(w), "failed", run[w].attempt)
    /\ Advance(w, "release")
    /\ UNCHANGED <<lock, fresh, queue, req, ghosts, letterboxd, imported, losses>>

Release(w) ==
    /\ Executes(w, "release")
    /\ CompareAndDelete(TaskOf(w))
    /\ EndRun(w)
    /\ UNCHANGED <<task, fresh, queue, req, ghosts, letterboxd, imported, losses>>

(* A store call raises, or the soft limit interrupts the task body outside   *)
(* the scrape.  Only set_fresh and the final release are guarded: a failed   *)
(* set_fresh still releases, everything else ends the execution.             *)
StoreError(w) ==
    /\ "store_error" \in Events \/ SoftLimitReached(w)
    /\ run[w].pc \notin InBridge \cup {"idle", "retried"}
    /\ \/ Executes(w, "set_fresh") /\ Advance(w, "release")
       \/ ~Executes(w, "set_fresh") /\ EndRun(w)
    /\ UNCHANGED <<task, lock, fresh, queue, req, ghosts, letterboxd, imported, losses>>

-----------------------------------------------------------------------------
(* Worker processes, broker, Redis expiry and the remote profile             *)

(* The hard limit kills the process and acknowledges the message.            *)
HardTimeLimit(w) ==
    /\ "hung_worker" \in Events
    /\ ~Executes(w, "idle")
    /\ run[w].elapsed = HardLimit
    /\ EndRun(w)
    /\ ghosts' = [ghosts EXCEPT ![w] = {}]
    /\ UNCHANGED <<task, lock, fresh, queue, req, letterboxd, imported, losses>>

(* The process dies: reject_on_worker_lost requeues its message, the one it  *)
(* has published a retry of included.                                        *)
WorkerLost(w) ==
    /\ "worker_lost" \in Events
    /\ Executes(w, "retried") => "lost_after_retry" \in Events
    /\ losses < MaxLosses
    /\ ~Executes(w, "idle")
    /\ queue' = queue \cup {run[w].msg}
    /\ EndRun(w)
    /\ ghosts' = [ghosts EXCEPT ![w] = {}]
    /\ losses' = losses + 1
    /\ UNCHANGED <<task, lock, fresh, req, letterboxd, imported>>

(* At-least-once delivery: the message comes back while it is executed.      *)
Redelivered(w) ==
    /\ "redelivered" \in Events
    /\ losses < MaxLosses
    /\ ~Executes(w, "idle")
    /\ queue' = queue \cup {run[w].msg}
    /\ losses' = losses + 1
    /\ UNCHANGED <<task, lock, fresh, req, run, ghosts, letterboxd, imported>>

(* An abandoned coroutine goes on only while the worker's loop runs another  *)
(* one; it commits what it scraped, or fails unobserved.                     *)
GhostResumes(w, v) ==
    /\ v \in ghosts[w]
    /\ run[w].pc \in InBridge
    /\ ghosts' = [ghosts EXCEPT ![w] = @ \ {v}]
    /\ imported' \in {imported, v}
    /\ UNCHANGED <<task, lock, fresh, queue, req, run, letterboxd, losses>>

NoExpiry == UNCHANGED lock                \* mutant of ActiveKeyAges
ActiveKeyAges ==
    lock' = IF lock.left > 1 THEN [lock EXCEPT !.left = @ - 1] ELSE Free

(* Time passes for the active key and for every execution; an execution      *)
(* that has reached the hard limit is dealt with first.                      *)
Tick ==
    /\ \A w \in Workers : ~Executes(w, "idle") => run[w].elapsed < HardLimit
    /\ ActiveKeyAges
    /\ run' = [w \in Workers |-> IF Executes(w, "idle") THEN run[w]
                                 ELSE [run[w] EXCEPT !.elapsed = @ + 1]]
    /\ UNCHANGED <<task, fresh, queue, req, ghosts, letterboxd, imported, losses>>

FreshExpires ==
    /\ fresh # NoTask
    /\ fresh' = NoTask
    /\ UNCHANGED <<task, lock, queue, req, run, ghosts, letterboxd, imported, losses>>

(* Metadata is kept for a day after its last write, far longer than the      *)
(* active and freshness keys, a request or an execution can refer to it.     *)
TaskExpires(t) ==
    /\ task[t].status \notin Missing
    /\ lock.owner # t /\ fresh # t
    /\ \A r \in Requests : req[r].pc \in Replied \/ t \notin {req[r].seen, req[r].mine}
    /\ \A w \in Workers : TaskOf(w) # t
    /\ SaveTask(t, "expired", 0)
    /\ UNCHANGED <<lock, fresh, queue, req, run, ghosts, letterboxd, imported, losses>>

ProfileChanges ==
    /\ letterboxd < MaxVersion
    /\ letterboxd' = letterboxd + 1
    /\ UNCHANGED <<task, lock, fresh, queue, req, run, ghosts, imported, losses>>

-----------------------------------------------------------------------------

(* What a worker does by itself to the end of the execution it is in.        *)
Execute(w) ==
    \/ \E m \in queue : Deliver(w, m)
    \/ GetTask(w) \/ Claim(w) \/ SaveSuperseded(w) \/ SaveProcessing(w)
    \/ FinishScrape(w) \/ TransientError(w) \/ Acknowledge(w) \/ RetryRefused(w)
    \/ PermanentError(w) \/ SoftTimeLimit(w)
    \/ Import(w) \/ ReadUser(w) \/ SaveCompleted(w) \/ SetFresh(w)
    \/ SaveFailed(w) \/ Release(w) \/ StoreError(w)
    \/ HardTimeLimit(w)

WorkerStep(w) ==
    \/ Execute(w)
    \/ WorkerLost(w) \/ Redelivered(w)
    \/ \E v \in ghosts[w] : GhostResumes(w, v)

Next ==
    \/ \E r \in Requests : RequestStep(r)
    \/ \E w \in Workers : WorkerStep(w)
    \/ Tick \/ FreshExpires \/ ProfileChanges
    \/ \E t \in Tasks : TaskExpires(t)

Spec == Init /\ [][Next]_vars

(* Pool processes keep taking and executing messages, and time passes.       *)
(* Requests, losses, expiry and the remote profile owe nothing.              *)
Fairness == WF_vars(Tick) /\ \A w \in Workers : WF_vars(Execute(w))

FairSpec == Spec /\ Fairness

-----------------------------------------------------------------------------
(* Properties                                                                *)
(*                                                                           *)
(* The safety properties are about one execution of a task at a time.  The   *)
(* active key does not tell two executions of one task apart, so each of     *)
(* them, FreshIsCompleted and ImportNeverRegresses included, can fail once   *)
(* publish_misreported, redelivered or lost_after_retry has doubled a        *)
(* message; the two liveness properties are checked with all three.          *)

(* Two executions never scrape the profile at the same time: what active     *)
(* ownership is for.                                                         *)
MutualExclusion ==
    \A v, w \in Workers :
        run[v].pc \in InBridge /\ run[w].pc \in InBridge => v = w

(* The key claimed for ActiveTTL is still the execution's own, with time     *)
(* left to reach the hard limit, at every moment of its scrape: neither the  *)
(* TTL, nor a stale release, nor a failed publication takes it away.         *)
OwnershipOutlivesScrape ==
    \A w \in Workers :
        run[w].pc \in InBridge =>
            lock.owner = TaskOf(w) /\ lock.left > HardLimit - run[w].elapsed

(* A live task loses the active key only to its TTL: no compare-and-delete   *)
(* of a request that read the metadata earlier hits a task that is queued or *)
(* processing.                                                               *)
LiveOwnerOnlyLapses ==
    [][\A t \in Tasks :
          lock.owner = t /\ lock'.owner # t /\ task[t].status \in Live
              => lock.left = 1]_vars

(* Terminal metadata is final: nothing written from an earlier read of the   *)
(* metadata replaces a result a poller may have seen.                        *)
TerminalIsFinal ==
    [][\A t \in Tasks :
          task[t].status \in Terminal =>
              task'[t].status \in {task[t].status, "expired"}]_vars

(* The freshness marker names a completed task, whatever happens between     *)
(* the writes of an execution.                                               *)
FreshIsCompleted == fresh # NoTask => task[fresh].status = "completed"

(* Only a scrape that outlived its execution at the soft limit can put back  *)
(* a profile older than the imported one: executions import in the order of  *)
(* their scrapes.                                                            *)
ImportNeverRegresses ==
    [][imported' < imported => \E w \in Workers : ghosts'[w] # ghosts[w]]_vars

(* No crash, lost message or hung worker keeps a username locked: every      *)
(* owner lets go.                                                            *)
OwnershipEnds == \A t \in Tasks : lock.owner = t ~> lock.owner # t

(* A task whose message is in the broker becomes terminal (or outlives its   *)
(* retention), so a poller sees an end.                                      *)
PublishedTaskSettles ==
    \A t \in Tasks :
        (\E m \in queue : m.task = t) ~> task[t].status \in Terminal \cup Missing

(* The work on a task as SyncContract sees it: an execution that scrapes or   *)
(* imports, and one that has imported and not yet written its end.           *)
Stage(t) ==
    IF \E w \in Workers : TaskOf(w) = t /\ run[w].pc \in {"read_user", "save_completed"}
    THEN "stored"
    ELSE IF \E w \in Workers : TaskOf(w) = t /\ run[w].pc \in {"scraping", "import"}
    THEN "scraping" ELSE "idle"

Contract == INSTANCE SyncContract WITH
    status <- [t \in Tasks |-> task[t].status],
    owner  <- lock.owner,
    stage  <- [t \in Tasks |-> Stage(t)]

(* Requests, executions, the broker, the key's TTL and every crash together  *)
(* implement the contract: whatever interleaves, a task is only worked on    *)
(* under its ownership, completes only out of a stored profile of its own    *)
(* work, and is never worked on once a poller has read a result.             *)
ImplementsContract == Contract!Spec

(* The docstring of execute_profile_sync: "Active ownership prevents         *)
(* concurrent scrapes for one username", scrapes that outlived their         *)
(* execution included.                                                       *)
NoConcurrentScrapes ==
    \A w \in Workers :
        run[w].pc \in InBridge => \A v \in Workers : ghosts[v] = {}

=============================================================================
