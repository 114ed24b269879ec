----------------------------- MODULE Maintenance -----------------------------
(* The lock-protected maintenance operations: Celery executions and          *)
(* management commands that take one Redis key per operation before working. *)
(*                                                                           *)
(* MaintenanceLock draws a fresh token for every execution.  A token is told *)
(* apart only while its execution lives, so the key names the process whose  *)
(* execution holds it, and Orphan once that execution is gone.               *)
EXTENDS Integers

CONSTANTS
    Workers,     \* Celery pool processes serving the maintenance queue
    Commands,    \* manage.py invocations, each a process of its own
    Ops,         \* the operations of this instance, a subset of AllOps
    Nobody,      \* the key is absent
    Orphan,      \* the key holds the token of an execution that is gone
    LockTTL,     \* MAINTENANCE_LOCK_TTL_SECONDS, in clock ticks
    SoftLimit,   \* MAINTENANCE_SOFT_TIME_LIMIT_SECONDS, in clock ticks
    HardLimit,   \* MAINTENANCE_HARD_TIME_LIMIT_SECONDS, in clock ticks
    Events,      \* the environment events this instance admits
    MaxMessages, \* bound: messages Beat and the evaluation publish
    MaxLosses    \* bound: messages the broker delivers once more

AllOps == {"film_queue", "catalog", "evaluate", "retrain"}

(*   work_fails     the operation raises                                     *)
(*   slow_work      an execution reaches the soft time limit                 *)
(*   hung_work      the operation reaches the hard time limit                *)
(*   unbounded      work without a time limit outlives the hard limit        *)
(*   refused        the broker refuses a message                             *)
(*   store_error    a Redis call of MaintenanceLock raises                   *)
(*   process_lost   a process dies; the broker requeues a worker's message   *)
(*   redelivered    a message is delivered again during its execution        *)
AllEvents == {"work_fails", "slow_work", "hung_work", "unbounded", "refused",
              "store_error", "process_lost", "redelivered"}

Processes == Workers \cup Commands

(* Settings.validate_task_timeouts refuses a lock TTL that does not exceed   *)
(* the hard limit.                                                           *)
ASSUME MaintenanceAssumption ==
    /\ Workers \cap Commands = {}
    /\ Nobody \notin Processes /\ Orphan \notin Processes /\ Nobody # Orphan
    /\ Ops \subseteq AllOps /\ Events \subseteq AllEvents
    /\ LockTTL \in Nat /\ SoftLimit \in Nat /\ HardLimit \in Nat
    /\ LockTTL > HardLimit
    /\ MaxMessages \in Nat /\ MaxLosses \in Nat

VARIABLES
    lock,       \* per operation, the owner of its key and the key's TTL
    queue,      \* messages waiting in the broker
    proc,       \* what each process executes
    published,  \* messages published so far by Beat or the evaluation
    losses      \* messages delivered once more so far

vars == <<lock, queue, proc, published, losses>>

MaxRetries(o) == CASE o \in {"film_queue", "catalog"} -> 2
                   [] o = "evaluate" -> 0
                   [] o = "retrain" -> 1

Message == {m \in [id : 1 .. MaxMessages, op : Ops, retries : 0 .. 2] :
               m.retries <= MaxRetries(m.op)}
NoMsg   == [id |-> 0, op |-> "none", retries |-> 0]
Free    == [owner |-> Nobody, left |-> 0]
Idle    == [pc |-> "idle", op |-> "none", msg |-> NoMsg, elapsed |-> 0]

PC      == {"idle", "acquire", "acquired", "working", "release"}
Holding == {"acquired", "working", "release"}

TypeOK ==
    /\ lock \in [Ops -> [owner : Processes \cup {Nobody, Orphan}, left : 0 .. LockTTL]]
    /\ queue \subseteq Message
    /\ proc \in [Processes -> [pc : PC, op : Ops \cup {"none"},
                               msg : Message \cup {NoMsg}, elapsed : 0 .. HardLimit]]
    /\ published \in 0 .. MaxMessages
    /\ losses \in 0 .. MaxLosses

Init ==
    /\ lock = [o \in Ops |-> Free]
    /\ queue = {}
    /\ proc = [p \in Processes |-> Idle]
    /\ published = 0
    /\ losses = 0

-----------------------------------------------------------------------------
(* Publication and delivery                                                  *)

At(p, pc) == proc[p].pc = pc
OpOf(p)   == proc[p].op

Publish(o) ==
    /\ published < MaxMessages
    /\ published' = published + 1
    /\ queue' = queue \cup {[id |-> published + 1, op |-> o, retries |-> 0]}

(* MAINTENANCE_BEAT_SCHEDULE names every task but the retraining itself.     *)
BeatPublishes(o) ==
    /\ o # "retrain"
    /\ Publish(o)
    /\ UNCHANGED <<lock, proc, losses>>

Start(p, o, m) ==
    /\ At(p, "idle")
    /\ proc' = [proc EXCEPT ![p] = [pc |-> "acquire", op |-> o, msg |-> m, elapsed |-> 0]]

Deliver(w, m) ==
    /\ m \in queue
    /\ Start(w, m.op, m)
    /\ queue' = queue \ {m}
    /\ UNCHANGED <<lock, published, losses>>

(* process-film-queue, refresh-catalog, and retrain or rollback-model, which *)
(* share the retraining key.                                                 *)
CommandStarts(c, o) ==
    /\ o # "evaluate"
    /\ Start(c, o, NoMsg)
    /\ UNCHANGED <<lock, queue, published, losses>>

-----------------------------------------------------------------------------
(* MaintenanceLock                                                           *)

Stop(p) == proc' = [proc EXCEPT ![p] = Idle]
Goto(p, pc) == proc' = [proc EXCEPT ![p].pc = pc]

SetLock(o, owner, left) == lock' = [lock EXCEPT ![o] = [owner |-> owner, left |-> left]]

AcquireWithoutNX(p) ==                    \* mutant of Acquire
    /\ At(p, "acquire")
    /\ SetLock(OpOf(p), p, LockTTL) /\ Goto(p, "acquired")
    /\ UNCHANGED <<queue, published, losses>>

AcquireBriefly(p) ==                      \* mutant of Acquire
    /\ At(p, "acquire")
    /\ \/ lock[OpOf(p)].owner = Nobody /\ SetLock(OpOf(p), p, HardLimit) /\ Goto(p, "acquired")
       \/ lock[OpOf(p)].owner # Nobody /\ Stop(p) /\ UNCHANGED lock
    /\ UNCHANGED <<queue, published, losses>>

(* SET NX EX: contention is a successful skip for a task, an error for a     *)
(* command; neither works.                                                   *)
Acquire(p) ==
    /\ At(p, "acquire")
    /\ \/ lock[OpOf(p)].owner = Nobody /\ SetLock(OpOf(p), p, LockTTL) /\ Goto(p, "acquired")
       \/ lock[OpOf(p)].owner # Nobody /\ Stop(p) /\ UNCHANGED lock
    /\ UNCHANGED <<queue, published, losses>>

(* The answer of the SET is in and held() has entered its try.               *)
Enter(p) ==
    /\ At(p, "acquired")
    /\ Goto(p, "working")
    /\ UNCHANGED <<lock, queue, published, losses>>

(* The key read back when a holder goes: only its own token is removed.      *)
Forget(p, owner, left) ==
    IF At(p, "idle") \/ At(p, "acquire") \/ lock[OpOf(p)].owner # p
    THEN UNCHANGED lock
    ELSE SetLock(OpOf(p), owner, left)

(* An execution that ends without releasing leaves its token in the key.     *)
LeaveToken(p) == Forget(p, Orphan, lock[OpOf(p)].left)

ReleaseWithoutCompare(p) ==               \* mutant of Release
    /\ At(p, "release")
    /\ lock' = [lock EXCEPT ![OpOf(p)] = Free]
    /\ Stop(p)
    /\ UNCHANGED <<queue, published, losses>>

(* The finally of held(): compare-and-delete, then the execution ends.       *)
Release(p) ==
    /\ At(p, "release")
    /\ Forget(p, Nobody, 0)
    /\ Stop(p)
    /\ UNCHANGED <<queue, published, losses>>

(* A call fails: the SET before or after it was applied, or the EVAL, which  *)
(* leaves the key.                                                           *)
StoreError(p) ==
    /\ "store_error" \in Events
    /\ At(p, "acquire") \/ At(p, "acquired") \/ At(p, "release")
    /\ LeaveToken(p)
    /\ Stop(p)
    /\ UNCHANGED <<queue, published, losses>>

-----------------------------------------------------------------------------
(* The work inside held()                                                    *)

WorkSucceeds(p) ==
    /\ At(p, "working")
    /\ Goto(p, "release")
    /\ UNCHANGED <<lock, queue, published, losses>>

(* evaluate_retraining_task found a reason to retrain.                       *)
EvaluationPublishes(p) ==
    /\ At(p, "working") /\ OpOf(p) = "evaluate" /\ "retrain" \in Ops
    /\ Publish("retrain")
    /\ Goto(p, "release")
    /\ UNCHANGED <<lock, losses>>

CanRetryOnceMore(p) ==                    \* mutant of CanRetry
    p \in Workers /\ proc[p].msg.retries <= MaxRetries(OpOf(p))

CanRetry(p) == p \in Workers /\ proc[p].msg.retries < MaxRetries(OpOf(p))

SkipTheRelease(p) ==                      \* mutant of Fail
    /\ \/ CanRetry(p) /\ queue' = queue \cup {[proc[p].msg EXCEPT !.retries = @ + 1]}
       \/ ~CanRetry(p) /\ UNCHANGED queue
       \/ "refused" \in Events /\ UNCHANGED queue
    /\ Stop(p)
    /\ LeaveToken(p)

(* _retry publishes the message again while held, or the exception goes on;  *)
(* either way the finally of held() is next.  A command has no retry.        *)
Fail(p) ==
    /\ \/ CanRetry(p) /\ queue' = queue \cup {[proc[p].msg EXCEPT !.retries = @ + 1]}
       \/ ~CanRetry(p) /\ UNCHANGED queue
       \/ "refused" \in Events /\ UNCHANGED queue
    /\ Goto(p, "release")
    /\ UNCHANGED lock

WorkFails(p) ==
    /\ "work_fails" \in Events
    /\ At(p, "working")
    /\ Fail(p)
    /\ UNCHANGED <<published, losses>>

Limited(p) == p \in Workers /\ OpOf(p) # "evaluate"

SoftLimitReached(w) ==
    "slow_work" \in Events /\ Limited(w) /\ proc[w].elapsed >= SoftLimit

(* SoftTimeLimitExceeded inside held() is one more exception: of the work,   *)
(* or of what surrounds it, where nothing is retried.  What a bridged        *)
(* coroutine it interrupts does later never touches the lock.                *)
SoftTimeLimit(w) ==
    /\ SoftLimitReached(w)
    /\ At(w, "working")
    /\ Fail(w) \/ (Goto(w, "release") /\ UNCHANGED <<lock, queue>>)
    /\ UNCHANGED <<published, losses>>

(* The signal lands in the lock's own calls: before the SET or between it    *)
(* and the try, where no finally releases, or in the finally before its      *)
(* EVAL (after the EVAL it changes nothing: that is Release).  The exception *)
(* ends the task.                                                            *)
SoftLimitInLock(w) ==
    /\ SoftLimitReached(w)
    /\ At(w, "acquire") \/ At(w, "acquired") \/ At(w, "release")
    /\ LeaveToken(w)
    /\ Stop(w)
    /\ UNCHANGED <<queue, published, losses>>

-----------------------------------------------------------------------------
(* Processes that die, messages that come twice, and time                    *)

(* The pool kills the process and acknowledges the message.                  *)
HardTimeLimit(w) ==
    /\ "hung_work" \in Events
    /\ ~At(w, "idle") /\ Limited(w) /\ proc[w].elapsed = HardLimit
    /\ LeaveToken(w)
    /\ Stop(w)
    /\ UNCHANGED <<queue, published, losses>>

ProcessLost(p) ==
    /\ "process_lost" \in Events
    /\ ~At(p, "idle")
    /\ LeaveToken(p)
    /\ Stop(p)
    /\ \/ /\ p \in Workers /\ losses < MaxLosses
          /\ queue' = queue \cup {proc[p].msg}
          /\ losses' = losses + 1
       \/ p \in Commands /\ UNCHANGED <<queue, losses>>
    /\ UNCHANGED published

Redelivered(w) ==
    /\ "redelivered" \in Events
    /\ ~At(w, "idle") /\ losses < MaxLosses
    /\ queue' = queue \cup {proc[w].msg}
    /\ losses' = losses + 1
    /\ UNCHANGED <<lock, proc, published>>

NeverExpire == UNCHANGED lock             \* mutant of KeysAge

KeysAge ==
    lock' = [o \in Ops |-> IF lock[o].left <= 1 THEN Free
                           ELSE [owner |-> lock[o].owner, left |-> lock[o].left - 1]]

MayOutlive(p) == ~Limited(p) /\ "unbounded" \in Events

Tick ==
    /\ \A p \in Processes :
          At(p, "idle") \/ proc[p].elapsed < HardLimit \/ MayOutlive(p)
    /\ KeysAge
    /\ proc' = [p \in Processes |->
                   IF At(p, "idle") \/ proc[p].elapsed = HardLimit THEN proc[p]
                   ELSE [proc[p] EXCEPT !.elapsed = @ + 1]]
    /\ UNCHANGED <<queue, published, losses>>

-----------------------------------------------------------------------------

(* What a process does by itself.                                            *)
Execute(p) ==
    \/ Acquire(p) \/ Enter(p) \/ Release(p) \/ StoreError(p)
    \/ WorkSucceeds(p) \/ EvaluationPublishes(p) \/ WorkFails(p)

ExecuteWorker(w) ==
    \/ \E m \in queue : Deliver(w, m)
    \/ Execute(w) \/ SoftTimeLimit(w) \/ SoftLimitInLock(w) \/ HardTimeLimit(w)

Next ==
    \/ \E o \in Ops : BeatPublishes(o)
    \/ \E w \in Workers : ExecuteWorker(w) \/ Redelivered(w)
    \/ \E c \in Commands : Execute(c) \/ (\E o \in Ops : CommandStarts(c, o))
    \/ \E p \in Processes : ProcessLost(p)
    \/ Tick

Spec == Init /\ [][Next]_vars

(* Workers keep executing and time passes; commands and Beat owe nothing.    *)
FairSpec == Spec /\ WF_vars(Tick) /\ \A w \in Workers : WF_vars(ExecuteWorker(w))

-----------------------------------------------------------------------------
(* Properties                                                                *)

(* Two processes never do the same operation at once, across tasks and       *)
(* commands, their crashes and their retries, unless one of them is a        *)
(* command or an evaluation whose work no limit relates to the key's TTL.    *)
Singleton ==
    \A p, q \in Processes :
        At(p, "working") /\ At(q, "working") /\ OpOf(p) = OpOf(q) =>
            p = q \/ MayOutlive(p) \/ MayOutlive(q)

(* The key of an execution with a hard limit is its own, with time left to   *)
(* reach that limit, for as long as it works.                                *)
HeldOutlivesWork ==
    \A w \in Workers :
        At(w, "working") /\ Limited(w) =>
            /\ lock[OpOf(w)].owner = w
            /\ lock[OpOf(w)].left > HardLimit - proc[w].elapsed

(* "an expired lock can never delete a successor's ownership after a slow    *)
(* worker resumes": a key changes hands by its TTL or by a step of its owner *)
(* and by nothing else.                                                      *)
OnlyOwnerReleases ==
    [][\A o \in Ops, p \in Processes :
          lock[o].owner = p /\ lock'[o].owner # p =>
              lock[o].left = 1 \/ proc'[p] # proc[p]]_vars

(* However the work ends, by success, failure, a published or refused retry  *)
(* or the soft limit inside held(), its key is given back, so that no later  *)
(* run is skipped for nothing.  A key outlives its execution only when the   *)
(* process is gone, or when a call of the lock itself failed or was cut      *)
(* short by the soft limit, outside the work.                                *)
WorkGivesKeyBack ==
    [][\A o \in Ops, p \in Processes :
          lock[o].owner = p /\ lock'[o].owner = Orphan =>
              \/ ProcessLost(p)
              \/ p \in Workers /\ HardTimeLimit(p)
              \/ /\ ~At(p, "working")
                 /\ StoreError(p) \/ (p \in Workers /\ SoftLimitInLock(p))]_vars

(* Whatever dies, hangs or fails, nobody keeps an operation locked for ever. *)
OwnershipEnds ==
    \A o \in Ops, p \in Processes \cup {Orphan} :
        lock[o].owner = p ~> lock[o].owner # p

=============================================================================
