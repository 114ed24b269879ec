------------------------- MODULE ProfileSyncProofs -------------------------
(* Safety of ProfileSync for every number of requests, tasks and workers and *)
(* every configuration, when nothing doubles a message: each publication is  *)
(* reported truthfully, no message is delivered while it is being executed,  *)
(* and no process dies between publishing a retry and acknowledging what it  *)
(* retried; and, under the same condition, the refinement of SyncContract.   *)
EXTENDS ProfileSync, TLAPS

Reliable ==
    {"publish_misreported", "redelivered", "lost_after_retry"} \cap Events = {}

-----------------------------------------------------------------------------
(* The inductive invariant                                                   *)

Idle(w) == run[w].pc = "idle"

(* An execution that has its task to itself: it has not published a retry.   *)
Holds(w) == run[w].pc \notin {"idle", "retried"}

(* A request that has created its task and not yet handed it to the broker.  *)
UnpublishedPC == {"publish", "save_failed", "release_failed"}
Unpublished(r) == req[r].pc \in UnpublishedPC

(* An execution that read live metadata and has not ended its task.          *)
EngagedPC == {"claim", "save_superseded", "save_processing", "scraping", "import",
              "read_user", "save_completed", "save_failed"}
Engaged(w) == run[w].pc \in EngagedPC

(* An execution that has claimed the active key for its task.                *)
ClaimedPC == EngagedPC \ {"claim", "save_superseded"}
Claimed(w) == run[w].pc \in ClaimedPC

Issued(t) == t \in Tasks /\ task[t].status # "unissued"

(* Idle workers hold no message, busy workers do.                            *)
RunInv == \A w \in Workers : Idle(w) <=> run[w].msg = NoMsg

(* Only identifiers that were drawn are referred to.                         *)
IssuedInv ==
    /\ \A m \in queue : Issued(m.task)
    /\ \A w \in Workers : ~Idle(w) => Issued(TaskOf(w))
    /\ \A r \in Requests : Unpublished(r) => Issued(req[r].mine)
    /\ \A r \in Requests :
          req[r].pc \in {"get_owner", "release_stale", "get_fresh_task"}
              => Issued(req[r].seen)
    /\ lock.owner # NoTask => Issued(lock.owner)
    /\ fresh # NoTask => Issued(fresh)

(* A task is unpublished, or in one message, or in one execution that has    *)
(* not handed it over to a retry.                                            *)
UniqueInv ==
    /\ \A m, n \in queue : m.task = n.task => m = n
    /\ \A m \in queue, w \in Workers : Holds(w) => TaskOf(w) # m.task
    /\ \A v, w \in Workers : Holds(v) /\ Holds(w) /\ TaskOf(v) = TaskOf(w) => v = w
    /\ \A r \in Requests, m \in queue : Unpublished(r) => req[r].mine # m.task
    /\ \A r \in Requests, w \in Workers :
          Unpublished(r) /\ ~Idle(w) => req[r].mine # TaskOf(w)
    /\ \A r, s \in Requests :
          Unpublished(r) /\ Unpublished(s) /\ req[r].mine = req[s].mine => r = s

(* Whoever is about to write terminal metadata knows it to be live, and      *)
(* whoever is about to drop a stale owner knows it not to be.                *)
LiveInv ==
    /\ \A w \in Workers : Engaged(w) => task[TaskOf(w)].status \in Live
    /\ \A r \in Requests :
          req[r].pc \in {"publish", "save_failed"} =>
              task[req[r].mine].status \in Live
    /\ \A r \in Requests :
          req[r].pc = "release_failed" => task[req[r].mine].status \in Terminal
    /\ \A r \in Requests :
          req[r].pc = "release_stale" => task[req[r].seen].status \notin Live
    /\ \A w \in Workers :
          run[w].pc \in {"release", "set_fresh"} =>
              task[TaskOf(w)].status \in Terminal

(* The key of a claimed execution lasts past its hard limit.                 *)
LockInv ==
    /\ lock.owner = NoTask <=> lock.left = 0
    /\ \A w \in Workers :
          Claimed(w) => /\ lock.owner = TaskOf(w)
                        /\ lock.left > HardLimit - run[w].elapsed

(* The race-recovery loop creates at most three times.                       *)
TriesInv ==
    \A r \in Requests :
        /\ req[r].pc \in {"get_fresh", "get_fresh_task"} => req[r].tries = 0
        /\ req[r].pc = "create" => req[r].tries < 3

(* The freshness marker is written after, and outlived by, the completion.   *)
FreshInv ==
    /\ FreshIsCompleted
    /\ \A w \in Workers :
          run[w].pc = "set_fresh" => task[TaskOf(w)].status = "completed"

IInv == /\ TypeOK /\ RunInv /\ IssuedInv /\ UniqueInv
        /\ LiveInv /\ LockInv /\ TriesInv /\ FreshInv

-----------------------------------------------------------------------------
(* What the updates of the specification do, field by field                  *)

RequestType == [pc : RequestPC, force : BOOLEAN, seen : Tasks \cup {NoTask},
                mine : Tasks \cup {NoTask}, tries : 0 .. 3]
RunType     == [pc : RunPC, msg : Message \cup {NoMsg}, attempt : Nat,
                elapsed : 0 .. HardLimit, scraped : 0 .. MaxVersion]
TaskType    == [status : Status, attempt : Nat]
LockType    == [owner : Tasks \cup {NoTask}, left : 0 .. ActiveTTL]

(* Request r goes to pc, with the task it created while it still has to be   *)
(* published; the others stay.                                               *)
Went(r, pc) ==
    /\ req'[r].pc = pc
    /\ pc \in UnpublishedPC => req'[r].mine = req[r].mine
    /\ \A s \in Requests : s # r => req'[s] = req[s]

(* Worker w goes to pc within its execution; the others stay.                *)
Moved(w, pc) ==
    /\ run'[w].pc = pc
    /\ run'[w].msg = run[w].msg
    /\ run'[w].elapsed = run[w].elapsed
    /\ \A v \in Workers : v # w => run'[v] = run[v]

Ended(w) ==
    /\ run'[w].pc = "idle"
    /\ run'[w].msg = NoMsg
    /\ \A v \in Workers : v # w => run'[v] = run[v]

Saved(t, status) ==
    /\ task'[t].status = status
    /\ \A u \in Tasks : u # t => task'[u] = task[u]

LEMMA GotoWent ==
    ASSUME TypeOK, NEW r \in Requests, NEW pc \in RequestPC, Goto(r, pc)
    PROVE  /\ req' \in [Requests -> RequestType]
           /\ Went(r, pc)
           /\ pc = "release_stale" => req'[r].seen = req[r].seen
           /\ pc \in {"create", "get_fresh"} => req'[r].tries = req[r].tries
<1>1. CASE pc \in Replied
  <2>1. req' = [req EXCEPT ![r] = [pc |-> pc, force |-> FALSE, seen |-> NoTask,
                                  mine |-> NoTask, tries |-> 0]]
    BY <1>1 DEF Goto
  <2> QED BY <1>1, <2>1 DEF TypeOK, Went, RequestType, Replied, UnpublishedPC
<1>2. CASE pc \notin Replied
  <2>1. PICK t \in Tasks \cup {NoTask} :
            /\ req' = [req EXCEPT ![r] = [@ EXCEPT !.pc = pc, !.seen = t]]
            /\ pc = "release_stale" => t = req[r].seen
    <3>1. req[r].seen \in Tasks \cup {NoTask}
      BY DEF TypeOK
    <3>2. CASE pc = "release_stale"
      <4>1. req' = [req EXCEPT ![r] = [@ EXCEPT !.pc = pc, !.seen = req[r].seen]]
        BY <1>2, <3>2 DEF Goto
      <4> QED BY <3>1, <4>1
    <3>3. CASE pc # "release_stale"
      <4>1. req' = [req EXCEPT ![r] = [@ EXCEPT !.pc = pc, !.seen = NoTask]]
        BY <1>2, <3>3 DEF Goto
      <4> QED BY <3>3, <4>1
    <3> QED BY <3>2, <3>3
  <2> QED BY <1>2, <2>1 DEF TypeOK, Went, RequestType
<1> QED BY <1>1, <1>2

LEMMA SeesWent ==
    ASSUME TypeOK, NEW r \in Requests, NEW pc \in RequestPC, NEW t \in Tasks \cup {NoTask},
           req' = [req EXCEPT ![r].pc = pc, ![r].seen = t]
    PROVE  /\ req' \in [Requests -> RequestType]
           /\ Went(r, pc)
           /\ req'[r].seen = t
           /\ req'[r].tries = req[r].tries
BY DEF TypeOK, Went, RequestType

LEMMA CreatesWent ==
    ASSUME TypeOK, NEW r \in Requests, NEW pc \in RequestPC, NEW t \in Tasks,
           req' = [req EXCEPT ![r].pc = pc, ![r].mine = t]
    PROVE  /\ req' \in [Requests -> RequestType]
           /\ req'[r].pc = pc
           /\ req'[r].mine = t
           /\ \A s \in Requests : s # r => req'[s] = req[s]
BY DEF TypeOK, RequestType

LEMMA ReadsMoved ==
    ASSUME TypeOK, NEW w \in Workers, NEW pc \in RunPC, NEW n \in Nat,
           run' = [run EXCEPT ![w].pc = pc, ![w].attempt = n]
    PROVE  run' \in [Workers -> RunType] /\ Moved(w, pc)
BY DEF TypeOK, Moved, RunType

LEMMA AdvanceMoved ==
    ASSUME TypeOK, NEW w \in Workers, NEW pc \in RunPC, Advance(w, pc)
    PROVE  run' \in [Workers -> RunType] /\ Moved(w, pc)
BY DEF TypeOK, Advance, Moved, RunType

LEMMA EndRunEnded ==
    ASSUME TypeOK, NEW w \in Workers, EndRun(w)
    PROVE  run' \in [Workers -> RunType] /\ Ended(w)
BY ConfigAssumption DEF TypeOK, EndRun, IdleRun, RunPC, Ended, RunType

LEMMA SaveTaskSaved ==
    ASSUME TypeOK, NEW t \in Tasks, NEW status \in Status, NEW n \in Nat,
           SaveTask(t, status, n)
    PROVE  task' \in [Tasks -> TaskType] /\ Saved(t, status)
BY DEF TypeOK, SaveTask, Saved, TaskType

LEMMA OwnOwned ==
    ASSUME NEW t \in Tasks, Own(t)
    PROVE  lock' \in LockType /\ lock'.owner = t /\ lock'.left = ActiveTTL
BY ConfigAssumption DEF Own, LockType

LEMMA CompareAndDeleteDeleted ==
    ASSUME TypeOK, NEW t, CompareAndDelete(t)
    PROVE  /\ lock' \in LockType
           /\ lock.owner = t => lock'.owner = NoTask /\ lock'.left = 0
           /\ lock.owner # t => lock' = lock
BY ConfigAssumption DEF TypeOK, CompareAndDelete, Free, LockType

(* A busy worker has a message of a real task.                               *)
LEMMA BusyTask ==
    ASSUME TypeOK, RunInv, NEW w \in Workers, ~Idle(w)
    PROVE  run[w].msg \in Message /\ TaskOf(w) \in Tasks /\ TaskOf(w) # NoTask
BY ConfigAssumption DEF TypeOK, RunInv, TaskOf, Message, NoMsg

(* Where a submission may go when it found no live owner.                    *)
LEMMA NoActiveGoes ==
    ASSUME NEW r \in Requests
    PROVE  /\ NoActive(r) \in {"create", "get_fresh", "error"}
           /\ NoActive(r) = "get_fresh" => req[r].tries = 0
           /\ NoActive(r) = "create" => req[r].tries < 3
BY DEF NoActive

-----------------------------------------------------------------------------
(* Steps that disturb little                                                 *)

(* A request that only looks or gives up.                                    *)
LEMMA RequestMoves ==
    ASSUME IInv, TypeOK', NEW r \in Requests, NEW pc \in RequestPC, Went(r, pc),
           UNCHANGED <<task, lock, fresh, queue, run>>,
           pc \in UnpublishedPC => Unpublished(r) /\ pc # "release_failed",
           pc \in {"publish", "save_failed"} => task[req[r].mine].status \in Live,
           pc \in {"get_owner", "release_stale", "get_fresh_task"}
               => Issued(req'[r].seen),
           pc = "release_stale" => task[req'[r].seen].status \notin Live,
           pc \in {"get_fresh", "get_fresh_task"} => req'[r].tries = 0,
           pc = "create" => req'[r].tries < 3
    PROVE  IInv'
<1> USE DEF IInv, Went
<1>1. RunInv' BY DEF RunInv, Idle, Holds
<1>2. IssuedInv' BY DEF IssuedInv, Issued, Unpublished, UnpublishedPC, Idle, Holds, TaskOf
<1>3. UniqueInv' BY DEF UniqueInv, Unpublished, UnpublishedPC, Idle, Holds, TaskOf
<1>4. LiveInv' BY DEF LiveInv, Engaged, TaskOf, UnpublishedPC
<1>5. LockInv' BY DEF LockInv, Claimed, TaskOf
<1>6. TriesInv' BY DEF TriesInv
<1>7. FreshInv' BY DEF FreshInv, FreshIsCompleted, TaskOf
<1> QED BY <1>1, <1>2, <1>3, <1>4, <1>5, <1>6, <1>7

(* An execution that goes on without touching Redis.                         *)
LEMMA RunMoves ==
    ASSUME IInv, TypeOK', NEW w \in Workers, NEW pc \in RunPC \ {"idle"}, Holds(w),
           Moved(w, pc),
           UNCHANGED <<task, lock, fresh, queue, req>>,
           pc \in EngagedPC => task[TaskOf(w)].status \in Live,
           pc \in ClaimedPC => Claimed(w),
           pc \in {"release", "set_fresh"} => task[TaskOf(w)].status \in Terminal,
           pc = "set_fresh" => task[TaskOf(w)].status = "completed"
    PROVE  IInv'
<1> USE DEF IInv, Moved
<1>1. RunInv' BY DEF RunInv, Idle, Holds
<1>2. IssuedInv' BY DEF IssuedInv, Issued, Unpublished, Idle, Holds, TaskOf
<1>3. UniqueInv' BY DEF UniqueInv, Unpublished, Idle, Holds, TaskOf
<1>4. LiveInv' BY DEF LiveInv, Engaged, TaskOf
<1>5. LockInv' BY DEF LockInv, Claimed, TaskOf
<1>6. TriesInv' BY DEF TriesInv
<1>7. FreshInv' BY DEF FreshInv, FreshIsCompleted, TaskOf
<1> QED BY <1>1, <1>2, <1>3, <1>4, <1>5, <1>6, <1>7

(* An execution that ends, its message gone or back in the broker.           *)
LEMMA RunEnds ==
    ASSUME IInv, TypeOK', NEW w \in Workers, ~Idle(w), Ended(w),
           UNCHANGED <<task, lock, fresh, req>>,
           \/ queue' = queue
           \/ Holds(w) /\ \E m \in Message : m.task = TaskOf(w) /\ queue' = queue \cup {m}
    PROVE  IInv'
<1> USE DEF IInv, Ended
<1>1. RunInv' BY DEF RunInv, Idle, Holds
<1>2. IssuedInv' BY DEF IssuedInv, Issued, Unpublished, Idle, Holds, TaskOf
<1>3. UniqueInv' BY DEF UniqueInv, Unpublished, Idle, Holds, TaskOf
<1>4. LiveInv' BY DEF LiveInv, Engaged, EngagedPC, TaskOf
<1>5. LockInv' BY DEF LockInv, Claimed, ClaimedPC, EngagedPC, TaskOf
<1>6. TriesInv' BY DEF TriesInv
<1>7. FreshInv' BY DEF FreshInv, FreshIsCompleted, TaskOf
<1> QED BY <1>1, <1>2, <1>3, <1>4, <1>5, <1>6, <1>7

(* An execution that hands its task over to a retry.                         *)
LEMMA RunHandsOver ==
    ASSUME IInv, TypeOK', NEW w \in Workers, Holds(w), Moved(w, "retried"),
           UNCHANGED <<task, lock, fresh, req>>,
           NEW m \in Message, m.task = TaskOf(w), queue' = queue \cup {m}
    PROVE  IInv'
<1> USE DEF IInv, Moved
<1>1. RunInv' BY DEF RunInv, Idle, Holds
<1>2. IssuedInv' BY DEF IssuedInv, Issued, Unpublished, Idle, Holds, TaskOf
<1>3. UniqueInv' BY DEF UniqueInv, Unpublished, Idle, Holds, TaskOf
<1>4. LiveInv' BY DEF LiveInv, Engaged, EngagedPC, TaskOf
<1>5. LockInv' BY DEF LockInv, Claimed, ClaimedPC, EngagedPC, TaskOf
<1>6. TriesInv' BY DEF TriesInv
<1>7. FreshInv' BY DEF FreshInv, FreshIsCompleted, TaskOf
<1> QED BY <1>1, <1>2, <1>3, <1>4, <1>5, <1>6, <1>7

-----------------------------------------------------------------------------
(* Type correctness                                                          *)

LEMMA TypeInit == Init => TypeOK
BY ConfigAssumption
   DEF Init, TypeOK, Status, Missing, Free, RequestPC, RunPC, IdleRun

LEMMA TypeRequest ==
    ASSUME IInv, NEW r \in Requests, RequestStep(r)
    PROVE  TypeOK'
<1> USE ConfigAssumption DEF IInv, At
<1>1. CASE GetActive(r)
  <2>1. CASE Goto(r, NoActive(r))
    BY <1>1, <2>1, GotoWent, NoActiveGoes DEF GetActive, TypeOK, RequestPC, RequestType
  <2>2. CASE req' = [req EXCEPT ![r].pc = "get_owner", ![r].seen = lock.owner]
    <3>1. lock.owner \in Tasks \cup {NoTask}
      BY DEF TypeOK
    <3> QED BY <1>1, <2>2, <3>1, SeesWent DEF GetActive, TypeOK, RequestPC, RequestType
  <2> QED BY <1>1, <2>1, <2>2 DEF GetActive
<1>2. CASE GetOwner(r)
  BY <1>2, GotoWent DEF GetOwner, TypeOK, RequestPC, RequestType
<1>3. CASE ReleaseStale(r)
  <2>1. req' \in [Requests -> RequestType]
    BY <1>3, GotoWent, NoActiveGoes DEF ReleaseStale, RequestPC
  <2>2. lock' \in LockType
    BY <1>3, CompareAndDeleteDeleted DEF ReleaseStale
  <2> QED BY <1>3, <2>1, <2>2 DEF ReleaseStale, TypeOK, RequestType, LockType
<1>4. CASE GetFresh(r)
  <2>1. CASE Goto(r, "create")
    BY <1>4, <2>1, GotoWent DEF GetFresh, TypeOK, RequestPC, RequestType
  <2>2. CASE req' = [req EXCEPT ![r].pc = "get_fresh_task", ![r].seen = fresh]
    <3>1. fresh \in Tasks \cup {NoTask}
      BY DEF TypeOK
    <3> QED BY <1>4, <2>2, <3>1, SeesWent DEF GetFresh, TypeOK, RequestPC, RequestType
  <2> QED BY <1>4, <2>1, <2>2 DEF GetFresh
<1>5. CASE GetFreshTask(r)
  BY <1>5, GotoWent DEF GetFreshTask, TypeOK, RequestPC, RequestType
<1>6. ASSUME NEW t \in Tasks, CreateQueued(r, t) PROVE TypeOK'
  <2>1. lock' \in LockType /\ task' \in [Tasks -> TaskType]
    BY <1>6, OwnOwned, SaveTaskSaved DEF CreateQueued, Status, Live
  <2>2. req' \in [Requests -> RequestType]
    BY <1>6, CreatesWent DEF CreateQueued, RequestPC
  <2> QED BY <1>6, <2>1, <2>2 DEF CreateQueued, TypeOK, RequestType, LockType, TaskType
<1>7. CASE CreateLosesRace(r)
  BY <1>7 DEF CreateLosesRace, TypeOK, TriesInv, RequestPC
<1>8. CASE Publish(r) \/ PublishMisreported(r)
  <2>1. req[r].mine \in Tasks
    BY <1>8 DEF Publish, PublishMisreported, IssuedInv, Issued, Unpublished, UnpublishedPC
  <2>2. FirstMessage(req[r].mine) \in Message
    BY <2>1 DEF FirstMessage, Message
  <2>3. req' \in [Requests -> RequestType]
    BY <1>8, GotoWent DEF Publish, PublishMisreported, RequestPC
  <2> QED BY <1>8, <2>2, <2>3 DEF Publish, PublishMisreported, TypeOK, RequestType
<1>9. CASE PublishRefused(r)
  BY <1>9, GotoWent DEF PublishRefused, TypeOK, RequestPC, RequestType
<1>10. CASE SaveUnpublished(r)
  <2>1. req[r].mine \in Tasks
    BY <1>10 DEF SaveUnpublished, IssuedInv, Issued, Unpublished, UnpublishedPC
  <2>2. task' \in [Tasks -> TaskType]
    BY <1>10, <2>1, SaveTaskSaved DEF SaveUnpublished, Status, Terminal
  <2>3. req' \in [Requests -> RequestType]
    BY <1>10, GotoWent DEF SaveUnpublished, RequestPC
  <2> QED BY <1>10, <2>2, <2>3 DEF SaveUnpublished, TypeOK, RequestType, TaskType
<1>11. CASE ReleaseUnpublished(r)
  <2>1. req' \in [Requests -> RequestType]
    BY <1>11, GotoWent DEF ReleaseUnpublished, RequestPC
  <2>2. lock' \in LockType
    BY <1>11, CompareAndDeleteDeleted DEF ReleaseUnpublished
  <2> QED BY <1>11, <2>1, <2>2 DEF ReleaseUnpublished, TypeOK, RequestType, LockType
<1>12. CASE RequestAborts(r)
  BY <1>12, GotoWent DEF RequestAborts, TypeOK, RequestPC, RequestType
<1> QED BY <1>1, <1>2, <1>3, <1>4, <1>5, <1>6, <1>7, <1>8, <1>9, <1>10, <1>11, <1>12
        DEF RequestStep

LEMMA TypeWorker ==
    ASSUME IInv, NEW w \in Workers, WorkerStep(w)
    PROVE  TypeOK'
<1> USE ConfigAssumption DEF IInv, Executes
<1>t. ~Idle(w) => run[w].msg \in Message /\ TaskOf(w) \in Tasks
  BY BusyTask
<1>1. ASSUME NEW m \in queue, Deliver(w, m) PROVE TypeOK'
  <2>1. m \in Message
    BY <1>1 DEF TypeOK
  <2> QED BY <1>1, <2>1 DEF Deliver, TypeOK, RunPC
<1>2. CASE GetTask(w)
  <2>1. CASE EndRun(w)
    BY <1>2, <2>1, EndRunEnded DEF GetTask, TypeOK, RunType
  <2>2. CASE run' = [run EXCEPT ![w].pc = "claim",
                                ![w].attempt = task[TaskOf(w)].attempt]
    <3>1. task[TaskOf(w)].attempt \in Nat
      BY <1>t, <1>2 DEF GetTask, Idle, Holds, TypeOK
    <3> QED BY <1>2, <2>2, <3>1, ReadsMoved DEF GetTask, TypeOK, RunPC, RunType
  <2> QED BY <1>2, <2>1, <2>2 DEF GetTask
<1>3. CASE Claim(w)
  <2>1. run' \in [Workers -> RunType]
    BY <1>3, AdvanceMoved DEF Claim, RunPC
  <2>2. lock' \in LockType
    BY <1>t, <1>3, OwnOwned DEF Claim, Idle, Holds, TypeOK, LockType
  <2> QED BY <1>3, <2>1, <2>2 DEF Claim, TypeOK, RunType, LockType
<1>4. CASE SaveSuperseded(w)
  <2>1. run' \in [Workers -> RunType]
    BY <1>4, EndRunEnded DEF SaveSuperseded
  <2>2. task' \in [Tasks -> TaskType]
    BY <1>t, <1>4, SaveTaskSaved DEF SaveSuperseded, Idle, Holds, Status, Terminal, TypeOK
  <2> QED BY <1>4, <2>1, <2>2 DEF SaveSuperseded, TypeOK, RunType, TaskType
<1>5. CASE SaveProcessing(w)
  <2>1. run' \in [Workers -> RunType]
    BY <1>5 DEF SaveProcessing, TypeOK, RunType, RunPC
  <2>2. run[w].attempt + 1 \in Nat
    BY DEF TypeOK
  <2>3. task' \in [Tasks -> TaskType]
    BY <1>t, <1>5, <2>2, SaveTaskSaved DEF SaveProcessing, Idle, Holds, Status, Live
  <2> QED BY <1>5, <2>1, <2>3 DEF SaveProcessing, TypeOK, RunType, TaskType
<1>6. CASE FinishScrape(w) \/ PermanentError(w) \/ ReadUser(w)
  BY <1>6, AdvanceMoved DEF FinishScrape, PermanentError, ReadUser, TypeOK, RunPC, RunType
<1>7. CASE TransientError(w)
  <2>1. CASE CanRetry(w) /\ queue' = queue \cup {RetryMessage(w)} /\ Advance(w, "retried")
    <3>1. RetryMessage(w) \in Message
      BY <1>t, <1>7, <2>1 DEF TransientError, CanRetry, RetryMessage, Message, Idle, Holds
    <3> QED BY <1>7, <2>1, <3>1, AdvanceMoved DEF TransientError, TypeOK, RunPC, RunType
  <2>2. CASE Advance(w, "save_failed") /\ UNCHANGED queue
    BY <1>7, <2>2, AdvanceMoved DEF TransientError, TypeOK, RunPC, RunType
  <2> QED BY <1>7, <2>1, <2>2 DEF TransientError
<1>8. CASE RetryRefused(w) \/ Acknowledge(w)
  BY <1>8, EndRunEnded DEF RetryRefused, Acknowledge, TypeOK, RunType
<1>9. CASE SoftTimeLimit(w)
  <2>1. run' \in [Workers -> RunType]
    BY <1>9, AdvanceMoved DEF SoftTimeLimit, RunPC
  <2>2. ghosts' \in [Workers -> SUBSET (0 .. MaxVersion)]
    BY <1>9 DEF SoftTimeLimit, TypeOK
  <2> QED BY <1>9, <2>1, <2>2 DEF SoftTimeLimit, TypeOK, RunType
<1>10. CASE Import(w)
  <2>1. run[w].scraped \in 0 .. MaxVersion
    BY DEF TypeOK
  <2> QED BY <1>10, <2>1, AdvanceMoved DEF Import, TypeOK, RunPC, RunType
<1>11. CASE SaveCompleted(w) \/ SaveFailed(w)
  <2>1. run' \in [Workers -> RunType]
    BY <1>11, AdvanceMoved DEF SaveCompleted, SaveFailed, RunPC
  <2>2. task' \in [Tasks -> TaskType]
    BY <1>t, <1>11, SaveTaskSaved
       DEF SaveCompleted, SaveFailed, Idle, Holds, Status, Terminal, TypeOK
  <2> QED BY <1>11, <2>1, <2>2 DEF SaveCompleted, SaveFailed, TypeOK, RunType, TaskType
<1>12. CASE SetFresh(w)
  BY <1>t, <1>12, AdvanceMoved DEF SetFresh, TypeOK, RunPC, RunType, Idle, Holds
<1>13. CASE Release(w)
  BY <1>13, EndRunEnded, CompareAndDeleteDeleted DEF Release, TypeOK, RunType, LockType
<1>14. CASE StoreError(w)
  BY <1>14, EndRunEnded, AdvanceMoved DEF StoreError, TypeOK, RunType, RunPC
<1>15. CASE HardTimeLimit(w)
  BY <1>15, EndRunEnded DEF HardTimeLimit, TypeOK, RunType
<1>16. CASE WorkerLost(w)
  BY <1>t, <1>16, EndRunEnded DEF WorkerLost, TypeOK, RunType, Idle, Holds
<1>17. CASE Redelivered(w)
  BY <1>t, <1>17 DEF Redelivered, TypeOK, Idle, Holds
<1>18. ASSUME NEW v \in ghosts[w], GhostResumes(w, v) PROVE TypeOK'
  BY <1>18 DEF GhostResumes, TypeOK
<1> QED BY <1>1, <1>2, <1>3, <1>4, <1>5, <1>6, <1>7, <1>8, <1>9, <1>10, <1>11, <1>12,
           <1>13, <1>14, <1>15, <1>16, <1>17, <1>18 DEF WorkerStep, Execute

LEMMA TypeStep ==
    ASSUME IInv, [Next]_vars
    PROVE  TypeOK'
<1> USE ConfigAssumption DEF IInv
<1>1. ASSUME NEW r \in Requests, RequestStep(r) PROVE TypeOK'
  BY <1>1, TypeRequest
<1>2. ASSUME NEW w \in Workers, WorkerStep(w) PROVE TypeOK'
  BY <1>2, TypeWorker
<1>3. CASE Tick
  <2>1. lock' \in LockType
    BY <1>3 DEF Tick, ActiveKeyAges, TypeOK, LockType, Free
  <2>2. run' \in [Workers -> RunType]
    BY <1>3 DEF Tick, TypeOK, RunType, Executes
  <2> QED BY <1>3, <2>1, <2>2 DEF Tick, TypeOK, LockType, RunType
<1>4. CASE FreshExpires \/ ProfileChanges
  BY <1>4 DEF FreshExpires, ProfileChanges, TypeOK
<1>5. ASSUME NEW t \in Tasks, TaskExpires(t) PROVE TypeOK'
  <2>1. task' \in [Tasks -> TaskType]
    BY <1>5, SaveTaskSaved DEF TaskExpires, Status, Missing
  <2> QED BY <1>5, <2>1 DEF TaskExpires, TypeOK, TaskType
<1>6. CASE UNCHANGED vars
  BY <1>6 DEF vars, TypeOK
<1> QED BY <1>1, <1>2, <1>3, <1>4, <1>5, <1>6 DEF Next

-----------------------------------------------------------------------------
(* The invariant is inductive                                                *)

LEMMA InvInit == Init => IInv
<1> SUFFICES ASSUME Init PROVE IInv
  OBVIOUS
<1> USE ConfigAssumption DEF Init
<1>1. TypeOK
  BY TypeInit
<1>2. RunInv
  BY DEF RunInv, Idle, Holds, IdleRun
<1>3. IssuedInv /\ UniqueInv
  BY DEF IssuedInv, UniqueInv, Idle, Holds, IdleRun, Unpublished, UnpublishedPC, Free
<1>4. LiveInv
  BY DEF LiveInv, Engaged, EngagedPC, IdleRun
<1>5. LockInv
  BY DEF LockInv, Claimed, ClaimedPC, EngagedPC, IdleRun, Free
<1>6. TriesInv /\ FreshInv
  BY DEF TriesInv, FreshInv, FreshIsCompleted, IdleRun
<1> QED BY <1>1, <1>2, <1>3, <1>4, <1>5, <1>6 DEF IInv

(* Dropping the key of a task that no execution is engaged with.             *)
LEMMA DeleteKeepsLockInv ==
    ASSUME IInv, NEW t \in Tasks, CompareAndDelete(t),
           \A w \in Workers : Claimed(w) => TaskOf(w) # t \/ ~Claimed(w)',
           \A w \in Workers : Claimed(w)' => /\ Claimed(w) /\ TaskOf(w)' = TaskOf(w)
                                             /\ run'[w].elapsed = run[w].elapsed
    PROVE  LockInv'
<1>1. /\ lock' \in LockType
      /\ lock.owner = t => lock'.owner = NoTask /\ lock'.left = 0
      /\ lock.owner # t => lock' = lock
  BY CompareAndDeleteDeleted DEF IInv
<1> QED BY <1>1 DEF IInv, LockInv

LEMMA InvRequest ==
    ASSUME Reliable, IInv, NEW r \in Requests, RequestStep(r)
    PROVE  IInv'
<1> USE DEF IInv, At
<1>t. TypeOK'
  BY TypeRequest
<1>1. CASE GetActive(r)
  <2> USE <1>1 DEF GetActive
  <2>1. CASE Goto(r, NoActive(r))
    BY <1>t, <2>1, GotoWent, NoActiveGoes, RequestMoves DEF RequestPC, UnpublishedPC
  <2>2. CASE /\ lock.owner # NoTask
             /\ req' = [req EXCEPT ![r].pc = "get_owner", ![r].seen = lock.owner]
    <3>1. lock.owner \in Tasks \cup {NoTask} /\ Issued(lock.owner)
      BY <2>2 DEF TypeOK, IssuedInv
    <3>2. Went(r, "get_owner") /\ req'[r].seen = lock.owner
      BY <2>2, <3>1, SeesWent DEF RequestPC
    <3> QED BY <1>t, <3>1, <3>2, RequestMoves DEF RequestPC, UnpublishedPC
  <2> QED BY <2>1, <2>2
<1>2. CASE GetOwner(r)
  <2>1. PICK pc \in {"reused", "release_stale"} :
          /\ Went(r, pc)
          /\ pc = "release_stale" => /\ req'[r].seen = req[r].seen
                                     /\ task[req[r].seen].status \notin Live
    BY <1>2, GotoWent DEF GetOwner, RequestPC
  <2>2. Issued(req[r].seen)
    BY <1>2 DEF GetOwner, IssuedInv
  <2> QED BY <1>t, <1>2, <2>1, <2>2, RequestMoves DEF GetOwner, RequestPC, UnpublishedPC
<1>3. CASE ReleaseStale(r)
  <2> USE <1>3 DEF ReleaseStale
  <2>1. /\ Went(r, NoActive(r))
        /\ NoActive(r) \in {"create", "get_fresh"} => req'[r].tries = req[r].tries
    BY GotoWent, NoActiveGoes DEF RequestPC
  <2>2. Issued(req[r].seen) /\ task[req[r].seen].status \notin Live
    BY DEF IssuedInv, LiveInv
  <2>3. LockInv'
    BY <2>2, DeleteKeepsLockInv DEF LiveInv, Claimed, ClaimedPC, Engaged, Issued, TaskOf
  <2>4. lock'.owner # NoTask => lock' = lock
    BY CompareAndDeleteDeleted DEF CompareAndDelete, Free
  <2>5. RunInv'
    BY DEF RunInv, Idle, Holds
  <2>6. IssuedInv'
    BY <2>1, <2>4, NoActiveGoes
       DEF IssuedInv, Went, Issued, Unpublished, UnpublishedPC, Idle, Holds, TaskOf
  <2>7. UniqueInv'
    BY <2>1, NoActiveGoes DEF UniqueInv, Went, Unpublished, UnpublishedPC, Idle, Holds, TaskOf
  <2>8. LiveInv'
    BY <2>1, NoActiveGoes DEF LiveInv, Went, Engaged, TaskOf
  <2>9. TriesInv'
    BY <2>1, NoActiveGoes DEF TriesInv, Went
  <2>10. FreshInv'
    BY DEF FreshInv, FreshIsCompleted, TaskOf
  <2> QED BY <1>t, <2>3, <2>5, <2>6, <2>7, <2>8, <2>9, <2>10
<1>4. CASE GetFresh(r)
  <2> USE <1>4 DEF GetFresh
  <2>0. req[r].tries = 0
    BY DEF TriesInv
  <2>1. CASE Goto(r, "create")
    BY <1>t, <2>0, <2>1, GotoWent, RequestMoves DEF RequestPC, UnpublishedPC
  <2>2. CASE /\ fresh # NoTask
             /\ req' = [req EXCEPT ![r].pc = "get_fresh_task", ![r].seen = fresh]
    <3>1. fresh \in Tasks \cup {NoTask} /\ Issued(fresh)
      BY <2>2 DEF TypeOK, IssuedInv
    <3>2. Went(r, "get_fresh_task") /\ req'[r].seen = fresh /\ req'[r].tries = 0
      BY <2>0, <2>2, <3>1, SeesWent DEF RequestPC
    <3> QED BY <1>t, <3>1, <3>2, RequestMoves DEF RequestPC, UnpublishedPC
  <2> QED BY <2>1, <2>2
<1>5. CASE GetFreshTask(r)
  <2>1. req[r].tries = 0
    BY <1>5 DEF GetFreshTask, TriesInv
  <2>2. PICK pc \in {"reused", "create"} :
            Went(r, pc) /\ (pc = "create" => req'[r].tries = req[r].tries)
    BY <1>5, GotoWent DEF GetFreshTask, RequestPC
  <2> QED BY <1>t, <1>5, <2>1, <2>2, RequestMoves DEF GetFreshTask, RequestPC, UnpublishedPC
<1>6. ASSUME NEW t \in Tasks, CreateQueued(r, t) PROVE IInv'
  <2>0. /\ task[t].status = "unissued" /\ lock.owner = NoTask
        /\ UNCHANGED <<fresh, queue, run>>
    BY <1>6 DEF CreateQueued
  <2>1. /\ req'[r].pc = "publish" /\ req'[r].mine = t
        /\ \A s \in Requests : s # r => req'[s] = req[s]
    BY <1>6, CreatesWent DEF CreateQueued, RequestPC
  <2>2. Saved(t, "queued")
    BY <1>6, SaveTaskSaved DEF CreateQueued, Status, Live
  <2>3. lock'.owner = t /\ lock'.left = ActiveTTL
    BY <1>6, OwnOwned DEF CreateQueued
  <2>4. /\ \A m \in queue : m.task # t
        /\ \A w \in Workers : ~Idle(w) => TaskOf(w) # t
        /\ \A s \in Requests : Unpublished(s) => req[s].mine # t
    BY <2>0 DEF IssuedInv, Issued
  <2>5. IssuedInv'
    BY <2>0, <2>1, <2>2, <2>3
       DEF IssuedInv, Issued, Saved, Unpublished, UnpublishedPC, Idle, Holds, TaskOf
  <2>6. UniqueInv'
    BY <2>0, <2>1, <2>4 DEF UniqueInv, Unpublished, UnpublishedPC, Idle, Holds, TaskOf
  <2>7. LiveInv'
    <3>1. \A w \in Workers : ~Idle(w) => task'[TaskOf(w)] = task[TaskOf(w)]
      BY <2>2, <2>4, BusyTask DEF Saved
    <3>2. \A s \in Requests :
             req'[s].pc \in {"publish", "save_failed"} => task'[req'[s].mine].status \in Live
      BY <2>1, <2>2, <2>4
         DEF LiveInv, IssuedInv, Issued, Saved, Live, Unpublished, UnpublishedPC
    <3>3. \A s \in Requests :
             req'[s].pc = "release_failed" => task'[req'[s].mine].status \in Terminal
      BY <2>1, <2>2, <2>4
         DEF LiveInv, IssuedInv, Issued, Saved, Unpublished, UnpublishedPC
    <3>4. \A s \in Requests :
             req'[s].pc = "release_stale" => task'[req'[s].seen].status \notin Live
      BY <2>0, <2>1, <2>2 DEF LiveInv, IssuedInv, Issued, Saved
    <3> QED BY <2>0, <3>1, <3>2, <3>3, <3>4 DEF LiveInv, Engaged, EngagedPC, Idle, Holds, TaskOf
  <2>8. LockInv'
    <3>1. \A w \in Workers : ~Claimed(w)
      BY <2>0, BusyTask DEF LockInv, Claimed, ClaimedPC, EngagedPC, Idle, Holds
    <3> QED BY <2>0, <2>3, <3>1, ConfigAssumption DEF LockInv, Claimed
  <2>9. RunInv' /\ TriesInv'
    BY <2>0, <2>1 DEF RunInv, Idle, Holds, TriesInv
  <2>10. FreshInv'
    BY <2>0, <2>2 DEF FreshInv, FreshIsCompleted, IssuedInv, Issued, Saved, Idle, Holds, TaskOf
  <2> QED BY <1>t, <2>5, <2>6, <2>7, <2>8, <2>9, <2>10
<1>7. CASE CreateLosesRace(r)
  <2>1. Went(r, "get_active")
    BY <1>7 DEF CreateLosesRace, TypeOK, Went
  <2> QED BY <1>t, <1>7, <2>1, RequestMoves DEF CreateLosesRace, RequestPC, UnpublishedPC
<1>8. CASE Publish(r)
  <2> USE <1>8 DEF Publish
  <2>1. Went(r, "created")
    BY GotoWent DEF RequestPC
  <2>2. PICK m : m.task = req[r].mine /\ queue' = queue \cup {m}
    BY DEF FirstMessage
  <2>3. Unpublished(r)
    BY DEF Unpublished, UnpublishedPC
  <2>4. RunInv' /\ FreshInv'
    BY DEF RunInv, Idle, Holds, FreshInv, FreshIsCompleted, TaskOf
  <2>5. IssuedInv'
    BY <2>1, <2>2, <2>3
       DEF IssuedInv, Issued, Went, Unpublished, UnpublishedPC, Idle, Holds, TaskOf
  <2>6. UniqueInv'
    BY <2>1, <2>2, <2>3 DEF UniqueInv, Went, Unpublished, UnpublishedPC, Idle, Holds, TaskOf
  <2>7. LiveInv'
    BY <2>1 DEF LiveInv, Went, Engaged, TaskOf
  <2>8. LockInv'
    BY DEF LockInv, Claimed, TaskOf
  <2>9. TriesInv'
    BY <2>1 DEF TriesInv, Went
  <2> QED BY <1>t, <2>4, <2>5, <2>6, <2>7, <2>8, <2>9
<1>9. CASE PublishMisreported(r)
  BY <1>9 DEF PublishMisreported, Reliable
<1>10. CASE PublishRefused(r)
  <2>1. Went(r, "save_failed")
    BY <1>10, GotoWent DEF PublishRefused, RequestPC
  <2>2. Unpublished(r) /\ task[req[r].mine].status \in Live
    BY <1>10 DEF PublishRefused, Unpublished, UnpublishedPC, LiveInv
  <2> QED BY <1>t, <1>10, <2>1, <2>2, RequestMoves DEF PublishRefused, RequestPC
<1>11. CASE SaveUnpublished(r)
  <2> USE <1>11 DEF SaveUnpublished
  <2>1. Unpublished(r) /\ Issued(req[r].mine) /\ task[req[r].mine].status \in Live
    BY DEF Unpublished, UnpublishedPC, IssuedInv, LiveInv
  <2>2. Went(r, "release_failed")
    BY GotoWent DEF RequestPC
  <2>3. Saved(req[r].mine, "failed")
    BY <2>1, SaveTaskSaved DEF Issued, Status, Terminal
  <2>4. \A w \in Workers : ~Idle(w) => TaskOf(w) # req[r].mine
    BY <2>1 DEF UniqueInv
  <2>5. RunInv' /\ LockInv'
    BY DEF RunInv, LockInv, Idle, Holds, Claimed, TaskOf
  <2>6. IssuedInv'
    BY <2>1, <2>2, <2>3
       DEF IssuedInv, Issued, Saved, Went, Unpublished, UnpublishedPC, Idle, Holds, TaskOf
  <2>7. UniqueInv'
    BY <2>1, <2>2 DEF UniqueInv, Went, Unpublished, UnpublishedPC, Idle, Holds, TaskOf
  <2>8. LiveInv'
    <3>1. \A s \in Requests : s # r /\ Unpublished(s) => req[s].mine # req[r].mine
      BY <2>1 DEF UniqueInv
    <3>2. \A s \in Requests :
             req'[s].pc \in {"publish", "save_failed"} => task'[req'[s].mine].status \in Live
      BY <2>2, <2>3, <3>1
         DEF LiveInv, IssuedInv, Issued, Saved, Went, Unpublished, UnpublishedPC
    <3>3. \A s \in Requests :
             req'[s].pc = "release_failed" => task'[req'[s].mine].status \in Terminal
      BY <2>1, <2>2, <2>3, <3>1
         DEF LiveInv, IssuedInv, Issued, Saved, Went, Unpublished, UnpublishedPC, Terminal
    <3>4. \A s \in Requests :
             req'[s].pc = "release_stale" => task'[req'[s].seen].status \notin Live
      BY <2>2, <2>3 DEF LiveInv, IssuedInv, Issued, Saved, Went, Live
    <3>5. \A w \in Workers : ~Idle(w) => task'[TaskOf(w)] = task[TaskOf(w)]
      BY <2>3, <2>4, BusyTask DEF Saved
    <3> QED BY <3>2, <3>3, <3>4, <3>5 DEF LiveInv, Engaged, EngagedPC, Idle, Holds, TaskOf
  <2>9. TriesInv'
    BY <2>2 DEF TriesInv, Went
  <2>10. FreshInv'
    BY <2>1, <2>3, <2>4, BusyTask
       DEF FreshInv, FreshIsCompleted, IssuedInv, Issued, Saved, Live, Idle, Holds, TaskOf
  <2> QED BY <1>t, <2>5, <2>6, <2>7, <2>8, <2>9, <2>10
<1>12. CASE ReleaseUnpublished(r)
  <2> USE <1>12 DEF ReleaseUnpublished
  <2>1. Unpublished(r) /\ Issued(req[r].mine)
    BY DEF Unpublished, UnpublishedPC, IssuedInv
  <2>2. Went(r, "error")
    BY GotoWent DEF RequestPC
  <2>3. LockInv'
    BY <2>1, DeleteKeepsLockInv
       DEF UniqueInv, Claimed, ClaimedPC, EngagedPC, Idle, Holds, Issued, TaskOf
  <2>4. lock'.owner # NoTask => lock' = lock
    BY CompareAndDeleteDeleted DEF CompareAndDelete, Free
  <2>5. RunInv' /\ FreshInv'
    BY DEF RunInv, Idle, Holds, FreshInv, FreshIsCompleted, TaskOf
  <2>6. IssuedInv'
    BY <2>2, <2>4 DEF IssuedInv, Went, Issued, Unpublished, UnpublishedPC, Idle, Holds, TaskOf
  <2>7. UniqueInv'
    BY <2>2 DEF UniqueInv, Went, Unpublished, UnpublishedPC, Idle, Holds, TaskOf
  <2>8. LiveInv'
    BY <2>2 DEF LiveInv, Went, Engaged, TaskOf
  <2>9. TriesInv'
    BY <2>2 DEF TriesInv, Went
  <2> QED BY <1>t, <2>3, <2>5, <2>6, <2>7, <2>8, <2>9
<1>13. CASE RequestAborts(r)
  <2>1. Went(r, "error")
    BY <1>13, GotoWent DEF RequestAborts, RequestPC
  <2> QED BY <1>t, <1>13, <2>1, RequestMoves DEF RequestAborts, RequestPC, UnpublishedPC
<1> QED BY <1>1, <1>2, <1>3, <1>4, <1>5, <1>6, <1>7, <1>8, <1>9, <1>10, <1>11, <1>12, <1>13
        DEF RequestStep

(* A worker writes the metadata of the task it executes and goes on or ends: *)
(* what every other actor knows of its own task stays true.                  *)
LEMMA SavingStep ==
    ASSUME IInv, TypeOK', NEW w \in Workers, Holds(w),
           task[TaskOf(w)].status \in Live,
           NEW status \in Live \cup Terminal, Saved(TaskOf(w), status),
           NEW pc \in RunPC, (Moved(w, pc) /\ pc # "idle") \/ (Ended(w) /\ pc = "idle"),
           UNCHANGED <<lock, fresh, queue, req>>,
           pc \in EngagedPC => status \in Live,
           pc \in ClaimedPC => Claimed(w),
           pc \in {"release", "set_fresh"} => status \in Terminal,
           pc = "set_fresh" => status = "completed"
    PROVE  IInv'
<1> USE DEF IInv
<1>1. TaskOf(w) \in Tasks
  BY BusyTask DEF Holds, Idle
<1>2. /\ run'[w].pc = pc
      /\ pc # "idle" => run'[w].msg = run[w].msg /\ run'[w].elapsed = run[w].elapsed
      /\ pc = "idle" => run'[w].msg = NoMsg
      /\ \A v \in Workers : v # w => run'[v] = run[v]
  BY DEF Moved, Ended
<1>3. RunInv'
  BY <1>2 DEF RunInv, Idle, Holds
<1>4. IssuedInv'
  BY <1>1, <1>2 DEF IssuedInv, Issued, Saved, Live, Terminal, Unpublished, Idle, Holds, TaskOf
<1>5. UniqueInv'
  BY <1>2 DEF UniqueInv, Unpublished, Idle, Holds, TaskOf
<1>6. LiveInv'
  <2>1. \A v \in Workers : v # w /\ Holds(v) => task'[TaskOf(v)] = task[TaskOf(v)]
    BY BusyTask DEF UniqueInv, Saved, Holds, Idle
  <2>2. \A r \in Requests : Unpublished(r) => task'[req[r].mine] = task[req[r].mine]
    BY DEF UniqueInv, IssuedInv, Issued, Saved, Holds, Idle
  <2>3. \A r \in Requests :
           req[r].pc = "release_stale" => task'[req[r].seen] = task[req[r].seen]
    BY DEF LiveInv, IssuedInv, Issued, Saved
  <2>4. \A v \in Workers : Engaged(v)' => task'[TaskOf(v)'].status \in Live
    BY <1>2, <2>1 DEF LiveInv, Engaged, EngagedPC, Saved, Idle, Holds, TaskOf
  <2>5. \A v \in Workers :
           run'[v].pc \in {"release", "set_fresh"} => task'[TaskOf(v)'].status \in Terminal
    BY <1>2, <2>1 DEF LiveInv, Saved, Idle, Holds, TaskOf
  <2> QED BY <2>2, <2>3, <2>4, <2>5 DEF LiveInv, Unpublished, UnpublishedPC
<1>7. LockInv'
  BY <1>2 DEF LockInv, Claimed, ClaimedPC, EngagedPC, TaskOf
<1>8. TriesInv'
  BY DEF TriesInv
<1>9. FreshInv'
  <2>1. fresh # NoTask => fresh # TaskOf(w) /\ fresh \in Tasks
    BY DEF FreshInv, FreshIsCompleted, Live, TypeOK
  <2>2. \A v \in Workers : v # w /\ Holds(v) => task'[TaskOf(v)] = task[TaskOf(v)]
    BY BusyTask DEF UniqueInv, Saved, Holds, Idle
  <2> QED BY <1>2, <2>1, <2>2 DEF FreshInv, FreshIsCompleted, Saved, Idle, Holds, TaskOf
<1> QED BY <1>3, <1>4, <1>5, <1>6, <1>7, <1>8, <1>9

LEMMA InvWorker ==
    ASSUME Reliable, IInv, NEW w \in Workers, WorkerStep(w)
    PROVE  IInv'
<1> USE DEF IInv, Executes
<1>t. TypeOK'
  BY TypeWorker
<1>b. ~Idle(w) => run[w].msg \in Message /\ TaskOf(w) \in Tasks /\ TaskOf(w) # NoTask
  BY BusyTask
<1>1. ASSUME NEW m \in queue, Deliver(w, m) PROVE IInv'
  <2>1. /\ run'[w].pc = "get_task" /\ run'[w].msg = m
        /\ \A v \in Workers : v # w => run'[v] = run[v]
        /\ queue' = queue \ {m}
        /\ Idle(w)
        /\ UNCHANGED <<task, lock, fresh, req>>
    BY <1>1 DEF Deliver, TypeOK, Idle, Holds
  <2>2. m # NoMsg
    BY <1>1, ConfigAssumption DEF TypeOK, Message, NoMsg
  <2>3. RunInv' /\ TriesInv'
    BY <2>1, <2>2 DEF RunInv, Idle, Holds, TriesInv
  <2>4. IssuedInv'
    BY <2>1 DEF IssuedInv, Issued, Unpublished, Idle, Holds, TaskOf
  <2>5. UniqueInv'
    BY <2>1 DEF UniqueInv, Unpublished, Idle, Holds, TaskOf
  <2>6. LiveInv'
    BY <2>1 DEF LiveInv, Engaged, EngagedPC, TaskOf
  <2>7. LockInv'
    BY <2>1 DEF LockInv, Claimed, ClaimedPC, EngagedPC, TaskOf
  <2>8. FreshInv'
    BY <2>1 DEF FreshInv, FreshIsCompleted, TaskOf
  <2> QED BY <1>t, <2>3, <2>4, <2>5, <2>6, <2>7, <2>8
<1>2. CASE GetTask(w)
  <2>0. ~Idle(w) /\ Holds(w) /\ UNCHANGED <<task, lock, fresh, queue, req>>
    BY <1>2 DEF GetTask, Idle, Holds
  <2>1. CASE EndRun(w)
    BY <1>t, <2>0, <2>1, EndRunEnded, RunEnds
  <2>2. CASE Proceeds(w) /\ run' = [run EXCEPT ![w].pc = "claim",
                                               ![w].attempt = task[TaskOf(w)].attempt]
    <3>1. task[TaskOf(w)].attempt \in Nat
      BY <1>b, <2>0 DEF TypeOK
    <3>2. Moved(w, "claim")
      BY <2>2, <3>1, ReadsMoved DEF RunPC
    <3> QED BY <1>t, <2>0, <2>2, <3>2, RunMoves DEF RunPC, Proceeds, ClaimedPC
  <2> QED BY <1>2, <2>1, <2>2 DEF GetTask
<1>3. CASE Claim(w)
  <2>0. /\ ~Idle(w) /\ Holds(w) /\ task[TaskOf(w)].status \in Live
        /\ UNCHANGED <<task, fresh, queue, req>>
    BY <1>3 DEF Claim, Idle, Holds, LiveInv, Engaged, EngagedPC
  <2>1. CASE MayClaim(w) /\ Own(TaskOf(w)) /\ Advance(w, "save_processing")
    <3>1. Moved(w, "save_processing")
      BY <2>1, AdvanceMoved DEF RunPC
    <3>2. lock'.owner = TaskOf(w) /\ lock'.left = ActiveTTL
      BY <1>b, <2>0, <2>1, OwnOwned
    <3>3. RunInv' /\ TriesInv'
      BY <2>0, <3>1 DEF RunInv, Idle, Holds, Moved, TriesInv
    <3>4. IssuedInv'
      BY <1>b, <2>0, <3>1, <3>2 DEF IssuedInv, Issued, Moved, Unpublished, Idle, Holds, TaskOf
    <3>5. UniqueInv'
      BY <2>0, <3>1 DEF UniqueInv, Moved, Unpublished, Idle, Holds, TaskOf
    <3>6. LiveInv'
      BY <2>0, <3>1 DEF LiveInv, Moved, Engaged, TaskOf
    <3>7. LockInv'
      <4>1. \A v \in Workers : v # w => ~Claimed(v)
        BY <2>0, <2>1, BusyTask
           DEF MayClaim, LockInv, UniqueInv, Claimed, ClaimedPC, EngagedPC, Idle, Holds
      <4>2. run[w].elapsed \in 0 .. HardLimit
        BY DEF TypeOK
      <4>3. ActiveTTL > HardLimit - run[w].elapsed /\ ActiveTTL # 0
        BY <4>2, ConfigAssumption
      <4>4. \A v \in Workers : Claimed(v)' => v = w
        BY <3>1, <4>1 DEF Claimed, Moved
      <4> QED BY <1>b, <2>0, <3>1, <3>2, <4>3, <4>4 DEF LockInv, Moved, TaskOf
    <3>8. FreshInv'
      BY <2>0, <3>1 DEF FreshInv, FreshIsCompleted, Moved, TaskOf
    <3> QED BY <1>t, <3>3, <3>4, <3>5, <3>6, <3>7, <3>8
  <2>2. CASE Advance(w, "save_superseded") /\ UNCHANGED lock
    BY <1>t, <2>0, <2>2, AdvanceMoved, RunMoves DEF RunPC, ClaimedPC
  <2> QED BY <1>3, <2>1, <2>2 DEF Claim
<1>4. CASE SaveSuperseded(w)
  <2>1. ~Idle(w) /\ Holds(w) /\ task[TaskOf(w)].status \in Live /\ UNCHANGED <<lock, fresh, queue, req>>
    BY <1>4 DEF SaveSuperseded, Idle, Holds, LiveInv, Engaged, EngagedPC
  <2>2. Saved(TaskOf(w), "failed")
    BY <1>4, <1>b, <2>1, SaveTaskSaved DEF SaveSuperseded, Status, Terminal, TypeOK
  <2>3. Ended(w)
    BY <1>4, EndRunEnded DEF SaveSuperseded
  <2> QED BY <1>t, <2>1, <2>2, <2>3, SavingStep DEF RunPC, Terminal, EngagedPC, ClaimedPC
<1>5. CASE SaveProcessing(w)
  <2>1. /\ ~Idle(w) /\ Holds(w) /\ task[TaskOf(w)].status \in Live /\ Claimed(w)
        /\ UNCHANGED <<lock, fresh, queue, req>>
    BY <1>5 DEF SaveProcessing, Idle, Holds, LiveInv, Engaged, EngagedPC, Claimed, ClaimedPC
  <2>2. run[w].attempt + 1 \in Nat
    BY DEF TypeOK
  <2>3. Saved(TaskOf(w), "processing")
    BY <1>5, <1>b, <2>1, <2>2, SaveTaskSaved DEF SaveProcessing, Status, Live
  <2>4. Moved(w, "scraping")
    BY <1>5 DEF SaveProcessing, TypeOK, Moved
  <2>5. /\ "processing" \in Live \cup Terminal /\ "scraping" \in RunPC
        /\ "processing" \in Live /\ "scraping" # "idle"
        /\ "scraping" \notin {"release", "set_fresh"} /\ "scraping" # "set_fresh"
    BY DEF RunPC, Live
  <2>6. (Moved(w, "scraping") /\ "scraping" # "idle") \/ (Ended(w) /\ "scraping" = "idle")
    BY <2>4, <2>5, Zenon
  <2> QED BY <1>t, <2>1, <2>3, <2>5, <2>6, SavingStep
<1>6. CASE FinishScrape(w) \/ PermanentError(w) \/ ReadUser(w) \/ SoftTimeLimit(w)
           \/ Import(w)
  <2>1. /\ ~Idle(w) /\ Holds(w) /\ task[TaskOf(w)].status \in Live /\ Claimed(w)
        /\ UNCHANGED <<task, lock, fresh, queue, req>>
    BY <1>6 DEF FinishScrape, PermanentError, ReadUser, SoftTimeLimit, Import, InBridge,
                Idle, Holds, LiveInv, Engaged, EngagedPC, Claimed, ClaimedPC
  <2>2. PICK pc \in {"import", "save_failed", "save_completed", "read_user"} : Moved(w, pc)
    BY <1>6, AdvanceMoved
       DEF FinishScrape, PermanentError, ReadUser, SoftTimeLimit, Import, RunPC
  <2> QED BY <1>t, <2>1, <2>2, RunMoves DEF RunPC
<1>7. CASE TransientError(w)
  <2>0. /\ ~Idle(w) /\ Holds(w) /\ task[TaskOf(w)].status \in Live /\ Claimed(w)
        /\ UNCHANGED <<task, lock, fresh, req>>
    BY <1>7 DEF TransientError, Idle, Holds, LiveInv, Engaged, EngagedPC, Claimed, ClaimedPC
  <2>1. CASE CanRetry(w) /\ queue' = queue \cup {RetryMessage(w)} /\ Advance(w, "retried")
    <3>1. RetryMessage(w) \in Message /\ RetryMessage(w).task = TaskOf(w)
      BY <1>b, <2>0, <2>1, ConfigAssumption DEF CanRetry, RetryMessage, Message
    <3>2. Moved(w, "retried")
      BY <2>1, AdvanceMoved DEF RunPC
    <3> QED BY <1>t, <2>0, <2>1, <3>1, <3>2, RunHandsOver
  <2>2. CASE Advance(w, "save_failed") /\ UNCHANGED queue
    BY <1>t, <2>0, <2>2, AdvanceMoved, RunMoves DEF RunPC
  <2> QED BY <1>7, <2>1, <2>2 DEF TransientError
<1>8. CASE RetryRefused(w) \/ Acknowledge(w) \/ HardTimeLimit(w)
  <2>1. ~Idle(w) /\ UNCHANGED <<task, lock, fresh, queue, req>> /\ Ended(w)
    BY <1>8, EndRunEnded DEF RetryRefused, Acknowledge, HardTimeLimit, Idle, Holds
  <2> QED BY <1>t, <2>1, RunEnds
<1>9. CASE SaveCompleted(w)
  <2>1. ~Idle(w) /\ Holds(w) /\ task[TaskOf(w)].status \in Live /\ UNCHANGED <<lock, fresh, queue, req>>
    BY <1>9 DEF SaveCompleted, Idle, Holds, LiveInv, Engaged, EngagedPC
  <2>2. Saved(TaskOf(w), "completed")
    BY <1>9, <1>b, <2>1, SaveTaskSaved DEF SaveCompleted, Status, Terminal, TypeOK
  <2>3. Moved(w, "set_fresh")
    BY <1>9, AdvanceMoved DEF SaveCompleted, RunPC
  <2>4. /\ "completed" \in Live \cup Terminal /\ "completed" \in Terminal
        /\ "set_fresh" \in RunPC /\ "set_fresh" # "idle"
        /\ "set_fresh" \notin EngagedPC /\ "set_fresh" \notin ClaimedPC
    BY DEF RunPC, Terminal, EngagedPC, ClaimedPC
  <2>5. (Moved(w, "set_fresh") /\ "set_fresh" # "idle") \/ (Ended(w) /\ "set_fresh" = "idle")
    BY <2>3, <2>4, Zenon
  <2> QED BY <1>t, <2>1, <2>2, <2>4, <2>5, SavingStep
<1>10. CASE SetFresh(w)
  <2>1. /\ ~Idle(w) /\ Holds(w) /\ UNCHANGED <<task, lock, queue, req>> /\ fresh' = TaskOf(w)
        /\ task[TaskOf(w)].status = "completed" /\ Moved(w, "release")
    BY <1>10, AdvanceMoved DEF SetFresh, Idle, Holds, FreshInv, RunPC
  <2>2. RunInv' /\ TriesInv'
    BY <2>1 DEF RunInv, Idle, Holds, Moved, TriesInv
  <2>3. IssuedInv'
    BY <1>b, <2>1 DEF IssuedInv, Issued, Moved, Unpublished, Idle, Holds, TaskOf
  <2>4. UniqueInv'
    BY <2>1 DEF UniqueInv, Moved, Unpublished, Idle, Holds, TaskOf
  <2>5. LiveInv'
    BY <2>1 DEF LiveInv, Moved, Engaged, EngagedPC, Terminal, TaskOf
  <2>6. LockInv'
    BY <2>1 DEF LockInv, Moved, Claimed, ClaimedPC, EngagedPC, TaskOf
  <2>7. FreshInv'
    BY <2>1 DEF FreshInv, FreshIsCompleted, Moved, TaskOf
  <2> QED BY <1>t, <2>2, <2>3, <2>4, <2>5, <2>6, <2>7
<1>11. CASE SaveFailed(w)
  <2>1. ~Idle(w) /\ Holds(w) /\ task[TaskOf(w)].status \in Live /\ UNCHANGED <<lock, fresh, queue, req>>
    BY <1>11 DEF SaveFailed, Idle, Holds, LiveInv, Engaged, EngagedPC
  <2>2. Saved(TaskOf(w), "failed")
    BY <1>11, <1>b, <2>1, SaveTaskSaved DEF SaveFailed, Status, Terminal, TypeOK
  <2>3. Moved(w, "release")
    BY <1>11, AdvanceMoved DEF SaveFailed, RunPC
  <2>4. /\ "failed" \in Live \cup Terminal /\ "failed" \in Terminal /\ "release" \in RunPC
        /\ "release" \notin EngagedPC /\ "release" \notin ClaimedPC
        /\ "release" # "set_fresh" /\ "release" # "idle"
    BY DEF RunPC, Terminal, EngagedPC, ClaimedPC
  <2>5. (Moved(w, "release") /\ "release" # "idle") \/ (Ended(w) /\ "release" = "idle")
    BY <2>3, <2>4, Zenon
  <2> QED BY <1>t, <2>1, <2>2, <2>4, <2>5, SavingStep
<1>12. CASE Release(w)
  <2>1. /\ ~Idle(w) /\ Holds(w) /\ UNCHANGED <<task, fresh, queue, req>> /\ Ended(w)
        /\ run[w].pc = "release"
    BY <1>12, EndRunEnded DEF Release, Idle, Holds
  <2>2. LockInv'
    <3>1. \A v \in Workers : Claimed(v)' => v # w /\ Claimed(v)
      BY <2>1 DEF Ended, Claimed, ClaimedPC, EngagedPC
    <3>2. \A v \in Workers : Claimed(v) => TaskOf(v) # TaskOf(w)
      BY <2>1 DEF UniqueInv, Claimed, ClaimedPC, EngagedPC, Idle, Holds
    <3> QED BY <1>12, <1>b, <2>1, <3>1, <3>2, DeleteKeepsLockInv DEF Release, Ended, TaskOf
  <2>3. lock'.owner # NoTask => lock' = lock
    BY <1>12, CompareAndDeleteDeleted DEF Release, CompareAndDelete, Free
  <2>4. RunInv' /\ TriesInv'
    BY <2>1 DEF RunInv, Idle, Holds, Ended, TriesInv
  <2>5. IssuedInv'
    BY <2>1, <2>3 DEF IssuedInv, Issued, Ended, Unpublished, Idle, Holds, TaskOf
  <2>6. UniqueInv'
    BY <2>1 DEF UniqueInv, Ended, Unpublished, Idle, Holds, TaskOf
  <2>7. LiveInv'
    BY <2>1 DEF LiveInv, Ended, Engaged, EngagedPC, TaskOf
  <2>8. FreshInv'
    BY <2>1 DEF FreshInv, FreshIsCompleted, Ended, TaskOf
  <2> QED BY <1>t, <2>2, <2>4, <2>5, <2>6, <2>7, <2>8
<1>13. CASE StoreError(w)
  <2>0. ~Idle(w) /\ Holds(w) /\ UNCHANGED <<task, lock, fresh, queue, req>>
    BY <1>13 DEF StoreError, Idle, Holds
  <2>1. CASE run[w].pc = "set_fresh" /\ Advance(w, "release")
    <3>1. Moved(w, "release") /\ task[TaskOf(w)].status \in Terminal
      BY <2>1, AdvanceMoved DEF RunPC, LiveInv
    <3> QED BY <1>t, <2>0, <3>1, RunMoves DEF RunPC, EngagedPC, ClaimedPC
  <2>2. CASE EndRun(w)
    BY <1>t, <2>0, <2>2, EndRunEnded, RunEnds
  <2> QED BY <1>13, <2>1, <2>2 DEF StoreError
<1>14. CASE WorkerLost(w)
  <2>1. /\ ~Idle(w) /\ Holds(w) /\ UNCHANGED <<task, lock, fresh, req>> /\ Ended(w)
        /\ queue' = queue \cup {run[w].msg}
    BY <1>14, EndRunEnded DEF WorkerLost, Reliable, Idle, Holds
  <2> QED BY <1>t, <1>b, <2>1, RunEnds DEF TaskOf
<1>15. CASE Redelivered(w)
  BY <1>15 DEF Redelivered, Reliable
<1>16. ASSUME NEW v \in ghosts[w], GhostResumes(w, v) PROVE IInv'
  <2>1. UNCHANGED <<task, lock, fresh, queue, req, run>>
    BY <1>16 DEF GhostResumes
  <2> QED BY <1>t, <2>1
          DEF RunInv, IssuedInv, UniqueInv, LiveInv, LockInv, TriesInv, FreshInv,
              FreshIsCompleted, Idle, Holds, Issued, Unpublished, Engaged, Claimed, TaskOf
<1> QED BY <1>1, <1>2, <1>3, <1>4, <1>5, <1>6, <1>7, <1>8, <1>9, <1>10, <1>11, <1>12,
           <1>13, <1>14, <1>15, <1>16 DEF WorkerStep, Execute

LEMMA InvStep ==
    ASSUME Reliable, IInv, [Next]_vars
    PROVE  IInv'
<1> USE DEF IInv
<1>t. TypeOK'
  BY TypeStep
<1>1. ASSUME NEW r \in Requests, RequestStep(r) PROVE IInv'
  BY <1>1, InvRequest
<1>2. ASSUME NEW w \in Workers, WorkerStep(w) PROVE IInv'
  BY <1>2, InvWorker
<1>3. CASE Tick
  <2>1. /\ UNCHANGED <<task, fresh, queue, req>>
        /\ lock.left > 1 => lock'.owner = lock.owner /\ lock'.left = lock.left - 1
        /\ lock.left <= 1 => lock'.owner = NoTask /\ lock'.left = 0
    BY <1>3 DEF Tick, ActiveKeyAges, Free, TypeOK
  <2>2. \A w \in Workers : run'[w].pc = run[w].pc /\ run'[w].msg = run[w].msg
    BY <1>3 DEF Tick, TypeOK
  <2>3. \A w \in Workers :
           ~Idle(w) => /\ run[w].elapsed < HardLimit
                       /\ run'[w].elapsed = run[w].elapsed + 1
    BY <1>3 DEF Tick, Executes, Idle, Holds, TypeOK
  <2>4. RunInv' /\ TriesInv' /\ FreshInv'
    BY <2>1, <2>2 DEF RunInv, Idle, Holds, TriesInv, FreshInv, FreshIsCompleted, TaskOf
  <2>5. IssuedInv'
    BY <2>1, <2>2 DEF IssuedInv, Issued, Unpublished, Idle, Holds, TaskOf, TypeOK
  <2>6. UniqueInv'
    BY <2>1, <2>2 DEF UniqueInv, Unpublished, Idle, Holds, TaskOf
  <2>7. LiveInv'
    BY <2>1, <2>2 DEF LiveInv, Engaged, TaskOf
  <2>8. LockInv'
    <3>1. lock'.owner = NoTask <=> lock'.left = 0
      BY <2>1 DEF LockInv, TypeOK
    <3>2. ASSUME NEW w \in Workers, Claimed(w)'
          PROVE  lock'.owner = TaskOf(w)' /\ lock'.left > HardLimit - run'[w].elapsed
      <4>1. Claimed(w) /\ ~Idle(w)
        BY <2>2, <3>2 DEF Claimed, ClaimedPC, EngagedPC, Idle, Holds
      <4>2. lock.owner = TaskOf(w) /\ lock.left > HardLimit - run[w].elapsed
        BY <4>1 DEF LockInv
      <4>3. /\ run[w].elapsed \in Nat /\ lock.left \in Nat /\ HardLimit \in Nat
            /\ run[w].elapsed < HardLimit /\ run'[w].elapsed = run[w].elapsed + 1
        BY <2>3, <4>1, ConfigAssumption DEF TypeOK
      <4>4. lock.left > 1
        BY <4>2, <4>3
      <4>5. lock'.owner = lock.owner /\ lock'.left = lock.left - 1
        BY <2>1, <4>4
      <4> QED BY <2>2, <4>2, <4>3, <4>5 DEF TaskOf
    <3> QED BY <3>1, <3>2 DEF LockInv
  <2> QED BY <1>t, <2>4, <2>5, <2>6, <2>7, <2>8
<1>4. CASE FreshExpires
  BY <1>t, <1>4
     DEF FreshExpires, RunInv, IssuedInv, UniqueInv, LiveInv, LockInv, TriesInv, FreshInv,
         FreshIsCompleted, Idle, Holds, Issued, Unpublished, Engaged, Claimed, TaskOf
<1>5. CASE ProfileChanges \/ UNCHANGED vars
  BY <1>t, <1>5
     DEF ProfileChanges, vars, RunInv, IssuedInv, UniqueInv, LiveInv, LockInv, TriesInv,
         FreshInv, FreshIsCompleted, Idle, Holds, Issued, Unpublished, Engaged, Claimed, TaskOf
<1>6. ASSUME NEW t \in Tasks, TaskExpires(t) PROVE IInv'
  <2>1. /\ lock.owner # t /\ fresh # t
        /\ \A r \in Requests : req[r].pc \in Replied \/ t \notin {req[r].seen, req[r].mine}
        /\ \A w \in Workers : TaskOf(w) # t
        /\ UNCHANGED <<lock, fresh, queue, req, run>>
    BY <1>6 DEF TaskExpires
  <2>2. Saved(t, "expired")
    BY <1>6, SaveTaskSaved DEF TaskExpires, Status, Missing
  <2>3. RunInv' /\ TriesInv' /\ UniqueInv' /\ LockInv'
    BY <2>1 DEF RunInv, Idle, Holds, TriesInv, UniqueInv, Unpublished, LockInv, Claimed, TaskOf
  <2>4. IssuedInv'
    BY <2>1, <2>2 DEF IssuedInv, Issued, Saved, Unpublished, Idle, Holds, TaskOf
  <2>5. LiveInv'
    <3>1. \A w \in Workers : ~Idle(w) => task'[TaskOf(w)] = task[TaskOf(w)]
      BY <2>1, <2>2, BusyTask DEF Saved
    <3>2. \A r \in Requests : Unpublished(r) => task'[req[r].mine] = task[req[r].mine]
      BY <2>1, <2>2 DEF Unpublished, UnpublishedPC, Replied, Saved, IssuedInv, Issued
    <3>3. \A r \in Requests :
             req[r].pc = "release_stale" => task'[req[r].seen] = task[req[r].seen]
      BY <2>1, <2>2 DEF Replied, Saved, IssuedInv, Issued
    <3> QED BY <2>1, <3>1, <3>2, <3>3
            DEF LiveInv, Engaged, EngagedPC, Unpublished, UnpublishedPC, Idle, Holds, TaskOf
  <2>6. FreshInv'
    BY <2>1, <2>2, BusyTask
       DEF FreshInv, FreshIsCompleted, Saved, IssuedInv, Issued, Idle, Holds, TaskOf
  <2> QED BY <1>t, <2>3, <2>4, <2>5, <2>6
<1> QED BY <1>1, <1>2, <1>3, <1>4, <1>5, <1>6 DEF Next

-----------------------------------------------------------------------------
(* Theorems                                                                  *)

(* The inductive invariant holds of every behaviour.                         *)
THEOREM Invariance == Reliable => (Spec => []IInv)
<1> SUFFICES ASSUME Reliable PROVE Spec => []IInv
  OBVIOUS
<1>1. Init => IInv
  BY InvInit
<1>2. IInv /\ [Next]_vars => IInv'
  BY InvStep
<1> QED BY <1>1, <1>2, PTL DEF Spec

(* Every variable keeps its type: in particular the race-recovery loop ends  *)
(* within three attempts and no execution outlives the hard limit.           *)
THEOREM TypeCorrect == Reliable => (Spec => []TypeOK)
<1> SUFFICES ASSUME Reliable PROVE Spec => []TypeOK
  OBVIOUS
<1>1. IInv => TypeOK
  BY DEF IInv
<1> QED BY <1>1, Invariance, PTL

(* The active key of a claimed task outlives its scrape, because the TTL is  *)
(* longer than the hard limit and no other writer can touch it.              *)
THEOREM OwnershipSafe == Reliable => (Spec => []OwnershipOutlivesScrape)
<1> SUFFICES ASSUME Reliable PROVE Spec => []OwnershipOutlivesScrape
  OBVIOUS
<1>1. IInv => OwnershipOutlivesScrape
  BY DEF IInv, LockInv, OwnershipOutlivesScrape, InBridge, Claimed, ClaimedPC, EngagedPC
<1> QED BY <1>1, Invariance, PTL

(* Two executions never synchronize the profile at the same time.            *)
THEOREM MutualExclusionSafe == Reliable => (Spec => []MutualExclusion)
<1> SUFFICES ASSUME Reliable PROVE Spec => []MutualExclusion
  OBVIOUS
<1>1. IInv => MutualExclusion
  <2>1. SUFFICES ASSUME IInv, NEW v \in Workers, NEW w \in Workers,
                        run[v].pc \in InBridge, run[w].pc \in InBridge
                 PROVE  v = w
    BY DEF MutualExclusion
  <2>2. lock.owner = TaskOf(v) /\ lock.owner = TaskOf(w) /\ Holds(v) /\ Holds(w)
    BY <2>1 DEF IInv, LockInv, InBridge, Claimed, ClaimedPC, EngagedPC, Idle, Holds
  <2> QED BY <2>1, <2>2 DEF IInv, UniqueInv
<1> QED BY <1>1, Invariance, PTL

(* The freshness marker only ever names a completed task.                    *)
THEOREM FreshSafe == Reliable => (Spec => []FreshIsCompleted)
<1> SUFFICES ASSUME Reliable PROVE Spec => []FreshIsCompleted
  OBVIOUS
<1>1. IInv => FreshIsCompleted
  BY DEF IInv, FreshInv
<1> QED BY <1>1, Invariance, PTL

-----------------------------------------------------------------------------
(* What a step may never do                                                  *)

(* Only live or fresh identifiers are written, retention aside.              *)
LEMMA TerminalKept ==
    ASSUME IInv, [Next]_vars, NEW t \in Tasks, task[t].status \in Terminal
    PROVE  task'[t].status \in {task[t].status, "expired"}
<1> USE DEF IInv
<1>1. ASSUME NEW u \in Tasks, task[u].status \notin Terminal,
             NEW status \in Status, NEW n \in Nat, SaveTask(u, status, n)
      PROVE  task'[t] = task[t]
  BY <1>1, SaveTaskSaved DEF Saved
<1>2. CASE UNCHANGED task
  BY <1>2
<1>3. ASSUME NEW r \in Requests, RequestStep(r)
      PROVE  task'[t].status = task[t].status
  <2>1. ASSUME NEW u \in Tasks, CreateQueued(r, u) PROVE task'[t] = task[t]
    BY <1>1, <2>1 DEF CreateQueued, Status, Live, Terminal
  <2>2. ASSUME SaveUnpublished(r) PROVE task'[t] = task[t]
    <3>1. req[r].mine \in Tasks /\ task[req[r].mine].status \notin Terminal
      BY <2>2 DEF SaveUnpublished, At, LiveInv, Live, Terminal, IssuedInv, Issued,
                  Unpublished, UnpublishedPC
    <3> QED BY <1>1, <2>2, <3>1 DEF SaveUnpublished, Status, Terminal
  <2> QED BY <1>3, <2>1, <2>2
          DEF RequestStep, GetActive, GetOwner, ReleaseStale, GetFresh, GetFreshTask,
              CreateLosesRace, Publish, PublishRefused, PublishMisreported,
              ReleaseUnpublished, RequestAborts
<1>4. ASSUME NEW w \in Workers, WorkerStep(w)
      PROVE  task'[t].status = task[t].status
  <2>1. ASSUME SaveSuperseded(w) \/ SaveProcessing(w) \/ SaveCompleted(w) \/ SaveFailed(w)
        PROVE  task'[t] = task[t]
    <3>1. ~Idle(w) /\ task[TaskOf(w)].status \in Live
      BY <2>1 DEF SaveSuperseded, SaveProcessing, SaveCompleted, SaveFailed, Executes,
                  Idle, Holds, LiveInv, Engaged, EngagedPC
    <3>2. TaskOf(w) \in Tasks /\ task[TaskOf(w)].status \notin Terminal
      BY <3>1, BusyTask DEF Live, Terminal
    <3>3. run[w].attempt \in Nat /\ run[w].attempt + 1 \in Nat
      BY DEF TypeOK
    <3> QED BY <1>1, <2>1, <3>2, <3>3
            DEF SaveSuperseded, SaveProcessing, SaveCompleted, SaveFailed, Status, Live, Terminal
  <2> QED BY <1>4, <2>1
          DEF WorkerStep, Execute, Deliver, GetTask, Claim, FinishScrape, TransientError,
              Acknowledge, RetryRefused, PermanentError, SoftTimeLimit, Import, ReadUser, SetFresh,
              Release, StoreError, HardTimeLimit, WorkerLost, Redelivered, GhostResumes
<1>5. ASSUME NEW u \in Tasks, TaskExpires(u)
      PROVE  task'[t].status \in {task[t].status, "expired"}
  <2>1. Saved(u, "expired")
    BY <1>5, SaveTaskSaved DEF TaskExpires, Status, Missing
  <2> QED BY <2>1 DEF Saved
<1> QED BY <1>2, <1>3, <1>4, <1>5 DEF Next, vars, Tick, FreshExpires, ProfileChanges

(* The active key leaves a live task by its TTL only.                        *)
LEMMA LiveOwnerKept ==
    ASSUME IInv, [Next]_vars, lock.owner \in Tasks, lock'.owner # lock.owner,
           task[lock.owner].status \in Live
    PROVE  lock.left = 1
<1> USE DEF IInv
<1>0. lock.owner # NoTask /\ lock.left \in Nat /\ lock.left # 0
  BY ConfigAssumption DEF TypeOK, LockInv
<1>1. ASSUME NEW u, u = NoTask \/ task[u].status \notin Live, CompareAndDelete(u)
      PROVE  FALSE
  BY <1>0, <1>1, CompareAndDeleteDeleted
<1>2. ASSUME NEW r \in Requests, RequestStep(r) PROVE FALSE
  <2>1. ASSUME NEW u \in Tasks, CreateQueued(r, u) PROVE FALSE
    BY <1>0, <2>1 DEF CreateQueued
  <2>2. ASSUME ReleaseStale(r) PROVE FALSE
    BY <1>1, <2>2 DEF ReleaseStale, At, LiveInv
  <2>3. ASSUME ReleaseUnpublished(r) PROVE FALSE
    BY <1>1, <2>3 DEF ReleaseUnpublished, At, LiveInv, Live, Terminal
  <2> QED BY <1>2, <2>1, <2>2, <2>3
          DEF RequestStep, GetActive, GetOwner, GetFresh, GetFreshTask,
              CreateLosesRace, Publish, PublishRefused, PublishMisreported,
              SaveUnpublished, RequestAborts
<1>3. ASSUME NEW w \in Workers, WorkerStep(w) PROVE FALSE
  <2>1. ASSUME Claim(w) PROVE FALSE
    BY <1>0, <2>1, OwnOwned DEF Claim, MayClaim
  <2>2. ASSUME Release(w) PROVE FALSE
    <3>1. task[TaskOf(w)].status \notin Live
      BY <2>2 DEF Release, Executes, LiveInv, Live, Terminal
    <3> QED BY <1>1, <2>2, <3>1 DEF Release
  <2> QED BY <1>3, <2>1, <2>2
          DEF WorkerStep, Execute, Deliver, GetTask, SaveSuperseded, SaveProcessing,
              FinishScrape, TransientError, Acknowledge, RetryRefused, PermanentError, SoftTimeLimit,
              Import, ReadUser, SaveCompleted, SetFresh, SaveFailed, StoreError,
              HardTimeLimit, WorkerLost, Redelivered, GhostResumes
<1>4. CASE Tick
  <2>1. lock.left > 1 => lock'.owner = lock.owner
    BY <1>4 DEF Tick, ActiveKeyAges, TypeOK
  <2> QED BY <1>0, <2>1
<1> QED BY <1>2, <1>3, <1>4 DEF Next, vars, FreshExpires, ProfileChanges, TaskExpires

(* Once a poller can read a result, no request or execution that read the    *)
(* metadata earlier replaces it.                                             *)
THEOREM TerminalFinalSafe == Reliable => (Spec => TerminalIsFinal)
<1> SUFFICES ASSUME Reliable PROVE Spec => TerminalIsFinal
  OBVIOUS
<1>1. IInv /\ [Next]_vars =>
          [\A t \in Tasks : task[t].status \in Terminal =>
              task'[t].status \in {task[t].status, "expired"}]_vars
  BY TerminalKept
<1> QED BY <1>1, Invariance, PTL DEF Spec, TerminalIsFinal

(* A queued or processing task keeps the username until its TTL ends.        *)
THEOREM LiveOwnerSafe == Reliable => (Spec => LiveOwnerOnlyLapses)
<1> SUFFICES ASSUME Reliable PROVE Spec => LiveOwnerOnlyLapses
  OBVIOUS
<1>1. IInv /\ [Next]_vars =>
          [\A t \in Tasks :
              lock.owner = t /\ lock'.owner # t /\ task[t].status \in Live
                  => lock.left = 1]_vars
  BY LiveOwnerKept
<1> QED BY <1>1, Invariance, PTL DEF Spec, LiveOwnerOnlyLapses

-----------------------------------------------------------------------------
(* What reaches PostgreSQL                                                   *)

(* Whatever is imported, scraped or left behind by an interrupted execution  *)
(* was the remote profile at some moment, and no such moment lies after the  *)
(* start of the scrape in progress.                                          *)
Collects(w) == run[w].pc \in {"scraping", "import"}

ScrapeInv ==
    /\ imported <= letterboxd
    /\ \A w \in Workers : run[w].scraped <= letterboxd
    /\ \A w \in Workers : \A v \in ghosts[w] : v <= letterboxd
    /\ \A w \in Workers : Collects(w) => imported <= run[w].scraped
    /\ \A u, w \in Workers : \A v \in ghosts[u] : Collects(w) => v <= run[w].scraped

LEMMA InBridgeAlone ==
    ASSUME IInv, NEW v \in Workers, NEW w \in Workers,
           run[v].pc \in InBridge, run[w].pc \in InBridge
    PROVE  v = w
<1>1. lock.owner = TaskOf(v) /\ lock.owner = TaskOf(w) /\ Holds(v) /\ Holds(w)
  BY DEF IInv, LockInv, InBridge, Claimed, ClaimedPC, EngagedPC, Idle, Holds
<1> QED BY <1>1 DEF IInv, UniqueInv

(* A step that imports nothing, scrapes nothing and adds no ghost.           *)
LEMMA ScrapeQuiet ==
    ASSUME TypeOK, TypeOK', ScrapeInv, imported' = imported, letterboxd' >= letterboxd,
           \A w \in Workers : ghosts'[w] \subseteq ghosts[w],
           \A w \in Workers : run'[w].scraped \in {run[w].scraped, 0},
           \A w \in Workers :
               run'[w].pc \in {"scraping", "import"} =>
                   Collects(w) /\ run'[w].scraped = run[w].scraped
    PROVE  ScrapeInv'
<1>1. /\ imported \in Nat /\ letterboxd \in Nat /\ letterboxd' \in Nat
      /\ \A w \in Workers : run[w].scraped \in Nat
      /\ \A w \in Workers : ghosts[w] \subseteq Nat
  BY ConfigAssumption DEF TypeOK
<1>2. imported' <= letterboxd'
  BY <1>1 DEF ScrapeInv
<1>3. \A w \in Workers : run'[w].scraped <= letterboxd'
  BY <1>1 DEF ScrapeInv
<1>4. \A w \in Workers : \A v \in ghosts'[w] : v <= letterboxd'
  BY <1>1 DEF ScrapeInv
<1>5. \A w \in Workers : Collects(w)' => imported' <= run'[w].scraped
  BY <1>1 DEF ScrapeInv, Collects
<1>6. \A u, w \in Workers : \A v \in ghosts'[u] : Collects(w)' => v <= run'[w].scraped
  BY <1>1 DEF ScrapeInv, Collects
<1> QED BY <1>2, <1>3, <1>4, <1>5, <1>6 DEF ScrapeInv

(* The import of an execution never replaces a later profile.                *)
LEMMA ImportAdvances ==
    ASSUME IInv, ScrapeInv, NEW w \in Workers, Import(w)
    PROVE  imported <= imported'
BY DEF Import, Executes, ScrapeInv, Collects

LEMMA ScrapeStep ==
    ASSUME IInv, IInv', ScrapeInv, [Next]_vars
    PROVE  ScrapeInv'
<1> USE DEF IInv
<1>n. /\ imported \in Nat /\ letterboxd \in Nat /\ letterboxd' \in Nat
      /\ \A w \in Workers : run[w].scraped \in Nat
      /\ \A w \in Workers : ghosts[w] \subseteq Nat
  BY ConfigAssumption DEF TypeOK
<1>r. ASSUME NEW w \in Workers, Ended(w), EndRun(w), imported' = imported, letterboxd' = letterboxd,
             \A u \in Workers : ghosts'[u] \subseteq ghosts[u]
      PROVE  ScrapeInv'
  <2>1. run'[w].scraped = 0
    BY <1>r DEF EndRun, IdleRun, TypeOK
  <2>2. \A u \in Workers : run'[u].scraped \in {run[u].scraped, 0}
    BY <1>r, <2>1 DEF Ended
  <2>3. \A u \in Workers :
           run'[u].pc \in {"scraping", "import"} =>
               Collects(u) /\ run'[u].scraped = run[u].scraped
    BY <1>r DEF Ended, Collects
  <2>4. letterboxd' >= letterboxd
    BY <1>n, <1>r
  <2> QED BY <1>r, <2>2, <2>3, <2>4, ScrapeQuiet
<1>m. ASSUME NEW w \in Workers, NEW pc \in RunPC, Moved(w, pc), run'[w].scraped = run[w].scraped,
             pc \in {"scraping", "import"} => Collects(w),
             UNCHANGED <<imported, letterboxd, ghosts>>
      PROVE  ScrapeInv'
  <2>1. \A u \in Workers : run'[u].scraped = run[u].scraped
    BY <1>m DEF Moved
  <2>2. \A u \in Workers : run'[u].pc \in {"scraping", "import"} => Collects(u)
    BY <1>m DEF Moved, Collects
  <2>3. letterboxd' >= letterboxd /\ imported' = imported
    BY <1>n, <1>m
  <2> QED BY <1>m, <2>1, <2>2, <2>3, ScrapeQuiet
<1>a. ASSUME NEW w \in Workers, NEW pc \in RunPC, Advance(w, pc),
             pc \in {"scraping", "import"} => Collects(w),
             UNCHANGED <<imported, letterboxd, ghosts>>
      PROVE  ScrapeInv'
  <2>1. Moved(w, pc) /\ run'[w].scraped = run[w].scraped
    BY <1>a, AdvanceMoved DEF Advance, TypeOK
  <2> QED BY <1>a, <1>m, <2>1
<1>e. ASSUME NEW w \in Workers, EndRun(w), imported' = imported, letterboxd' = letterboxd,
             \A u \in Workers : ghosts'[u] \subseteq ghosts[u]
      PROVE  ScrapeInv'
  BY <1>e, <1>r, EndRunEnded
<1>1. ASSUME NEW w \in Workers, Execute(w) PROVE ScrapeInv'
  <2>1. ASSUME NEW m \in queue, Deliver(w, m) PROVE ScrapeInv'
    <3>1. run' = [run EXCEPT ![w] = [pc |-> "get_task", msg |-> m, attempt |-> 0,
                                     elapsed |-> 0, scraped |-> 0]]
      BY <2>1 DEF Deliver
    <3>2. /\ \A u \in Workers : u # w => run'[u] = run[u]
          /\ run'[w].scraped = 0 /\ run'[w].pc = "get_task"
      BY <3>1 DEF TypeOK
    <3>3. /\ \A u \in Workers : run'[u].scraped \in {run[u].scraped, 0}
          /\ \A u \in Workers :
                run'[u].pc \in {"scraping", "import"} =>
                    Collects(u) /\ run'[u].scraped = run[u].scraped
      BY <3>2 DEF Collects
    <3>4. letterboxd' >= letterboxd /\ UNCHANGED <<imported, ghosts>>
      BY <1>n, <2>1 DEF Deliver
    <3> QED BY <3>3, <3>4, ScrapeQuiet
  <2>2. ASSUME GetTask(w) PROVE ScrapeInv'
    <3>1. CASE EndRun(w)
      BY <1>e, <2>2, <3>1 DEF GetTask
    <3>2. CASE run' = [run EXCEPT ![w].pc = "claim", ![w].attempt = task[TaskOf(w)].attempt]
      <4>1. TaskOf(w) \in Tasks
        BY <2>2, BusyTask DEF GetTask, Executes, Idle, Holds
      <4>2. task[TaskOf(w)].attempt \in Nat
        BY <4>1 DEF TypeOK
      <4>3. Moved(w, "claim")
        BY <3>2, <4>2, ReadsMoved DEF RunPC
      <4>4. run'[w].scraped = run[w].scraped
        BY <3>2 DEF TypeOK
      <4> QED BY <1>m, <2>2, <4>3, <4>4 DEF GetTask, RunPC
    <3> QED BY <2>2, <3>1, <3>2 DEF GetTask
  <2>3. ASSUME SaveSuperseded(w) \/ RetryRefused(w) \/ Acknowledge(w) \/ Release(w)
        PROVE  ScrapeInv'
    BY <1>e, <2>3 DEF SaveSuperseded, RetryRefused, Acknowledge, Release
  <2>4. ASSUME HardTimeLimit(w) PROVE ScrapeInv'
    <3>1. \A u \in Workers : ghosts'[u] \subseteq ghosts[u]
      BY <2>4 DEF HardTimeLimit, TypeOK
    <3> QED BY <1>e, <2>4, <3>1 DEF HardTimeLimit
  <2>5. ASSUME \/ Claim(w) \/ FinishScrape(w) \/ PermanentError(w) \/ ReadUser(w)
               \/ SaveCompleted(w) \/ SetFresh(w) \/ SaveFailed(w)
        PROVE  ScrapeInv'
    BY <1>a, <2>5 DEF Claim, FinishScrape, PermanentError, ReadUser, SaveCompleted, SetFresh,
                      SaveFailed, RunPC, Collects, Executes
  <2>6. ASSUME TransientError(w) \/ StoreError(w) PROVE ScrapeInv'
    BY <1>a, <1>e, <2>6 DEF TransientError, StoreError, RunPC, Collects
  <2>7. ASSUME SaveProcessing(w) PROVE ScrapeInv'
    <3>1. /\ \A u \in Workers : u # w => run'[u] = run[u]
          /\ run'[w].scraped = letterboxd
          /\ UNCHANGED <<imported, letterboxd, ghosts>>
      BY <2>7 DEF SaveProcessing, TypeOK
    <3>2. letterboxd <= letterboxd
      BY <1>n
    <3> QED BY <3>1, <3>2 DEF ScrapeInv, Collects
  <2>8. ASSUME Import(w) PROVE ScrapeInv'
    <3>0. Advance(w, "read_user") /\ "read_user" \in RunPC
      BY <2>8 DEF Import, RunPC
    <3>1. Moved(w, "read_user") /\ run'[w].scraped = run[w].scraped
      BY <3>0, AdvanceMoved DEF Advance, TypeOK
    <3>2. imported' = run[w].scraped /\ UNCHANGED <<letterboxd, ghosts>>
      BY <2>8 DEF Import
    <3>3. \A u \in Workers : ~Collects(u)'
      BY <2>8, <3>1, InBridgeAlone DEF Import, Executes, Collects, Moved, InBridge
    <3>4. \A u \in Workers : run'[u].scraped = run[u].scraped
      BY <3>1 DEF Moved
    <3> QED BY <3>2, <3>3, <3>4 DEF ScrapeInv
  <2>9. ASSUME SoftTimeLimit(w) PROVE ScrapeInv'
    <3>0. Advance(w, "save_failed") /\ "save_failed" \in RunPC
      BY <2>9 DEF SoftTimeLimit, RunPC
    <3>1. Moved(w, "save_failed") /\ run'[w].scraped = run[w].scraped
      BY <3>0, AdvanceMoved DEF Advance, TypeOK
    <3>2. UNCHANGED <<imported, letterboxd>>
      BY <2>9 DEF SoftTimeLimit
    <3>3. \A u \in Workers : ~Collects(u)'
      BY <2>9, <3>1, InBridgeAlone DEF SoftTimeLimit, Collects, Moved, InBridge
    <3>4. \A u \in Workers : run'[u].scraped = run[u].scraped
      BY <3>1 DEF Moved
    <3>5. \A u \in Workers : ghosts'[u] \subseteq ghosts[u] \cup {run[w].scraped}
      BY <2>9 DEF SoftTimeLimit, TypeOK
    <3> QED BY <3>2, <3>3, <3>4, <3>5 DEF ScrapeInv
  <2> QED BY <1>1, <2>1, <2>2, <2>3, <2>4, <2>5, <2>6, <2>7, <2>8, <2>9 DEF Execute
<1>2. ASSUME NEW w \in Workers, WorkerLost(w) PROVE ScrapeInv'
  <2>1. \A u \in Workers : ghosts'[u] \subseteq ghosts[u]
    BY <1>2 DEF WorkerLost, TypeOK
  <2> QED BY <1>2, <1>e, <2>1 DEF WorkerLost
<1>3. ASSUME NEW w \in Workers, NEW v \in ghosts[w], GhostResumes(w, v) PROVE ScrapeInv'
  <2>1. /\ UNCHANGED <<run, letterboxd>> /\ imported' \in {imported, v}
        /\ \A u \in Workers : ghosts'[u] \subseteq ghosts[u]
    BY <1>3 DEF GhostResumes, TypeOK
  <2> QED BY <2>1 DEF ScrapeInv, Collects
<1>4. CASE Tick
  <2>1. \A u \in Workers : run'[u].pc = run[u].pc /\ run'[u].scraped = run[u].scraped
    BY <1>4 DEF Tick, TypeOK
  <2> QED BY <1>n, <1>4, <2>1, ScrapeQuiet DEF Tick, Collects
<1>5. CASE ProfileChanges
  <2>1. letterboxd' >= letterboxd
    BY <1>n, <1>5 DEF ProfileChanges
  <2> QED BY <1>5, <2>1, ScrapeQuiet DEF ProfileChanges, Collects
<1>6. CASE UNCHANGED <<run, ghosts, imported, letterboxd>>
  BY <1>6 DEF ScrapeInv, Collects
<1>7. ASSUME NEW r \in Requests, RequestStep(r)
      PROVE  UNCHANGED <<run, ghosts, imported, letterboxd>>
  BY <1>7 DEF RequestStep, GetActive, GetOwner, ReleaseStale, GetFresh, GetFreshTask,
              CreateQueued, CreateLosesRace, Publish, PublishRefused, PublishMisreported,
              SaveUnpublished, ReleaseUnpublished, RequestAborts
<1> QED BY <1>1, <1>2, <1>3, <1>4, <1>5, <1>6, <1>7
        DEF Next, vars, WorkerStep, Redelivered, FreshExpires, TaskExpires

(* An older profile replaces the imported one only where a scrape goes on    *)
(* after its execution was interrupted.                                      *)
THEOREM ImportSafe == Reliable => (Spec => ImportNeverRegresses)
<1> SUFFICES ASSUME Reliable PROVE Spec => ImportNeverRegresses
  OBVIOUS
<1>1. Init => ScrapeInv
  <2> SUFFICES ASSUME Init PROVE ScrapeInv
    OBVIOUS
  <2>1. /\ imported = 0 /\ letterboxd = 0
        /\ \A w \in Workers : run[w].scraped = 0 /\ run[w].pc = "idle" /\ ghosts[w] = {}
    BY DEF Init, IdleRun
  <2> QED BY <2>1 DEF ScrapeInv, Collects
<1>2. IInv /\ IInv' /\ ScrapeInv /\ [Next]_vars => ScrapeInv'
  BY ScrapeStep
<1>3. IInv /\ ScrapeInv /\ [Next]_vars =>
          [imported' < imported => \E w \in Workers : ghosts'[w] # ghosts[w]]_vars
  <2> SUFFICES ASSUME IInv, ScrapeInv, Next, imported' < imported
               PROVE  \E w \in Workers : ghosts'[w] # ghosts[w]
    OBVIOUS
  <2>1. imported' # imported
    BY ConfigAssumption DEF IInv, TypeOK
  <2>2. ASSUME NEW w \in Workers, Import(w) PROVE FALSE
    <3>1. imported <= imported' /\ imported \in Nat /\ imported' \in Nat
      BY <2>2, ImportAdvances, ConfigAssumption DEF Import, IInv, TypeOK
    <3> QED BY <3>1
  <2>3. ASSUME NEW w \in Workers, NEW v \in ghosts[w], GhostResumes(w, v)
        PROVE  ghosts'[w] # ghosts[w]
    BY <2>3 DEF GhostResumes, IInv, TypeOK
  <2>4. ASSUME NEW w \in Workers, Execute(w) PROVE FALSE
    BY <2>1, <2>2, <2>4
       DEF Execute, Deliver, GetTask, Claim, SaveSuperseded, SaveProcessing, FinishScrape,
           TransientError, Acknowledge, RetryRefused, PermanentError, SoftTimeLimit, ReadUser,
           SaveCompleted, SetFresh, SaveFailed, Release, StoreError, HardTimeLimit
  <2>5. ASSUME NEW r \in Requests, RequestStep(r) PROVE FALSE
    BY <2>1, <2>5 DEF RequestStep, GetActive, GetOwner, ReleaseStale, GetFresh, GetFreshTask,
              CreateQueued, CreateLosesRace, Publish, PublishRefused, PublishMisreported,
              SaveUnpublished, ReleaseUnpublished, RequestAborts
  <2> QED BY <2>1, <2>3, <2>4, <2>5
          DEF Next, WorkerStep, WorkerLost, Redelivered, Tick, FreshExpires, ProfileChanges,
              TaskExpires
<1> QED BY <1>1, <1>2, <1>3, Invariance, PTL DEF Spec, ImportNeverRegresses

-----------------------------------------------------------------------------
(* ProfileSync implements SyncContract, for every number of requests, tasks  *)
(* and workers and every configuration, under the assumption of the safety   *)
(* proofs that nothing doubles a message.  A task is then in one execution   *)
(* at most that has not handed it over, and what the contract sees of the    *)
(* work on it is where that execution is.                                    *)

(* The stage an execution at pc stands for.                                  *)
StageAt(pc) == IF pc \in {"read_user", "save_completed"} THEN "stored"
               ELSE IF pc \in {"scraping", "import"} THEN "scraping" ELSE "idle"

KeepsStatus == \A u \in Tasks : task'[u].status = task[u].status
KeepsStage  == \A u \in Tasks : Stage(u)' = Stage(u)
KeepsOwner  == lock'.owner = lock.owner
SetsStatus(t, s) == \A u \in Tasks : task'[u].status = IF u = t THEN s ELSE task[u].status
SetsStage(t, s)  == \A u \in Tasks : Stage(u)' = IF u = t THEN s ELSE Stage(u)

Mapped == Contract!Next \/ UNCHANGED Contract!contract

-----------------------------------------------------------------------------
(* Steps of the contract, in terms of what they keep and set.                *)

LEMMA MapsStutter ==
  ASSUME KeepsStatus, KeepsStage, KeepsOwner
  PROVE  Mapped
  BY DEF Mapped, Contract!contract, KeepsStatus, KeepsStage, KeepsOwner

LEMMA MapsSubmit ==
  ASSUME NEW t \in Tasks, lock.owner = NoTask, task[t].status = "unissued",
         SetsStatus(t, "queued"), lock'.owner = t, KeepsStage
  PROVE  Mapped
<1>1. Contract!Submit(t)
  BY DEF Contract!Submit, SetsStatus, KeepsStage
<1> QED
  BY <1>1 DEF Mapped, Contract!Next, Contract!TaskStep

LEMMA MapsClaim ==
  ASSUME NEW t \in Tasks, lock.owner = NoTask, task[t].status \in Live,
         lock'.owner = t, KeepsStatus, KeepsStage
  PROVE  Mapped
<1>1. Contract!Claim(t)
  BY DEF Contract!Claim, Contract!Live, Live, KeepsStatus, KeepsStage
<1> QED
  BY <1>1 DEF Mapped, Contract!Next, Contract!TaskStep

LEMMA MapsBegin ==
  ASSUME NEW t \in Tasks, lock.owner = t, task[t].status \in Live, Stage(t) = "idle",
         SetsStatus(t, "processing"), SetsStage(t, "scraping"), KeepsOwner
  PROVE  Mapped
<1>1. Contract!Begin(t)
  BY DEF Contract!Begin, Contract!Live, Live, SetsStatus, SetsStage, KeepsOwner
<1> QED
  BY <1>1 DEF Mapped, Contract!Next, Contract!TaskStep

LEMMA MapsStore ==
  ASSUME NEW t \in Tasks, Stage(t) = "scraping", SetsStage(t, "stored"), KeepsStatus, KeepsOwner
  PROVE  Mapped
<1>1. Contract!Store(t)
  BY DEF Contract!Store, SetsStage, KeepsStatus, KeepsOwner
<1> QED
  BY <1>1 DEF Mapped, Contract!Next, Contract!TaskStep

(* Work that ends without a result, if there is any.                         *)
LEMMA MapsDrop ==
  ASSUME NEW t \in Tasks, SetsStage(t, "idle"), KeepsStatus, KeepsOwner
  PROVE  Mapped
<1>1. CASE Stage(t) # "idle"
  <2>1. Contract!Drop(t)
    BY <1>1 DEF Contract!Drop, SetsStage, KeepsStatus, KeepsOwner
  <2> QED
    BY <2>1 DEF Mapped, Contract!Next, Contract!TaskStep
<1>2. CASE Stage(t) = "idle"
  <2>1. KeepsStage
    BY <1>2 DEF SetsStage, KeepsStage
  <2> QED
    BY <2>1, MapsStutter
<1> QED
  BY <1>1, <1>2

LEMMA MapsComplete ==
  ASSUME NEW t \in Tasks, Stage(t) = "stored", SetsStatus(t, "completed"),
         SetsStage(t, "idle"), KeepsOwner
  PROVE  Mapped
<1>1. Contract!Complete(t)
  BY DEF Contract!Complete, SetsStatus, SetsStage, KeepsOwner
<1> QED
  BY <1>1 DEF Mapped, Contract!Next, Contract!TaskStep

LEMMA MapsFail ==
  ASSUME NEW t \in Tasks, task[t].status \in Live, Stage(t) = "idle",
         SetsStatus(t, "failed"), KeepsStage, KeepsOwner
  PROVE  Mapped
<1>1. Contract!Fail(t)
  BY DEF Contract!Fail, Contract!Live, Live, SetsStatus, KeepsStage, KeepsOwner
<1> QED
  BY <1>1 DEF Mapped, Contract!Next, Contract!TaskStep

LEMMA MapsLetGo ==
  ASSUME NEW t \in Tasks, lock.owner = t, Stage(t) = "idle", lock'.owner = NoTask,
         KeepsStatus, KeepsStage
  PROVE  Mapped
<1>1. Contract!LetGo
  BY DEF Contract!LetGo, KeepsStatus, KeepsStage
<1> QED
  BY <1>1 DEF Mapped, Contract!Next

LEMMA MapsForget ==
  ASSUME NEW t \in Tasks, task[t].status \in Live \cup Terminal, lock.owner # t,
         Stage(t) = "idle", SetsStatus(t, "expired"), KeepsStage, KeepsOwner
  PROVE  Mapped
<1>1. Contract!Forget(t)
  BY DEF Contract!Forget, Contract!Live, Contract!Terminal, Live, Terminal, SetsStatus,
         KeepsStage, KeepsOwner
<1> QED
  BY <1>1 DEF Mapped, Contract!Next, Contract!TaskStep

-----------------------------------------------------------------------------
(* What the contract sees of an execution.                                   *)

(* Where the contract sees work.                                             *)
Working == {"read_user", "save_completed", "scraping", "import"}

LEMMA StageOfRun ==
  ASSUME IInv, NEW w \in Workers, Holds(w)
  PROVE  Stage(TaskOf(w)) = StageAt(run[w].pc)
<1>1. \A v \in Workers : TaskOf(v) = TaskOf(w) /\ run[v].pc \in Working => v = w
  <2> SUFFICES ASSUME NEW v \in Workers, TaskOf(v) = TaskOf(w), run[v].pc \in Working
               PROVE  v = w
    OBVIOUS
  <2>1. Holds(v)
    BY DEF Working, Holds
  <2> QED
    BY <2>1 DEF IInv, UniqueInv
<1> QED
  BY <1>1 DEF Stage, StageAt, Working

LEMMA StageOfNone ==
  ASSUME NEW t, \A w \in Workers : TaskOf(w) = t => run[w].pc \notin Working
  PROVE  Stage(t) = "idle"
  BY DEF Stage, Working

LEMMA SameStages == ASSUME UNCHANGED run PROVE KeepsStage
  BY DEF KeepsStage, Stage, TaskOf

(* A step of an execution before or after its work.                          *)
LEMMA AsideStages ==
  ASSUME NEW w \in Workers, \A v \in Workers : v # w => run'[v] = run[v],
         run[w].pc \notin Working, run'[w].pc \notin Working
  PROVE  KeepsStage
<1> SUFFICES ASSUME NEW u \in Tasks PROVE Stage(u)' = Stage(u)
  BY DEF KeepsStage
<1>1. \A v \in Workers, pc \in Working :
          (run'[v].msg.task = u /\ run'[v].pc = pc) <=> (run[v].msg.task = u /\ run[v].pc = pc)
  OBVIOUS
<1> QED
  BY <1>1 DEF Stage, TaskOf, Working

(* Only the execution's own task is seen to change when it moves or ends.    *)
LEMMA StagesMove ==
  ASSUME IInv, NEW w \in Workers, Holds(w),
         \A v \in Workers : v # w => run'[v] = run[v],
         run'[w].msg = run[w].msg \/ (run'[w].msg = NoMsg /\ run'[w].pc = "idle")
  PROVE  SetsStage(TaskOf(w), StageAt(run'[w].pc))
<1>1. PICK t \in Tasks : t = TaskOf(w) /\ t # NoTask
  BY BusyTask DEF IInv, Holds, Idle
<1>2. \A v \in Workers, pc \in Working :
          v # w => /\ run[v].pc = pc => run[v].msg.task # t
                   /\ run'[v].pc = pc => run'[v].msg.task # t
  <2> SUFFICES ASSUME NEW v \in Workers, v # w, run[v].msg.task = t, run[v].pc \in Working
               PROVE  FALSE
    OBVIOUS
  <2>1. Holds(v)
    BY DEF Working, Holds
  <2> QED
    BY <1>1, <2>1 DEF IInv, UniqueInv, TaskOf
<1>3. /\ run[w].msg.task = t
      /\ run'[w].pc # "idle" => run'[w].msg.task = t
      /\ run'[w].msg.task \in {t, NoTask}
  BY <1>1 DEF TaskOf, NoMsg
<1>4. Stage(t)' = StageAt(run'[w].pc)
  BY <1>2, <1>3 DEF Stage, StageAt, TaskOf, Working
<1>5. ASSUME NEW u \in Tasks, u # t PROVE Stage(u)' = Stage(u)
  <2>1. u # NoTask
    BY ConfigAssumption
  <2>2. \A v \in Workers, pc \in Working :
            (run'[v].msg.task = u /\ run'[v].pc = pc) <=> (run[v].msg.task = u /\ run[v].pc = pc)
    BY <1>3, <1>5, <2>1
  <2> QED
    BY <2>2 DEF Stage, TaskOf, Working
<1>6. SetsStage(t, StageAt(run'[w].pc))
  BY <1>4, <1>5 DEF SetsStage
<1> QED
  BY <1>1, <1>6

(* A compare-and-delete of a task nobody works on.                           *)
LEMMA DeleteMaps ==
  ASSUME IInv, NEW t \in Tasks, CompareAndDelete(t), Stage(t) = "idle", KeepsStatus, KeepsStage
  PROVE  Mapped
<1>1. CASE lock.owner = t
  <2>1. lock'.owner = NoTask
    BY <1>1 DEF CompareAndDelete, Free
  <2> QED
    BY <1>1, <2>1, MapsLetGo
<1>2. CASE lock.owner # t
  <2>1. KeepsOwner
    BY <1>2 DEF CompareAndDelete, KeepsOwner
  <2> QED
    BY <2>1, MapsStutter
<1> QED
  BY <1>1, <1>2

(* A write of task metadata sets one status.                                 *)
LEMMA SavesStatus ==
  ASSUME IInv, NEW t \in Tasks, NEW s \in Status, NEW n \in Nat, SaveTask(t, s, n)
  PROVE  SetsStatus(t, s)
  BY SaveTaskSaved DEF IInv, Saved, SetsStatus

-----------------------------------------------------------------------------
(* Requests.                                                                 *)

LEMMA RequestMaps ==
  ASSUME IInv, NEW r \in Requests, RequestStep(r)
  PROVE  Mapped
<1>1. KeepsStage
  <2>1. UNCHANGED run
    BY DEF RequestStep, GetActive, GetOwner, ReleaseStale, GetFresh, GetFreshTask,
           CreateQueued, CreateLosesRace, Publish, PublishRefused, PublishMisreported,
           SaveUnpublished, ReleaseUnpublished, RequestAborts
  <2> QED
    BY <2>1, SameStages
<1>2. ASSUME UNCHANGED <<task, lock>> PROVE Mapped
  BY <1>1, <1>2, MapsStutter DEF KeepsStatus, KeepsOwner
<1>3. CASE ReleaseStale(r)
  <2>1. /\ req[r].seen \in Tasks /\ task[req[r].seen].status \notin Live
        /\ CompareAndDelete(req[r].seen) /\ KeepsStatus
    BY <1>3 DEF ReleaseStale, At, IInv, IssuedInv, LiveInv, Issued, KeepsStatus
  <2>2. PICK t \in Tasks : t = req[r].seen
    BY <2>1
  <2>3. Stage(t) = "idle"
    <3>1. \A w \in Workers : TaskOf(w) = t => ~Engaged(w)
      BY <2>1, <2>2 DEF IInv, LiveInv
    <3> QED
      BY <3>1, StageOfNone DEF Working, Engaged, EngagedPC
  <2> QED
    BY <1>1, <2>1, <2>2, <2>3, DeleteMaps
<1>4. ASSUME NEW t \in Tasks, CreateQueued(r, t) PROVE Mapped
  <2>1. /\ lock.owner = NoTask /\ task[t].status = "unissued" /\ lock'.owner = t
    BY <1>4 DEF CreateQueued, Own
  <2>2. SetsStatus(t, "queued")
    BY <1>4, SavesStatus DEF CreateQueued, Status, Live
  <2> QED
    BY <1>1, <2>1, <2>2, MapsSubmit
<1>5. ASSUME Unpublished(r), NEW t \in Tasks, t = req[r].mine PROVE Stage(t) = "idle"
  <2>1. \A w \in Workers : TaskOf(w) = t => Idle(w)
    BY <1>5 DEF IInv, UniqueInv
  <2> QED
    BY <2>1, StageOfNone DEF Working, Idle
<1>6. CASE SaveUnpublished(r)
  <2>1. PICK t \in Tasks : t = req[r].mine
    BY <1>6 DEF SaveUnpublished, At, IInv, IssuedInv, Issued, Unpublished, UnpublishedPC
  <2>2. task[t].status \in Live /\ Stage(t) = "idle"
    BY <1>5, <1>6, <2>1 DEF SaveUnpublished, At, IInv, LiveInv, Unpublished, UnpublishedPC
  <2>3. SetsStatus(t, "failed") /\ KeepsOwner
    BY <1>6, <2>1, SavesStatus DEF SaveUnpublished, Status, Terminal, KeepsOwner
  <2> QED
    BY <1>1, <2>2, <2>3, MapsFail
<1>7. CASE ReleaseUnpublished(r)
  <2>1. PICK t \in Tasks : t = req[r].mine
    BY <1>7 DEF ReleaseUnpublished, At, IInv, IssuedInv, Issued, Unpublished, UnpublishedPC
  <2>2. Stage(t) = "idle"
    BY <1>5, <1>7, <2>1 DEF ReleaseUnpublished, At, Unpublished, UnpublishedPC
  <2>3. CompareAndDelete(t) /\ KeepsStatus
    BY <1>7, <2>1 DEF ReleaseUnpublished, KeepsStatus
  <2> QED
    BY <1>1, <2>2, <2>3, DeleteMaps
<1> QED
  BY <1>2, <1>3, <1>4, <1>6, <1>7
     DEF RequestStep, GetActive, GetOwner, GetFresh, GetFreshTask, CreateLosesRace,
         Publish, PublishRefused, PublishMisreported, RequestAborts

-----------------------------------------------------------------------------
(* Executions.                                                               *)

(* An execution that ends without writing, or goes where nothing is seen of  *)
(* its work: what it was doing is dropped.                                   *)
LEMMA DropMaps ==
  ASSUME IInv, NEW w \in Workers, Holds(w), UNCHANGED <<task, lock>>,
         \A v \in Workers : v # w => run'[v] = run[v],
         run'[w].msg = run[w].msg \/ (run'[w].msg = NoMsg /\ run'[w].pc = "idle"),
         StageAt(run'[w].pc) = "idle"
  PROVE  Mapped
<1>1. PICK t \in Tasks : t = TaskOf(w)
  BY BusyTask DEF IInv, Holds, Idle
<1>2. SetsStage(t, "idle")
  <2>1. SetsStage(TaskOf(w), StageAt(run'[w].pc))
    BY StagesMove
  <2> QED
    BY <1>1, <2>1
<1>3. KeepsStatus /\ KeepsOwner
  BY DEF KeepsStatus, KeepsOwner
<1> QED
  BY <1>1, <1>2, <1>3, MapsDrop

LEMMA EndMaps ==
  ASSUME IInv, NEW w \in Workers, Holds(w), UNCHANGED <<task, lock>>, EndRun(w)
  PROVE  Mapped
<1>1. Ended(w)
  BY EndRunEnded DEF IInv
<1> QED
  BY <1>1, DropMaps DEF Ended, StageAt

LEMMA AdvanceMaps ==
  ASSUME IInv, NEW w \in Workers, Holds(w), UNCHANGED <<task, lock>>,
         NEW pc \in RunPC, Moved(w, pc), StageAt(pc) = "idle"
  PROVE  Mapped
  BY DropMaps DEF Moved

(* A step of an execution that is seen as no change of its work.             *)
LEMMA SteadyStages ==
  ASSUME IInv, NEW w \in Workers, Holds(w),
         \A v \in Workers : v # w => run'[v] = run[v],
         run'[w].msg = run[w].msg \/ (run'[w].msg = NoMsg /\ run'[w].pc = "idle"),
         StageAt(run'[w].pc) = StageAt(run[w].pc)
  PROVE  KeepsStage
<1>1. PICK t \in Tasks : t = TaskOf(w)
  BY BusyTask DEF IInv, Holds, Idle
<1>2. SetsStage(TaskOf(w), StageAt(run'[w].pc)) /\ Stage(TaskOf(w)) = StageAt(run[w].pc)
  BY StagesMove, StageOfRun
<1>3. SetsStage(t, Stage(t))
  BY <1>1, <1>2
<1> QED
  BY <1>3 DEF SetsStage, KeepsStage

(* The owner that a claimed execution sees, and its stage.                   *)
LEMMA ClaimedOwns ==
  ASSUME IInv, NEW w \in Workers, Claimed(w)
  PROVE  /\ Holds(w) /\ TaskOf(w) \in Tasks /\ lock.owner = TaskOf(w)
         /\ task[TaskOf(w)].status \in Live
         /\ run[w].attempt \in Nat /\ Stage(TaskOf(w)) = StageAt(run[w].pc)
<1>1. ~Idle(w) /\ Holds(w)
  BY DEF Claimed, ClaimedPC, EngagedPC, Idle, Holds
<1> QED
  BY <1>1, BusyTask, StageOfRun
     DEF IInv, LockInv, LiveInv, Engaged, Claimed, ClaimedPC, TypeOK

LEMMA WorkerMaps ==
  ASSUME IInv, NEW w \in Workers, WorkerStep(w)
  PROVE  Mapped
<1> USE DEF Executes
<1>1. ASSUME ~Idle(w) PROVE TaskOf(w) \in Tasks /\ run[w].attempt \in Nat
  BY <1>1, BusyTask DEF IInv, TypeOK
<1>2. ASSUME NEW m \in queue, Deliver(w, m) PROVE Mapped
  <2>1. /\ Idle(w) /\ m \in Message /\ UNCHANGED <<task, lock>>
        /\ run[w].msg = NoMsg
    BY <1>2 DEF Deliver, Idle, Holds, IInv, TypeOK, RunInv
  <2>2. /\ run'[w].pc = "get_task" /\ \A v \in Workers : v # w => run'[v] = run[v]
    BY <1>2 DEF Deliver, IInv, TypeOK
  <2>3. \A v \in Workers, pc \in {"read_user", "save_completed", "scraping", "import"} :
            run'[v].pc = pc <=> run[v].pc = pc
    BY <2>1, <2>2 DEF Idle, Holds
  <2>4. \A v \in Workers : run[v].pc \in {"read_user", "save_completed", "scraping", "import"}
                           => run'[v] = run[v]
    BY <2>1, <2>2 DEF Idle, Holds
  <2>5. KeepsStage
    <3> SUFFICES ASSUME NEW u \in Tasks PROVE Stage(u)' = Stage(u)
      BY DEF KeepsStage
    <3>1. \A v \in Workers, pc \in {"read_user", "save_completed", "scraping", "import"} :
              (run'[v].msg.task = u /\ run'[v].pc = pc) <=> (run[v].msg.task = u /\ run[v].pc = pc)
      BY <2>3, <2>4
    <3> QED
      BY <3>1 DEF Stage, TaskOf
  <2> QED
    BY <2>1, <2>5, MapsStutter DEF KeepsStatus, KeepsOwner
<1>3. CASE GetTask(w)
  <2>1. ~Idle(w) /\ Holds(w) /\ UNCHANGED <<task, lock>>
    BY <1>3 DEF GetTask, Idle, Holds
  <2>2. CASE EndRun(w)
    BY <2>1, <2>2, EndMaps
  <2>3. CASE ~EndRun(w)
    <3>1. /\ Proceeds(w)
          /\ run' = [run EXCEPT ![w].pc = "claim", ![w].attempt = task[TaskOf(w)].attempt]
      BY <1>3, <2>3 DEF GetTask
    <3>2. task[TaskOf(w)].attempt \in Nat
      BY <1>1, <2>1 DEF IInv, TypeOK
    <3>3. Moved(w, "claim")
      BY <3>1, <3>2, ReadsMoved DEF IInv, RunPC
    <3> QED
      BY <2>1, <3>3, AdvanceMaps DEF RunPC, StageAt
  <2> QED
    BY <2>2, <2>3
<1>4. CASE Claim(w)
  <2>1. PICK t \in Tasks : t = TaskOf(w)
    BY <1>1, <1>4 DEF Claim, Idle, Holds
  <2>2. PICK pc \in {"save_processing", "save_superseded"} : Advance(w, pc)
    BY <1>4 DEF Claim
  <2>3. Moved(w, pc)
    BY <2>2, AdvanceMoved DEF IInv, RunPC
  <2>4. ~Idle(w) /\ Holds(w) /\ StageAt(pc) = "idle" /\ StageAt(run[w].pc) = "idle"
    BY <1>4 DEF Claim, Idle, Holds, StageAt
  <2>5. KeepsStage
    BY <2>3, <2>4, SteadyStages DEF Moved
  <2>6. KeepsStatus
    BY <1>4 DEF Claim, KeepsStatus
  <2>7. CASE lock' = lock
    BY <2>5, <2>6, <2>7, MapsStutter DEF KeepsOwner
  <2>8. CASE MayClaim(w) /\ Own(t)
    <3>1. task[t].status \in Live
      BY <1>4, <2>1 DEF Claim, IInv, LiveInv, Engaged, EngagedPC
    <3>2. lock'.owner = t /\ lock.owner \in {NoTask, t}
      BY <2>1, <2>8 DEF Own, MayClaim
    <3>3. CASE lock.owner = t
      BY <2>5, <2>6, <3>2, <3>3, MapsStutter DEF KeepsOwner
    <3>4. CASE lock.owner = NoTask
      BY <2>5, <2>6, <3>1, <3>2, <3>4, MapsClaim
    <3> QED
      BY <3>2, <3>3, <3>4
  <2> QED
    BY <1>4, <2>1, <2>7, <2>8 DEF Claim
<1>5. CASE SaveSuperseded(w)
  <2>1. PICK t \in Tasks : t = TaskOf(w)
    BY <1>1, <1>5 DEF SaveSuperseded, Idle, Holds
  <2>2. ~Idle(w) /\ Holds(w) /\ StageAt(run[w].pc) = "idle" /\ Ended(w)
    BY <1>5, EndRunEnded DEF SaveSuperseded, Idle, Holds, StageAt, IInv
  <2>3. KeepsStage
    BY <2>2, SteadyStages DEF Ended, StageAt
  <2>4. Stage(t) = "idle" /\ task[t].status \in Live
    BY <1>5, <2>1, <2>2, StageOfRun DEF SaveSuperseded, IInv, LiveInv, Engaged, EngagedPC
  <2>5. SetsStatus(t, "failed") /\ KeepsOwner
    BY <1>1, <1>5, <2>1, <2>2, SavesStatus DEF SaveSuperseded, Status, Terminal, KeepsOwner
  <2> QED
    BY <2>3, <2>4, <2>5, MapsFail
<1>6. CASE SaveProcessing(w)
  <2>1. Claimed(w)
    BY <1>6 DEF SaveProcessing, Claimed, ClaimedPC, EngagedPC
  <2>2. PICK t \in Tasks : t = TaskOf(w)
    BY <2>1, ClaimedOwns
  <2>3. /\ run'[w].pc = "scraping" /\ run'[w].msg = run[w].msg
        /\ \A v \in Workers : v # w => run'[v] = run[v]
    BY <1>6 DEF SaveProcessing, IInv, TypeOK
  <2>4. SetsStage(TaskOf(w), StageAt("scraping"))
    BY <2>1, <2>3, ClaimedOwns, StagesMove
  <2>5. SetsStage(t, "scraping")
    BY <2>2, <2>4 DEF StageAt
  <2>6. lock.owner = t /\ task[t].status \in Live /\ Stage(t) = "idle"
    BY <1>6, <2>1, <2>2, ClaimedOwns DEF SaveProcessing, StageAt
  <2>7. SetsStatus(t, "processing") /\ KeepsOwner
    <3>1. run[w].attempt + 1 \in Nat
      BY <2>1, ClaimedOwns
    <3> QED
      BY <1>6, <2>2, <3>1, SavesStatus DEF SaveProcessing, Status, Live, KeepsOwner
  <2> QED
    BY <2>5, <2>6, <2>7, MapsBegin
<1>7. CASE FinishScrape(w) \/ ReadUser(w) \/ SetFresh(w)
  <2>1. PICK pc \in {"import", "save_completed", "release"} :
            /\ Advance(w, pc) /\ StageAt(pc) = StageAt(run[w].pc)
            /\ ~Idle(w) /\ Holds(w) /\ UNCHANGED <<task, lock>>
    BY <1>7 DEF FinishScrape, ReadUser, SetFresh, StageAt, Idle, Holds
  <2>2. Moved(w, pc)
    BY <2>1, AdvanceMoved DEF IInv, RunPC
  <2>3. KeepsStage
    BY <2>1, <2>2, SteadyStages DEF Moved
  <2> QED
    BY <2>1, <2>3, MapsStutter DEF KeepsStatus, KeepsOwner
<1>8. CASE Import(w)
  <2>1. Claimed(w) /\ run[w].pc = "import" /\ UNCHANGED <<task, lock>>
    BY <1>8 DEF Import, Claimed, ClaimedPC, EngagedPC
  <2>2. PICK t \in Tasks : t = TaskOf(w)
    BY <2>1, ClaimedOwns
  <2>3. Moved(w, "read_user")
    BY <1>8, AdvanceMoved DEF Import, IInv, RunPC
  <2>4. SetsStage(TaskOf(w), StageAt("read_user"))
    BY <2>1, <2>3, ClaimedOwns, StagesMove DEF Moved
  <2>5. SetsStage(t, "stored") /\ Stage(t) = "scraping"
    BY <2>1, <2>2, <2>4, ClaimedOwns DEF StageAt
  <2> QED
    BY <2>1, <2>5, MapsStore DEF KeepsStatus, KeepsOwner
<1>9. CASE SaveCompleted(w)
  <2>1. Claimed(w) /\ run[w].pc = "save_completed"
    BY <1>9 DEF SaveCompleted, Claimed, ClaimedPC, EngagedPC
  <2>2. PICK t \in Tasks : t = TaskOf(w)
    BY <2>1, ClaimedOwns
  <2>3. Moved(w, "set_fresh")
    BY <1>9, AdvanceMoved DEF SaveCompleted, IInv, RunPC
  <2>4. SetsStage(TaskOf(w), StageAt("set_fresh"))
    BY <2>1, <2>3, ClaimedOwns, StagesMove DEF Moved
  <2>5. SetsStage(t, "idle") /\ Stage(t) = "stored"
    BY <2>1, <2>2, <2>4, ClaimedOwns DEF StageAt
  <2>6. SetsStatus(t, "completed") /\ KeepsOwner
    BY <1>9, <2>1, <2>2, ClaimedOwns, SavesStatus DEF SaveCompleted, Status, Terminal, KeepsOwner
  <2> QED
    BY <2>5, <2>6, MapsComplete
<1>10. CASE SaveFailed(w)
  <2>1. Claimed(w) /\ run[w].pc = "save_failed"
    BY <1>10 DEF SaveFailed, Claimed, ClaimedPC, EngagedPC
  <2>2. PICK t \in Tasks : t = TaskOf(w)
    BY <2>1, ClaimedOwns
  <2>3. Moved(w, "release")
    BY <1>10, AdvanceMoved DEF SaveFailed, IInv, RunPC
  <2>4. KeepsStage
    BY <2>1, <2>3, ClaimedOwns, SteadyStages DEF Moved, StageAt
  <2>5. Stage(t) = "idle" /\ task[t].status \in Live
    BY <2>1, <2>2, ClaimedOwns DEF StageAt
  <2>6. SetsStatus(t, "failed") /\ KeepsOwner
    BY <1>10, <2>1, <2>2, ClaimedOwns, SavesStatus DEF SaveFailed, Status, Terminal, KeepsOwner
  <2> QED
    BY <2>4, <2>5, <2>6, MapsFail
<1>11. CASE Release(w)
  <2>1. ~Idle(w) /\ Holds(w) /\ run[w].pc = "release" /\ EndRun(w) /\ CompareAndDelete(TaskOf(w))
        /\ KeepsStatus
    BY <1>11 DEF Release, Idle, Holds, KeepsStatus
  <2>2. PICK t \in Tasks : t = TaskOf(w)
    BY <1>1, <2>1
  <2>3. Ended(w)
    BY <2>1, EndRunEnded DEF IInv
  <2>4. KeepsStage
    BY <2>1, <2>3, SteadyStages DEF Ended, StageAt
  <2>5. Stage(t) = "idle"
    BY <2>1, <2>2, StageOfRun DEF StageAt
  <2>6. CompareAndDelete(t)
    BY <2>1, <2>2
  <2> QED
    BY <2>1, <2>4, <2>5, <2>6, DeleteMaps
<1>12. CASE /\ ~Idle(w) /\ UNCHANGED <<task, lock>>
            /\ \/ EndRun(w)
               \/ Holds(w) /\ \E pc \in {"save_failed", "retried"} : Advance(w, pc)
  <2>1. CASE EndRun(w) /\ Holds(w)
    BY <1>12, <2>1, EndMaps
  <2>2. CASE EndRun(w) /\ ~Holds(w)
    <3>1. Ended(w)
      BY <2>2, EndRunEnded DEF IInv
    <3>2. KeepsStage
      BY <2>2, <3>1, AsideStages DEF Ended, Holds, Working
    <3> QED
      BY <1>12, <3>2, MapsStutter DEF KeepsStatus, KeepsOwner
  <2>3. ASSUME NEW pc \in {"save_failed", "retried"}, Holds(w), Advance(w, pc) PROVE Mapped
    BY <1>12, <2>3, AdvanceMoved, AdvanceMaps DEF IInv, RunPC, StageAt
  <2> QED
    BY <1>12, <2>1, <2>2, <2>3
<1>13. ASSUME \/ TransientError(w) \/ Acknowledge(w) \/ RetryRefused(w)
              \/ PermanentError(w) \/ SoftTimeLimit(w)
              \/ HardTimeLimit(w) \/ WorkerLost(w)
              \/ (StoreError(w) /\ run[w].pc # "set_fresh")
       PROVE  /\ ~Idle(w) /\ UNCHANGED <<task, lock>>
              /\ \/ EndRun(w)
                 \/ Holds(w) /\ \E pc \in {"save_failed", "retried"} : Advance(w, pc)
  BY <1>13 DEF TransientError, Acknowledge, RetryRefused, PermanentError, SoftTimeLimit,
               HardTimeLimit, WorkerLost, StoreError, Idle, Holds, InBridge
<1>14. CASE StoreError(w) /\ run[w].pc = "set_fresh"
  <2>1. ~Idle(w) /\ Holds(w) /\ Advance(w, "release") /\ UNCHANGED <<task, lock>>
    BY <1>14 DEF StoreError, Idle, Holds
  <2> QED
    BY <2>1, AdvanceMoved, AdvanceMaps DEF IInv, RunPC, StageAt
<1>15. CASE Redelivered(w) \/ \E v \in ghosts[w] : GhostResumes(w, v)
  <2>1. UNCHANGED <<task, lock, run>>
    BY <1>15 DEF Redelivered, GhostResumes
  <2> QED
    BY <2>1, SameStages, MapsStutter DEF KeepsStatus, KeepsOwner
<1> QED
  BY <1>2, <1>3, <1>4, <1>5, <1>6, <1>7, <1>8, <1>9, <1>10, <1>11, <1>12, <1>13, <1>14, <1>15
     DEF WorkerStep, Execute

-----------------------------------------------------------------------------
(* Time, expiry and the specification.                                       *)

(* The key of work does not run out: its TTL lasts past the hard limit, and  *)
(* time does not pass for an execution that has reached it.                  *)
LEMMA TickMaps == ASSUME IInv, Tick PROVE Mapped
<1>1. /\ KeepsStatus /\ lock \in LockType
      /\ \A w \in Workers : run[w].elapsed \in 0 .. HardLimit
  BY DEF Tick, KeepsStatus, IInv, TypeOK, LockType
<1>2. \A w \in Workers : run'[w].pc = run[w].pc /\ run'[w].msg = run[w].msg
  BY DEF Tick, IInv, TypeOK
<1>3. KeepsStage
  <2> SUFFICES ASSUME NEW u \in Tasks PROVE Stage(u)' = Stage(u)
    BY DEF KeepsStage
  <2> QED
    BY <1>2 DEF Stage, TaskOf
<1>4. CASE lock'.owner = lock.owner
  BY <1>1, <1>3, <1>4, MapsStutter DEF KeepsOwner
<1>5. CASE lock'.owner # lock.owner
  <2>1. lock'.owner = NoTask /\ lock.left \in Nat /\ ~(lock.left > 1) /\ lock.owner \in Tasks
    BY <1>1, <1>5 DEF Tick, ActiveKeyAges, Free, LockType
  <2>2. \A w \in Workers : ~Claimed(w)
    <3> SUFFICES ASSUME NEW w \in Workers, Claimed(w) PROVE FALSE
      OBVIOUS
    <3>1. run[w].elapsed < HardLimit /\ lock.left > HardLimit - run[w].elapsed
      BY DEF Tick, Executes, IInv, LockInv, Claimed, ClaimedPC, EngagedPC
    <3> QED
      BY <1>1, <2>1, <3>1, ConfigAssumption
  <2>3. PICK t \in Tasks : t = lock.owner
    BY <2>1
  <2>4. Stage(t) = "idle"
    BY <2>2, StageOfNone DEF Working, Claimed, ClaimedPC, EngagedPC
  <2> QED
    BY <1>1, <1>3, <2>1, <2>3, <2>4, MapsLetGo
<1> QED
  BY <1>4, <1>5

LEMMA ExpiryMaps == ASSUME IInv, NEW t \in Tasks, TaskExpires(t) PROVE Mapped
<1>1. /\ task[t].status \in Live \cup Terminal /\ lock.owner # t
      /\ \A w \in Workers : TaskOf(w) # t
      /\ UNCHANGED <<lock, run>>
  BY DEF TaskExpires, IInv, TypeOK, Status
<1>2. SetsStatus(t, "expired") /\ KeepsOwner
  BY SavesStatus DEF TaskExpires, Status, Missing, KeepsOwner
<1>3. Stage(t) = "idle" /\ KeepsStage
  BY <1>1, StageOfNone, SameStages
<1> QED
  BY <1>1, <1>2, <1>3, MapsForget

LEMMA StepMaps == IInv /\ [Next]_vars => [Contract!Next]_(Contract!contract)
<1> SUFFICES ASSUME IInv, [Next]_vars PROVE Mapped
  BY DEF Mapped
<1>1. CASE FreshExpires \/ ProfileChanges \/ UNCHANGED vars
  <2>1. UNCHANGED <<task, lock, run>>
    BY <1>1 DEF FreshExpires, ProfileChanges, vars
  <2> QED
    BY <2>1, SameStages, MapsStutter DEF KeepsStatus, KeepsOwner
<1> QED
  BY <1>1, RequestMaps, WorkerMaps, TickMaps, ExpiryMaps DEF Next

LEMMA InitMaps == Init => Contract!Init
<1> SUFFICES ASSUME Init PROVE Contract!Init
  OBVIOUS
<1>1. \A t \in Tasks : Stage(t) = "idle"
  BY StageOfNone DEF Working, Init, IdleRun
<1>2. \A t \in Tasks : task[t].status = "unissued"
  BY DEF Init
<1> QED
  BY <1>1, <1>2 DEF Contract!Init, Init, Free

(* The refinement: requests, executions, broker, TTL and crashes, whatever   *)
(* their number and order, implement the contract of the task a caller polls.*)
THEOREM ImplementsContractSafe == Reliable => (Spec => ImplementsContract)
<1> SUFFICES ASSUME Reliable PROVE Spec => Contract!Spec
  BY DEF ImplementsContract
<1> QED
  BY InitMaps, StepMaps, Invariance, PTL DEF Spec, Contract!Spec
=============================================================================
