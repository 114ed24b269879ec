-------------------------- MODULE MaintenanceProofs --------------------------
(* The singleton promise of the maintenance locks, for every number of       *)
(* processes, every set of operations, every TTL above the hard limit and    *)
(* every bound on messages and losses.                                       *)
EXTENDS Maintenance, TLAPS

-----------------------------------------------------------------------------
(* The inductive invariant.  HeldInv is HeldOutlivesWork for every execution *)
(* that cannot outlive the hard limit, from its acquisition to the end of    *)
(* its release, and the fact the proof turns on: the key of such an          *)
(* execution outlives it, so nobody else can acquire.                        *)

ProcType == [pc : PC, op : Ops \cup {"none"}, msg : Message \cup {NoMsg},
             elapsed : 0 .. HardLimit]
LockType == [owner : Processes \cup {Nobody, Orphan}, left : 0 .. LockTTL]

Busy(p) ==
    ~At(p, "idle") =>
        /\ OpOf(p) \in Ops
        /\ p \in Workers => proc[p].msg \in Message /\ proc[p].msg.op = OpOf(p)

Holds(p) ==
    proc[p].pc \in Holding /\ ~MayOutlive(p) =>
        /\ lock[OpOf(p)].owner = p
        /\ lock[OpOf(p)].left > HardLimit - proc[p].elapsed

Leased == \A o \in Ops : lock[o].owner # Nobody => lock[o].left > 0

IInv ==
    /\ TypeOK
    /\ \A p \in Processes : Busy(p) /\ Holds(p)
    /\ Leased

-----------------------------------------------------------------------------
(* What the helpers of the actions write.                                    *)

Went(p, pc) ==
    /\ proc' \in [Processes -> ProcType]
    /\ proc'[p].pc = pc /\ proc'[p].op = proc[p].op
    /\ proc'[p].msg = proc[p].msg /\ proc'[p].elapsed = proc[p].elapsed
    /\ \A q \in Processes : q # p => proc'[q] = proc[q]

Stopped(p) ==
    /\ proc' \in [Processes -> ProcType]
    /\ proc'[p] = Idle
    /\ \A q \in Processes : q # p => proc'[q] = proc[q]

Locked(o, owner, left) ==
    /\ lock' \in [Ops -> LockType]
    /\ lock'[o].owner = owner /\ lock'[o].left = left
    /\ \A u \in Ops : u # o => lock'[u] = lock[u]

(* A process changes no key but one it owns, which it gives up.              *)
Forgot(p, owner, left) ==
    /\ lock' \in [Ops -> LockType]
    /\ \A o \in Ops :
          \/ lock'[o] = lock[o]
          \/ o = OpOf(p) /\ lock[o].owner = p /\ lock'[o].owner = owner /\ lock'[o].left = left

LEMMA GotoWent ==
    ASSUME TypeOK, NEW p \in Processes, NEW pc \in PC, Goto(p, pc)
    PROVE  Went(p, pc)
BY DEF TypeOK, Goto, Went, ProcType

LEMMA StopStopped ==
    ASSUME TypeOK, NEW p \in Processes, Stop(p)
    PROVE  Stopped(p)
<1>1. Idle \in ProcType
  BY MaintenanceAssumption DEF Idle, ProcType, PC
<1> QED BY <1>1 DEF TypeOK, Stop, Stopped, ProcType

LEMMA SetLockLocked ==
    ASSUME TypeOK, NEW o \in Ops, NEW owner \in Processes \cup {Nobody, Orphan},
           NEW left \in 0 .. LockTTL, SetLock(o, owner, left)
    PROVE  Locked(o, owner, left)
BY DEF TypeOK, SetLock, Locked, LockType

LEMMA ForgetForgot ==
    ASSUME TypeOK, NEW p \in Processes, Busy(p), NEW owner \in {Nobody, Orphan},
           NEW left \in 0 .. LockTTL, Forget(p, owner, left)
    PROVE  Forgot(p, owner, left)
<1>1. CASE UNCHANGED lock
  BY <1>1 DEF TypeOK, Forgot, LockType
<1>2. CASE /\ ~At(p, "idle") /\ lock[OpOf(p)].owner = p
           /\ SetLock(OpOf(p), owner, left)
  <2>1. Locked(OpOf(p), owner, left)
    BY <1>2, SetLockLocked DEF Busy
  <2> QED BY <1>2, <2>1 DEF Locked, Forgot
<1> QED BY <1>1, <1>2 DEF Forget

LEMMA LeaveTokenForgot ==
    ASSUME TypeOK, NEW p \in Processes, Busy(p), LeaveToken(p)
    PROVE  Forgot(p, Orphan, lock[OpOf(p)].left)
<1>1. CASE At(p, "idle") \/ At(p, "acquire") \/ lock[OpOf(p)].owner # p
  BY <1>1 DEF TypeOK, LeaveToken, Forget, Forgot, LockType
<1>2. CASE ~At(p, "idle")
  <2>1. lock[OpOf(p)].left \in 0 .. LockTTL
    BY <1>2 DEF Busy, TypeOK
  <2> QED BY <2>1, ForgetForgot DEF LeaveToken
<1> QED BY <1>1, <1>2

-----------------------------------------------------------------------------
(* A step of one process.                                                    *)

(* A step that moves one process and touches only free keys and its own      *)
(* keeps what the other processes rely on.                                   *)
LEMMA ActorStep ==
    ASSUME IInv, TypeOK', NEW p \in Processes,
           \A q \in Processes : q # p => proc'[q] = proc[q],
           \A o \in Ops : \/ lock'[o] = lock[o]
                          \/ /\ lock[o].owner \in {p, Nobody}
                             /\ lock'[o].owner # Nobody => lock'[o].left > 0,
           Busy(p)', Holds(p)'
    PROVE  IInv'
<1>1. ASSUME NEW q \in Processes, q # p
      PROVE  Busy(q)' /\ Holds(q)'
  <2>1. Busy(q)'
    BY <1>1 DEF IInv, Busy, At, OpOf
  <2>2. ASSUME proc'[q].pc \in Holding, ~MayOutlive(q)'
        PROVE  /\ lock'[OpOf(q)'].owner = q
               /\ lock'[OpOf(q)'].left > HardLimit - proc'[q].elapsed
    <3>1. /\ OpOf(q)' = OpOf(q) /\ OpOf(q) \in Ops /\ ~MayOutlive(q)
          /\ proc[q].pc \in Holding
      BY <1>1, <2>2 DEF IInv, Busy, At, OpOf, Holding, MayOutlive, Limited
    <3>2. /\ lock[OpOf(q)].owner = q
          /\ lock[OpOf(q)].left > HardLimit - proc[q].elapsed
      BY <3>1 DEF IInv, Holds
    <3>3. lock'[OpOf(q)] = lock[OpOf(q)]
      BY <1>1, <3>1, <3>2, MaintenanceAssumption DEF Processes
    <3> QED BY <1>1, <3>1, <3>2, <3>3
  <2> QED BY <2>1, <2>2 DEF Holds
<1>2. Leased'
  BY DEF IInv, Leased
<1> QED BY <1>1, <1>2 DEF IInv

(* An execution that ends, giving up at most a key it owns.                  *)
LEMMA EndingStep ==
    ASSUME IInv, TypeOK', NEW p \in Processes, Stopped(p),
           NEW owner \in {Nobody, Orphan}, NEW left, Forgot(p, owner, left),
           owner # Nobody => left = lock[OpOf(p)].left
    PROVE  IInv'
<1>1. Busy(p)' /\ Holds(p)'
  BY DEF Stopped, Idle, Busy, Holds, At, Holding
<1>2. ASSUME NEW o \in Ops
      PROVE  \/ lock'[o] = lock[o]
             \/ /\ lock[o].owner \in {p, Nobody}
                /\ lock'[o].owner # Nobody => lock'[o].left > 0
  BY <1>2, MaintenanceAssumption DEF IInv, Leased, Forgot
<1> QED BY <1>1, <1>2, ActorStep DEF Stopped

(* An execution that goes on in or into its held block, the keys as before.  *)
LEMMA HeldStep ==
    ASSUME IInv, TypeOK', NEW p \in Processes, proc[p].pc \in Holding,
           NEW pc \in Holding, Went(p, pc), UNCHANGED lock
    PROVE  IInv'
<1>1. Busy(p)'
  BY DEF IInv, Went, Busy, Holding, At, OpOf
<1>2. Holds(p)'
  BY DEF IInv, Went, Holds, At, OpOf, Holding, MayOutlive, Limited
<1> QED BY <1>1, <1>2, ActorStep DEF Went

LEMMA QuietStep ==
    ASSUME IInv, TypeOK', UNCHANGED <<lock, proc>>
    PROVE  IInv'
BY DEF IInv, Busy, Holds, Leased, At, OpOf, Holding, MayOutlive, Limited

-----------------------------------------------------------------------------
(* Messages stay well formed: a publication draws the next identifier, a     *)
(* retry counts one more within the budget of its operation.                 *)

LEMMA PublishedTyped ==
    ASSUME TypeOK, NEW o \in Ops, Publish(o)
    PROVE  queue' \subseteq Message /\ published' \in 0 .. MaxMessages
<1>1. [id |-> published + 1, op |-> o, retries |-> 0] \in Message
  BY MaintenanceAssumption DEF TypeOK, Publish, Message, MaxRetries, AllOps
<1> QED BY <1>1, MaintenanceAssumption DEF TypeOK, Publish

LEMMA FailTyped ==
    ASSUME IInv, NEW p \in Processes, At(p, "working"), Fail(p)
    PROVE  queue' \subseteq Message /\ Went(p, "release") /\ UNCHANGED lock
<1> DEFINE m == proc[p].msg
           again == [m EXCEPT !.retries = @ + 1]
<1>1. Went(p, "release")
  BY GotoWent DEF IInv, Fail, PC
<1>2. ASSUME CanRetry(p)
      PROVE  again \in Message
  <2>1. m \in Message
    BY <1>2 DEF IInv, Busy, At, CanRetry
  <2>2. m.op = OpOf(p)
    BY <1>2 DEF IInv, Busy, At, CanRetry
  <2> QED BY <1>2, <2>1, <2>2, MaintenanceAssumption DEF CanRetry, Message, MaxRetries, AllOps
<1> QED BY <1>1, <1>2 DEF IInv, TypeOK, Fail

(* A process leaves idle with the operation it was given.                    *)
LEMMA StartStarted ==
    ASSUME TypeOK, NEW p \in Processes, NEW o \in Ops, NEW m \in Message \cup {NoMsg},
           p \in Workers => m \in Message /\ m.op = o,
           Start(p, o, m)
    PROVE  /\ proc' \in [Processes -> ProcType] /\ proc'[p].pc = "acquire"
           /\ \A q \in Processes : q # p => proc'[q] = proc[q]
           /\ Busy(p)' /\ Holds(p)'
<1>1. [pc |-> "acquire", op |-> o, msg |-> m, elapsed |-> 0] \in ProcType
  BY MaintenanceAssumption DEF ProcType, PC
<1>2. /\ proc' \in [Processes -> ProcType]
      /\ proc'[p] = [pc |-> "acquire", op |-> o, msg |-> m, elapsed |-> 0]
      /\ \A q \in Processes : q # p => proc'[q] = proc[q]
  BY <1>1 DEF TypeOK, Start, ProcType
<1> QED BY <1>2 DEF Busy, Holds, At, OpOf, Holding

-----------------------------------------------------------------------------
(* The inductive invariant holds initially and is kept by every action.      *)

LEMMA InvInit == Init => IInv
<1> SUFFICES ASSUME Init PROVE IInv
  OBVIOUS
<1>1. TypeOK
  <2>1. Idle \in ProcType /\ Free \in LockType
    BY MaintenanceAssumption DEF Idle, Free, ProcType, LockType, PC
  <2> QED BY <2>1, MaintenanceAssumption DEF Init, TypeOK, ProcType, LockType
<1>2. \A p \in Processes : Busy(p) /\ Holds(p)
  BY DEF Init, Busy, Holds, At, Idle, Holding
<1>3. Leased
  BY DEF Init, Leased, Free
<1> QED BY <1>1, <1>2, <1>3 DEF IInv

LEMMA AcquireKeeps ==
    ASSUME IInv, NEW p \in Processes, Acquire(p)
    PROVE  IInv'
<1>0. OpOf(p) \in Ops
  BY DEF IInv, Acquire, Busy, At
<1>1. CASE /\ lock[OpOf(p)].owner = Nobody
           /\ SetLock(OpOf(p), p, LockTTL) /\ Goto(p, "acquired")
  <2>1. Locked(OpOf(p), p, LockTTL)
    BY <1>0, <1>1, SetLockLocked, MaintenanceAssumption DEF IInv
  <2>2. Went(p, "acquired")
    BY <1>1, GotoWent DEF IInv, PC
  <2>3. TypeOK'
    BY <2>1, <2>2 DEF IInv, TypeOK, Acquire, Locked, Went, LockType, ProcType
  <2>4. proc[p].elapsed \in 0 .. HardLimit
    BY DEF IInv, TypeOK
  <2>5. Busy(p)' /\ Holds(p)'
    BY <1>0, <2>1, <2>2, <2>4, MaintenanceAssumption
       DEF IInv, Acquire, Locked, Went, Busy, Holds, At, OpOf
  <2>6. ASSUME NEW o \in Ops
        PROVE  \/ lock'[o] = lock[o]
               \/ /\ lock[o].owner \in {p, Nobody}
                  /\ lock'[o].owner # Nobody => lock'[o].left > 0
    BY <1>1, <2>1, MaintenanceAssumption DEF Locked
  <2> QED BY <2>2, <2>3, <2>5, <2>6, ActorStep DEF Went
<1>2. CASE Stop(p) /\ UNCHANGED lock
  <2>1. Stopped(p)
    BY <1>2, StopStopped DEF IInv
  <2>2. TypeOK'
    BY <1>2, <2>1 DEF IInv, TypeOK, Acquire, Stopped, ProcType
  <2>3. Forgot(p, Nobody, 0)
    BY <1>2 DEF IInv, TypeOK, Forgot, LockType
  <2> QED BY <2>1, <2>2, <2>3, EndingStep
<1> QED BY <1>1, <1>2 DEF Acquire

LEMMA ReleaseKeeps ==
    ASSUME IInv, NEW p \in Processes, Release(p)
    PROVE  IInv'
<1>1. Stopped(p)
  BY StopStopped DEF IInv, Release
<1>2. Forgot(p, Nobody, 0)
  BY ForgetForgot, MaintenanceAssumption DEF IInv, Release
<1>3. TypeOK'
  BY <1>1, <1>2 DEF IInv, TypeOK, Release, Stopped, Forgot, ProcType, LockType
<1> QED BY <1>1, <1>2, <1>3, EndingStep

(* An execution that ends leaving its token, the broker as before.           *)
LEMMA AbortKeeps ==
    ASSUME IInv, NEW p \in Processes, LeaveToken(p), Stop(p),
           UNCHANGED <<queue, published, losses>>
    PROVE  IInv'
<1>1. Stopped(p)
  BY StopStopped DEF IInv
<1>2. Forgot(p, Orphan, lock[OpOf(p)].left)
  BY LeaveTokenForgot DEF IInv
<1>3. TypeOK'
  BY <1>1, <1>2 DEF IInv, TypeOK, Stopped, Forgot, ProcType, LockType
<1> QED BY <1>1, <1>2, <1>3, EndingStep

LEMMA EnterKeeps ==
    ASSUME IInv, NEW p \in Processes, Enter(p)
    PROVE  IInv'
<1>1. Went(p, "working")
  BY GotoWent DEF IInv, Enter, PC
<1>2. TypeOK'
  BY <1>1 DEF IInv, TypeOK, Enter, Went, ProcType
<1> QED BY <1>1, <1>2, HeldStep DEF Enter, At, Holding

LEMMA WorkKeeps ==
    ASSUME IInv, NEW p \in Processes,
           WorkSucceeds(p) \/ EvaluationPublishes(p) \/ WorkFails(p)
    PROVE  IInv'
<1>1. CASE WorkSucceeds(p)
  <2>1. Went(p, "release")
    BY <1>1, GotoWent DEF IInv, WorkSucceeds, PC
  <2>2. TypeOK'
    BY <1>1, <2>1 DEF IInv, TypeOK, WorkSucceeds, Went, ProcType
  <2> QED BY <1>1, <2>1, <2>2, HeldStep DEF WorkSucceeds, At, Holding
<1>2. CASE EvaluationPublishes(p)
  <2>1. Went(p, "release")
    BY <1>2, GotoWent DEF IInv, EvaluationPublishes, PC
  <2>2. queue' \subseteq Message /\ published' \in 0 .. MaxMessages
    BY <1>2, PublishedTyped DEF IInv, EvaluationPublishes
  <2>3. TypeOK'
    BY <1>2, <2>1, <2>2 DEF IInv, TypeOK, EvaluationPublishes, Went, ProcType
  <2> QED BY <1>2, <2>1, <2>3, HeldStep DEF EvaluationPublishes, At, Holding
<1>3. CASE WorkFails(p)
  <2>1. At(p, "working") /\ UNCHANGED lock /\ Went(p, "release") /\ queue' \subseteq Message
    BY <1>3, FailTyped DEF WorkFails
  <2>2. TypeOK'
    BY <1>3, <2>1 DEF IInv, TypeOK, WorkFails, Went, ProcType
  <2> QED BY <2>1, <2>2, HeldStep DEF At, Holding
<1> QED BY <1>1, <1>2, <1>3

LEMMA SoftTimeLimitKeeps ==
    ASSUME IInv, NEW w \in Workers, SoftTimeLimit(w)
    PROVE  IInv'
<1>0. w \in Processes
  BY DEF Processes
<1>1. At(w, "working") /\ UNCHANGED lock /\ Went(w, "release") /\ queue' \subseteq Message
  <2>1. CASE Fail(w)
    BY <1>0, <2>1, FailTyped DEF SoftTimeLimit
  <2>2. CASE Goto(w, "release") /\ UNCHANGED <<lock, queue>>
    BY <1>0, <2>2, GotoWent DEF SoftTimeLimit, IInv, TypeOK, PC
  <2> QED BY <2>1, <2>2 DEF SoftTimeLimit
<1>2. TypeOK'
  BY <1>1 DEF IInv, TypeOK, SoftTimeLimit, Went, ProcType
<1> QED BY <1>0, <1>1, <1>2, HeldStep DEF At, Holding

(* A process killed or lost leaves its token, and perhaps its message.       *)
LEMMA DeathKeeps ==
    ASSUME IInv, NEW p \in Processes, (HardTimeLimit(p) /\ p \in Workers) \/ ProcessLost(p)
    PROVE  IInv'
<1>1. ~At(p, "idle") /\ Stop(p) /\ LeaveToken(p) /\ UNCHANGED published
  BY DEF HardTimeLimit, ProcessLost
<1>2. Stopped(p) /\ Forgot(p, Orphan, lock[OpOf(p)].left)
  BY <1>1, StopStopped, LeaveTokenForgot DEF IInv
<1>3. queue' \subseteq Message /\ losses' \in 0 .. MaxLosses
  <2>1. p \in Workers => proc[p].msg \in Message
    BY <1>1 DEF IInv, Busy
  <2>2. queue \subseteq Message /\ losses \in 0 .. MaxLosses
    BY DEF IInv, TypeOK
  <2> QED BY <2>1, <2>2, MaintenanceAssumption DEF HardTimeLimit, ProcessLost
<1>4. TypeOK'
  BY <1>1, <1>2, <1>3 DEF IInv, TypeOK, Stopped, Forgot, ProcType, LockType
<1> QED BY <1>2, <1>4, EndingStep

LEMMA StartKeeps ==
    ASSUME IInv, NEW p \in Processes, NEW o \in Ops,
           \/ p \in Commands /\ CommandStarts(p, o)
           \/ p \in Workers /\ \E m \in queue : Deliver(p, m)
    PROVE  IInv'
<1>1. PICK u \in Ops, m \in Message \cup {NoMsg} :
          Start(p, u, m) /\ (p \in Workers => m \in Message /\ m.op = u)
  <2>1. CASE p \in Commands /\ CommandStarts(p, o)
    BY <2>1, MaintenanceAssumption DEF CommandStarts
  <2>2. CASE p \in Workers /\ \E m \in queue : Deliver(p, m)
    <3>1. PICK m \in queue : Deliver(p, m)
      BY <2>2
    <3>2. m \in Message /\ m.op \in Ops
      BY DEF IInv, TypeOK, Message
    <3> QED BY <3>1, <3>2 DEF Deliver
  <2> QED BY <2>1, <2>2
<1>2. /\ proc' \in [Processes -> ProcType] /\ Busy(p)' /\ Holds(p)'
      /\ \A q \in Processes : q # p => proc'[q] = proc[q]
  BY <1>1, StartStarted DEF IInv
<1>3. UNCHANGED <<lock, published, losses>> /\ queue' \subseteq queue
  BY DEF CommandStarts, Deliver
<1>4. TypeOK'
  BY <1>2, <1>3 DEF IInv, TypeOK, ProcType
<1> QED BY <1>2, <1>3, <1>4, ActorStep

(* Steps that move neither a process nor a key.                              *)
LEMMA BrokerKeeps ==
    ASSUME IInv,
           \/ \E o \in Ops : BeatPublishes(o)
           \/ \E w \in Workers : Redelivered(w)
    PROVE  IInv'
<1>1. UNCHANGED <<lock, proc>>
  BY DEF BeatPublishes, Redelivered
<1>2. /\ queue' \subseteq Message /\ published' \in 0 .. MaxMessages
      /\ losses' \in 0 .. MaxLosses
  <2>0. /\ queue \subseteq Message /\ published \in 0 .. MaxMessages
        /\ losses \in 0 .. MaxLosses
    BY DEF IInv, TypeOK
  <2>1. CASE \E o \in Ops : BeatPublishes(o)
    BY <2>0, <2>1, PublishedTyped DEF IInv, BeatPublishes
  <2>2. CASE \E w \in Workers : Redelivered(w)
    <3>1. PICK w \in Workers : Redelivered(w)
      BY <2>2
    <3>2. proc[w].msg \in Message
      BY <3>1 DEF IInv, Busy, Redelivered, Processes
    <3> QED BY <2>0, <3>1, <3>2, MaintenanceAssumption DEF Redelivered
  <2> QED BY <2>1, <2>2
<1>3. TypeOK'
  BY <1>1, <1>2 DEF IInv, TypeOK
<1> QED BY <1>1, <1>3, QuietStep

(* Time takes one tick from a key and from the execution that holds it.      *)
LEMMA TickKeeps ==
    ASSUME IInv, Tick
    PROVE  IInv'
<1>1. \A p \in Processes :
          /\ proc'[p].pc = proc[p].pc /\ proc'[p].op = proc[p].op
          /\ proc'[p].msg = proc[p].msg
          /\ proc'[p].elapsed = IF At(p, "idle") \/ proc[p].elapsed = HardLimit
                                THEN proc[p].elapsed ELSE proc[p].elapsed + 1
  BY DEF IInv, TypeOK, Tick
<1>2. proc' \in [Processes -> ProcType]
  <2>1. ASSUME NEW p \in Processes
        PROVE  (IF At(p, "idle") \/ proc[p].elapsed = HardLimit THEN proc[p]
                ELSE [proc[p] EXCEPT !.elapsed = @ + 1]) \in ProcType
    <3>1. proc[p] \in ProcType
      BY DEF IInv, TypeOK, ProcType
    <3>2. proc[p].elapsed # HardLimit => proc[p].elapsed + 1 \in 0 .. HardLimit
      BY <3>1, MaintenanceAssumption DEF ProcType
    <3> QED BY <3>1, <3>2 DEF ProcType
  <2> QED BY <2>1 DEF Tick
<1>3. \A o \in Ops :
          /\ lock[o].left <= 1 => lock'[o] = Free
          /\ lock[o].left > 1 => /\ lock'[o].owner = lock[o].owner
                                 /\ lock'[o].left = lock[o].left - 1
  BY DEF IInv, TypeOK, Tick, KeysAge
<1>4. lock' \in [Ops -> LockType]
  BY MaintenanceAssumption DEF IInv, TypeOK, Tick, KeysAge, LockType, Free
<1>5. TypeOK'
  BY <1>2, <1>4 DEF IInv, TypeOK, Tick, ProcType, LockType
<1>6. ASSUME NEW p \in Processes
      PROVE  Busy(p)' /\ Holds(p)'
  <2>1. Busy(p)'
    BY <1>1, <1>6 DEF IInv, Busy, At, OpOf
  <2>2. ASSUME proc'[p].pc \in Holding, ~MayOutlive(p)'
        PROVE  /\ lock'[OpOf(p)'].owner = p
               /\ lock'[OpOf(p)'].left > HardLimit - proc'[p].elapsed
    <3>1. /\ OpOf(p)' = OpOf(p) /\ OpOf(p) \in Ops /\ ~MayOutlive(p)
          /\ proc[p].pc \in Holding /\ ~At(p, "idle")
      BY <1>1, <1>6, <2>2 DEF IInv, Busy, At, OpOf, Holding, MayOutlive, Limited
    <3>2. /\ lock[OpOf(p)].owner = p
          /\ lock[OpOf(p)].left > HardLimit - proc[p].elapsed
      BY <3>1 DEF IInv, Holds
    <3>3. proc[p].elapsed < HardLimit
      BY <1>6, <3>1 DEF Tick
    <3>4. /\ proc[p].elapsed \in Nat /\ HardLimit \in Nat
          /\ lock[OpOf(p)].left \in Nat
      BY <3>1, MaintenanceAssumption DEF IInv, TypeOK
    <3>5. lock[OpOf(p)].left > 1 /\ proc'[p].elapsed = proc[p].elapsed + 1
      BY <1>1, <3>1, <3>2, <3>3, <3>4
    <3> QED BY <1>3, <3>1, <3>2, <3>4, <3>5
  <2> QED BY <2>1, <2>2 DEF Holds
<1>7. Leased'
  BY <1>3 DEF IInv, TypeOK, Leased, Free
<1> QED BY <1>5, <1>6, <1>7 DEF IInv

LEMMA InvStep == IInv /\ [Next]_vars => IInv'
<1> SUFFICES ASSUME IInv, [Next]_vars PROVE IInv'
  OBVIOUS
<1>1. CASE UNCHANGED vars
  BY <1>1, QuietStep DEF vars, IInv, TypeOK
<1>2. CASE \E p \in Processes : Execute(p)
  BY <1>2, AcquireKeeps, EnterKeeps, ReleaseKeeps, AbortKeeps, WorkKeeps
     DEF Execute, StoreError
<1>3. CASE \E w \in Workers : SoftTimeLimit(w) \/ SoftLimitInLock(w)
  BY <1>3, SoftTimeLimitKeeps, AbortKeeps DEF SoftLimitInLock, Processes
<1>4. CASE (\E w \in Workers : HardTimeLimit(w)) \/ \E p \in Processes : ProcessLost(p)
  BY <1>4, DeathKeeps DEF Processes
<1>5. CASE \E c \in Commands, o \in Ops : CommandStarts(c, o)
  BY <1>5, StartKeeps DEF Processes
<1>6. CASE \E w \in Workers : \E m \in queue : Deliver(w, m)
  <2>1. PICK w \in Workers, m \in queue : Deliver(w, m)
    BY <1>6
  <2>2. m.op \in Ops
    BY DEF IInv, TypeOK, Message
  <2> QED BY <2>1, <2>2, StartKeeps DEF Processes
<1>7. CASE \/ \E o \in Ops : BeatPublishes(o)
           \/ \E w \in Workers : Redelivered(w)
  BY <1>7, BrokerKeeps
<1>8. CASE Tick
  BY <1>8, TickKeeps
<1> QED BY <1>1, <1>2, <1>3, <1>4, <1>5, <1>6, <1>7, <1>8
       DEF Next, ExecuteWorker, Processes

-----------------------------------------------------------------------------
(* Theorems                                                                  *)

(* The inductive invariant holds in every reachable state.                   *)
THEOREM Invariance == Spec => []IInv
BY InvInit, InvStep, PTL DEF Spec

(* Every variable keeps its type; for retries this is the retry budget.      *)
THEOREM TypeCorrect == Spec => []TypeOK
<1>1. IInv => TypeOK
  BY DEF IInv
<1> QED BY <1>1, Invariance, PTL

(* An execution with a hard limit owns its key, with time left to reach the  *)
(* limit, for as long as it works: the timeouts Settings accepts suffice,    *)
(* even beside commands that outlive theirs.                                 *)
THEOREM HeldSafe == Spec => []HeldOutlivesWork
<1>1. IInv => HeldOutlivesWork
  BY DEF IInv, Holds, HeldOutlivesWork, At, Holding, MayOutlive, Processes
<1> QED BY <1>1, Invariance, PTL

(* Two processes never do the same operation at once, unless work without a  *)
(* time limit outlives its key.                                              *)
THEOREM SingletonSafe == Spec => []Singleton
<1>1. IInv => Singleton
  BY DEF IInv, Holds, Singleton, At, OpOf, Holding, MayOutlive
<1> QED BY <1>1, Invariance, PTL

(* A key leaves its owner by its TTL or by a step of the owner itself.       *)
THEOREM OnlyOwnerReleasesSafe == Spec => OnlyOwnerReleases
<1>1. IInv /\ [Next]_vars =>
          [\A o \in Ops, p \in Processes :
              lock[o].owner = p /\ lock'[o].owner # p =>
                  lock[o].left = 1 \/ proc'[p] # proc[p]]_vars
  <2> SUFFICES ASSUME IInv, Next, NEW o \in Ops, NEW p \in Processes,
                      lock[o].owner = p, lock'[o].owner # p
               PROVE  lock[o].left = 1 \/ proc'[p] # proc[p]
    OBVIOUS
  <2>1. CASE Tick
    <3>1. lock[o].left \in Nat /\ lock[o].left > 0
      BY MaintenanceAssumption DEF IInv, TypeOK, Leased, Processes
    <3>2. ~(lock[o].left <= 1) => lock'[o].owner = lock[o].owner
      BY <2>1 DEF Tick, KeysAge
    <3> QED BY <3>1, <3>2
  <2>2. CASE \E q \in Processes : Acquire(q)
    <3>1. PICK q \in Processes : Acquire(q)
      BY <2>2
    <3>2. OpOf(q) \in Ops
      BY <3>1 DEF IInv, Acquire, Busy, At
    <3>3. lock[OpOf(q)].owner = Nobody /\ Locked(OpOf(q), q, LockTTL)
      BY <3>1, <3>2, SetLockLocked, MaintenanceAssumption DEF IInv, Acquire
    <3> QED BY <3>3, MaintenanceAssumption DEF Locked
  <2>4. CASE \E q \in Processes : ~At(q, "idle") /\ ~At(q, "acquire") /\ Stop(q)
                                   /\ (Forget(q, Nobody, 0) \/ LeaveToken(q))
    <3>1. PICK q \in Processes : ~At(q, "idle") /\ ~At(q, "acquire") /\ Stop(q)
                                 /\ (Forget(q, Nobody, 0) \/ LeaveToken(q))
      BY <2>4
    <3>2. Forgot(q, Nobody, 0) \/ Forgot(q, Orphan, lock[OpOf(q)].left)
      BY <3>1, ForgetForgot, LeaveTokenForgot, MaintenanceAssumption DEF IInv
    <3>3. q = p
      BY <3>2 DEF Forgot
    <3>4. Stopped(q)
      BY <3>1, StopStopped DEF IInv
    <3>5. proc'[p].pc = "idle" /\ proc[p].pc # "idle"
      BY <3>1, <3>3, <3>4 DEF Stopped, Idle, At
    <3> QED BY <3>5
  <2>5. ASSUME NEW q \in Processes, At(q, "idle") \/ At(q, "acquire"), LeaveToken(q)
        PROVE  UNCHANGED lock
    BY <2>5 DEF LeaveToken, Forget
  <2>6. CASE UNCHANGED lock
    BY <2>6
  <2>7. CASE \E q \in Processes : Release(q)
    BY <2>4, <2>7 DEF Release, At
  <2>9. CASE \/ \E q \in Workers : HardTimeLimit(q) \/ SoftLimitInLock(q)
            \/ \E q \in Processes : ProcessLost(q) \/ StoreError(q)
    <3>1. PICK q \in Processes : Stop(q) /\ LeaveToken(q)
      BY <2>9 DEF HardTimeLimit, SoftLimitInLock, ProcessLost, StoreError, Processes
    <3> QED BY <2>4, <2>5, <2>6, <3>1
  <2>10. CASE \E q \in Processes : \/ Enter(q) \/ WorkSucceeds(q) \/ EvaluationPublishes(q)
                                  \/ WorkFails(q)
    BY <2>6, <2>10 DEF Enter, WorkSucceeds, EvaluationPublishes, WorkFails, Fail
  <2>11. CASE \E q \in Workers : SoftTimeLimit(q) \/ Redelivered(q)
    BY <2>6, <2>11 DEF SoftTimeLimit, Fail, Redelivered
  <2>12. CASE \E q \in Workers : \E m \in queue : Deliver(q, m)
    BY <2>6, <2>12 DEF Deliver
  <2>13. CASE \E u \in Ops : BeatPublishes(u) \/ \E c \in Commands : CommandStarts(c, u)
    BY <2>6, <2>13 DEF BeatPublishes, CommandStarts
  <2>14. CASE \E q \in Processes : Execute(q)
    BY <2>2, <2>7, <2>9, <2>10, <2>14 DEF Execute
  <2> QED BY <2>1, <2>9, <2>11, <2>12, <2>13, <2>14 DEF Next, ExecuteWorker, Processes
<1> QED BY <1>1, Invariance, PTL DEF Spec, OnlyOwnerReleases

(* A key stays behind its execution only when the process dies or a call of  *)
(* the lock itself fails or is cut short: no run is skipped because earlier  *)
(* work merely failed, retried or ran into the soft limit.                   *)
THEOREM WorkGivesKeyBackSafe == Spec => WorkGivesKeyBack
<1>1. IInv /\ [Next]_vars =>
          [\A o \in Ops, p \in Processes :
              lock[o].owner = p /\ lock'[o].owner = Orphan =>
                  \/ ProcessLost(p)
                  \/ p \in Workers /\ HardTimeLimit(p)
                  \/ /\ ~At(p, "working")
                     /\ StoreError(p) \/ (p \in Workers /\ SoftLimitInLock(p))]_vars
  <2> DEFINE Excuse(p) ==
          \/ ProcessLost(p)
          \/ p \in Workers /\ HardTimeLimit(p)
          \/ /\ ~At(p, "working")
             /\ StoreError(p) \/ (p \in Workers /\ SoftLimitInLock(p))
  <2> SUFFICES ASSUME IInv, Next, NEW o \in Ops, NEW p \in Processes,
                      lock[o].owner = p, lock'[o].owner = Orphan
               PROVE  Excuse(p)
    OBVIOUS
  <2>1. p # Orphan /\ p # Nobody /\ Nobody # Orphan
    BY MaintenanceAssumption
  <2>2. ~UNCHANGED lock
    BY <2>1
  <2>3. ASSUME Tick PROVE FALSE
    BY <2>1, <2>3 DEF Tick, KeysAge, Free
  <2>4. ASSUME NEW q \in Processes, Acquire(q) PROVE FALSE
    <3>1. OpOf(q) \in Ops
      BY <2>4 DEF IInv, Acquire, Busy, At
    <3>2. lock[OpOf(q)].owner = Nobody /\ Locked(OpOf(q), q, LockTTL)
      BY <2>2, <2>4, <3>1, SetLockLocked, MaintenanceAssumption DEF IInv, Acquire
    <3> QED BY <2>1, <3>1, <3>2 DEF Locked
  <2>5. ASSUME NEW q \in Processes, Release(q) PROVE FALSE
    <3>1. Forgot(q, Nobody, 0)
      BY <2>5, ForgetForgot, MaintenanceAssumption DEF Release, IInv
    <3> QED BY <2>1, <3>1 DEF Forgot
  <2>6. ASSUME NEW q \in Processes, LeaveToken(q) PROVE q = p
    <3>1. Forgot(q, Orphan, lock[OpOf(q)].left)
      BY <2>6, LeaveTokenForgot DEF IInv
    <3> QED BY <2>1, <3>1 DEF Forgot
  <2>7. ASSUME NEW q \in Processes, StoreError(q) PROVE Excuse(p)
    <3>1. q = p
      BY <2>6, <2>7 DEF StoreError
    <3> QED BY <2>7, <3>1 DEF StoreError, At
  <2>8. ASSUME NEW q \in Workers, HardTimeLimit(q) \/ SoftLimitInLock(q) PROVE Excuse(p)
    <3>1. q = p
      BY <2>6, <2>8 DEF HardTimeLimit, SoftLimitInLock, Processes
    <3> QED BY <2>8, <3>1 DEF SoftLimitInLock, At
  <2>9. ASSUME NEW q \in Processes, ProcessLost(q) PROVE Excuse(p)
    <3>1. q = p
      BY <2>6, <2>9 DEF ProcessLost
    <3> QED BY <2>9, <3>1
  <2>10. ASSUME NEW q \in Processes, Execute(q) PROVE StoreError(q)
    BY <2>2, <2>4, <2>5, <2>10
       DEF Execute, Enter, WorkSucceeds, EvaluationPublishes, WorkFails, Fail
  <2>11. ASSUME NEW q \in Workers, ExecuteWorker(q) PROVE Excuse(p)
    <3>1. StoreError(q) \/ SoftLimitInLock(q) \/ HardTimeLimit(q)
      BY <2>2, <2>10, <2>11 DEF ExecuteWorker, Processes, Deliver, SoftTimeLimit, Fail
    <3> QED BY <2>7, <2>8, <3>1 DEF Processes
  <2>12. ~(\E u \in Ops : BeatPublishes(u))
    BY <2>2 DEF BeatPublishes
  <2>13. \A q \in Workers : ~Redelivered(q)
    BY <2>2 DEF Redelivered
  <2>14. \A c \in Commands : \A u \in Ops : ~CommandStarts(c, u)
    BY <2>2 DEF CommandStarts
  <2> HIDE DEF Excuse
  <2> QED BY <2>3, <2>7, <2>9, <2>10, <2>11, <2>12, <2>13, <2>14 DEF Next, Processes
<1> QED BY <1>1, Invariance, PTL DEF Spec, WorkGivesKeyBack

=============================================================================
