------------------------- MODULE ModelRegistryProofs -------------------------
(* Theorems about ModelRegistry.  What a promotion selected stays sound      *)
(* because only one operator works at a time, because it selects what it     *)
(* validated and removes only what is not selected, and because a recovery,  *)
(* which may take the pointer from it at any moment, leaves no lineage.      *)
EXTENDS ModelRegistry, FiniteLemmas

OperatorType == [pc : OperatorPC, retrains : BOOLEAN, target : Selection,
                 previous : Lineage, doomed : SUBSET Versions]
ApiType      == [pc : ApiPC, seen : Selection, target : Lineage, recovered : BOOLEAN]

(* The pointer was written by a promotion over an earlier selection.         *)
Promoted == pointer.version # NoVersion /\ pointer.previous # NoVersion

Sound(v) == bundle[v] \in {"valid", "damaged"}

(* The lock: at most one operator works.                                     *)
OneOperator == \A o, p \in Operators : ~At(o, "idle") /\ ~At(p, "idle") => o = p

(* The sound bundles newer than all a retention has still to remove, beside  *)
(* the selection it read.                                                    *)
Kept(o) == {u \in Versions : /\ Sound(u) /\ u # Target(o)
                             /\ \A v \in operator[o].doomed : u > v}

(* What the operator that works knows about its bundle.                      *)
OperatorKnows(o) ==
    /\ operator[o].pc \in {"rename", "validate_build", "validate", "read_pointer",
                           "write_pointer"} => Target(o) \in Versions
    /\ At(o, "build") => trained < MaxVersion
    /\ operator[o].pc \in {"rename", "validate_build"} /\ Promoted => pointer.version # Target(o)
    /\ operator[o].pc \in {"read_pointer", "write_pointer"} => Sound(Target(o))
    /\ operator[o].pc \in {"rename", "validate_build", "validate", "read_pointer",
                           "write_pointer"} => Target(o) <= trained
    /\ operator[o].pc \in {"list", "remove"} /\ Promoted => pointer.version = Target(o)
    /\ Target(o) \notin operator[o].doomed
    /\ \A v \in operator[o].doomed : v <= trained
    /\ operator[o].doomed # {} => At(o, "remove")
    /\ At(o, "rename") => bundle[Target(o)] = "absent"
    /\ operator[o].doomed # {} => Cardinality(Kept(o)) >= KeepPrevious

(* A bundle that is there was drawn, and so was what a promotion selected.   *)
Drawn ==
    /\ \A v \in Versions : bundle[v] # "absent" => v <= trained
    /\ Promoted => pointer.version <= trained

(* The restored selection is named before it is written.                     *)
ApiKnows(a) ==
    /\ In(a, "recover_write") => api[a].target \in Versions
    /\ In(a, "recover_validate") => api[a].target # NoVersion

IInv ==
    /\ TypeOK
    /\ OneOperator
    /\ \A o \in Operators : OperatorKnows(o)
    /\ Drawn
    /\ \A a \in Apis : ApiKnows(a)
    /\ PromotedIsSound

-----------------------------------------------------------------------------
(* Frames                                                                    *)

THEOREM InitKeeps == Init => IInv
<1> SUFFICES ASSUME Init PROVE IInv
  OBVIOUS
<1>1. TypeOK
  BY RegistryAssumption DEF Init, TypeOK, IdleOperator, DownApi, OperatorPC, ApiPC,
     BundleState, Selection, Lineage
<1>2. OneOperator /\ \A o \in Operators : OperatorKnows(o)
  BY DEF Init, OneOperator, OperatorKnows, At, Target, IdleOperator
<1>3. Drawn /\ PromotedIsSound
  BY DEF Init, Drawn, Promoted, PromotedIsSound
<1>4. \A a \in Apis : ApiKnows(a)
  BY DEF Init, ApiKnows, In, DownApi
<1> QED BY <1>1, <1>2, <1>3, <1>4 DEF IInv

LEMMA KeptFinite ==
    ASSUME NEW o
    PROVE  IsFiniteSet(Versions) /\ IsFiniteSet(Kept(o)) /\ Cardinality(Kept(o)) \in Nat
<1>1. IsFiniteSet(Versions)
  BY FS_Interval, RegistryAssumption DEF Versions
<1>2. Kept(o) \subseteq Versions
  BY DEF Kept
<1> QED BY <1>1, <1>2, FS_Subset, FS_CardinalityType

(* Bundles that stay sound, with no more to remove, are kept.                *)
LEMMA KeptStays ==
    ASSUME NEW o \in Operators, operator'[o].target = operator[o].target,
           operator'[o].doomed \subseteq operator[o].doomed,
           \A u \in Kept(o) : Sound(u)'
    PROVE  Kept(o) \subseteq Kept(o)' /\ Cardinality(Kept(o)') >= Cardinality(Kept(o))
<1>1. Kept(o) \subseteq Kept(o)'
  BY DEF Kept, Target
<1>2. IsFiniteSet(Kept(o)') /\ Cardinality(Kept(o)') \in Nat
  <2>1. Kept(o)' \subseteq Versions
    BY DEF Kept
  <2> QED BY <2>1, KeptFinite, FS_Subset, FS_CardinalityType
<1> QED BY <1>1, <1>2, KeptFinite, FS_Subset

(* Nothing about an operator that is idle or has nothing more to remove.     *)
LEMMA KnowsStays ==
    ASSUME IInv, UNCHANGED <<operator, trained>>,
           \A u \in Versions : Sound(u) => Sound(u)',
           \A u \in Versions : bundle[u] = "absent" => bundle'[u] = "absent",
           Promoted' => Promoted /\ pointer' = pointer,
           NEW o \in Operators
    PROVE  OperatorKnows(o)'
<1>1. \A u \in Kept(o) : Sound(u)'
  BY DEF Kept
<1>2. Cardinality(Kept(o)') >= Cardinality(Kept(o))
  BY <1>1, KeptStays
<1>3. operator[o].doomed # {} => Cardinality(Kept(o)') >= KeepPrevious
  <2>1. Cardinality(Kept(o)) \in Nat /\ Cardinality(Kept(o)') \in Nat
    <3>1. Kept(o)' \subseteq Versions
      BY DEF Kept
    <3> QED BY <3>1, KeptFinite, FS_Subset, FS_CardinalityType
  <2> QED BY <1>2, <2>1, RegistryAssumption DEF IInv, OperatorKnows
<1> QED BY <1>3 DEF IInv, OperatorKnows, At, Target, Promoted

(* An API process moves, and at most takes the lineage from the pointer.     *)
LEMMA ApiFrame ==
    ASSUME IInv, NEW a \in Apis, TypeOK', ApiKnows(a)',
           \A b \in Apis : b # a => api'[b] = api[b],
           UNCHANGED <<bundle, operator, trained>>,
           pointer' = pointer \/ pointer'.previous = NoVersion
    PROVE  IInv'
<1>1. OneOperator' /\ (Promoted' => Promoted /\ pointer' = pointer)
  BY DEF IInv, OneOperator, At, Promoted
<1>2. \A o \in Operators : OperatorKnows(o)'
  BY <1>1, KnowsStays DEF Sound
<1>3. Drawn' /\ PromotedIsSound'
  BY <1>1 DEF IInv, Drawn, PromotedIsSound, Promoted
<1>4. \A b \in Apis : ApiKnows(b)'
  BY DEF IInv, ApiKnows, In
<1> QED BY <1>1, <1>2, <1>3, <1>4 DEF IInv

(* Only the operator that works moves.                                       *)
Alone(o) == \A p \in Operators : p # o => operator'[p] = operator[p] /\ At(p, "idle")

LEMMA OperatorFrame ==
    ASSUME IInv, NEW o \in Operators, Alone(o), UNCHANGED api,
           TypeOK', OperatorKnows(o)', Drawn', PromotedIsSound'
    PROVE  IInv'
<1>1. OneOperator'
  BY DEF Alone, OneOperator, At
<1>2. \A p \in Operators : OperatorKnows(p)'
  <2> SUFFICES ASSUME NEW p \in Operators, p # o PROVE OperatorKnows(p)'
    OBVIOUS
  <2>1. operator'[p] = operator[p] /\ operator[p].pc = "idle"
    BY DEF Alone, At
  <2>2. operator[p].doomed = {}
    BY <2>1 DEF IInv, OperatorKnows, At
  <2> QED BY <2>1, <2>2 DEF OperatorKnows, At, Target
<1>3. \A a \in Apis : ApiKnows(a)'
  BY DEF IInv, ApiKnows, In
<1> QED BY <1>1, <1>2, <1>3 DEF IInv

(* A step of an operator that only records what it read.                     *)
LEMMA QuietFrame ==
    ASSUME IInv, NEW o \in Operators, Alone(o), UNCHANGED <<bundle, pointer, api, trained, faults>>,
           operator' \in [Operators -> OperatorType], OperatorKnows(o)'
    PROVE  IInv'
<1>1. TypeOK'
  BY DEF IInv, TypeOK, OperatorType
<1>2. Drawn' /\ PromotedIsSound'
  BY DEF IInv, Drawn, Promoted, PromotedIsSound
<1> QED BY <1>1, <1>2, OperatorFrame

(* The record of the operator that works is replaced by another one.         *)
LEMMA Replaced ==
    ASSUME IInv, NEW o \in Operators, NEW r \in OperatorType,
           operator' = [operator EXCEPT ![o] = r],
           ~At(o, "idle") \/ LockIsFree
    PROVE  operator' \in [Operators -> OperatorType] /\ operator'[o] = r /\ Alone(o)
<1>1. operator \in [Operators -> OperatorType]
  BY DEF IInv, TypeOK, OperatorType
<1>2. operator' \in [Operators -> OperatorType] /\ operator'[o] = r
  BY <1>1
<1>3. \A p \in Operators : p # o => operator'[p] = operator[p]
  BY <1>1
<1>4. \A p \in Operators : p # o => At(p, "idle")
  BY DEF IInv, OneOperator, LockIsFree
<1> QED BY <1>2, <1>3, <1>4 DEF Alone

LEMMA WentOn ==
    ASSUME IInv, NEW o \in Operators, NEW pc \in OperatorPC, Goto(o, pc),
           ~At(o, "idle") \/ LockIsFree
    PROVE  /\ operator' \in [Operators -> OperatorType] /\ Alone(o)
           /\ operator'[o] = [operator[o] EXCEPT !.pc = pc]
<1>1. operator[o] \in OperatorType
  BY DEF IInv, TypeOK, OperatorType
<1>2. [operator[o] EXCEPT !.pc = pc] \in OperatorType
  BY <1>1 DEF OperatorType
<1>3. operator' = [operator EXCEPT ![o] = [operator[o] EXCEPT !.pc = pc]]
  BY DEF Goto
<1> QED BY <1>2, <1>3, Replaced

LEMMA Stopped ==
    ASSUME IInv, NEW o \in Operators, Stop(o), ~At(o, "idle")
    PROVE  /\ operator' \in [Operators -> OperatorType] /\ Alone(o)
           /\ OperatorKnows(o)'
<1>1. IdleOperator \in OperatorType
  BY DEF IdleOperator, OperatorType, OperatorPC, Selection, Lineage
<1>2. /\ operator' \in [Operators -> OperatorType] /\ Alone(o)
      /\ operator'[o] = IdleOperator
  BY <1>1, Replaced DEF Stop
<1> QED BY <1>2 DEF OperatorKnows, At, Target, IdleOperator

-----------------------------------------------------------------------------
(* Operators                                                                 *)

(* Starting, deciding, validating and reading.                               *)
LEMMA StartKeeps ==
    ASSUME IInv, NEW o \in Operators, StartRetrain(o) \/ StartRollback(o)
    PROVE  IInv'
<1>0. /\ operator \in [Operators -> OperatorType] /\ operator[o] \in OperatorType
      /\ operator[o].pc = "idle" /\ operator[o].doomed = {}
  BY DEF IInv, TypeOK, OperatorType, StartRetrain, StartRollback, LockIsFree, At, OperatorKnows
<1>1. PICK pc \in {"evaluate", "select"}, b \in BOOLEAN :
          operator' = [operator EXCEPT ![o] = [operator[o] EXCEPT !.pc = pc, !.retrains = b]]
  <2>1. CASE StartRetrain(o)
    BY <2>1 DEF StartRetrain
  <2>2. CASE StartRollback(o)
    <3>1. [operator[o] EXCEPT !.pc = "select"]
             = [operator[o] EXCEPT !.pc = "select", !.retrains = operator[o].retrains]
      BY <1>0 DEF OperatorType
    <3>2. operator[o].retrains \in BOOLEAN
      BY <1>0 DEF OperatorType
    <3> QED BY <2>2, <3>1, <3>2 DEF StartRollback, Goto
  <2> QED BY <2>1, <2>2
<1>2. [operator[o] EXCEPT !.pc = pc, !.retrains = b] \in OperatorType
  BY <1>0 DEF OperatorType, OperatorPC
<1>3. /\ operator' \in [Operators -> OperatorType] /\ Alone(o)
      /\ operator'[o] = [operator[o] EXCEPT !.pc = pc, !.retrains = b]
  BY <1>1, <1>2, Replaced DEF StartRetrain, StartRollback
<1>4. OperatorKnows(o)'
  <2>1. /\ operator'[o].pc \in {"evaluate", "select"}
        /\ operator'[o].doomed = {}
    BY <1>0, <1>3 DEF OperatorType
  <2> QED BY <2>1 DEF OperatorKnows, At, Target
<1> QED BY <1>3, <1>4, QuietFrame DEF StartRetrain, StartRollback

(* An operator that records a new target or lineage on its way.              *)
LEMMA Recorded ==
    ASSUME IInv, NEW o \in Operators, ~At(o, "idle"),
           NEW pc \in OperatorPC, NEW t \in Selection, NEW q \in Lineage,
           operator' = [operator EXCEPT ![o] = [operator[o] EXCEPT
                           !.pc = pc, !.target = t, !.previous = q]]
    PROVE  /\ operator' \in [Operators -> OperatorType] /\ Alone(o)
           /\ operator'[o].pc = pc /\ operator'[o].target = t
           /\ operator'[o].doomed = operator[o].doomed
<1>1. operator[o] \in OperatorType
  BY DEF IInv, TypeOK, OperatorType
<1>2. [operator[o] EXCEPT !.pc = pc, !.target = t, !.previous = q] \in OperatorType
  BY <1>1 DEF OperatorType
<1>3. /\ operator' \in [Operators -> OperatorType] /\ Alone(o)
      /\ operator'[o] = [operator[o] EXCEPT !.pc = pc, !.target = t, !.previous = q]
  BY <1>2, Replaced
<1> QED BY <1>1, <1>3 DEF OperatorType

LEMMA ValidBundleSound ==
    ASSUME NEW v \in Versions, Validates(v)
    PROVE  Sound(v) /\ bundle[v] # "absent"
BY DEF Validates, Sound

LEMMA DecideKeeps ==
    ASSUME IInv, NEW o \in Operators,
           \/ Evaluate(o) \/ ValidateBuild(o) \/ Validate(o)
    PROVE  IInv'
<1>1. ~At(o, "idle") /\ UNCHANGED <<bundle, pointer, api, trained, faults>>
  BY DEF Evaluate, ValidateBuild, Validate, At
<1>2. CASE Stop(o)
  BY <1>1, <1>2, Stopped, QuietFrame
<1>3. CASE ~Stop(o)
  <2>1. PICK pc \in {"build", "validate", "read_pointer"} : Goto(o, pc)
    BY <1>3 DEF Evaluate, ValidateBuild, Validate
  <2>2. /\ operator' \in [Operators -> OperatorType] /\ Alone(o)
        /\ operator'[o] = [operator[o] EXCEPT !.pc = pc]
    BY <1>1, <2>1, WentOn DEF OperatorPC
  <2>3. /\ operator'[o].pc = pc /\ operator'[o].target = operator[o].target
        /\ operator'[o].doomed = operator[o].doomed
    BY <2>2 DEF IInv, TypeOK
  <2>4. operator[o].doomed = {}
    BY DEF IInv, OperatorKnows, At, Evaluate, ValidateBuild, Validate
  <2>5. CASE Evaluate(o)
    <3>1. pc = "build" /\ trained < MaxVersion
      BY <2>1, <2>3, <2>5, <1>3, <2>2 DEF Evaluate, Goto, IInv, TypeOK
    <3> QED BY <1>1, <2>2, <2>3, <2>4, <3>1, QuietFrame DEF OperatorKnows, At, Target
  <2>6. CASE ValidateBuild(o)
    <3>1. pc = "validate"
      BY <2>3, <2>6 DEF ValidateBuild, Goto, IInv, TypeOK
    <3>2. Target(o) \in Versions /\ Target(o) <= trained
      BY <2>6 DEF ValidateBuild, At, IInv, OperatorKnows
    <3> QED BY <1>1, <2>2, <2>3, <2>4, <3>1, <3>2, QuietFrame DEF OperatorKnows, At, Target
  <2>7. CASE Validate(o)
    <3>1. pc = "read_pointer" /\ Validates(Target(o))
      BY <1>3, <2>3, <2>7 DEF Validate, Goto, IInv, TypeOK
    <3>2. Target(o) \in Versions /\ Target(o) <= trained
      BY <2>7 DEF Validate, At, IInv, OperatorKnows
    <3>3. Sound(Target(o))
      BY <3>1, <3>2, ValidBundleSound
    <3> QED BY <1>1, <2>2, <2>3, <2>4, <3>1, <3>2, <3>3, QuietFrame
            DEF OperatorKnows, At, Target, Sound
  <2> QED BY <2>5, <2>6, <2>7
<1> QED BY <1>2, <1>3

LEMMA ReadKeeps ==
    ASSUME IInv, NEW o \in Operators,
           \/ SelectRollback(o) \/ ReadPointer(o) \/ Retain(o)
    PROVE  IInv'
<1>0. /\ operator[o] \in OperatorType /\ pointer.version \in Selection
      /\ ~At(o, "idle") /\ operator[o].doomed = {}
      /\ UNCHANGED <<bundle, pointer, api, trained, faults>>
  BY DEF IInv, TypeOK, OperatorType, OperatorKnows, At, SelectRollback, ReadPointer, Retain
<1>1. CASE SelectRollback(o) /\ Stop(o)
  BY <1>0, <1>1, Stopped, QuietFrame
<1>2. CASE SelectRollback(o) /\ ~Stop(o)
  <2>1. PICK v \in Versions :
            IsRollbackTarget(v) /\ operator' = [operator EXCEPT ![o].pc = "validate", ![o].target = v]
    BY <1>2 DEF SelectRollback
  <2>2. v <= trained
    BY <2>1 DEF IsRollbackTarget, IsNewest, RollbackTargets, ValidBundles, IInv, Drawn
  <2>3. operator' = [operator EXCEPT ![o] = [operator[o] EXCEPT
                        !.pc = "validate", !.target = v, !.previous = operator[o].previous]]
    BY <1>0, <2>1 DEF OperatorType
  <2>4. /\ operator' \in [Operators -> OperatorType] /\ Alone(o)
        /\ operator'[o].pc = "validate" /\ operator'[o].target = v /\ operator'[o].doomed = {}
    <3>1. "validate" \in OperatorPC /\ v \in Selection /\ operator[o].previous \in Lineage
      BY <1>0, <2>1 DEF OperatorType, OperatorPC, Selection
    <3> QED BY <1>0, <2>3, <3>1, Recorded
  <2> QED BY <1>0, <2>2, <2>4, QuietFrame DEF OperatorKnows, At, Target
<1>3. CASE ReadPointer(o)
  <2>1. PICK q \in Lineage :
            operator' = [operator EXCEPT ![o].pc = "write_pointer", ![o].previous = q]
    BY <1>0, <1>3 DEF ReadPointer, Lineage
  <2>2. operator' = [operator EXCEPT ![o] = [operator[o] EXCEPT
                        !.pc = "write_pointer", !.target = operator[o].target, !.previous = q]]
    BY <1>0, <2>1 DEF OperatorType
  <2>3. /\ operator' \in [Operators -> OperatorType] /\ Alone(o)
        /\ operator'[o].pc = "write_pointer" /\ operator'[o].target = operator[o].target
        /\ operator'[o].doomed = {}
    <3> DEFINE n == [operator[o] EXCEPT !.pc = "write_pointer",
                        !.target = operator[o].target, !.previous = q]
    <3>1. n \in OperatorType /\ n.pc = "write_pointer"
      BY <1>0, <2>1 DEF OperatorType, OperatorPC
    <3>2. n.target = operator[o].target /\ n.doomed = {}
      BY <1>0 DEF OperatorType
    <3> HIDE DEF n
    <3>3. operator' \in [Operators -> OperatorType] /\ Alone(o) /\ operator'[o] = n
      BY <1>0, <2>2, <3>1, Replaced DEF n
    <3> QED BY <3>1, <3>2, <3>3
  <2>4. Target(o) \in Versions /\ Sound(Target(o)) /\ Target(o) <= trained
    BY <1>3 DEF ReadPointer, At, IInv, OperatorKnows
  <2> QED BY <1>0, <2>3, <2>4, QuietFrame DEF OperatorKnows, At, Target, Sound
<1>4. CASE Retain(o)
  <2>1. operator' = [operator EXCEPT ![o] = [operator[o] EXCEPT
                        !.pc = "list", !.target = pointer.version, !.previous = operator[o].previous]]
    BY <1>0, <1>4 DEF Retain, OperatorType
  <2>2. /\ operator' \in [Operators -> OperatorType] /\ Alone(o)
        /\ operator'[o].pc = "list" /\ operator'[o].target = pointer.version
        /\ operator'[o].doomed = {}
    <3>1. "list" \in OperatorPC /\ operator[o].previous \in Lineage
      BY <1>0 DEF OperatorType, OperatorPC
    <3> QED BY <1>0, <2>1, <3>1, Recorded
  <2> QED BY <1>0, <2>2, QuietFrame DEF OperatorKnows, At, Target
<1> QED BY <1>1, <1>2, <1>3, <1>4

(* Drawing a version: nothing carries it yet.                                *)
LEMMA BuildKeeps ==
    ASSUME IInv, NEW o \in Operators, Build(o)
    PROVE  IInv'
<1>0. /\ operator[o] \in OperatorType /\ ~At(o, "idle") /\ operator[o].doomed = {}
      /\ trained < MaxVersion /\ trained \in 0 .. MaxVersion
  BY DEF IInv, TypeOK, OperatorType, OperatorKnows, At, Build
<1>1. trained + 1 \in Versions /\ trained' = trained + 1 /\ trained' \in 0 .. MaxVersion
  BY <1>0, RegistryAssumption DEF Build, Versions
<1>2. operator' = [operator EXCEPT ![o] = [operator[o] EXCEPT
                      !.pc = "rename", !.target = trained + 1, !.previous = operator[o].previous]]
  BY <1>0 DEF Build, OperatorType
<1>3. /\ operator' \in [Operators -> OperatorType] /\ Alone(o)
      /\ operator'[o].pc = "rename" /\ operator'[o].target = trained + 1
      /\ operator'[o].doomed = {}
  <2>1. "rename" \in OperatorPC /\ trained + 1 \in Selection /\ operator[o].previous \in Lineage
    BY <1>0, <1>1 DEF OperatorType, OperatorPC, Selection
  <2> QED BY <1>0, <1>2, <2>1, Recorded
<1>4. TypeOK'
  BY <1>1, <1>3 DEF Build, IInv, TypeOK, OperatorType
<1>5. Drawn' /\ PromotedIsSound' /\ (Promoted => pointer.version # trained + 1)
  <2>1. Promoted => pointer.version \in Versions /\ pointer.version <= trained
    BY DEF IInv, Drawn, Promoted, TypeOK, Selection
  <2>2. UNCHANGED <<bundle, pointer>>
    BY DEF Build
  <2>3. \A v \in Versions : v <= trained => v <= trained'
    BY <1>0, <1>1 DEF Versions
  <2>4. Promoted => pointer.version # trained + 1
    BY <1>0, <2>1 DEF Versions
  <2> QED BY <2>1, <2>2, <2>3, <2>4 DEF IInv, Drawn, Promoted, PromotedIsSound
<1>6. OperatorKnows(o)'
  <2>1. Promoted' => pointer'.version # operator'[o].target
    BY <1>3, <1>5 DEF Promoted, Build
  <2>2. operator'[o].target \in Versions /\ operator'[o].target <= trained'
    BY <1>0, <1>1, <1>3
  <2>3. bundle'[trained + 1] = "absent"
    <3>1. bundle[trained + 1] # "absent" => trained + 1 <= trained
      BY <1>1 DEF IInv, Drawn
    <3> QED BY <1>0, <3>1 DEF Build
  <2> QED BY <1>3, <2>1, <2>2, <2>3 DEF OperatorKnows, At, Target
<1> QED BY <1>3, <1>4, <1>5, <1>6, OperatorFrame DEF Build

(* One directory changes, and the pointer does not select it.                *)
LEMMA BundleStep ==
    ASSUME IInv, NEW v \in Versions, NEW s \in BundleState,
           bundle' = [bundle EXCEPT ![v] = s], UNCHANGED <<pointer, trained>>,
           s # "absent" => v <= trained,
           Promoted => pointer.version # v
    PROVE  bundle' \in [Versions -> BundleState] /\ Drawn' /\ PromotedIsSound'
<1>1. /\ bundle' \in [Versions -> BundleState] /\ bundle'[v] = s
      /\ \A u \in Versions : u # v => bundle'[u] = bundle[u]
  BY DEF IInv, TypeOK
<1>2. Drawn'
  BY <1>1 DEF IInv, Drawn, Promoted
<1>3. Promoted => pointer.version \in Versions
  BY DEF IInv, TypeOK, Promoted, Selection
<1>4. PromotedIsSound'
  BY <1>1, <1>3 DEF IInv, PromotedIsSound, Promoted
<1> QED BY <1>1, <1>2, <1>4

LEMMA CandidateKeeps ==
    ASSUME IInv, NEW o \in Operators, Rename(o) \/ BuildFails(o)
    PROVE  IInv'
<1>0. /\ operator[o] \in OperatorType /\ ~At(o, "idle") /\ operator[o].doomed = {}
      /\ Target(o) \in Versions /\ Target(o) <= trained
      /\ Promoted => pointer.version # Target(o)
      /\ UNCHANGED <<pointer, api, trained, faults>>
  BY DEF IInv, TypeOK, OperatorType, OperatorKnows, At, Rename, BuildFails
<1>1. PICK s \in BundleState : bundle' = [bundle EXCEPT ![Target(o)] = s]
  BY DEF Rename, BuildFails, BundleState
<1>2. bundle' \in [Versions -> BundleState] /\ Drawn' /\ PromotedIsSound'
  BY <1>0, <1>1, BundleStep
<1>3. operator' \in [Operators -> OperatorType] /\ Alone(o) /\ OperatorKnows(o)'
  <2>1. CASE Rename(o)
    <3>1. /\ operator' \in [Operators -> OperatorType] /\ Alone(o)
          /\ operator'[o] = [operator[o] EXCEPT !.pc = "validate_build"]
      BY <1>0, <2>1, WentOn DEF Rename, OperatorPC
    <3>2. /\ operator'[o].pc = "validate_build" /\ operator'[o].target = Target(o)
          /\ operator'[o].doomed = {}
      BY <1>0, <3>1 DEF OperatorType, Target
    <3>3. (Promoted' => pointer'.version # Target(o)) /\ trained' = trained
      BY <1>0 DEF Promoted
    <3> QED BY <1>0, <3>1, <3>2, <3>3 DEF OperatorKnows, At, Target
  <2>2. CASE BuildFails(o)
    BY <1>0, <2>2, Stopped DEF BuildFails
  <2> QED BY <2>1, <2>2
<1>4. TypeOK'
  BY <1>0, <1>2, <1>3 DEF IInv, TypeOK, OperatorType
<1> QED BY <1>0, <1>2, <1>3, <1>4, OperatorFrame

(* The pointer gets what was validated.                                      *)
LEMMA PromoteKeeps ==
    ASSUME IInv, NEW o \in Operators, Promote(o)
    PROVE  IInv'
<1>0. /\ operator[o] \in OperatorType /\ ~At(o, "idle") /\ operator[o].doomed = {}
      /\ Target(o) \in Versions /\ Target(o) <= trained /\ Sound(Target(o))
      /\ operator[o].previous \in Lineage
      /\ UNCHANGED <<bundle, api, trained, faults>>
  BY DEF IInv, TypeOK, OperatorType, OperatorKnows, At, Promote
<1>1. pointer' = [version |-> Target(o), previous |-> operator[o].previous]
  BY DEF Promote, WritePointer
<1>2. /\ pointer' \in [version : Selection, previous : Lineage]
      /\ pointer'.version = Target(o)
  BY <1>0, <1>1 DEF Selection
<1>3. Drawn' /\ PromotedIsSound'
  BY <1>0, <1>2 DEF IInv, Drawn, Promoted, PromotedIsSound, Sound
<1>4. operator' \in [Operators -> OperatorType] /\ Alone(o) /\ OperatorKnows(o)'
  <2>1. CASE Goto(o, "retain")
    <3>1. /\ operator' \in [Operators -> OperatorType] /\ Alone(o)
          /\ operator'[o] = [operator[o] EXCEPT !.pc = "retain"]
      BY <1>0, <2>1, WentOn DEF OperatorPC
    <3>2. operator'[o].pc = "retain" /\ operator'[o].doomed = {}
      BY <1>0, <3>1 DEF OperatorType
    <3> QED BY <3>1, <3>2 DEF OperatorKnows, At, Target
  <2>2. CASE Stop(o)
    BY <1>0, <2>2, Stopped
  <2> QED BY <2>1, <2>2 DEF Promote
<1>5. TypeOK'
  BY <1>0, <1>2, <1>4 DEF IInv, TypeOK, OperatorType
<1> QED BY <1>0, <1>3, <1>4, <1>5, OperatorFrame

(* Retention dooms neither what it read as current nor anything later.       *)
LEMMA ListKeeps ==
    ASSUME IInv, NEW o \in Operators, List(o)
    PROVE  IInv'
<1>0. /\ operator[o] \in OperatorType /\ ~At(o, "idle")
      /\ Promoted => pointer.version = Target(o)
      /\ UNCHANGED <<bundle, pointer, api, trained, faults>>
  BY DEF IInv, TypeOK, OperatorType, OperatorKnows, At, List
<1>1. /\ Doomed(o) \subseteq Versions /\ Target(o) \notin Doomed(o)
      /\ \A v \in Doomed(o) : v <= trained
  BY DEF Doomed, ValidBundles, IInv, Drawn
<1>2. operator' = [operator EXCEPT ![o] = [operator[o] EXCEPT !.pc = "remove", !.doomed = Doomed(o)]]
  BY <1>0 DEF List, OperatorType
<1>3. [operator[o] EXCEPT !.pc = "remove", !.doomed = Doomed(o)] \in OperatorType
  BY <1>0, <1>1 DEF OperatorType, OperatorPC
<1>4. /\ operator' \in [Operators -> OperatorType] /\ Alone(o)
      /\ operator'[o] = [operator[o] EXCEPT !.pc = "remove", !.doomed = Doomed(o)]
  BY <1>0, <1>2, <1>3, Replaced
<1>5. /\ operator'[o].pc = "remove" /\ operator'[o].target = Target(o)
      /\ operator'[o].doomed = Doomed(o)
  BY <1>0, <1>4 DEF OperatorType, Target
<1>6. (Promoted' => pointer'.version = Target(o)) /\ trained' = trained
  BY <1>0 DEF Promoted
<1>7. Doomed(o) # {} => Cardinality(Kept(o)') >= KeepPrevious
  <2> SUFFICES ASSUME Doomed(o) # {} PROVE Cardinality(Kept(o)') >= KeepPrevious
    OBVIOUS
  <2> DEFINE others == ValidBundles \ {Target(o)}
  <2>1. Doomed(o) \subseteq Int /\ \A v \in Doomed(o) : v <= MaxVersion
    BY <1>1, RegistryAssumption DEF Versions
  <2>2. PICK m \in Doomed(o) : \A v \in Doomed(o) : v <= m
    BY <2>1, GreatestOf, RegistryAssumption
  <2> DEFINE newer == {u \in others : u > m}
  <2>3. newer \subseteq Kept(o)'
    <3> SUFFICES ASSUME NEW u \in newer PROVE u \in Kept(o)'
      OBVIOUS
    <3>1. u \in Versions /\ u \in Int /\ bundle[u] = "valid" /\ u # Target(o)
      BY RegistryAssumption DEF ValidBundles, Versions
    <3>2. \A v \in Doomed(o) : u > v
      BY <2>1, <2>2, <3>1
    <3> QED BY <1>0, <1>5, <3>1, <3>2 DEF Kept, Sound, Target
  <2>4. IsFiniteSet(Versions) /\ newer \subseteq Versions /\ Kept(o)' \subseteq Versions
    BY KeptFinite DEF Kept, ValidBundles
  <2>5. /\ Cardinality(newer) \in Nat /\ Cardinality(Kept(o)') \in Nat
        /\ Cardinality(newer) <= Cardinality(Kept(o)')
    BY <2>3, <2>4, FS_Subset, FS_CardinalityType
  <2>6. ~(Cardinality(newer) < KeepPrevious)
    BY <2>2 DEF Doomed, NewestOf
  <2> QED BY <2>5, <2>6, RegistryAssumption
<1>8. OperatorKnows(o)'
  BY <1>1, <1>5, <1>6, <1>7 DEF OperatorKnows, At, Target
<1> QED BY <1>0, <1>4, <1>8, QuietFrame

(* What is removed, even half way, is not what is selected.                  *)
LEMMA RemovalKeeps ==
    ASSUME IInv, NEW o \in Operators, Remove(o) \/ OperatorDies(o)
    PROVE  IInv'
<1>0. /\ operator[o] \in OperatorType /\ ~At(o, "idle") /\ Target(o) \notin operator[o].doomed
      /\ operator[o].doomed # {} => (Promoted => pointer.version = Target(o))
      /\ UNCHANGED <<pointer, api, trained>>
  BY DEF IInv, TypeOK, OperatorType, OperatorKnows, At, Remove, OperatorDies
<1>1. faults' \in 0 .. MaxFaults
  BY RegistryAssumption DEF IInv, TypeOK, Remove, OperatorDies, Fault
<1>2. CASE UNCHANGED bundle /\ Stop(o)
  <2>1. operator' \in [Operators -> OperatorType] /\ Alone(o) /\ OperatorKnows(o)'
    BY <1>0, <1>2, Stopped
  <2>2. TypeOK'
    BY <1>0, <1>1, <1>2, <2>1 DEF IInv, TypeOK, OperatorType
  <2>3. Drawn' /\ PromotedIsSound'
    BY <1>0, <1>2 DEF IInv, Drawn, Promoted, PromotedIsSound
  <2> QED BY <1>0, <2>1, <2>2, <2>3, OperatorFrame
<1>3. CASE ~(UNCHANGED bundle /\ Stop(o))
  <2>1. PICK v \in operator[o].doomed, s \in {"absent", "incomplete"} :
            /\ bundle' = [bundle EXCEPT ![v] = s]
            /\ \/ Stop(o)
               \/ operator' = [operator EXCEPT ![o].doomed = @ \ {v}]
    BY <1>3 DEF Remove, OperatorDies, IsNewest
  <2>2. v \in Versions /\ (Promoted => pointer.version # v)
    BY <1>0, <2>1 DEF OperatorType
  <2>3. v <= trained /\ s \in BundleState
    BY <2>1 DEF IInv, OperatorKnows, BundleState
  <2>4. bundle' \in [Versions -> BundleState] /\ Drawn' /\ PromotedIsSound'
    BY <1>0, <2>1, <2>2, <2>3, BundleStep
  <2>5. operator' \in [Operators -> OperatorType] /\ Alone(o) /\ OperatorKnows(o)'
    <3>1. CASE Stop(o)
      BY <1>0, <3>1, Stopped
    <3>2. CASE operator' = [operator EXCEPT ![o].doomed = @ \ {v}]
      <4>1. [operator[o] EXCEPT !.doomed = @ \ {v}] \in OperatorType
        BY <1>0 DEF OperatorType
      <4>2. operator' = [operator EXCEPT ![o] = [operator[o] EXCEPT !.doomed = @ \ {v}]]
        BY <3>2
      <4>3. /\ operator' \in [Operators -> OperatorType] /\ Alone(o)
            /\ operator'[o] = [operator[o] EXCEPT !.doomed = @ \ {v}]
        BY <1>0, <4>1, <4>2, Replaced
      <4>4. /\ operator'[o].pc = "remove" /\ operator'[o].target = Target(o)
            /\ operator'[o].doomed \subseteq operator[o].doomed
        BY <1>0, <2>1, <4>3 DEF OperatorType, Target, IInv, OperatorKnows, At
      <4>5. (Promoted' => pointer'.version = Target(o)) /\ trained' = trained
        BY <1>0, <2>1 DEF Promoted
      <4>6. \A u \in operator[o].doomed : u <= trained
        BY DEF IInv, OperatorKnows
      <4>7. \A u \in Kept(o) : Sound(u)'
        <5> SUFFICES ASSUME NEW u \in Kept(o) PROVE Sound(u)'
          OBVIOUS
        <5>1. u \in Versions /\ Sound(u) /\ u > v
          BY <2>1 DEF Kept
        <5>2. u # v
          BY <5>1, <2>2, RegistryAssumption DEF Versions
        <5> QED BY <2>1, <5>1, <5>2 DEF Sound, IInv, TypeOK
      <4>8. Cardinality(Kept(o)') >= KeepPrevious
        <5>1. Cardinality(Kept(o)') >= Cardinality(Kept(o))
          BY <4>4, <4>7, KeptStays DEF Target
        <5>2. Cardinality(Kept(o)) >= KeepPrevious
          BY <2>1 DEF IInv, OperatorKnows
        <5>3. Kept(o)' \subseteq Versions
          BY DEF Kept
        <5>4. Cardinality(Kept(o)) \in Nat /\ Cardinality(Kept(o)') \in Nat
          BY <5>3, KeptFinite, FS_Subset, FS_CardinalityType
        <5> QED BY <5>1, <5>2, <5>4, RegistryAssumption
      <4> QED BY <1>0, <4>3, <4>4, <4>5, <4>6, <4>8 DEF OperatorKnows, At, Target
    <3> QED BY <2>1, <3>1, <3>2
  <2>6. TypeOK'
    BY <1>0, <1>1, <2>4, <2>5 DEF IInv, TypeOK, OperatorType
  <2> QED BY <1>0, <2>4, <2>5, <2>6, OperatorFrame
<1> QED BY <1>2, <1>3

-----------------------------------------------------------------------------
(* API processes and damage                                                  *)

(* The process goes on with any record of the right kind.                    *)
ApiMoves(a) ==
    /\ api' \in [Apis -> ApiType]
    /\ \A b \in Apis : b # a => api'[b] = api[b]
    /\ ApiKnows(a)'

LEMMA ApiMoved ==
    ASSUME NEW a \in Apis, api \in [Apis -> ApiType], NEW pc \in ApiPC,
           NEW s \in Selection, NEW t \in Lineage, NEW r \in BOOLEAN,
           pc = "recover_write" => t \in Versions,
           pc = "recover_validate" => t # NoVersion,
           api' = [api EXCEPT ![a] = [api[a] EXCEPT
                       !.pc = pc, !.seen = s, !.target = t, !.recovered = r]]
    PROVE  ApiMoves(a)
<1>1. /\ [api[a] EXCEPT !.pc = pc, !.seen = s, !.target = t, !.recovered = r] \in ApiType
      /\ [api[a] EXCEPT !.pc = pc, !.seen = s, !.target = t, !.recovered = r].pc = pc
      /\ [api[a] EXCEPT !.pc = pc, !.seen = s, !.target = t, !.recovered = r].target = t
  BY DEF ApiType
<1>2. /\ api' \in [Apis -> ApiType]
      /\ api'[a].pc = pc /\ api'[a].target = t
      /\ \A b \in Apis : b # a => api'[b] = api[b]
  BY <1>1
<1> QED BY <1>2 DEF ApiMoves, ApiKnows, In

LEMMA ApiKeeps ==
    ASSUME IInv, NEW a \in Apis, ServeModels(a) \/ ApiDies(a)
    PROVE  IInv'
<1>0. /\ api[a] \in ApiType /\ pointer.version \in Selection /\ pointer.previous \in Lineage
      /\ pointer \in [version : Selection, previous : Lineage]
      /\ NoVersion \notin Versions /\ LegacyFlat \notin Versions /\ LegacyFlat # NoVersion
  BY RegistryAssumption DEF IInv, TypeOK, ApiType, Versions
<1>1. UNCHANGED <<bundle, operator, trained>> /\ faults' \in 0 .. MaxFaults
  BY RegistryAssumption DEF IInv, TypeOK, ServeModels, ApiDies, Fault, StartApi, Resolve, Check,
     Recover, RecoverPointer, RecoverSelect, RecoverValidate, RecoverWrite, RecoverRename,
     Load, Watch, WatchResolve
<1>2. /\ api \in [Apis -> ApiType]
      /\ api[a].pc \in ApiPC /\ api[a].seen \in Selection /\ api[a].target \in Lineage
      /\ api[a].recovered \in BOOLEAN
  BY <1>0 DEF IInv, TypeOK, ApiType
<1>3. Selected \in Lineage
  BY <1>0 DEF Selected, Lineage, Selection
<1>4. ApiMoves(a)
  <2>1. CASE GoDown(a)
    <3>1. api' = [api EXCEPT ![a] = [api[a] EXCEPT
                  !.pc = "down", !.seen = NoVersion, !.target = NoVersion,
                  !.recovered = FALSE]]
      BY <1>0, <2>1 DEF GoDown, DownApi, ApiType
    <3>2. "down" \in ApiPC /\ NoVersion \in Selection /\ NoVersion \in Lineage
      BY DEF ApiPC, Selection, Lineage
    <3> QED BY <1>2, <3>1, <3>2, ApiMoved
  <2>2. CASE ResolveAgain(a)
    <3>1. api' = [api EXCEPT ![a] = [api[a] EXCEPT
                  !.pc = "resolve", !.seen = api[a].seen, !.target = api[a].target,
                  !.recovered = TRUE]]
      BY <1>2, <2>2 DEF ResolveAgain, ApiType
    <3> QED BY <1>2, <3>1, ApiMoved DEF ApiPC
  <2>3. ASSUME NEW pc \in ApiPC \ {"recover_write", "recover_validate"}, Move(a, pc)
        PROVE  ApiMoves(a)
    <3>1. api' = [api EXCEPT ![a] = [api[a] EXCEPT
                  !.pc = pc, !.seen = api[a].seen, !.target = api[a].target,
                  !.recovered = api[a].recovered]]
      BY <1>2, <2>3 DEF Move, ApiType
    <3> QED BY <1>2, <3>1, ApiMoved
  <2>4. CASE StartApi(a) \/ Check(a) \/ Load(a)
    BY <2>1, <2>3, <2>4 DEF StartApi, Check, Load, ApiPC
  <2>5. CASE Resolve(a)
    <3>1. api' = [api EXCEPT ![a] = [api[a] EXCEPT
                  !.pc = "check", !.seen = api[a].seen, !.target = Selected,
                  !.recovered = api[a].recovered]]
      BY <1>2, <2>5 DEF Resolve, ApiType
    <3> QED BY <1>2, <1>3, <3>1, ApiMoved DEF ApiPC
  <2>6. CASE Recover(a)
    <3>1. CASE ~GoDown(a)
      <4>1. api' = [api EXCEPT ![a] = [api[a] EXCEPT
                  !.pc = "recover_pointer", !.seen = pointer.version, !.target = api[a].target,
                  !.recovered = api[a].recovered]]
        BY <1>2, <2>6, <3>1 DEF Recover, ApiType
      <4> QED BY <1>0, <1>2, <4>1, ApiMoved DEF ApiPC
    <3> QED BY <2>1, <3>1
  <2>7. CASE RecoverPointer(a)
    <3>1. CASE ~GoDown(a)
      <4>1. PICK pc \in {"recover_select", "recover_validate"} :
                /\ pc = "recover_validate" => pointer.previous # NoVersion
                /\ api' = [api EXCEPT ![a].pc = pc, ![a].target = pointer.previous]
        BY <2>7, <3>1 DEF RecoverPointer
      <4>2. api' = [api EXCEPT ![a] = [api[a] EXCEPT
                  !.pc = pc, !.seen = api[a].seen, !.target = pointer.previous,
                  !.recovered = api[a].recovered]]
        BY <1>0, <1>2, <4>1 DEF ApiType
      <4>3. pc \in ApiPC /\ pc # "recover_write"
        BY <4>1 DEF ApiPC
      <4>4. pc = "recover_validate" => pointer.previous # NoVersion
        BY <4>1
      <4>5. pointer.previous \in Lineage
        BY <1>0
      <4> QED BY <1>2, <4>2, <4>3, <4>4, <4>5, ApiMoved
    <3> QED BY <2>1, <3>1
  <2>8. CASE RecoverSelect(a)
    <3>1. CASE ~GoDown(a)
      <4>1. PICK v \in Versions :
                api' = [api EXCEPT ![a].pc = "recover_validate", ![a].target = v]
        BY <2>8, <3>1 DEF RecoverSelect
      <4>2. PICK pc \in ApiPC : pc = "recover_validate"
        BY DEF ApiPC
      <4>3. api' = [api EXCEPT ![a] = [api[a] EXCEPT
                  !.pc = pc, !.seen = api[a].seen, !.target = v,
                  !.recovered = api[a].recovered]]
        BY <1>0, <1>2, <4>1, <4>2 DEF ApiType
      <4>4. v \in Lineage /\ v # NoVersion
        BY <1>0 DEF Lineage, Selection
      <4>5. pc # "recover_write" /\ pc \in ApiPC
        BY <4>2
      <4> QED BY <1>2, <4>3, <4>4, <4>5, ApiMoved
    <3> QED BY <2>1, <3>1
  <2>9. CASE RecoverValidate(a)
    <3>1. api[a].target # NoVersion
      BY <2>9 DEF RecoverValidate, IInv, ApiKnows
    <3>2. CASE ~GoDown(a)
      <4>1. PICK pc \in {"recover_rename", "recover_write"} :
                /\ pc = "recover_write" => api[a].target # LegacyFlat
                /\ Move(a, pc)
        BY <2>9, <3>2 DEF RecoverValidate
      <4>2. api' = [api EXCEPT ![a] = [api[a] EXCEPT
                  !.pc = pc, !.seen = api[a].seen, !.target = api[a].target,
                  !.recovered = api[a].recovered]]
        BY <1>2, <4>1 DEF Move, ApiType
      <4>3. pc \in ApiPC /\ pc # "recover_validate"
        BY DEF ApiPC
      <4>4. pc = "recover_write" => api[a].target \in Versions
        BY <1>2, <3>1, <4>1 DEF Lineage, Selection
      <4> QED BY <1>2, <4>2, <4>3, <4>4, ApiMoved
    <3> QED BY <2>1, <3>2
  <2>10. CASE RecoverWrite(a) \/ RecoverRename(a)
    BY <2>1, <2>2, <2>10 DEF RecoverWrite, RecoverRename
  <2>11. CASE Watch(a)
    <3>1. api' = [api EXCEPT ![a] = [api[a] EXCEPT
                  !.pc = "watch", !.seen = pointer.version, !.target = api[a].target,
                  !.recovered = api[a].recovered]]
      BY <1>2, <2>11 DEF Watch, ApiType
    <3> QED BY <1>0, <1>2, <3>1, ApiMoved DEF ApiPC
  <2>12. CASE WatchResolve(a)
    <3>1. CASE ~GoDown(a)
      <4>1. api' = [api EXCEPT ![a] = [api[a] EXCEPT
                  !.pc = "serving", !.seen = NoVersion, !.target = api[a].target,
                  !.recovered = api[a].recovered]]
        BY <1>2, <2>12, <3>1 DEF WatchResolve, ApiType
      <4> QED BY <1>2, <4>1, ApiMoved DEF ApiPC, Selection
    <3> QED BY <2>1, <3>1
  <2>13. CASE ApiDies(a)
    BY <2>1, <2>13 DEF ApiDies
  <2> QED BY <2>4, <2>5, <2>6, <2>7, <2>8, <2>9, <2>10, <2>11, <2>12, <2>13 DEF ServeModels
<1>5. /\ pointer' = pointer \/ pointer'.previous = NoVersion
      /\ pointer' \in [version : Selection, previous : Lineage]
  <2>1. CASE RecoverWrite(a)
    <3>1. api[a].target \in Versions
      BY <2>1 DEF RecoverWrite, IInv, ApiKnows
    <3> QED BY <2>1, <3>1 DEF RecoverWrite, WritePointer, Selection, Lineage
  <2>2. CASE RecoverRename(a)
    BY <1>0, <2>2 DEF RecoverRename, WritePointer, Selection, Lineage
  <2>3. CASE ~RecoverWrite(a) /\ ~RecoverRename(a)
    BY <1>0, <2>3 DEF ServeModels, ApiDies, StartApi, Resolve, Check, Recover, RecoverPointer,
       RecoverSelect, RecoverValidate, Load, Watch, WatchResolve
  <2> QED BY <2>1, <2>2, <2>3
<1>6. TypeOK'
  BY <1>1, <1>4, <1>5 DEF IInv, TypeOK, ApiMoves, ApiType
<1> QED BY <1>1, <1>4, <1>5, <1>6, ApiFrame DEF ApiMoves

LEMMA DamageKeeps ==
    ASSUME IInv, NEW v \in Versions, Damage(v)
    PROVE  IInv'
<1>1. /\ bundle \in [Versions -> BundleState]
      /\ bundle[v] = "valid" /\ bundle' = [bundle EXCEPT ![v] = "damaged"]
      /\ UNCHANGED <<pointer, operator, api, trained>>
  BY DEF Damage, IInv, TypeOK
<1>2. /\ \A u \in Versions : bundle'[u] \in {"valid", "damaged"} <=> bundle[u] \in {"valid", "damaged"}
      /\ \A u \in Versions : bundle'[u] = "absent" <=> bundle[u] = "absent"
      /\ bundle' \in [Versions -> BundleState]
  BY <1>1 DEF BundleState
<1>3. TypeOK'
  BY <1>1, <1>2, RegistryAssumption DEF IInv, TypeOK, Damage, Fault
<1>4. Promoted' <=> Promoted
  BY <1>1 DEF Promoted
<1>5. Drawn' /\ OneOperator' /\ \A a \in Apis : ApiKnows(a)'
  BY <1>1, <1>2, <1>4 DEF IInv, Drawn, OneOperator, At, ApiKnows, In
<1>6. \A o \in Operators : OperatorKnows(o)'
  BY <1>1, <1>2, <1>4, KnowsStays DEF Sound, Promoted
<1>7. PromotedIsSound'
  <2>1. Promoted => pointer.version \in Versions
    BY DEF IInv, TypeOK, Promoted, Selection
  <2> QED BY <1>1, <1>2, <2>1 DEF IInv, PromotedIsSound, Promoted
<1> QED BY <1>3, <1>5, <1>6, <1>7 DEF IInv

-----------------------------------------------------------------------------
(* Theorems                                                                  *)

(* The inductive invariant holds in every reachable state.                   *)
THEOREM Invariance == Spec => []IInv
<1>1. IInv /\ [Next]_vars => IInv'
  <2> SUFFICES ASSUME IInv, [Next]_vars PROVE IInv'
    OBVIOUS
  <2>1. CASE \E o \in Operators : Operate(o)
    BY <2>1, StartKeeps, DecideKeeps, ReadKeeps, BuildKeeps, CandidateKeeps, PromoteKeeps,
       ListKeeps, RemovalKeeps DEF Operate
  <2>2. CASE \E a \in Apis : ServeModels(a) \/ ApiDies(a)
    BY <2>2, ApiKeeps
  <2>3. CASE \E v \in Versions : Damage(v)
    BY <2>3, DamageKeeps
  <2>4. CASE UNCHANGED vars
    <3>1. \A o \in Operators : OperatorKnows(o)'
      BY <2>4, KnowsStays DEF vars, Sound, Promoted
    <3> QED BY <2>4, <3>1 DEF vars, IInv, TypeOK, OneOperator, Drawn, ApiKnows, PromotedIsSound,
       Promoted, At, In
  <2> QED BY <2>1, <2>2, <2>3, <2>4 DEF Next
<1> QED BY <1>1, InitKeeps, PTL DEF Spec

(* Every variable has its type; current.json never names the legacy layout.  *)
THEOREM TypeCorrect == Spec => []TypeOK
<1>1. IInv => TypeOK
  BY DEF IInv
<1> QED BY <1>1, Invariance, PTL

(* promote_model_bundle and apply_model_retention: what a promotion selected *)
(* over an earlier model is never incomplete and never removed.              *)
THEOREM PromotedSafe == Spec => []PromotedIsSound
<1>1. IInv => PromotedIsSound
  BY DEF IInv
<1> QED BY <1>1, Invariance, PTL

(* apply_model_retention, whatever happens between its listing and its last  *)
(* removal: each bundle it removes is older than the configured number of    *)
(* others, and than that many beside what a promotion selected.              *)
THEOREM RetentionSafe == Spec => RetentionKeeps
<1> DEFINE Newer(v) == {u \in Versions : u > v /\ bundle[u] \in {"valid", "damaged"}}
           Leaves(v) ==
               bundle[v] = "valid" /\ bundle'[v] = "absent" =>
                   /\ Cardinality(Newer(v)) >= KeepPrevious
                   /\ pointer.version # NoVersion /\ pointer.previous # NoVersion =>
                         Cardinality(Newer(v) \ {pointer.version}) >= KeepPrevious
<1>1. ASSUME IInv, [Next]_vars, NEW v \in Versions, bundle[v] = "valid", bundle'[v] = "absent"
      PROVE  Leaves(v)
  <2>1. PICK o \in Operators : v \in operator[o].doomed
    <3>1. bundle' # bundle
      BY <1>1
    <3>2. ~(\E a \in Apis : ServeModels(a) \/ ApiDies(a))
      BY <3>1 DEF ServeModels, ApiDies, StartApi, Resolve, Check, Recover, RecoverPointer,
         RecoverSelect, RecoverValidate, RecoverWrite, RecoverRename, Load, Watch, WatchResolve
    <3>3. ~(\E u \in Versions : Damage(u))
      BY <1>1 DEF Damage, IInv, TypeOK
    <3>4. PICK o \in Operators : Operate(o)
      BY <1>1, <3>1, <3>2, <3>3 DEF Next, vars
    <3>5. Rename(o) \/ BuildFails(o) \/ Remove(o) \/ OperatorDies(o)
      BY <3>1, <3>4 DEF Operate, StartRetrain, Evaluate, Build, ValidateBuild, StartRollback,
         SelectRollback, Validate, ReadPointer, Promote, Retain, List
    <3>6. ~Rename(o)
      BY <1>1 DEF Rename, IInv, TypeOK
    <3>7. ~BuildFails(o)
      <4> SUFFICES ASSUME BuildFails(o) PROVE FALSE
        OBVIOUS
      <4>1. v = Target(o)
        BY <1>1 DEF BuildFails, IInv, TypeOK
      <4>2. CASE At(o, "rename")
        BY <1>1, <4>1, <4>2 DEF IInv, OperatorKnows
      <4>3. CASE ~Validates(Target(o))
        BY <1>1, <4>1, <4>3 DEF Validates
      <4> QED BY <4>2, <4>3 DEF BuildFails
    <3>8. ~OperatorDies(o)
      BY <1>1 DEF OperatorDies, IInv, TypeOK
    <3>9. v \in operator[o].doomed
      BY <1>1, <3>5, <3>6, <3>7, <3>8 DEF Remove, IsNewest, IInv, TypeOK
    <3> QED BY <3>9
  <2>2. /\ Cardinality(Kept(o)) >= KeepPrevious
        /\ Promoted => pointer.version = Target(o)
    BY <1>1, <2>1 DEF IInv, OperatorKnows, At
  <2>3. Kept(o) \subseteq Newer(v) /\ (Promoted => Kept(o) \subseteq Newer(v) \ {pointer.version})
    BY <2>1, <2>2 DEF Kept, Sound
  <2>4. ASSUME NEW S, Kept(o) \subseteq S, S \subseteq Versions
        PROVE  Cardinality(S) >= KeepPrevious
    <3>1. IsFiniteSet(S) /\ Cardinality(S) \in Nat /\ Cardinality(Kept(o)) <= Cardinality(S)
      BY <2>4, KeptFinite, FS_Subset, FS_CardinalityType
    <3> QED BY <2>2, <3>1, KeptFinite, RegistryAssumption
  <2> HIDE DEF Newer
  <2>5. Newer(v) \subseteq Versions /\ Newer(v) \ {pointer.version} \subseteq Versions
    BY DEF Newer
  <2> QED BY <2>3, <2>4, <2>5 DEF Promoted
<1>2. IInv /\ [Next]_vars => \A v \in Versions : Leaves(v)
  BY <1>1
<1> QED BY <1>2, Invariance, PTL DEF Spec, RetentionKeeps

=============================================================================
