---------------------------- MODULE ModelRegistry ----------------------------
(* The versioned model bundles below data/models, the pointer that selects   *)
(* one of them, the retraining and rollback processes that write both under  *)
(* the retraining lock, and the API processes that load what is selected.    *)
(*                                                                           *)
(* A bundle is known by its version, and versions are numbered in the order  *)
(* of their training time.  Reading a whole bundle (validate_model_bundle,   *)
(* loading) is one action, as is each read or replacement of the pointer;    *)
(* between two of them every other process may move.                         *)
EXTENDS FiniteSets, Integers

CONSTANTS
    Operators,    \* retrain and rollback-model, as tasks or commands
    Apis,         \* API containers, one Uvicorn process each
    MaxVersion,   \* bound: bundles ever trained
    KeepPrevious, \* MODEL_RETENTION_PREVIOUS
    HasLegacy,    \* whether a complete legacy-flat layout is installed
    NoVersion,    \* no version: an absent pointer, or no lineage in it
    LegacyFlat,   \* "legacy-flat"
    Events,       \* the environment events this instance admits
    MaxFaults     \* bound: operators and API processes that die, bundles damaged

(*   dies         a process ends between two steps, killed or by an OSError  *)
(*   damaged      a complete bundle stops validating: storage, or a library  *)
AllEvents == {"dies", "damaged"}

(* Settings.MODEL_RETENTION_PREVIOUS is at least one.                        *)
ASSUME RegistryAssumption ==
    /\ MaxVersion \in Nat /\ KeepPrevious \in Nat \ {0} /\ MaxFaults \in Nat
    /\ HasLegacy \in BOOLEAN
    /\ NoVersion \notin Nat /\ LegacyFlat \notin Nat /\ NoVersion # LegacyFlat
    /\ Events \subseteq AllEvents

VARIABLES
    bundle,    \* the version directories
    pointer,   \* current.json
    operator,  \* the retraining or rollback each operator is in
    api,       \* what each API process does
    trained,   \* versions drawn so far
    faults     \* faults so far

vars == <<bundle, pointer, operator, api, trained, faults>>

Versions == 1 .. MaxVersion

(* An incomplete directory never validates; a damaged one did.               *)
BundleState == {"absent", "valid", "incomplete", "damaged"}

OperatorPC == {"idle", "evaluate", "build", "rename", "validate_build", "select",
               "validate", "read_pointer", "write_pointer", "retain",
               "list", "remove"}

ApiPC == {"down", "resolve", "check", "recover", "recover_pointer",
          "recover_select", "recover_validate", "recover_write",
          "recover_rename", "load", "serving", "watch"}

Selection == Versions \cup {NoVersion}
Lineage   == Selection \cup {LegacyFlat}

IdleOperator == [pc |-> "idle", retrains |-> FALSE, target |-> NoVersion,
                 previous |-> NoVersion, doomed |-> {}]

DownApi == [pc |-> "down", seen |-> NoVersion, target |-> NoVersion, recovered |-> FALSE]

TypeOK ==
    /\ bundle \in [Versions -> BundleState]
    /\ pointer \in [version : Selection, previous : Lineage]
    /\ operator \in [Operators -> [pc : OperatorPC, retrains : BOOLEAN,
                                   target : Selection, previous : Lineage,
                                   doomed : SUBSET Versions]]
    /\ api \in [Apis -> [pc : ApiPC, seen : Selection, target : Lineage,
                         recovered : BOOLEAN]]
    /\ trained \in 0 .. MaxVersion
    /\ faults \in 0 .. MaxFaults

Init ==
    /\ bundle = [v \in Versions |-> "absent"]
    /\ pointer = [version |-> NoVersion, previous |-> NoVersion]
    /\ operator = [o \in Operators |-> IdleOperator]
    /\ api = [a \in Apis |-> DownApi]
    /\ trained = 0
    /\ faults = 0

-----------------------------------------------------------------------------
(* The registry                                                              *)

Exists(v) == IF v \in Versions THEN bundle[v] # "absent" ELSE HasLegacy   \* mutant of Validates

(* validate_model_bundle, and _validate_legacy_serving_model.                *)
Validates(v) == IF v \in Versions THEN bundle[v] = "valid" ELSE HasLegacy

(* list_valid_model_bundles.                                                 *)
ValidBundles == {v \in Versions : bundle[v] = "valid"}

IsNewest(v, versions) == v \in versions /\ \A u \in versions : u <= v

(* The manifests[:keep_previous] of apply_model_retention.                   *)
NewestOf(versions, n) ==
    {v \in versions : Cardinality({u \in versions : u > v}) < n}

(* select_rollback_target, one action: the newest valid bundle older than    *)
(* the current one, whose manifest may be readable when the bundle is not.   *)
RollbackTargets ==
    IF pointer.version = NoVersion THEN {}
    ELSE {v \in ValidBundles : v < pointer.version}

IsRollbackTarget(v) == IsNewest(v, RollbackTargets) /\ bundle[pointer.version] # "absent"
SelectionMayFail    == RollbackTargets # {} => bundle[pointer.version] # "valid"

(* _write_current_pointer replaces the file in one rename.                   *)
WritePointer(v, previous) == pointer' = [version |-> v, previous |-> previous]

-----------------------------------------------------------------------------
(* retrain_and_promote and rollback_model                                    *)

At(o, pc)     == operator[o].pc = pc
Goto(o, pc)   == operator' = [operator EXCEPT ![o].pc = pc]
Stop(o)       == operator' = [operator EXCEPT ![o] = IdleOperator]
Target(o)     == operator[o].target

(* The retraining lock admits one operator: Singleton of Maintenance.        *)
LockIsFree == \A o \in Operators : At(o, "idle")

StartRetrain(o) ==
    /\ LockIsFree
    /\ operator' = [operator EXCEPT ![o].pc = "evaluate", ![o].retrains = TRUE]
    /\ UNCHANGED <<bundle, pointer, api, trained, faults>>

(* evaluate_retraining reads the selected model and raises when it does not  *)
(* validate; a decision against retraining ends the run.  MaxVersion bounds  *)
(* the builds here.                                                          *)
Evaluate(o) ==
    /\ At(o, "evaluate")
    /\ \/ /\ trained < MaxVersion
          /\ pointer.version # NoVersion => Validates(pointer.version)
          /\ Goto(o, "build")
       \/ Stop(o)
    /\ UNCHANGED <<bundle, pointer, api, trained, faults>>

(* build_model_bundle fixes the training time and works in .building-*,      *)
(* which no reader looks at.                                                 *)
Build(o) ==
    /\ At(o, "build")
    /\ trained' = trained + 1
    /\ operator' = [operator EXCEPT ![o].pc = "rename", ![o].target = trained + 1]
    /\ UNCHANGED <<bundle, pointer, api, faults>>

Rename(o) ==
    /\ At(o, "rename")
    /\ \E s \in {"valid", "incomplete"} : bundle' = [bundle EXCEPT ![Target(o)] = s]
    /\ Goto(o, "validate_build")
    /\ UNCHANGED <<pointer, api, trained, faults>>

(* Training, a payload or the final validation raises: the candidate goes.   *)
BuildFails(o) ==
    /\ \/ At(o, "rename")
       \/ At(o, "validate_build") /\ ~Validates(Target(o))
    /\ bundle' = [bundle EXCEPT ![Target(o)] = "absent"]
    /\ Stop(o)
    /\ UNCHANGED <<pointer, api, trained, faults>>

ValidateBuild(o) ==
    /\ At(o, "validate_build") /\ Validates(Target(o))
    /\ Goto(o, "validate")
    /\ UNCHANGED <<bundle, pointer, api, trained, faults>>

StartRollback(o) ==
    /\ LockIsFree
    /\ Goto(o, "select")
    /\ UNCHANGED <<bundle, pointer, api, trained, faults>>

SelectRollback(o) ==
    /\ At(o, "select")
    /\ \/ \E v \in Versions :
             /\ IsRollbackTarget(v)
             /\ operator' = [operator EXCEPT ![o].pc = "validate", ![o].target = v]
       \/ SelectionMayFail /\ Stop(o)
    /\ UNCHANGED <<bundle, pointer, api, trained, faults>>

(* promote_model_bundle validates, reads what it replaces, and replaces it.  *)
Validate(o) ==
    /\ At(o, "validate")
    /\ \/ Validates(Target(o)) /\ Goto(o, "read_pointer")
       \/ ~Validates(Target(o)) /\ Stop(o)
    /\ UNCHANGED <<bundle, pointer, api, trained, faults>>

ReadPointer(o) ==
    /\ At(o, "read_pointer")
    /\ operator' = [operator EXCEPT ![o].pc = "write_pointer",
                       ![o].previous = IF pointer.version = NoVersion /\ HasLegacy
                                       THEN LegacyFlat ELSE pointer.version]
    /\ UNCHANGED <<bundle, pointer, api, trained, faults>>

Promote(o) ==
    /\ At(o, "write_pointer")
    /\ WritePointer(Target(o), operator[o].previous)
    /\ \/ operator[o].retrains /\ Goto(o, "retain")
       \/ ~operator[o].retrains /\ Stop(o)
    /\ UNCHANGED <<bundle, api, trained, faults>>

(* apply_model_retention: the newest valid bundles beside the current one    *)
(* stay, whatever the pointer's lineage names.                               *)
Retain(o) ==
    /\ At(o, "retain")
    /\ operator' = [operator EXCEPT ![o].pc = "list", ![o].target = pointer.version]
    /\ UNCHANGED <<bundle, pointer, api, trained, faults>>

DoomAllButNewest(o) ==                    \* mutant of Doomed
    ValidBundles \ NewestOf(ValidBundles, KeepPrevious)

Doomed(o) ==
    LET others == ValidBundles \ {Target(o)}
    IN  others \ NewestOf(others, KeepPrevious)

List(o) ==
    /\ At(o, "list")
    /\ operator' = [operator EXCEPT ![o].pc = "remove", ![o].doomed = Doomed(o)]
    /\ UNCHANGED <<bundle, pointer, api, trained, faults>>

Remove(o) ==
    /\ At(o, "remove")
    /\ \/ operator[o].doomed = {} /\ Stop(o) /\ UNCHANGED bundle
       \/ /\ operator[o].doomed # {}
          /\ \E v \in Versions :
                /\ IsNewest(v, operator[o].doomed)
                /\ bundle' = [bundle EXCEPT ![v] = "absent"]
                /\ operator' = [operator EXCEPT ![o].doomed = @ \ {v}]
    /\ UNCHANGED <<pointer, api, trained, faults>>

Fault(e) == e \in Events /\ faults < MaxFaults /\ faults' = faults + 1

(* The operator dies or raises; a removal may be left half done.             *)
OperatorDies(o) ==
    /\ Fault("dies")
    /\ ~At(o, "idle")
    /\ Stop(o)
    /\ \/ UNCHANGED bundle
       \/ \E v \in Versions :
             /\ IsNewest(v, operator[o].doomed)
             /\ bundle' = [bundle EXCEPT ![v] = "incomplete"]
    /\ UNCHANGED <<pointer, api, trained>>

Operate(o) ==
    \/ StartRetrain(o) \/ Evaluate(o) \/ Build(o) \/ Rename(o) \/ BuildFails(o)
    \/ ValidateBuild(o) \/ StartRollback(o) \/ SelectRollback(o)
    \/ Validate(o) \/ ReadPointer(o) \/ Promote(o) \/ Retain(o) \/ List(o)
    \/ Remove(o)
    \/ OperatorDies(o)

-----------------------------------------------------------------------------
(* API startup: resolve_startup_model and recover_previous_model             *)

In(a, pc)    == api[a].pc = pc
Move(a, pc)  == api' = [api EXCEPT ![a].pc = pc]
GoDown(a)    == api' = [api EXCEPT ![a] = DownApi]

(* The name of what the pointer selects, as the watcher knows it.            *)
Selected == IF pointer.version = NoVersion THEN LegacyFlat ELSE pointer.version

(* Compose starts the process again whenever it has ended.                   *)
StartApi(a) ==
    /\ In(a, "down")
    /\ Move(a, "resolve")
    /\ UNCHANGED <<bundle, pointer, operator, trained, faults>>

Resolve(a) ==
    /\ In(a, "resolve")
    /\ api' = [api EXCEPT ![a].pc = "check", ![a].target = Selected]
    /\ UNCHANGED <<bundle, pointer, operator, trained, faults>>

(* The selection validates, or one recovery is attempted, or startup fails.  *)
Check(a) ==
    /\ In(a, "check")
    /\ \/ Validates(api[a].target) /\ Move(a, "load")
       \/ ~Validates(api[a].target) /\ ~api[a].recovered /\ Move(a, "recover")
       \/ ~Validates(api[a].target) /\ api[a].recovered /\ GoDown(a)
    /\ UNCHANGED <<bundle, pointer, operator, trained, faults>>

(* The failed version is read from the pointer again.                        *)
Recover(a) ==
    /\ In(a, "recover")
    /\ \/ pointer.version = NoVersion /\ GoDown(a)
       \/ /\ pointer.version # NoVersion
          /\ api' = [api EXCEPT ![a].pc = "recover_pointer", ![a].seen = pointer.version]
    /\ UNCHANGED <<bundle, pointer, operator, trained, faults>>

RecoverPointer(a) ==
    /\ In(a, "recover_pointer")
    /\ \/ pointer.version # api[a].seen /\ GoDown(a)
       \/ /\ pointer.version = api[a].seen
          /\ api' = [api EXCEPT ![a].pc = IF pointer.previous = NoVersion
                                          THEN "recover_select" ELSE "recover_validate",
                                ![a].target = pointer.previous]
    /\ UNCHANGED <<bundle, pointer, operator, trained, faults>>

(* Without lineage the predecessor is a rollback target.                     *)
RecoverSelect(a) ==
    /\ In(a, "recover_select")
    /\ \/ \E v \in Versions :
             /\ IsRollbackTarget(v)
             /\ api' = [api EXCEPT ![a].pc = "recover_validate", ![a].target = v]
       \/ SelectionMayFail /\ GoDown(a)
    /\ UNCHANGED <<bundle, pointer, operator, trained, faults>>

RestoreByName(a) ==                       \* mutant of RecoverValidate
    /\ In(a, "recover_validate")
    /\ \/ ~Validates(api[a].target) /\ GoDown(a)
       \/ Validates(api[a].target) /\ Move(a, "recover_write")
    /\ UNCHANGED <<bundle, pointer, operator, trained, faults>>

RecoverValidate(a) ==
    /\ In(a, "recover_validate")
    /\ \/ ~Validates(api[a].target) /\ GoDown(a)
       \/ /\ Validates(api[a].target)
          /\ Move(a, IF api[a].target = LegacyFlat THEN "recover_rename" ELSE "recover_write")
    /\ UNCHANGED <<bundle, pointer, operator, trained, faults>>

ResolveAgain(a) == api' = [api EXCEPT ![a].pc = "resolve", ![a].recovered = TRUE]

RecoverWrite(a) ==
    /\ In(a, "recover_write")
    /\ WritePointer(api[a].target, NoVersion)
    /\ ResolveAgain(a)
    /\ UNCHANGED <<bundle, operator, trained, faults>>

(* The pointer is renamed away, unless another process did so first.         *)
RecoverRename(a) ==
    /\ In(a, "recover_rename")
    /\ \/ pointer.version # NoVersion /\ WritePointer(NoVersion, NoVersion) /\ ResolveAgain(a)
       \/ pointer.version = NoVersion /\ UNCHANGED pointer /\ GoDown(a)
    /\ UNCHANGED <<bundle, operator, trained, faults>>

(* Both recommendation services read the resolved location.                  *)
Load(a) ==
    /\ In(a, "load")
    /\ \/ Validates(api[a].target) /\ Move(a, "serving")
       \/ ~Validates(api[a].target) /\ GoDown(a)
    /\ UNCHANGED <<bundle, pointer, operator, trained, faults>>

-----------------------------------------------------------------------------
(* ModelPointerWatcher.check_once                                            *)

WatchNewer(a) ==                          \* mutant of Watch
    /\ In(a, "serving")
    /\ pointer.version \in Versions
    /\ api[a].target \in Versions => pointer.version > api[a].target
    /\ api' = [api EXCEPT ![a].pc = "watch", ![a].seen = pointer.version]
    /\ UNCHANGED <<bundle, pointer, operator, trained, faults>>

Watch(a) ==
    /\ In(a, "serving")
    /\ Selected # api[a].target
    /\ api' = [api EXCEPT ![a].pc = "watch", ![a].seen = pointer.version]
    /\ UNCHANGED <<bundle, pointer, operator, trained, faults>>

(* The changed selection is validated and compared with what was observed;   *)
(* only then does the process end gracefully.                                *)
WatchResolve(a) ==
    /\ In(a, "watch")
    /\ \/ Validates(Selected) /\ pointer.version = api[a].seen /\ GoDown(a)
       \/ /\ ~Validates(Selected) \/ pointer.version # api[a].seen
          /\ api' = [api EXCEPT ![a].pc = "serving", ![a].seen = NoVersion]
    /\ UNCHANGED <<bundle, pointer, operator, trained, faults>>

ApiDies(a) ==
    /\ Fault("dies")
    /\ ~In(a, "down")
    /\ GoDown(a)
    /\ UNCHANGED <<bundle, pointer, operator, trained>>

Damage(v) ==
    /\ Fault("damaged")
    /\ bundle[v] = "valid"
    /\ bundle' = [bundle EXCEPT ![v] = "damaged"]
    /\ UNCHANGED <<pointer, operator, api, trained>>

-----------------------------------------------------------------------------

(* What an API process does by itself.                                       *)
ServeModels(a) ==
    \/ StartApi(a) \/ Resolve(a) \/ Check(a) \/ Recover(a) \/ RecoverPointer(a)
    \/ RecoverSelect(a) \/ RecoverValidate(a) \/ RecoverWrite(a) \/ RecoverRename(a)
    \/ Load(a) \/ Watch(a) \/ WatchResolve(a)

Next ==
    \/ \E o \in Operators : Operate(o)
    \/ \E a \in Apis : ServeModels(a) \/ ApiDies(a)
    \/ \E v \in Versions : Damage(v)

Spec == Init /\ [][Next]_vars

(* Containers restart and watchers poll; operators owe nothing.              *)
FairSpec == Spec /\ \A a \in Apis : WF_vars(ServeModels(a))

-----------------------------------------------------------------------------
(* Properties                                                                *)

(* What a promotion selected, in place of an earlier model, is a bundle that *)
(* validated: it is there and complete unless damaged afterwards, whatever   *)
(* is retained, removed, left half done, rolled back or recovered.  A        *)
(* pointer without lineage is the first one or one a recovery wrote.         *)
PromotedIsSound ==
    pointer.version # NoVersion /\ pointer.previous # NoVersion =>
        bundle[pointer.version] \in {"valid", "damaged"}

(* A removal of a valid bundle leaves the configured number of newer ones,   *)
(* and that beside the selected model where a promotion selected it.  Beside *)
(* any selection it does not hold: recoveries move the pointer meanwhile.    *)
RetentionKeeps ==
    [][\A v \in Versions :
          bundle[v] = "valid" /\ bundle'[v] = "absent" =>
              LET newer == {u \in Versions : u > v /\ bundle[u] \in {"valid", "damaged"}}
              IN  /\ Cardinality(newer) >= KeepPrevious
                  /\ pointer.version # NoVersion /\ pointer.previous # NoVersion =>
                        Cardinality(newer \ {pointer.version}) >= KeepPrevious]_vars

(* Every API process ends up serving the selected model, if that is valid.   *)
ActivationCatchesUp ==
    \A a \in Apis :
        <>[](Validates(Selected) => In(a, "serving") /\ api[a].target = Selected)

(* "Recovery proceeds only if the failed version is still current,           *)
(* preventing a stale process from overwriting a newer promotion."           *)
RecoveryReplacesFailed ==
    [][\A a \in Apis :
          In(a, "recover_write") /\ pointer' # pointer /\ api'[a].recovered =>
              pointer.version = api[a].seen]_vars

(* "The recorded lineage permits one restore of the previous valid           *)
(* selection": undamaged, it still validates.                                *)
LineagePermitsRestore ==
    pointer.previous \in Versions => bundle[pointer.previous] \in {"valid", "damaged"}

=============================================================================
