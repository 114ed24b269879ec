---------------------------- MODULE SyncContract ----------------------------
(* What profile synchronization promises to whoever submits a username and   *)
(* polls the task it gets: one task of the username at a time is worked on,  *)
(* under its ownership; a task completes only when that work has stored the  *)
(* profile; a terminal status is final and nothing works on a terminal task. *)
(* No message, key, time or worker is left here: any of them may take        *)
(* ownership or work away at any time, but never ownership from under work.  *)

CONSTANTS
    Tasks,  \* task identifiers
    NoTask  \* no task owns the username

VARIABLES
    status, \* what a poll of each task returns
    owner,  \* the task that owns the username
    stage   \* idle, scraping or stored: how far the work on each task is

contract == <<status, owner, stage>>

Live     == {"queued", "processing"}
Terminal == {"completed", "failed"}

Init ==
    /\ status = [t \in Tasks |-> "unissued"]
    /\ owner = NoTask
    /\ stage = [t \in Tasks |-> "idle"]

Submit(t) ==
    /\ owner = NoTask /\ status[t] = "unissued"
    /\ status' = [status EXCEPT ![t] = "queued"]
    /\ owner' = t
    /\ UNCHANGED stage

Claim(t) ==
    /\ owner = NoTask /\ status[t] \in Live
    /\ owner' = t
    /\ UNCHANGED <<status, stage>>

(* A delivery, first or repeated, starts the work.                           *)
Begin(t) ==
    /\ owner = t /\ status[t] \in Live /\ stage[t] = "idle"
    /\ status' = [status EXCEPT ![t] = "processing"]
    /\ stage' = [stage EXCEPT ![t] = "scraping"]
    /\ UNCHANGED owner

Store(t) ==
    /\ stage[t] = "scraping"
    /\ stage' = [stage EXCEPT ![t] = "stored"]
    /\ UNCHANGED <<status, owner>>

(* An error, a retry, a time limit or the end of a process.                  *)
Drop(t) ==
    /\ stage[t] # "idle"
    /\ stage' = [stage EXCEPT ![t] = "idle"]
    /\ UNCHANGED <<status, owner>>

Complete(t) ==
    /\ stage[t] = "stored"
    /\ status' = [status EXCEPT ![t] = "completed"]
    /\ stage' = [stage EXCEPT ![t] = "idle"]
    /\ UNCHANGED owner

Fail(t) ==
    /\ status[t] \in Live /\ stage[t] = "idle"
    /\ status' = [status EXCEPT ![t] = "failed"]
    /\ UNCHANGED <<owner, stage>>

LetGo ==
    /\ \E t \in Tasks : owner = t /\ stage[t] = "idle"
    /\ owner' = NoTask
    /\ UNCHANGED <<status, stage>>

Forget(t) ==
    /\ status[t] \in Live \cup Terminal /\ owner # t /\ stage[t] = "idle"
    /\ status' = [status EXCEPT ![t] = "expired"]
    /\ UNCHANGED <<owner, stage>>

TaskStep(t) ==
    \/ Submit(t) \/ Claim(t) \/ Begin(t) \/ Store(t) \/ Drop(t)
    \/ Complete(t) \/ Fail(t) \/ Forget(t)

Next == LetGo \/ \E t \in Tasks : TaskStep(t)

Spec == Init /\ [][Next]_contract
=============================================================================
