-------------------------- MODULE RequestLifecycle --------------------------
(***************************************************************************)
(* What the IPC bridge promises about one routed request, whatever the     *)
(* queues, timers and frames behind it: the GUI takes it at most once and  *)
(* acts on it at most once, the caller gets at most one outcome, a reply   *)
(* follows the action it reports, and a request that is still queued when  *)
(* it times out is withdrawn and never acted on.  IpcBridge implements it. *)
(***************************************************************************)

CONSTANT Requests

VARIABLES
  progress, \* [Requests -> how far the GUI got with it]
  outcome   \* [Requests -> what its connection was told]

lifecycleVars == <<progress, outcome>>

Progress == {"new", "queued", "taken", "handled", "withdrawn"}
Outcome  == {"open", "reply", "timeout", "refused"}

LifecycleInit ==
  /\ progress = [r \in Requests |-> "new"]
  /\ outcome = [r \in Requests |-> "open"]

Submit(r) ==
  /\ progress[r] = "new" /\ outcome[r] = "open"
  /\ progress' = [progress EXCEPT ![r] = "queued"]
  /\ UNCHANGED outcome

\* No connection slot is free: the request never reaches the queue.
Refuse(r) ==
  /\ progress[r] = "new" /\ outcome[r] = "open"
  /\ outcome' = [outcome EXCEPT ![r] = "refused"]
  /\ UNCHANGED progress

\* The GUI takes everything that is queued.
TakeAll ==
  /\ progress' = [r \in Requests |->
                    IF progress[r] = "queued" THEN "taken" ELSE progress[r]]
  /\ UNCHANGED outcome

Act(r) ==
  /\ progress[r] = "taken"
  /\ progress' = [progress EXCEPT ![r] = "handled"]
  /\ UNCHANGED outcome

Reply(r) ==
  /\ progress[r] = "handled" /\ outcome[r] = "open"
  /\ outcome' = [outcome EXCEPT ![r] = "reply"]
  /\ UNCHANGED progress

TimeOut(r) ==
  /\ progress[r] # "new" /\ outcome[r] = "open"
  /\ outcome' = [outcome EXCEPT ![r] = "timeout"]
  /\ progress' = [progress EXCEPT ![r] = IF @ = "queued" THEN "withdrawn" ELSE @]

LifecycleNext ==
  \/ TakeAll
  \/ \E r \in Requests :
       Submit(r) \/ Refuse(r) \/ Act(r) \/ Reply(r) \/ TimeOut(r)

LifecycleSpec == LifecycleInit /\ [][LifecycleNext]_lifecycleVars
=============================================================================
