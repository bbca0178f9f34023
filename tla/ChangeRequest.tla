---------------------------- MODULE ChangeRequest ----------------------------
(***************************************************************************)
(* The change approval workflow of api/backend/routers/orchestration.py,   *)
(* for one change request: an operator submits an ordered list of steps, a *)
(* tenant admin other than the requester approves it, an operator executes *)
(* it device by device.                                                    *)
(*                                                                         *)
(* Every handler reads the row and checks its status in one statement and  *)
(* updates it in another, with no lock and no status in the UPDATE's       *)
(* WHERE, and an execution is one long request that commits after every    *)
(* step.  Sessions keep their loaded objects across commits                *)
(* (expire_on_commit=False), so an execution goes by the step statuses it  *)
(* read when it began and those it wrote itself.  Notes, timestamps,       *)
(* device output and executed_by decide nothing and are not kept.          *)
(***************************************************************************)
EXTENDS Integers

CONSTANTS
    Users,
    Admins,      \* users with the tenant_admin role
    Operators,   \* users with at least the operator role
    Requester,   \* the user who submitted the change
    NumSteps,    \* its change_actions, in step_order
    WaitSteps,   \* those of type wait_seconds
    MaxFaults,   \* bound: restarts and handlers that raise
    NoUser       \* a NULL user id

ASSUME ChangeAssumption ==
    /\ Admins \subseteq Operators
    /\ Operators \subseteq Users
    /\ Requester \in Users  \* whose role may have changed since
    /\ NumSteps \in Nat \ {0}
    /\ WaitSteps \subseteq 1..NumSteps
    /\ MaxFaults \in Nat
    /\ NoUser \notin Users

Steps == 1..NumSteps
DeviceSteps == Steps \ WaitSteps
Decisions == {"approve", "reject", "cancel"}

Status == {"pending_approval", "approved", "rejected", "executing",
           "completed", "failed", "cancelled"}
StepStatus == {"pending", "running", "completed", "failed", "skipped"}

VARIABLES
    status,      \* change_requests.status
    approvedBy,  \* change_requests.approved_by
    actions,     \* step -> change_actions.status
    decisions,   \* approve, reject and cancel requests past their check
    exec,        \* user -> the execution their request is running
    faults,
    applied      \* history: steps some execution has carried out on their device

row == <<status, approvedBy>>
vars == <<row, actions, decisions, exec, faults, applied>>

Execution == [at   : {"idle", "read", "next", "running", "done", "raised", "stopped"},
              step : 1..NumSteps + 1,
              view : [Steps -> StepStatus]]   \* the statuses in its session
IdleExecution == [at |-> "idle", step |-> 1, view |-> [s \in Steps |-> "pending"]]

Init ==
    /\ status = "pending_approval"
    /\ approvedBy = NoUser
    /\ actions = [s \in Steps |-> "pending"]
    /\ decisions = {}
    /\ exec = [u \in Users |-> IdleExecution]
    /\ faults = 0
    /\ applied = {}

-----------------------------------------------------------------------------
(* Deciding: approve, reject, cancel.                                      *)

\* The check each handler makes before it writes.
MayDecide(op, u) ==
    \/ op = "approve" /\ u \in Admins \ {Requester} /\ status = "pending_approval"
    \/ op = "reject" /\ u \in Admins /\ status = "pending_approval"
    \/ op = "cancel" /\ u \in Admins \cup {Requester} /\ status \in {"pending_approval", "approved"}

ReadToDecide(op, u) ==
    /\ <<op, u>> \notin decisions
    /\ MayDecide(op, u)
    /\ decisions' = decisions \cup {<<op, u>>}
    /\ UNCHANGED <<row, actions, exec, faults, applied>>

Write(op, u, new) ==
    /\ <<op, u>> \in decisions
    /\ decisions' = decisions \ {<<op, u>>}
    /\ status' = new
    /\ UNCHANGED <<actions, exec, faults, applied>>

Approve(u) == Write("approve", u, "approved") /\ approvedBy' = u
Reject(u) == Write("reject", u, "rejected") /\ UNCHANGED approvedBy
Cancel(u) == Write("cancel", u, "cancelled") /\ UNCHANGED approvedBy

-----------------------------------------------------------------------------
(* Executing.                                                              *)

MayExecute_Pending(u) == u \in Operators /\ status \in {"pending_approval", "approved"}

MayExecute(u) == u \in Operators /\ status = "approved"

ReadToExecute(u) ==
    /\ exec[u].at = "idle"
    /\ MayExecute(u)
    /\ exec' = [exec EXCEPT ![u] = [at |-> "read", step |-> 1, view |-> actions]]
    /\ UNCHANGED <<row, actions, decisions, faults, applied>>

BeginExecution(u) ==
    /\ exec[u].at = "read"
    /\ status' = "executing"
    /\ exec' = [exec EXCEPT ![u].at = "next"]
    /\ UNCHANGED <<approvedBy, actions, decisions, faults, applied>>

\* A step's status is committed and noted in the execution's session; a value the
\* session already holds is no change to it, and is not written.
SetStep(u, new, at, step) ==
    /\ actions' = [actions EXCEPT ![exec[u].step] =
                     IF exec[u].view[exec[u].step] = new THEN @ ELSE new]
    /\ exec' = [exec EXCEPT ![u] = [at |-> at, step |-> step,
                                    view |-> [exec[u].view EXCEPT ![exec[u].step] = new]]]

StartStep(u) ==
    /\ exec[u].at = "next"
    /\ exec[u].step \in Steps
    /\ SetStep(u, "running", "running", exec[u].step)
    /\ UNCHANGED <<row, decisions, faults, applied>>

\* A wait ends; it cannot fail.
Waited(u) ==
    /\ exec[u].at = "running"
    /\ exec[u].step \in WaitSteps
    /\ SetStep(u, "completed", "next", exec[u].step + 1)
    /\ UNCHANGED <<row, decisions, faults, applied>>

\* _deploy_to_device returns with the configuration on the device.
Deployed(u) ==
    /\ exec[u].at = "running"
    /\ exec[u].step \in DeviceSteps
    /\ exec' = [exec EXCEPT ![u].at = "done"]
    /\ applied' = applied \cup {exec[u].step}
    /\ UNCHANGED <<row, actions, decisions, faults>>

\* The device, its credential or its commands are missing, or the deploy raises.
DeployRaises(u) ==
    /\ exec[u].at = "running"
    /\ exec[u].step \in DeviceSteps
    /\ exec' = [exec EXCEPT ![u].at = "raised"]
    /\ UNCHANGED <<row, actions, decisions, faults, applied>>

RecordSuccess(u) ==
    /\ exec[u].at = "done"
    /\ SetStep(u, "completed", "next", exec[u].step + 1)
    /\ UNCHANGED <<row, decisions, faults, applied>>

AfterFailure_GoesOn(u) == "next"

\* The first failure ends the loop.
AfterFailure(u) == "stopped"

RecordFailure(u) ==
    /\ exec[u].at = "raised"
    /\ SetStep(u, "failed", AfterFailure(u), exec[u].step + 1)
    /\ UNCHANGED <<row, decisions, faults, applied>>

Outcome_AsItWas(u) == status
Outcome_RolledBack(u) == IF exec[u].at = "stopped" THEN "rolled_back" ELSE "completed"

Outcome(u) == IF exec[u].at = "stopped" THEN "failed" ELSE "completed"

\* The last commit: the steps not reached are skipped, as far as this session
\* knows, and the change takes its outcome.
FinishExecution(u) ==
    /\ exec[u].at = "stopped" \/ (exec[u].at = "next" /\ exec[u].step = NumSteps + 1)
    /\ status' = Outcome(u)
    /\ actions' = [s \in Steps |->
          IF exec[u].at = "stopped" /\ exec[u].view[s] = "pending" THEN "skipped"
          ELSE actions[s]]
    /\ exec' = [exec EXCEPT ![u] = IdleExecution]
    /\ UNCHANGED <<approvedBy, decisions, faults, applied>>

-----------------------------------------------------------------------------
(* Failures.  Nothing picks an interrupted execution up again.             *)

\* A handler raises outside its try: a commit fails, a wait has no number.
ExecutionRaises(u) ==
    /\ faults < MaxFaults
    /\ exec[u].at # "idle"
    /\ exec' = [exec EXCEPT ![u] = IdleExecution]
    /\ faults' = faults + 1
    /\ UNCHANGED <<row, actions, decisions, applied>>

Restart ==
    /\ faults < MaxFaults
    /\ exec' = [u \in Users |-> IdleExecution]
    /\ decisions' = {}
    /\ faults' = faults + 1
    /\ UNCHANGED <<row, actions, applied>>

-----------------------------------------------------------------------------
Decide(u) ==
    \/ \E op \in Decisions : ReadToDecide(op, u)
    \/ Approve(u)
    \/ Reject(u)
    \/ Cancel(u)

\* What an execution does once it has begun; which deploys raise is free.
Proceed(u) ==
    \/ BeginExecution(u)
    \/ StartStep(u)
    \/ Waited(u)
    \/ Deployed(u)
    \/ DeployRaises(u)
    \/ RecordSuccess(u)
    \/ RecordFailure(u)
    \/ FinishExecution(u)

Next ==
    \/ \E u \in Users : Decide(u) \/ ReadToExecute(u) \/ Proceed(u) \/ ExecutionRaises(u)
    \/ Restart

Spec == Init /\ [][Next]_vars

\* The event loop runs a request to its end; device calls and waits time out.
FairSpec == Spec /\ \A u \in Users : WF_vars(Proceed(u))

-----------------------------------------------------------------------------
(* Properties                                                              *)

\* Every variable keeps to its type, and an execution at work on a step is at
\* work on one of the change's steps.
TypeOK ==
    /\ status \in Status
    /\ approvedBy \in Users \cup {NoUser}
    /\ actions \in [Steps -> StepStatus]
    /\ decisions \subseteq Decisions \X Users
    /\ exec \in [Users -> Execution]
    /\ \A u \in Users : exec[u].at \in {"running", "done", "raised"} => exec[u].step \in Steps
    /\ faults \in 0..MaxFaults
    /\ applied \subseteq DeviceSteps

\* Nothing reaches a device unless a tenant admin other than the requester has
\* approved the change, whatever requests overlap.
Independent == approvedBy \in Admins \ {Requester}
ApprovedIsIndependent == status = "approved" => Independent
DecidersAreIndependent == \A u \in Users : <<"approve", u>> \in decisions => u \in Admins \ {Requester}
SecondPerson ==
    (applied # {} \/ \E u \in Users : exec[u].at # "idle") => Independent

\* A change that reads completed has been carried out in full, even when two
\* executions and late decisions overlap.
DoneUpTo(u, n) == \A s \in DeviceSteps : s < n => s \in applied
ProgressIsApplied ==
    \A u \in Users :
       /\ exec[u].at = "read" => exec[u].step = 1
       /\ exec[u].at \in {"next", "running", "done"} => DoneUpTo(u, exec[u].step)
       /\ exec[u].at = "done" => exec[u].step \in applied
CompletedIsApplied == status = "completed" => DeviceSteps \subseteq applied

\* Unless a handler died, a change with nobody executing it has no step left
\* running and is not itself executing.
Undisturbed == faults = 0 /\ \A u \in Users : exec[u].at = "idle"
SettledRecord ==
    Undisturbed => status # "executing" /\ \A s \in Steps : actions[s] # "running"

\* An execution that no fault interrupts ends, and the change with it.
ExecutionEnds == status = "executing" ~> (status # "executing" \/ faults > 0)

\* Execution stops on the first failure: no step starts on its device while an
\* earlier step of the change stands failed (the comment above change_actions
\* in 004_add_orchestration.sql).
StopsOnFirstFailure ==
    [][\A u \in Users, s \in DeviceSteps :
         exec[u].step = s /\ exec[u].at = "next" /\ exec'[u].at = "running" =>
            \A t \in 1..s - 1 : actions[t] # "failed"]_vars
=============================================================================
