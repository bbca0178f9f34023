------------------------- MODULE ChangeRequestProofs -------------------------
(***************************************************************************)
(* What holds of a change request for every set of users, whatever number  *)
(* of steps and faults: its types, that nothing is deployed without an     *)
(* independent approval, that a completed change was carried out, and that *)
(* a change nobody executes is settled.                                    *)
(***************************************************************************)
EXTENDS ChangeRequest, TLAPS

USE ChangeAssumption DEF Steps, DeviceSteps, row, vars

-----------------------------------------------------------------------------
(* Types *)

LEMMA IdleIsTyped == IdleExecution \in Execution
  BY DEF IdleExecution, Execution, StepStatus

\* A step being set is one of the change's, so its record keeps its type.
LEMMA SetStepTyped ==
  ASSUME TypeOK, NEW u \in Users, NEW new \in StepStatus,
         NEW at \in {"next", "running", "stopped"}, NEW step \in 1..NumSteps + 1,
         exec[u].step \in Steps, at = "running" => step \in Steps,
         SetStep(u, new, at, step), UNCHANGED <<row, decisions, faults, applied>>
  PROVE  TypeOK'
  <1> DEFINE view == [exec[u].view EXCEPT ![exec[u].step] = new]
  <1>1. view \in [Steps -> StepStatus]
    BY DEF TypeOK, Execution
  <1>2. [at |-> at, step |-> step, view |-> view] \in Execution
    BY <1>1 DEF Execution
  <1>3. exec' = [exec EXCEPT ![u] = [at |-> at, step |-> step, view |-> view]]
    BY DEF SetStep
  <1> HIDE DEF view
  <1>4. exec' \in [Users -> Execution]
    BY <1>2, <1>3 DEF TypeOK
  <1>5. \A v \in Users : exec'[v].at \in {"running", "done", "raised"} => exec'[v].step \in Steps
    BY <1>3 DEF TypeOK
  <1>6. actions' \in [Steps -> StepStatus]
    BY DEF TypeOK, SetStep
  <1> QED
    BY <1>4, <1>5, <1>6 DEF TypeOK

LEMMA TypeInit == Init => TypeOK
  <1> SUFFICES ASSUME Init PROVE TypeOK
    OBVIOUS
  <1>1. exec \in [Users -> Execution]
    BY IdleIsTyped DEF Init
  <1> QED
    BY <1>1 DEF Init, TypeOK, Status, StepStatus, IdleExecution

LEMMA TypeDecide ==
  ASSUME TypeOK, NEW u \in Users, Decide(u)
  PROVE  TypeOK'
  <1>1. ASSUME NEW op \in Decisions, ReadToDecide(op, u) PROVE TypeOK'
    BY <1>1 DEF TypeOK, ReadToDecide
  <1>2. CASE Approve(u)
    BY <1>2 DEF TypeOK, Approve, Write, Status
  <1>3. CASE Reject(u)
    BY <1>3 DEF TypeOK, Reject, Write, Status
  <1>4. CASE Cancel(u)
    BY <1>4 DEF TypeOK, Cancel, Write, Status
  <1> QED
    BY <1>1, <1>2, <1>3, <1>4 DEF Decide

LEMMA TypeProceed ==
  ASSUME TypeOK, NEW u \in Users, Proceed(u)
  PROVE  TypeOK'
  <1> USE DEF TypeOK
  <1>0. exec[u] \in Execution
    OBVIOUS
  <1>1. CASE BeginExecution(u)
    <2>1. exec' \in [Users -> Execution]
      BY <1>0, <1>1 DEF BeginExecution, Execution
    <2> QED
      BY <1>1, <2>1 DEF BeginExecution, Status
  <1>2. CASE StartStep(u)
    BY <1>0, <1>2, SetStepTyped DEF StartStep, StepStatus, Execution
  <1>3. CASE Waited(u)
    BY <1>3, SetStepTyped DEF Waited, StepStatus
  <1>4. CASE Deployed(u)
    <2>1. exec' \in [Users -> Execution]
      BY <1>0, <1>4 DEF Deployed, Execution
    <2> QED
      BY <1>4, <2>1 DEF Deployed
  <1>5. CASE DeployRaises(u)
    <2>1. exec' \in [Users -> Execution]
      BY <1>0, <1>5 DEF DeployRaises, Execution
    <2> QED
      BY <1>5, <2>1 DEF DeployRaises
  <1>6. CASE RecordSuccess(u)
    BY <1>6, SetStepTyped DEF RecordSuccess, StepStatus
  <1>7. CASE RecordFailure(u)
    BY <1>7, SetStepTyped DEF RecordFailure, AfterFailure, StepStatus
  <1>8. CASE FinishExecution(u)
    <2>1. exec' \in [Users -> Execution]
      BY <1>8, IdleIsTyped DEF FinishExecution
    <2>2. actions' \in [Steps -> StepStatus]
      BY <1>8 DEF FinishExecution, StepStatus
    <2>3. status' \in Status
      BY <1>8 DEF FinishExecution, Outcome, Status
    <2>4. \A v \in Users : exec'[v].at \in {"running", "done", "raised"} => exec'[v].step \in Steps
      BY <1>8 DEF FinishExecution, IdleExecution
    <2> QED
      BY <1>8, <2>1, <2>2, <2>3, <2>4 DEF FinishExecution
  <1> QED
    BY <1>1, <1>2, <1>3, <1>4, <1>5, <1>6, <1>7, <1>8 DEF Proceed

LEMMA TypeStep == TypeOK /\ [Next]_vars => TypeOK'
  <1> SUFFICES ASSUME TypeOK, [Next]_vars PROVE TypeOK'
    OBVIOUS
  <1>1. ASSUME NEW u \in Users, ReadToExecute(u) PROVE TypeOK'
    <2>1. [at |-> "read", step |-> 1, view |-> actions] \in Execution
      BY DEF TypeOK, Execution
    <2>2. exec' \in [Users -> Execution]
      BY <1>1, <2>1 DEF TypeOK, ReadToExecute
    <2>3. \A v \in Users : exec'[v].at \in {"running", "done", "raised"} => exec'[v].step \in Steps
      BY <1>1 DEF TypeOK, ReadToExecute
    <2> QED
      BY <1>1, <2>2, <2>3 DEF TypeOK, ReadToExecute
  <1>2. ASSUME NEW u \in Users, ExecutionRaises(u) PROVE TypeOK'
    BY <1>2, IdleIsTyped DEF TypeOK, ExecutionRaises, IdleExecution
  <1>3. CASE Restart
    BY <1>3, IdleIsTyped DEF TypeOK, Restart, IdleExecution
  <1>4. CASE UNCHANGED vars
    BY <1>4 DEF TypeOK
  <1> QED
    BY <1>1, <1>2, <1>3, <1>4, TypeDecide, TypeProceed DEF Next

\* Every reachable state of the workflow is well typed.
THEOREM ChangeTypeCorrect == Spec => []TypeOK
  BY TypeInit, TypeStep, PTL DEF Spec

-----------------------------------------------------------------------------
(* The second person.  Once somebody else has approved, approved_by only   *)
(* ever moves to another independent admin, so it is enough that whoever   *)
(* is about to approve is one and that approved is only ever written by    *)
(* them.                                                                   *)

Approval == DecidersAreIndependent /\ ApprovedIsIndependent /\ SecondPerson

LEMMA ApprovalInit == Init => Approval
  BY DEF Init, Approval, DecidersAreIndependent, ApprovedIsIndependent, SecondPerson,
         IdleExecution

\* A decision keeps an independent approval independent.
LEMMA ApprovalDecide ==
  ASSUME TypeOK, Approval, NEW u \in Users, Decide(u)
  PROVE  Approval'
  <1> USE DEF Approval, DecidersAreIndependent, ApprovedIsIndependent, SecondPerson, Independent
  <1>1. ASSUME NEW op \in Decisions, ReadToDecide(op, u) PROVE Approval'
    BY <1>1 DEF ReadToDecide, MayDecide
  <1>2. CASE Approve(u)
    BY <1>2 DEF Approve, Write
  <1>3. CASE Reject(u)
    BY <1>3 DEF Reject, Write
  <1>4. CASE Cancel(u)
    BY <1>4 DEF Cancel, Write
  <1> QED
    BY <1>1, <1>2, <1>3, <1>4 DEF Decide

\* An execution never touches the approval, and never writes approved.
LEMMA ApprovalProceed ==
  ASSUME TypeOK, Approval, NEW u \in Users, Proceed(u)
  PROVE  Approval'
  <1>1. approvedBy' = approvedBy /\ decisions' = decisions
    BY DEF Proceed, BeginExecution, StartStep, Waited, Deployed, DeployRaises, RecordSuccess,
           RecordFailure, FinishExecution
  <1>2. exec[u].at # "idle"
    BY DEF Proceed, BeginExecution, StartStep, Waited, Deployed, DeployRaises, RecordSuccess,
           RecordFailure, FinishExecution
  <1>3. Independent
    BY <1>2 DEF Approval, SecondPerson
  <1> QED
    BY <1>1, <1>3 DEF Approval, DecidersAreIndependent, ApprovedIsIndependent, SecondPerson,
                      Independent

LEMMA ApprovalStep == TypeOK /\ Approval /\ [Next]_vars => Approval'
  <1> SUFFICES ASSUME TypeOK, Approval, [Next]_vars PROVE Approval'
    OBVIOUS
  <1> USE DEF Approval, DecidersAreIndependent, ApprovedIsIndependent, SecondPerson, Independent
  <1>1. ASSUME NEW u \in Users, ReadToExecute(u) PROVE Approval'
    BY <1>1 DEF ReadToExecute, MayExecute
  <1>2. ASSUME NEW u \in Users, ExecutionRaises(u) PROVE Approval'
    BY <1>2 DEF TypeOK, ExecutionRaises, IdleExecution
  <1>3. CASE Restart
    BY <1>3 DEF Restart, IdleExecution
  <1>4. CASE UNCHANGED vars
    BY <1>4
  <1> QED
    BY <1>1, <1>2, <1>3, <1>4, ApprovalDecide, ApprovalProceed DEF Next

\* Nothing is executed or deployed without an approval by a tenant admin other
\* than the requester, whatever requests overlap.
THEOREM NoUnapprovedDeploy == Spec => []SecondPerson
  <1>1. Spec => []Approval
    BY ApprovalInit, ApprovalStep, ChangeTypeCorrect, PTL DEF Spec
  <1> QED
    BY <1>1, PTL DEF Approval

-----------------------------------------------------------------------------
(* The record.  An execution's position bounds what it has carried out, and *)
(* only an execution that passed the last step writes completed.           *)

Record == ProgressIsApplied /\ CompletedIsApplied

LEMMA RecordInit == Init => Record
  BY DEF Init, Record, ProgressIsApplied, CompletedIsApplied, IdleExecution

\* One execution's move keeps its own account true and disturbs no other's.
LEMMA RecordProceed ==
  ASSUME TypeOK, Record, NEW u \in Users, Proceed(u)
  PROVE  Record'
  <1> USE DEF Record, ProgressIsApplied, CompletedIsApplied, DoneUpTo
  <1>0. exec[u] \in Execution /\ exec[u].step \in Nat
    BY DEF TypeOK, Execution
  <1>1. CASE BeginExecution(u)
    BY <1>0, <1>1 DEF BeginExecution, TypeOK
  <1>2. CASE StartStep(u)
    BY <1>0, <1>2 DEF StartStep, SetStep, TypeOK
  <1>3. CASE Waited(u)
    BY <1>0, <1>3 DEF Waited, SetStep, TypeOK
  <1>4. CASE Deployed(u)
    BY <1>0, <1>4 DEF Deployed, TypeOK
  <1>5. CASE DeployRaises(u)
    BY <1>0, <1>5 DEF DeployRaises, TypeOK
  <1>6. CASE RecordSuccess(u)
    BY <1>0, <1>6 DEF RecordSuccess, SetStep, TypeOK
  <1>7. CASE RecordFailure(u)
    BY <1>0, <1>7 DEF RecordFailure, AfterFailure, SetStep, TypeOK
  <1>8. CASE FinishExecution(u)
    BY <1>0, <1>8 DEF FinishExecution, Outcome, IdleExecution, TypeOK
  <1> QED
    BY <1>1, <1>2, <1>3, <1>4, <1>5, <1>6, <1>7, <1>8 DEF Proceed

LEMMA RecordStep == TypeOK /\ Record /\ [Next]_vars => Record'
  <1> SUFFICES ASSUME TypeOK, Record, [Next]_vars PROVE Record'
    OBVIOUS
  <1> USE DEF Record, ProgressIsApplied, CompletedIsApplied, DoneUpTo, TypeOK
  <1>1. ASSUME NEW u \in Users, Decide(u) PROVE Record'
    BY <1>1 DEF Decide, ReadToDecide, Approve, Reject, Cancel, Write
  <1>2. ASSUME NEW u \in Users, ReadToExecute(u) PROVE Record'
    BY <1>2 DEF ReadToExecute
  <1>3. ASSUME NEW u \in Users, ExecutionRaises(u) PROVE Record'
    BY <1>3 DEF ExecutionRaises, IdleExecution
  <1>4. CASE Restart
    BY <1>4 DEF Restart, IdleExecution
  <1>5. CASE UNCHANGED vars
    BY <1>5
  <1> QED
    BY <1>1, <1>2, <1>3, <1>4, <1>5, RecordProceed DEF Next

\* A change that reads completed was carried out in full on its devices.
THEOREM CompletedIsTrue == Spec => []CompletedIsApplied
  <1>1. Spec => []Record
    BY RecordInit, RecordStep, ChangeTypeCorrect, PTL DEF Spec
  <1> QED
    BY <1>1, PTL DEF Record

-----------------------------------------------------------------------------
(* The settled record.  While no handler dies, an execution is behind every *)
(* change that is executing and behind every step that is running, and it   *)
(* knows of its step, so that what it writes last is written.               *)

AtStep(e) == e.at \in {"running", "done", "raised"}
ExecutingHasExecution ==
  faults = 0 /\ status = "executing" => \E u \in Users : exec[u].at \notin {"idle", "read"}
RunningHasExecution ==
  faults = 0 => \A s \in Steps : actions[s] = "running" =>
    \E u \in Users : AtStep(exec[u]) /\ exec[u].step = s
StepsAreNoted == \A u \in Users : AtStep(exec[u]) => exec[u].view[exec[u].step] = "running"

Attended == ExecutingHasExecution /\ RunningHasExecution /\ StepsAreNoted

LEMMA AttendedInit == Init => Attended
  BY DEF Init, Attended, ExecutingHasExecution, RunningHasExecution, StepsAreNoted, AtStep,
         IdleExecution

\* Setting a step touches no other step and no other execution.
LEMMA SetStepEffect ==
  ASSUME TypeOK, NEW u \in Users, NEW new, NEW at, NEW step, exec[u].step \in Steps,
         SetStep(u, new, at, step)
  PROVE  /\ \A s \in Steps \ {exec[u].step} : actions'[s] = actions[s]
         /\ exec[u].view[exec[u].step] # new => actions'[exec[u].step] = new
         /\ \A v \in Users \ {u} : exec'[v] = exec[v]
         /\ exec'[u].at = at /\ exec'[u].step = step
         /\ exec'[u].view[exec[u].step] = new
  <1>1. exec[u].view \in [Steps -> StepStatus]
    BY DEF TypeOK, Execution
  <1> QED
    BY <1>1 DEF TypeOK, SetStep

\* The end of a step is written, whatever others have made of the step.
LEMMA StepEnds ==
  ASSUME TypeOK, Attended, NEW u \in Users, AtStep(exec[u]), NEW new \in {"completed", "failed"},
         NEW at \in {"next", "stopped"}, SetStep(u, new, at, exec[u].step + 1),
         UNCHANGED <<row, decisions, faults, applied>>
  PROVE  Attended'
  <1>1. exec[u].step \in Steps
    BY DEF TypeOK, AtStep
  <1>2. /\ \A s \in Steps \ {exec[u].step} : actions'[s] = actions[s]
        /\ actions'[exec[u].step] = new
        /\ \A v \in Users \ {u} : exec'[v] = exec[v]
        /\ exec'[u].at = at
    BY <1>1, SetStepEffect DEF Attended, StepsAreNoted
  <1>3. StepsAreNoted'
    BY <1>2 DEF Attended, StepsAreNoted, AtStep
  <1>4. RunningHasExecution'
    BY <1>1, <1>2 DEF Attended, RunningHasExecution, AtStep
  <1>5. ExecutingHasExecution'
    BY <1>2 DEF Attended, ExecutingHasExecution
  <1> QED
    BY <1>3, <1>4, <1>5 DEF Attended

LEMMA AttendedProceed ==
  ASSUME TypeOK, Attended, NEW u \in Users, Proceed(u)
  PROVE  Attended'
  <1> USE DEF Attended, ExecutingHasExecution, RunningHasExecution, StepsAreNoted, AtStep
  <1>0. exec \in [Users -> Execution]
    BY DEF TypeOK
  <1>1. CASE BeginExecution(u)
    <2>1. /\ exec'[u].at = "next" /\ UNCHANGED actions
          /\ \A v \in Users \ {u} : exec'[v] = exec[v]
          /\ exec[u].at = "read"
      BY <1>0, <1>1 DEF BeginExecution, Execution
    <2> QED
      BY <1>1, <2>1 DEF BeginExecution
  <1>2. CASE StartStep(u)
    <2>1. /\ exec[u].step \in Steps /\ exec[u].at = "next"
          /\ SetStep(u, "running", "running", exec[u].step)
          /\ UNCHANGED <<row, decisions, faults, applied>>
      BY <1>2 DEF StartStep
    <2>2. /\ \A s \in Steps \ {exec[u].step} : actions'[s] = actions[s]
          /\ \A v \in Users \ {u} : exec'[v] = exec[v]
          /\ exec'[u].at = "running" /\ exec'[u].step = exec[u].step
          /\ exec'[u].view[exec[u].step] = "running"
      BY <2>1, SetStepEffect
    <2>3. StepsAreNoted'
      BY <2>2
    <2>4. RunningHasExecution'
      BY <2>1, <2>2
    <2>5. ExecutingHasExecution'
      BY <2>1, <2>2
    <2> QED
      BY <2>3, <2>4, <2>5
  <1>3. CASE Waited(u)
    BY <1>3, StepEnds DEF Waited
  <1>4. CASE Deployed(u) \/ DeployRaises(u)
    <2>1. /\ UNCHANGED <<actions, status, faults>> /\ AtStep(exec[u])
          /\ exec'[u].at \in {"done", "raised"} /\ exec'[u].step = exec[u].step
          /\ exec'[u].view = exec[u].view
          /\ \A v \in Users \ {u} : exec'[v] = exec[v]
      BY <1>0, <1>4 DEF Deployed, DeployRaises, Execution
    <2> QED
      BY <2>1
  <1>5. CASE RecordSuccess(u)
    BY <1>5, StepEnds DEF RecordSuccess
  <1>6. CASE RecordFailure(u)
    BY <1>6, StepEnds DEF RecordFailure, AfterFailure
  <1>7. CASE FinishExecution(u)
    <2>1. /\ status' # "executing" /\ ~AtStep(exec[u]) /\ ~AtStep(exec'[u])
          /\ \A v \in Users \ {u} : exec'[v] = exec[v]
          /\ \A s \in Steps : actions'[s] = "running" => actions[s] = "running"
          /\ UNCHANGED faults
      BY <1>0, <1>7 DEF FinishExecution, Outcome, IdleExecution
    <2> QED
      BY <2>1
  <1> QED
    BY <1>1, <1>2, <1>3, <1>4, <1>5, <1>6, <1>7 DEF Proceed

LEMMA AttendedStep == TypeOK /\ Attended /\ [Next]_vars => Attended'
  <1> SUFFICES ASSUME TypeOK, Attended, [Next]_vars PROVE Attended'
    OBVIOUS
  <1> USE DEF Attended, ExecutingHasExecution, RunningHasExecution, StepsAreNoted, AtStep
  <1>1. ASSUME NEW u \in Users, Decide(u) PROVE Attended'
    <2>1. UNCHANGED <<exec, actions, faults>> /\ (status' = status \/ status' # "executing")
      BY <1>1 DEF Decide, ReadToDecide, Approve, Reject, Cancel, Write
    <2> QED
      BY <2>1
  <1>2. ASSUME NEW u \in Users, ReadToExecute(u) PROVE Attended'
    BY <1>2 DEF ReadToExecute, TypeOK
  <1>3. ASSUME NEW u \in Users, ExecutionRaises(u) PROVE Attended'
    BY <1>3 DEF ExecutionRaises, IdleExecution, TypeOK
  <1>4. CASE Restart
    BY <1>4 DEF Restart, IdleExecution, TypeOK
  <1>5. CASE UNCHANGED vars
    BY <1>5
  <1> QED
    BY <1>1, <1>2, <1>3, <1>4, <1>5, AttendedProceed DEF Next

\* Unless a handler died, a change that nobody executes is not executing and has no
\* step left running, however many executions have passed over it.
THEOREM RecordSettles == Spec => []SettledRecord
  <1>1. Attended => SettledRecord
    BY DEF Attended, ExecutingHasExecution, RunningHasExecution, AtStep, SettledRecord, Undisturbed
  <1> QED
    BY <1>1, AttendedInit, AttendedStep, ChangeTypeCorrect, PTL DEF Spec
=============================================================================
