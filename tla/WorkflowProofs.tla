--------------------------- MODULE WorkflowProofs ---------------------------
(***************************************************************************)
(* What holds of Workflow for every set of tasks and plans, every table of *)
(* risks, every limit and any number of lost runs.                         *)
(***************************************************************************)
EXTENDS Workflow, TLAPS

\* The states the table lists.
LEMMA States ==
    IncidentState = {"detected", "assessing", "planning", "assuring",
                     "awaiting_approval", "executing", "resolved", "blocked", "failed"}
BY DEF IncidentState, Transitions

\* The plan a run works on is a plan, or none yet.
LEMMA WorkPlanType == TypeOK => CurrentPlan \in Plan \cup {0} /\ WorkPlan \in Plan \cup {0}
BY DEF TypeOK, CurrentPlan, WorkPlan, Plan

\* What a step of a handler may move the incident to.
LEMMA Targets ==
    /\ \A o : AfterGate(o) \in {"executing", "awaiting_approval", "blocked"}
    /\ \A ts : AfterRejection(ts) \in {"blocked", "assuring"}
    /\ \A r, ts : AfterResult(r, ts) \in {"blocked", "resolved", "assuring"}
    /\ AfterUnclaimed = "blocked"
BY DEF AfterGate, AfterRejection, AfterResult, AfterUnclaimed

-----------------------------------------------------------------------------
(* Type correctness                                                        *)

\* Every step keeps every variable in its range.
LEMMA TypeStep == TypeOK /\ [Next]_vars => TypeOK'
<1> SUFFICES ASSUME TypeOK, [Next]_vars PROVE TypeOK'
  OBVIOUS
<1> USE BoundAssumption DEF TypeOK, past
<1>0. CurrentPlan \in Plan \cup {0} /\ WorkPlan \in Plan \cup {0}
  BY WorkPlanType
<1>1. CASE StartRun
  BY <1>1, <1>0 DEF StartRun, StepsTaken, rows
<1>2. CASE StartGroupRun
  BY <1>2 DEF StartGroupRun, rows
<1>3. CASE ExceedBudget
  BY <1>3, States DEF ExceedBudget, ctx
<1>4. CASE StepDetected
  BY <1>4, States DEF StepDetected, Move
<1>5. CASE StepAssessing
  BY <1>5, States DEF StepAssessing, Move
<1>6. CASE StepPlanning
  BY <1>6, <1>0, States DEF StepPlanning, Proposals, Move, Plan
<1>7. CASE AssureNothing
  BY <1>7, <1>0, States DEF AssureNothing, Move
<1>8. CASE AssureNext
  <2>1. PICK t \in Ready(WorkPlan, task), o \in Outcome :
           /\ evals' = Append(evals, [task |-> t, outcome |-> o, decision |-> "none"])
           /\ ctxEval' = Len(evals) + 1
           /\ task' = [task EXCEPT ![t] = IF o = "execute" THEN "assured"
                                          ELSE "needs_human"]
           /\ Move(AfterGate(o))
    BY <1>8 DEF AssureNext
  <2>2. t \in Task
    BY DEF Ready, TasksOf
  <2>3. [task |-> t, outcome |-> o, decision |-> "none"] \in Evaluation
    BY <2>2 DEF Evaluation, Decision
  <2>4. evals' \in Seq(Evaluation) /\ ctxEval' \in Nat
    BY <2>1, <2>3
  <2>5. task' \in [Task -> TaskState]
    BY <2>1, <2>2 DEF TaskState
  <2>6. state' \in IncidentState /\ changes' \in Nat /\ ctxTaken' \in Nat
    BY <2>1, Targets, States DEF Move
  <2> QED
    BY <1>8, <1>0, <2>4, <2>5, <2>6 DEF AssureNext
<1>9. CASE AwaitNothing
  BY <1>9, <1>0, States DEF AwaitNothing, Move
<1>10. CASE AwaitUndecided
  <2>1. PICK e \in DOMAIN evals :
           IF Approvable(evals[e].outcome)
           THEN Rest /\ UNCHANGED <<state, changes>>
           ELSE Move("blocked") /\ ctxPlan' = WorkPlan /\ ctxEval' = e /\ UNCHANGED running
    BY <1>10 DEF AwaitUndecided
  <2>2. e \in Nat
    OBVIOUS
  <2>3. CASE Approvable(evals[e].outcome)
    <3>1. Rest /\ UNCHANGED <<state, changes>>
      BY <2>1, <2>3
    <3>2. UNCHANGED <<plans, selected, task, evals, action, actedOn, calls, past>>
      BY <1>10 DEF AwaitUndecided
    <3> QED
      BY <3>1, <3>2 DEF Rest, EndRun
  <2>4. CASE ~Approvable(evals[e].outcome)
    BY <1>10, <1>0, <2>1, <2>2, <2>4, States DEF AwaitUndecided, Move
  <2> QED
    BY <2>3, <2>4
<1>11. CASE AwaitApproved
  <2>1. PICK e \in DOMAIN evals :
           /\ task' = [task EXCEPT ![evals[e].task] = "assured"]
           /\ ctxPlan' = WorkPlan
           /\ ctxEval' = e
    BY <1>11 DEF AwaitApproved
  <2>2. e \in Nat
    OBVIOUS
  <2>3. task' \in [Task -> TaskState]
    BY <2>1 DEF TaskState
  <2> QED
    BY <1>11, <1>0, <2>1, <2>2, <2>3, States DEF AwaitApproved, Move
<1>12. CASE AwaitRejected
  <2>1. PICK e \in DOMAIN evals : task' = [task EXCEPT ![evals[e].task] = "rejected"]
    BY <1>12 DEF AwaitRejected
  <2>2. task' \in [Task -> TaskState]
    BY <2>1 DEF TaskState
  <2> QED
    BY <1>12, <2>2, <1>0, States, Targets DEF AwaitRejected, Move
<1>13. CASE ExecuteUnclaimed
  BY <1>13, States, Targets DEF ExecuteUnclaimed, Move
<1>14. CASE ReplayAction
  BY <1>14, States, Targets DEF ReplayAction, Move
<1>15. CASE DispatchTask
  <2>1. PICK t \in Task, r \in Result :
           /\ calls' = [calls EXCEPT ![t] = @ + 1]
           /\ action' = [action EXCEPT ![t] = r]
           /\ actedOn' = [actedOn EXCEPT ![t] = ctxEval]
           /\ task' = [task EXCEPT ![t] = TaskStateFor(r)]
           /\ Move(AfterResult(r, task'))
    BY <1>15 DEF DispatchTask
  <2>2. TaskStateFor(r) \in TaskState
    BY DEF TaskStateFor, Result, TaskState
  <2>3. task' \in [Task -> TaskState] /\ calls' \in [Task -> Nat]
    BY <2>1, <2>2
  <2>4. action' \in [Task -> Result \cup {"none"}] /\ actedOn' \in [Task -> Nat]
    BY <2>1
  <2>5. state' \in IncidentState /\ changes' \in Nat /\ ctxTaken' \in Nat
    BY <2>1, Targets, States DEF Move
  <2> QED
    BY <1>15, <2>3, <2>4, <2>5 DEF DispatchTask
<1>16. CASE FinishRun
  BY <1>16 DEF FinishRun, EndRun, rows
<1>17. CASE AbortRun
  <2>1. aborts' \in Nat
    BY <1>17 DEF AbortRun
  <2> QED
    BY <1>17, <2>1 DEF AbortRun, EndRun, rows
<1>18. CASE DispatchLost
  <2>1. aborts' \in Nat /\ calls' \in [Task -> Nat]
    BY <1>18 DEF DispatchLost
  <2> QED
    BY <1>18, <2>1 DEF DispatchLost, EndRun, rows
<1>19. CASE DecideSome
  <2>1. PICK e \in DOMAIN evals, d \in Decision : Decide(e, d)
    BY <1>19 DEF DecideSome
  <2>2. e \in 1..Len(evals) /\ evals[e] \in Evaluation
    BY <2>1
  <2>3. [evals[e] EXCEPT !.decision = d] \in Evaluation
    BY <2>2 DEF Evaluation
  <2>4. evals' \in Seq(Evaluation)
    BY <2>1, <2>2, <2>3 DEF Decide
  <2> QED
    BY <2>1, <2>4 DEF Decide, ctx
<1>20. CASE ReadPlans
  BY <1>20 DEF ReadPlans, ctx, Plan
<1>21. CASE SelectSome
  BY <1>21 DEF SelectSome, SelectPlan, ctx
<1>22. CASE UNCHANGED vars
  BY <1>22 DEF vars, rows, ctx
<1> QED
  BY <1>1, <1>2, <1>3, <1>4, <1>5, <1>6, <1>7, <1>8, <1>9, <1>10, <1>11, <1>12,
     <1>13, <1>14, <1>15, <1>16, <1>17, <1>18, <1>19, <1>20, <1>21, <1>22 DEF Next, Step

\* The initial values are of their types.
LEMMA TypeInit == Init => TypeOK
<1> SUFFICES ASSUME Init PROVE TypeOK
  OBVIOUS
<1>1. task \in [Task -> TaskState] /\ evals \in Seq(Evaluation)
  BY DEF Init, TaskState
<1>2. /\ action \in [Task -> Result \cup {"none"}]
      /\ actedOn \in [Task -> Nat]
      /\ calls \in [Task -> Nat]
  BY DEF Init
<1> QED
  BY <1>1, <1>2, States DEF Init, TypeOK

\* The variables of the workflow keep their types in every behaviour.
THEOREM TypeCorrect == Spec => []TypeOK
BY TypeInit, TypeStep, PTL DEF Spec

-----------------------------------------------------------------------------
(* Nothing is done without authority                                       *)

\* The evaluation a run has in hand exists.
InHandExists == ctxEval \in {0} \cup DOMAIN evals

\* An approval stands only where the gate's answer may be approved.
ApprovalsStand ==
    \A e \in DOMAIN evals : evals[e].decision = "approved" => MayApprove(evals[e].outcome)

AuthorityInv == TypeOK /\ InHandExists /\ ApprovalsStand /\ ActedOnlyWithAuthority

\* Appending an evaluation changes none of those already there.
LEMMA AppendKeeps ==
    ASSUME NEW S, NEW s \in Seq(S), NEW x \in S
    PROVE  /\ DOMAIN Append(s, x) = DOMAIN s \cup {Len(s) + 1}
           /\ \A i \in DOMAIN s : Append(s, x)[i] = s[i]
           /\ Append(s, x)[Len(s) + 1] = x
OBVIOUS

\* Steps that write neither evaluations nor actions keep the authority invariant.
LEMMA AuthorityFrame ==
    ASSUME AuthorityInv, TypeOK', UNCHANGED <<evals, action, actedOn>>,
           ctxEval' \in {0, ctxEval} \cup DOMAIN evals
    PROVE  AuthorityInv'
BY DEF AuthorityInv, InHandExists, ApprovalsStand, ActedOnlyWithAuthority, MayApprove

LEMMA AuthorityStep == AuthorityInv /\ [Next]_vars => AuthorityInv'
<1> SUFFICES ASSUME AuthorityInv, [Next]_vars PROVE AuthorityInv'
  OBVIOUS
<1>0. TypeOK /\ TypeOK'
  BY TypeStep DEF AuthorityInv
<1>1. CASE AssureNext
  <2>1. PICK t \in Ready(WorkPlan, task), o \in Outcome :
           /\ evals' = Append(evals, [task |-> t, outcome |-> o, decision |-> "none"])
           /\ ctxEval' = Len(evals) + 1
    BY <1>1 DEF AssureNext
  <2>2. [task |-> t, outcome |-> o, decision |-> "none"] \in Evaluation
    BY DEF Ready, TasksOf, Evaluation
  <2>3. UNCHANGED <<action, actedOn>>
    BY <1>1 DEF AssureNext
  <2>4. evals \in Seq(Evaluation)
    BY <1>0 DEF TypeOK
  <2>5. /\ DOMAIN evals' = DOMAIN evals \cup {Len(evals) + 1}
        /\ \A i \in DOMAIN evals : evals'[i] = evals[i]
        /\ evals'[Len(evals) + 1] = [task |-> t, outcome |-> o, decision |-> "none"]
    BY <2>1, <2>2, <2>4, AppendKeeps
  <2>6. InHandExists'
    BY <2>1, <2>5 DEF InHandExists
  <2>7. ApprovalsStand'
    BY <2>5 DEF ApprovalsStand, MayApprove, AuthorityInv
  <2>8. ActedOnlyWithAuthority'
    BY <2>3, <2>5 DEF ActedOnlyWithAuthority, AuthorityInv
  <2> QED
    BY <1>0, <2>6, <2>7, <2>8 DEF AuthorityInv
<1>2. CASE DispatchTask
  <2>1. PICK t \in Task, r \in Result :
           /\ t = evals[ctxEval].task
           /\ action' = [action EXCEPT ![t] = r]
           /\ actedOn' = [actedOn EXCEPT ![t] = ctxEval]
    BY <1>2 DEF DispatchTask
  <2>2. ctxEval # 0 /\ MayExecute(evals[ctxEval]) /\ ctxEval' = 0 /\ UNCHANGED evals
    BY <1>2 DEF DispatchTask
  <2>3. ctxEval \in DOMAIN evals
    BY <2>2 DEF AuthorityInv, InHandExists
  <2>4. \/ evals[ctxEval].outcome = "execute"
        \/ evals[ctxEval].outcome = "hold" /\ evals[ctxEval].decision = "approved"
    BY <2>2, <2>3 DEF MayExecute, RequiresHuman, Executable, AuthorityInv,
                      ApprovalsStand, MayApprove
  <2>5. action \in [Task -> Result \cup {"none"}] /\ actedOn \in [Task -> Nat]
    BY <1>0 DEF TypeOK
  <2>6. ActedOnlyWithAuthority'
    BY <2>1, <2>2, <2>3, <2>4, <2>5 DEF ActedOnlyWithAuthority, AuthorityInv
  <2> QED
    BY <1>0, <2>2, <2>6 DEF AuthorityInv, InHandExists, ApprovalsStand
<1>3. CASE DecideSome
  <2>1. PICK e \in DOMAIN evals, d \in Decision : Decide(e, d)
    BY <1>3 DEF DecideSome
  <2>2. evals \in Seq(Evaluation) /\ evals[e] \in Evaluation
    BY <1>0 DEF TypeOK
  <2>3. /\ DOMAIN evals' = DOMAIN evals
        /\ \A i \in DOMAIN evals : /\ evals'[i].task = evals[i].task
                                   /\ evals'[i].outcome = evals[i].outcome
                                   /\ i # e => evals'[i] = evals[i]
        /\ evals'[e].decision = d
    BY <2>1, <2>2 DEF Decide, Evaluation
  <2>4. evals[e].decision = "none" /\ (d = "approved" => MayApprove(evals[e].outcome))
    BY <2>1 DEF Decide, MayDecide
  <2>5. UNCHANGED <<action, actedOn, ctxEval>>
    BY <2>1 DEF Decide, ctx
  <2>6. ApprovalsStand'
    BY <2>3, <2>4 DEF ApprovalsStand, AuthorityInv, MayApprove
  <2>7. ActedOnlyWithAuthority'
    BY <2>3, <2>4, <2>5 DEF ActedOnlyWithAuthority, AuthorityInv
  <2> QED
    BY <1>0, <2>3, <2>5, <2>6, <2>7 DEF AuthorityInv, InHandExists
<1>4. CASE UNCHANGED vars
  BY <1>0, <1>4, AuthorityFrame DEF vars, rows, ctx
<1>5. CASE AwaitUndecided
  BY <1>0, <1>5, AuthorityFrame DEF AwaitUndecided, Rest, EndRun
<1>6. CASE AwaitApproved
  BY <1>0, <1>6, AuthorityFrame DEF AwaitApproved
<1>7. CASE AwaitRejected
  BY <1>0, <1>7, AuthorityFrame DEF AwaitRejected
<1>8. CASE ReplayAction
  BY <1>0, <1>8, AuthorityFrame DEF ReplayAction
<1>9. CASE StartRun \/ StartGroupRun \/ FinishRun \/ AbortRun \/ DispatchLost
  BY <1>0, <1>9, AuthorityFrame DEF StartRun, StartGroupRun, FinishRun, AbortRun,
     DispatchLost, EndRun, rows
<1>10. CASE ExceedBudget \/ ReadPlans \/ SelectSome
  BY <1>0, <1>10, AuthorityFrame DEF ExceedBudget, ReadPlans, SelectSome, SelectPlan, ctx
<1>11. CASE StepDetected \/ StepAssessing \/ StepPlanning
  BY <1>0, <1>11, AuthorityFrame DEF StepDetected, StepAssessing, StepPlanning
<1>12. CASE AssureNothing \/ AwaitNothing \/ ExecuteUnclaimed
  BY <1>0, <1>12, AuthorityFrame DEF AssureNothing, AwaitNothing, ExecuteUnclaimed
<1> QED
  BY <1>1, <1>2, <1>3, <1>4, <1>5, <1>6, <1>7, <1>8, <1>9, <1>10, <1>11, <1>12
     DEF Next, Step

LEMMA AuthorityInit == Init => AuthorityInv
BY TypeInit DEF Init, AuthorityInv, InHandExists, ApprovalsStand, ActedOnlyWithAuthority

\* Whatever the plans, the answers of the gate and the order of decisions, every
\* action row names an evaluation that authorised it.
THEOREM Authority == Spec => []ActedOnlyWithAuthority
<1>1. AuthorityInv => ActedOnlyWithAuthority
  BY DEF AuthorityInv
<1> QED
  BY <1>1, AuthorityInit, AuthorityStep, PTL DEF Spec

-----------------------------------------------------------------------------
(* The table of transitions                                                *)

\* An incident still "detected" has taken no step, in this run or before, so its
\* budget cannot be what stops it there: "detected" may not become "blocked".
FreshUntouched == state = "detected" => changes = 0 /\ ctxTaken = 0

MovesInv == TypeOK /\ FreshUntouched

LEMMA MovesStep ==
    ASSUME MovesInv, [Next]_vars
    PROVE  MovesInv' /\ (state' # state => CanTransition(state, state'))
<1>0. TypeOK /\ TypeOK'
  BY TypeStep DEF MovesInv
<1> USE DEF MovesInv, FreshUntouched, CanTransition, Transitions
<1>1. CASE StartRun \/ StartGroupRun \/ FinishRun \/ AbortRun \/ DispatchLost
  BY <1>0, <1>1 DEF StartRun, StepsTaken, StartGroupRun, FinishRun, AbortRun,
     DispatchLost, EndRun, rows
<1>2. CASE ExceedBudget
  <2>1. ctxTaken # 0
    BY <1>0, <1>2, BoundAssumption DEF ExceedBudget, TypeOK
  <2>2. state \in {"assessing", "planning", "assuring", "awaiting_approval", "executing"}
    BY <1>0, <1>2, <2>1, States DEF ExceedBudget, TypeOK, Terminal
  <2> QED
    BY <1>0, <1>2, <2>2 DEF ExceedBudget
<1>3. CASE StepDetected \/ StepAssessing \/ StepPlanning
  BY <1>0, <1>3 DEF StepDetected, StepAssessing, StepPlanning, Stepping, Move
<1>4. CASE AssureNothing \/ AssureNext
  <2>1. state = "assuring" /\ state' \in {"executing", "awaiting_approval", "blocked"}
    BY <1>4, Targets DEF AssureNothing, AssureNext, Stepping, Move
  <2> QED
    BY <1>0, <2>1
<1>5. CASE AwaitNothing \/ AwaitApproved \/ AwaitRejected
  BY <1>0, <1>5, Targets DEF AwaitNothing, AwaitApproved, AwaitRejected, Stepping, Move
<1>6. CASE AwaitUndecided
  <2>1. /\ state = "awaiting_approval"
        /\ state' = state \/ state' = "blocked"
    BY <1>6 DEF AwaitUndecided, Stepping, Move
  <2> QED
    BY <1>0, <2>1
<1>7. CASE ExecuteUnclaimed \/ ReplayAction \/ DispatchTask
  BY <1>0, <1>7, Targets DEF ExecuteUnclaimed, ReplayAction, DispatchTask, Stepping, Move
<1>8. CASE DecideSome \/ ReadPlans \/ SelectSome \/ UNCHANGED vars
  BY <1>0, <1>8 DEF DecideSome, Decide, ReadPlans, SelectSome, SelectPlan, ctx, vars, rows
<1> QED
  BY <1>1, <1>2, <1>3, <1>4, <1>5, <1>6, <1>7, <1>8 DEF Next, Step

\* The engine's own assertion on the table never has anything to refuse, for any
\* budget of at least one step.
THEOREM MovesAreLegal == Spec => LegalMoves
<1>1. Init => MovesInv
  BY TypeInit DEF Init, MovesInv, FreshUntouched
<1>2. MovesInv /\ [Next]_vars => [state' # state => CanTransition(state, state')]_state
  BY MovesStep
<1>3. MovesInv /\ [Next]_vars => MovesInv'
  BY MovesStep
<1> QED
  BY <1>1, <1>2, <1>3, PTL DEF Spec, LegalMoves

-----------------------------------------------------------------------------
(* The budget                                                              *)

\* While an incident is open that no cascade drove, a run counts what the decision log
\* counts, and the log is within the limit; the final block is the one entry beyond it.
BudgetInv ==
    /\ TypeOK
    /\ ~cascaded =>
          /\ state \notin Terminal => /\ changes <= MaxSteps
                                      /\ running => ctxTaken = changes
          /\ changes <= MaxSteps + 1

LEMMA BudgetStep == BudgetInv /\ [Next]_vars => BudgetInv'
<1> SUFFICES ASSUME BudgetInv, [Next]_vars PROVE BudgetInv'
  OBVIOUS
<1>0. /\ TypeOK /\ TypeOK' /\ changes \in Nat /\ MaxSteps \in Nat /\ ctxTaken \in Nat
      /\ cascaded \in BOOLEAN
      /\ ~cascaded =>
            /\ changes <= MaxSteps + 1
            /\ state \notin Terminal => /\ changes <= MaxSteps
                                        /\ running => ctxTaken = changes
  BY TypeStep, BoundAssumption DEF BudgetInv, TypeOK
<1>1. CASE StartRun
  BY <1>0, <1>1 DEF StartRun, StepsTaken, rows, past, BudgetInv
<1>2. CASE StartGroupRun
  BY <1>0, <1>2 DEF StartGroupRun, BudgetInv
<1>3. CASE ExceedBudget
  BY <1>0, <1>3 DEF ExceedBudget, BudgetInv, Terminal, past
<1>4. CASE \E target \in IncidentState :
              /\ running /\ running' /\ state \notin Terminal /\ ctxTaken < MaxSteps
              /\ Move(target) /\ cascaded' = cascaded
  <2>1. changes' = changes + 1 /\ ctxTaken' = ctxTaken + 1
    BY <1>4 DEF Move
  <2>2. ~cascaded => changes = ctxTaken /\ ctxTaken < MaxSteps
    BY <1>0, <1>4
  <2>3. ~cascaded => /\ changes' = ctxTaken'
                     /\ changes' <= MaxSteps
                     /\ changes' <= MaxSteps + 1
    BY <1>0, <2>1, <2>2
  <2> QED
    BY <1>0, <1>4, <2>3 DEF BudgetInv
<1>5. CASE UNCHANGED <<state, changes, cascaded>> /\ (running' => running /\ UNCHANGED ctxTaken)
  BY <1>0, <1>5 DEF BudgetInv
<1>6. CASE StepDetected \/ StepAssessing \/ StepPlanning \/ AssureNothing \/ AwaitNothing
  <2>1. /\ running /\ running' /\ state \notin Terminal /\ ctxTaken < MaxSteps
        /\ cascaded' = cascaded
        /\ \/ Move("assessing") \/ Move("planning") \/ Move("assuring") \/ Move("blocked")
    BY <1>6 DEF StepDetected, StepAssessing, StepPlanning, AssureNothing,
                AwaitNothing, Stepping, Terminal, past
  <2> QED
    BY <1>4, <2>1, States
<1>7. CASE AssureNext \/ AwaitApproved \/ AwaitRejected \/ ExecuteUnclaimed \/ ReplayAction
           \/ DispatchTask
  <2>1. /\ running /\ running' /\ state \notin Terminal /\ ctxTaken < MaxSteps
        /\ cascaded' = cascaded
    BY <1>7 DEF AssureNext, AwaitApproved, AwaitRejected, ExecuteUnclaimed,
                ReplayAction, DispatchTask, Stepping, Terminal, past
  <2>2. CASE AssureNext
    <3>1. PICK o \in Outcome : Move(AfterGate(o))
      BY <2>2 DEF AssureNext
    <3> QED
      BY <1>4, <2>1, <3>1, States, Targets
  <2>3. CASE AwaitApproved \/ ExecuteUnclaimed
    BY <1>4, <2>1, <2>3, States, Targets DEF AwaitApproved, ExecuteUnclaimed
  <2>4. CASE AwaitRejected
    <3>1. Move(AfterRejection(task'))
      BY <2>4 DEF AwaitRejected
    <3> QED
      BY <1>4, <2>1, <3>1, States, Targets
  <2>5. CASE ReplayAction \/ DispatchTask
    <3>1. PICK r, ts : Move(AfterResult(r, ts))
      BY <2>5 DEF ReplayAction, DispatchTask
    <3> QED
      BY <1>4, <2>1, <3>1, States, Targets
  <2> QED
    BY <1>7, <2>2, <2>3, <2>4, <2>5
<1>8. CASE AwaitUndecided
  <2>1. /\ running /\ state \notin Terminal /\ ctxTaken < MaxSteps
        /\ cascaded' = cascaded
        /\ \/ ~running' /\ UNCHANGED <<state, changes>>
           \/ running' /\ Move("blocked")
    <3>1. PICK e \in DOMAIN evals :
             IF Approvable(evals[e].outcome)
             THEN Rest /\ UNCHANGED <<state, changes>>
             ELSE Move("blocked") /\ UNCHANGED running
      BY <1>8 DEF AwaitUndecided
    <3>2. /\ running /\ state \notin Terminal /\ ctxTaken < MaxSteps
          /\ cascaded' = cascaded
      BY <1>8 DEF AwaitUndecided, Stepping, Terminal, past
    <3> QED
      BY <3>1, <3>2 DEF Rest, EndRun
  <2> QED
    BY <1>4, <1>5, <2>1, States
<1>9. CASE FinishRun \/ AbortRun \/ DispatchLost
  BY <1>5, <1>9 DEF FinishRun, AbortRun, DispatchLost, EndRun, rows, past
<1>10. CASE DecideSome \/ ReadPlans \/ SelectSome \/ UNCHANGED vars
  BY <1>5, <1>10 DEF DecideSome, Decide, ReadPlans, SelectSome, SelectPlan, ctx, vars, rows,
                     past
<1> QED
  BY <1>1, <1>2, <1>3, <1>6, <1>7, <1>8, <1>9, <1>10 DEF Next, Step

\* Until a cascade drives it, asking again never buys an incident more transitions than
\* the limit and the final block, through any number of requests, crashes and
\* restarts.  A cascade breaks it: its runs start from zero.
THEOREM BudgetHolds == Spec => []BudgetSpansRuns
<1>1. Init => BudgetInv
  BY TypeInit, BoundAssumption DEF Init, BudgetInv
<1>2. BudgetInv => BudgetSpansRuns
  BY DEF BudgetInv, BudgetSpansRuns
<1>3. BudgetInv /\ [Next]_vars => BudgetInv'
  BY BudgetStep
<1> QED
  BY <1>1, <1>2, <1>3, PTL DEF Spec

-----------------------------------------------------------------------------
(* What an incident rests on                                               *)

\* While an incident is open, the gate cleared or held on risk whatever it was asked: any
\* other answer closed it.
HeldOnRisk ==
    state \notin Terminal => \A e \in DOMAIN evals : evals[e].outcome \in {"execute", "hold"}

LEMMA HeldOnRiskStep == TypeOK /\ HeldOnRisk /\ [Next]_vars => HeldOnRisk'
<1> SUFFICES ASSUME TypeOK, HeldOnRisk, [Next]_vars PROVE HeldOnRisk'
  OBVIOUS
<1>1. CASE AssureNext
  <2>1. PICK t \in Ready(WorkPlan, task), o \in Outcome :
          /\ evals' = Append(evals, [task |-> t, outcome |-> o, decision |-> "none"])
          /\ Move(AfterGate(o))
    BY <1>1 DEF AssureNext
  <2>2. [task |-> t, outcome |-> o, decision |-> "none"] \in Evaluation
    BY DEF Evaluation, Ready, TasksOf
  <2>3. /\ DOMAIN evals' = DOMAIN evals \cup {Len(evals) + 1}
        /\ \A e \in DOMAIN evals : evals'[e] = evals[e]
        /\ evals'[Len(evals) + 1].outcome = o
    BY <2>1, <2>2, AppendKeeps DEF TypeOK
  <2>4. state \notin Terminal
    BY <1>1 DEF AssureNext, Stepping, Terminal
  <2>5. state' \notin Terminal => o \in {"execute", "hold"}
    BY <2>1 DEF Move, AfterGate, Approvable, Terminal
  <2> QED
    BY <2>3, <2>4, <2>5 DEF HeldOnRisk
<1>2. CASE DecideSome
  <2>1. PICK e \in DOMAIN evals, d \in Decision :
          evals' = [evals EXCEPT ![e].decision = d] /\ state' = state
    BY <1>2 DEF DecideSome, Decide
  <2>2. evals \in Seq(Evaluation)
    BY DEF TypeOK
  <2>3. /\ DOMAIN evals' = DOMAIN evals
        /\ \A f \in DOMAIN evals : evals'[f].outcome = evals[f].outcome
    BY <2>1, <2>2 DEF Evaluation
  <2> QED
    BY <2>1, <2>3 DEF HeldOnRisk
<1>3. CASE UNCHANGED evals /\ (state \in Terminal => state' \in Terminal)
  BY <1>3 DEF HeldOnRisk
<1>4. CASE \/ StartRun \/ StartGroupRun \/ FinishRun \/ AbortRun \/ DispatchLost
           \/ ReadPlans \/ SelectSome \/ UNCHANGED vars
  BY <1>3, <1>4 DEF StartRun, StartGroupRun, FinishRun, AbortRun, DispatchLost, ReadPlans,
                    SelectSome, SelectPlan, rows, vars
<1>5. CASE \/ ExceedBudget \/ StepDetected \/ StepAssessing \/ StepPlanning \/ AssureNothing
           \/ AwaitNothing \/ AwaitUndecided \/ AwaitApproved \/ AwaitRejected
           \/ ExecuteUnclaimed \/ ReplayAction \/ DispatchTask
  <2>1. UNCHANGED evals
    BY <1>5 DEF ExceedBudget, StepDetected, StepAssessing, StepPlanning, AssureNothing,
                AwaitNothing, AwaitUndecided, AwaitApproved, AwaitRejected, ExecuteUnclaimed,
                ReplayAction, DispatchTask
  <2>2. state \notin Terminal
    BY <1>5 DEF ExceedBudget, StepDetected, StepAssessing, StepPlanning, AssureNothing,
                AwaitNothing, AwaitUndecided, AwaitApproved, AwaitRejected, ExecuteUnclaimed,
                ReplayAction, DispatchTask, Stepping, Terminal
  <2> QED
    BY <1>3, <2>1, <2>2
<1> QED
  BY <1>1, <1>2, <1>4, <1>5 DEF Next, Step

\* An incident that waits waits for something a person may approve, whatever the gate was
\* asked and whoever decided, selected or ran in between.
THEOREM WaitsForApprovable == Spec => []ParkedIsApprovable
<1>1. Init => HeldOnRisk
  BY DEF Init, HeldOnRisk
<1>2. TypeOK /\ HeldOnRisk => ParkedIsApprovable
  BY DEF TypeOK, HeldOnRisk, ParkedIsApprovable, IsPending, HeldEvals, RequiresHuman, Executable,
         Terminal
<1> QED
  BY <1>1, <1>2, TypeInit, TypeStep, HeldOnRiskStep, PTL DEF Spec

-----------------------------------------------------------------------------
(* Workflow implements Authorisation.  The invariant says why a dispatch is  *)
(* always one the promise allows: what the run has in hand was called for    *)
(* the first time, its dependencies are done for good, and no task of the    *)
(* same action type was called, in this plan or another.                     *)

\* The task of the evaluation the run has in hand.
HandTask == evals[ctxEval].task

\* A run holds an evaluation only while it waits for a decision on it, executes
\* it, or has just been closed over it; it belongs to the plan of the run.
HandInv ==
    ctxEval # 0 =>
        /\ state \in {"awaiting_approval", "executing", "blocked"}
        /\ PlanOf[HandTask] = ctxPlan
        /\ state = "awaiting_approval" => task[HandTask] = "needs_human"
        /\ state = "executing" => task[HandTask] = "assured"

\* A call that left no action row closed the road: the incident is over, or it
\* executes with nothing in hand, where the next step can only block it.
Lost == state \in Terminal \/ (state = "executing" /\ ctxEval = 0)

CallInv ==
    \A t \in Task :
        /\ calls[t] \in {0, 1}
        /\ action[t] # "none" => calls[t] = 1
        /\ calls[t] = 1 => action[t] # "none" \/ Lost
        /\ calls[t] = 1 => \E e \in DOMAIN evals : evals[e].task = t
        /\ action[t] = "skipped" => state \in Terminal
        /\ task[t] \in DoneWell => calls[t] = 1

\* A task was evaluated only after the tasks it waits for were done, for good.
DependsInv ==
    \A e \in DOMAIN evals : \A d \in DependsOn[evals[e].task] : task[d] \in DoneWell

\* Only the baseline and the plan an operator selected are ever worked on, and
\* work on the selected plan ends work on the baseline.
PlanInv ==
    /\ selected # 0 => selected \in plans
    /\ ctxPlan \in {0, Baseline, selected}
    /\ plans = {} => ctxPlan = 0 /\ evals = << >>
    /\ \A e \in DOMAIN evals :
          /\ PlanOf[evals[e].task] \in {Baseline, selected}
          /\ PlanOf[evals[e].task] # Baseline => ctxPlan # Baseline

\* What the gate cleared or held in the selected plan, the baseline did not call.
CrossPlanInv ==
    \A e \in DOMAIN evals :
        (PlanOf[evals[e].task] # Baseline /\ evals[e].outcome \in {"execute", "hold"}) =>
            \A u \in Task : (/\ PlanOf[u] = Baseline
                             /\ ActionOf[u] = ActionOf[evals[e].task]) => calls[u] = 0

\* While a task is in hand for execution no other of its action type was called.
SoleInv ==
    (state = "executing" /\ ctxEval # 0) =>
        \A u \in Task \ {HandTask} : ActionOf[u] = ActionOf[HandTask] => calls[u] = 0

PromiseInv ==
    /\ AuthorityInv /\ HandInv /\ CallInv /\ DependsInv
    /\ PlanInv /\ CrossPlanInv /\ SoleInv

-----------------------------------------------------------------------------
(* What the steps that matter do                                           *)

\* A submission to the gate takes a ready task of the plan of the run.
LEMMA AssureFacts ==
    ASSUME TypeOK, AssureNext
    PROVE  \E t \in Task, o \in Outcome :
             /\ PlanOf[t] = WorkPlan
             /\ task[t] \notin Settled \cup {"needs_human", "executing"}
             /\ \A d \in DependsOn[t] : task[d] \in DoneWell
             /\ o \in GateOutcomes(t)
             /\ DOMAIN evals' = DOMAIN evals \cup {Len(evals) + 1}
             /\ \A i \in DOMAIN evals : evals'[i] = evals[i]
             /\ evals'[Len(evals) + 1] = [task |-> t, outcome |-> o, decision |-> "none"]
             /\ ctxEval' = Len(evals) + 1
             /\ task' = [task EXCEPT ![t] = IF o = "execute" THEN "assured"
                                            ELSE "needs_human"]
             /\ state = "assuring" /\ state' = AfterGate(o)
             /\ ctxPlan' = WorkPlan
             /\ UNCHANGED <<plans, selected, action, actedOn, calls>>
<1>1. PICK t \in Ready(WorkPlan, task), o \in Outcome :
         /\ o \in GateOutcomes(t)
         /\ evals' = Append(evals, [task |-> t, outcome |-> o, decision |-> "none"])
         /\ ctxEval' = Len(evals) + 1
         /\ task' = [task EXCEPT ![t] = IF o = "execute" THEN "assured" ELSE "needs_human"]
         /\ Move(AfterGate(o))
  BY DEF AssureNext
<1>2. /\ t \in Task /\ PlanOf[t] = WorkPlan
      /\ task[t] \notin Settled \cup {"needs_human", "executing"}
      /\ \A d \in DependsOn[t] : task[d] \in DoneWell
  BY DEF Ready, TasksOf
<1>3. [task |-> t, outcome |-> o, decision |-> "none"] \in Evaluation
  BY <1>2 DEF Evaluation
<1>4. /\ DOMAIN evals' = DOMAIN evals \cup {Len(evals) + 1}
      /\ \A i \in DOMAIN evals : evals'[i] = evals[i]
      /\ evals'[Len(evals) + 1] = [task |-> t, outcome |-> o, decision |-> "none"]
  BY <1>1, <1>3, AppendKeeps DEF TypeOK
<1>5. /\ state = "assuring" /\ state' = AfterGate(o)
      /\ ctxPlan' = WorkPlan
      /\ UNCHANGED <<plans, selected, action, actedOn, calls>>
  BY <1>1 DEF AssureNext, Stepping, Move
<1> QED
  BY <1>1, <1>2, <1>4, <1>5

\* The task of an evaluation is a task.
LEMMA EvalTask ==
    ASSUME TypeOK, NEW e \in DOMAIN evals
    PROVE  evals[e] \in Evaluation /\ evals[e].task \in Task
<1>1. evals[e] \in Evaluation
  BY DEF TypeOK
<1> QED
  BY <1>1 DEF Evaluation

\* What an approval step looks at is a held task of the plan of the run.
LEMMA InHandFacts ==
    ASSUME PromiseInv, state = "awaiting_approval", NEW e \in DOMAIN evals, InHand(e)
    PROVE  /\ evals[e].task \in Task
           /\ task[evals[e].task] = "needs_human"
           /\ PlanOf[evals[e].task] = WorkPlan
<1>1. evals[e].task \in Task
  BY EvalTask DEF PromiseInv, AuthorityInv
<1>2. CASE ctxEval # 0
  <2>1. e = ctxEval
    BY <1>2 DEF InHand
  <2>2. PlanOf[HandTask] = ctxPlan /\ task[HandTask] = "needs_human"
    BY <1>2 DEF PromiseInv, HandInv
  <2>3. ctxPlan # 0
    BY <1>1, <2>1, <2>2, TaskAssumption DEF HandTask
  <2> QED
    BY <1>1, <2>1, <2>2, <2>3 DEF HandTask, WorkPlan
<1>3. CASE ctxEval = 0
  <2>1. evals[e].task \in Parked(WorkPlan)
    BY <1>3 DEF InHand, IsPending, IsFirst
  <2> QED
    BY <1>1, <2>1 DEF Parked, TasksOf
<1> QED
  BY <1>2, <1>3

LEMMA ApprovedFacts ==
    ASSUME PromiseInv, AwaitApproved
    PROVE  \E e \in DOMAIN evals :
             /\ evals[e].task \in Task
             /\ evals[e].decision = "approved"
             /\ evals[e].outcome \in {"execute", "hold"}
             /\ task[evals[e].task] = "needs_human"
             /\ PlanOf[evals[e].task] = WorkPlan
             /\ task' = [task EXCEPT ![evals[e].task] = "assured"]
             /\ ctxPlan' = WorkPlan /\ ctxEval' = e
             /\ state = "awaiting_approval" /\ state' = "executing"
             /\ UNCHANGED <<plans, selected, evals, action, actedOn, calls>>
<1>1. PICK e \in DOMAIN evals :
         /\ InHand(e)
         /\ evals[e].decision = "approved"
         /\ task' = [task EXCEPT ![evals[e].task] = "assured"]
         /\ ctxPlan' = WorkPlan /\ ctxEval' = e
  BY DEF AwaitApproved
<1>2. /\ state = "awaiting_approval" /\ state' = "executing"
      /\ UNCHANGED <<plans, selected, evals, action, actedOn, calls>>
  BY DEF AwaitApproved, Stepping, Move
<1>3. evals[e].outcome \in {"execute", "hold"}
  BY <1>1 DEF PromiseInv, AuthorityInv, ApprovalsStand, MayApprove
<1> QED
  BY <1>1, <1>2, <1>3, InHandFacts

LEMMA RejectedFacts ==
    ASSUME PromiseInv, AwaitRejected
    PROVE  /\ \E t \in Task : /\ task[t] = "needs_human"
                              /\ task' = [task EXCEPT ![t] = "rejected"]
           /\ state = "awaiting_approval" /\ state' \in {"blocked", "assuring"}
           /\ ctxPlan' = WorkPlan /\ ctxEval' = 0
           /\ UNCHANGED <<plans, selected, evals, action, actedOn, calls>>
<1>1. PICK e \in DOMAIN evals :
         InHand(e) /\ task' = [task EXCEPT ![evals[e].task] = "rejected"]
  BY DEF AwaitRejected
<1>2. /\ state = "awaiting_approval" /\ state' \in {"blocked", "assuring"}
      /\ ctxPlan' = WorkPlan /\ ctxEval' = 0
      /\ UNCHANGED <<plans, selected, evals, action, actedOn, calls>>
  BY Targets DEF AwaitRejected, Stepping, Move
<1> QED
  BY <1>1, <1>2, InHandFacts

\* A dispatch, kept or lost, calls for the first time a task cleared for it.
LEMMA DispatchFacts ==
    ASSUME PromiseInv, DispatchTask \/ DispatchLost
    PROVE  /\ HandTask \in Task
           /\ state = "executing" /\ ctxEval \in DOMAIN evals /\ ctxEval # 0
           /\ MayExecute(evals[ctxEval])
           /\ action[HandTask] = "none" /\ calls[HandTask] = 0
           /\ task[HandTask] = "assured" /\ PlanOf[HandTask] = ctxPlan
           /\ calls' = [calls EXCEPT ![HandTask] = 1]
           /\ ctxEval' = 0
           /\ UNCHANGED <<plans, selected, evals>>
<1>1. /\ state = "executing" /\ ctxEval # 0
      /\ MayExecute(evals[ctxEval])
      /\ action[HandTask] = "none"
      /\ calls' = [calls EXCEPT ![HandTask] = @ + 1]
      /\ ctxEval' = 0
      /\ UNCHANGED <<plans, selected, evals>>
  BY DEF DispatchTask, DispatchLost, Stepping, Recorded, HandTask, EndRun, rows
<1>2. ctxEval \in DOMAIN evals
  BY <1>1 DEF PromiseInv, AuthorityInv, InHandExists
<1>3. HandTask \in Task
  BY <1>2, EvalTask DEF HandTask, PromiseInv, AuthorityInv
<1>4. task[HandTask] = "assured" /\ PlanOf[HandTask] = ctxPlan
  BY <1>1 DEF PromiseInv, HandInv
<1>5. ~Lost
  BY <1>1 DEF Lost, Terminal
<1>6. calls[HandTask] = 0
  BY <1>1, <1>3, <1>5 DEF PromiseInv, CallInv
<1> QED
  BY <1>1, <1>2, <1>3, <1>4, <1>6

\* Beside the dispatch it shares with a lost one, a kept dispatch records.
LEMMA RecordFacts ==
    ASSUME PromiseInv, DispatchTask
    PROVE  \E r \in Result :
             /\ action' = [action EXCEPT ![HandTask] = r]
             /\ task' = [task EXCEPT ![HandTask] = TaskStateFor(r)]
             /\ state' = AfterResult(r, task')
             /\ UNCHANGED ctxPlan
BY DEF DispatchTask, Move, HandTask

-----------------------------------------------------------------------------
(* The invariant is inductive                                              *)

\* Steps that touch no task, evaluation, action or call and no selection.
Quiet ==
    /\ UNCHANGED <<selected, task, evals, action, actedOn, calls>>
    /\ plans \subseteq plans'

\* The steps of the machine that are quiet, and what they do to the rest.
LEMMA QuietFacts ==
    ASSUME PromiseInv,
           \/ StartRun \/ StartGroupRun \/ FinishRun \/ AbortRun \/ ExceedBudget
           \/ StepDetected \/ StepAssessing \/ StepPlanning \/ AssureNothing
           \/ AwaitNothing \/ AwaitUndecided \/ ExecuteUnclaimed \/ ReplayAction
           \/ ReadPlans \/ UNCHANGED vars
    PROVE  /\ Quiet
           /\ Lost => Lost'
           /\ ctxPlan' \in {0, ctxPlan, WorkPlan, CurrentPlan} \/ (ctxPlan' = Baseline /\ plans = {})
           /\ \/ ctxEval' = 0
              \/ /\ ctxEval' = ctxEval /\ ctxPlan' = ctxPlan
                 /\ state' \in {state, "blocked"}
              \/ /\ ctxEval' \in DOMAIN evals /\ state' = "blocked"
                 /\ PlanOf[evals[ctxEval'].task] = ctxPlan'
           /\ plans' = {} => plans = {} /\ ctxPlan' \in {0, ctxPlan, CurrentPlan}
           /\ state \in Terminal => state' \in Terminal
<1> USE DEF Quiet, Lost, Terminal
<1>1. CASE StartRun \/ StartGroupRun \/ FinishRun \/ AbortRun
  BY <1>1 DEF StartRun, StartGroupRun, FinishRun, AbortRun, EndRun, rows
<1>2. CASE ExceedBudget
  BY <1>2 DEF ExceedBudget, ctx
<1>3. CASE StepDetected \/ StepAssessing
  BY <1>3 DEF StepDetected, StepAssessing, Stepping, Move, PromiseInv, HandInv
<1>4. CASE StepPlanning
  BY <1>4 DEF StepPlanning, Proposals, Stepping, Move, PromiseInv, HandInv
<1>5. CASE AssureNothing
  BY <1>5 DEF AssureNothing, Stepping, Move, PromiseInv, HandInv, WorkPlan
<1>6. CASE AwaitNothing
  BY <1>6 DEF AwaitNothing, Stepping, Move, WorkPlan
<1>7. CASE AwaitUndecided
  <2>1. PICK e \in DOMAIN evals :
           /\ InHand(e)
           /\ IF Approvable(evals[e].outcome)
              THEN Rest /\ UNCHANGED <<state, changes>>
              ELSE /\ Move("blocked") /\ ctxPlan' = WorkPlan
                   /\ ctxEval' = e /\ UNCHANGED running
    BY <1>7 DEF AwaitUndecided
  <2>2. state = "awaiting_approval" /\ Quiet /\ UNCHANGED plans
    BY <1>7 DEF AwaitUndecided, Stepping
  <2>3. PlanOf[evals[e].task] = WorkPlan
    BY <2>1, <2>2, InHandFacts
  <2>4. CASE Approvable(evals[e].outcome)
    BY <2>1, <2>2, <2>4 DEF Rest, EndRun
  <2>5. CASE ~Approvable(evals[e].outcome)
    BY <2>1, <2>2, <2>3, <2>5 DEF Move, WorkPlan
  <2> QED
    BY <2>4, <2>5
<1>8. CASE ExecuteUnclaimed
  BY <1>8, Targets DEF ExecuteUnclaimed, Stepping, Move
<1>9. CASE ReplayAction
  BY <1>9 DEF ReplayAction, Stepping, Move
<1>10. CASE ReadPlans \/ UNCHANGED vars
  BY <1>10 DEF ReadPlans, ctx, vars, rows
<1> QED
  BY <1>1, <1>2, <1>3, <1>4, <1>5, <1>6, <1>7, <1>8, <1>9, <1>10

\* The steps of QuietFacts, as one name for the case analyses below.
QuietStep ==
    \/ StartRun \/ StartGroupRun \/ FinishRun \/ AbortRun \/ ExceedBudget
    \/ StepDetected \/ StepAssessing \/ StepPlanning \/ AssureNothing
    \/ AwaitNothing \/ AwaitUndecided \/ ExecuteUnclaimed \/ ReplayAction
    \/ ReadPlans \/ UNCHANGED vars

\* Every step is quiet or one of the seven that are not.
LEMMA StepKinds ==
    [Next]_vars => \/ QuietStep \/ AssureNext \/ AwaitApproved \/ AwaitRejected
                   \/ DispatchTask \/ DispatchLost \/ DecideSome \/ SelectSome
BY DEF Next, Step, QuietStep

LEMMA DecideFacts ==
    ASSUME TypeOK, DecideSome
    PROVE  /\ DOMAIN evals' = DOMAIN evals
           /\ \A i \in DOMAIN evals : /\ evals'[i].task = evals[i].task
                                      /\ evals'[i].outcome = evals[i].outcome
                                      /\ evals[i].decision # "none" =>
                                            evals'[i].decision = evals[i].decision
           /\ evals = << >> => evals' = << >>
           /\ UNCHANGED <<state, plans, selected, task, action, actedOn, calls, ctx>>
<1>1. PICK e \in DOMAIN evals, d \in Decision : Decide(e, d)
  BY DEF DecideSome
<1>2. evals[e] \in Evaluation /\ evals[e].decision = "none"
  BY <1>1, EvalTask DEF Decide, MayDecide
<1>3. evals' = [evals EXCEPT ![e].decision = d]
  BY <1>1 DEF Decide
<1>4. /\ DOMAIN evals' = DOMAIN evals
      /\ \A i \in DOMAIN evals : i # e => evals'[i] = evals[i]
      /\ evals'[e] = [evals[e] EXCEPT !.decision = d]
  BY <1>3 DEF TypeOK
<1>5. evals'[e].task = evals[e].task /\ evals'[e].outcome = evals[e].outcome
  BY <1>2, <1>4 DEF Evaluation
<1>6. evals # << >>
  BY <1>1
<1>7. UNCHANGED <<state, plans, selected, task, action, actedOn, calls, ctx>>
  BY <1>1 DEF Decide
<1> QED
  BY <1>2, <1>4, <1>5, <1>6, <1>7

LEMMA SelectFacts ==
    ASSUME SelectSome
    PROVE  /\ selected = 0 /\ selected' \in plans
           /\ UNCHANGED <<state, plans, task, evals, action, actedOn, calls, ctx>>
BY DEF SelectSome, SelectPlan

\* What became of a task is final.
LEMMA SettledStays ==
    ASSUME PromiseInv, [Next]_vars, NEW t \in Task, task[t] \in Settled
    PROVE  task'[t] = task[t]
<1>1. task \in [Task -> TaskState]
  BY DEF PromiseInv, AuthorityInv, TypeOK
<1>2. CASE QuietStep
  BY <1>2, QuietFacts DEF QuietStep, Quiet
<1>3. CASE AssureNext
  BY <1>1, <1>3, AssureFacts DEF PromiseInv, AuthorityInv
<1>4. CASE AwaitApproved
  BY <1>1, <1>4, ApprovedFacts DEF Settled
<1>5. CASE AwaitRejected
  BY <1>1, <1>5, RejectedFacts DEF Settled
<1>6. CASE DispatchTask
  BY <1>1, <1>6, DispatchFacts, RecordFacts DEF Settled
<1>7. CASE DispatchLost
  BY <1>7 DEF DispatchLost, rows
<1>8. CASE DecideSome \/ SelectSome
  BY <1>8, DecideFacts, SelectFacts DEF PromiseInv, AuthorityInv
<1> QED
  BY <1>2, <1>3, <1>4, <1>5, <1>6, <1>7, <1>8, StepKinds

LEMMA HandStep == ASSUME PromiseInv, [Next]_vars PROVE HandInv'
<1>0. TypeOK /\ HandInv /\ InHandExists /\ task \in [Task -> TaskState]
  BY DEF PromiseInv, AuthorityInv, TypeOK
<1> USE DEF HandInv, HandTask
<1>1. CASE QuietStep
  <2>1. Quiet
    BY <1>1, QuietFacts DEF QuietStep
  <2>2. CASE ctxEval' = 0
    BY <2>2
  <2>3. CASE ctxEval' = ctxEval /\ ctxPlan' = ctxPlan /\ state' \in {state, "blocked"}
    BY <1>0, <2>1, <2>3 DEF Quiet
  <2>4. CASE state' = "blocked" /\ PlanOf[evals[ctxEval'].task] = ctxPlan'
    BY <2>1, <2>4 DEF Quiet
  <2> QED
    BY <1>1, <2>2, <2>3, <2>4, QuietFacts DEF QuietStep
<1>2. CASE AssureNext
  <2>1. PICK t \in Task, o \in Outcome :
           /\ PlanOf[t] = WorkPlan
           /\ evals'[Len(evals) + 1] = [task |-> t, outcome |-> o, decision |-> "none"]
           /\ ctxEval' = Len(evals) + 1
           /\ task' = [task EXCEPT ![t] = IF o = "execute" THEN "assured"
                                          ELSE "needs_human"]
           /\ state' = AfterGate(o)
           /\ ctxPlan' = WorkPlan
    BY <1>0, <1>2, AssureFacts
  <2>2. evals'[ctxEval'].task = t
    BY <2>1
  <2> QED
    BY <1>0, <2>1, <2>2 DEF AfterGate
<1>3. CASE AwaitApproved
  BY <1>0, <1>3, ApprovedFacts
<1>4. CASE AwaitRejected \/ DispatchTask \/ DispatchLost
  BY <1>4, RejectedFacts, DispatchFacts
<1>5. CASE DecideSome
  BY <1>0, <1>5, DecideFacts DEF InHandExists, ctx
<1>6. CASE SelectSome
  BY <1>0, <1>6, SelectFacts DEF ctx
<1> QED
  BY <1>1, <1>2, <1>3, <1>4, <1>5, <1>6, StepKinds

\* What is called stays called, and what is recorded stays recorded.
LEMMA CallStep == ASSUME PromiseInv, [Next]_vars PROVE CallInv'
<1>0. /\ TypeOK /\ CallInv /\ task \in [Task -> TaskState] /\ calls \in [Task -> Nat]
      /\ action \in [Task -> Result \cup {"none"}]
  BY DEF PromiseInv, AuthorityInv, TypeOK
<1> SUFFICES ASSUME NEW t \in Task
             PROVE  /\ calls'[t] \in {0, 1}
                    /\ action'[t] # "none" => calls'[t] = 1
                    /\ calls'[t] = 1 => action'[t] # "none" \/ Lost'
                    /\ calls'[t] = 1 => \E e \in DOMAIN evals' : evals'[e].task = t
                    /\ action'[t] = "skipped" => state' \in Terminal
                    /\ task'[t] \in DoneWell => calls'[t] = 1
  BY DEF CallInv
<1>1. /\ calls[t] \in {0, 1}
      /\ action[t] # "none" => calls[t] = 1
      /\ calls[t] = 1 => action[t] # "none" \/ Lost
      /\ calls[t] = 1 => \E e \in DOMAIN evals : evals[e].task = t
      /\ action[t] = "skipped" => state \in Terminal
      /\ task[t] \in DoneWell => calls[t] = 1
  BY <1>0 DEF CallInv
<1>2. CASE QuietStep
  BY <1>1, <1>2, QuietFacts DEF QuietStep, Quiet
<1>3. CASE AssureNext
  <2>1. /\ UNCHANGED <<action, calls>> /\ state = "assuring"
        /\ task'[t] # task[t] => task'[t] \in {"assured", "needs_human"}
        /\ \A e \in DOMAIN evals : e \in DOMAIN evals' /\ evals'[e] = evals[e]
    BY <1>0, <1>3, AssureFacts
  <2>2. ~Lost /\ state \notin Terminal
    BY <2>1 DEF Lost, Terminal
  <2> QED
    BY <1>1, <2>1, <2>2 DEF DoneWell
<1>4. CASE AwaitApproved \/ AwaitRejected
  <2>1. /\ UNCHANGED <<action, calls, evals>> /\ state = "awaiting_approval"
        /\ task'[t] # task[t] => task'[t] \in {"assured", "rejected"}
    BY <1>0, <1>4, ApprovedFacts, RejectedFacts
  <2>2. ~Lost /\ state \notin Terminal
    BY <2>1 DEF Lost, Terminal
  <2> QED
    BY <1>1, <2>1, <2>2 DEF DoneWell
<1>5. CASE DispatchTask \/ DispatchLost
  <2>1. /\ HandTask \in Task /\ ctxEval \in DOMAIN evals
        /\ state = "executing" /\ ctxEval # 0 /\ ctxEval' = 0
        /\ action[HandTask] = "none"
        /\ calls' = [calls EXCEPT ![HandTask] = 1]
        /\ UNCHANGED evals
        /\ task[HandTask] = "assured"
    BY <1>5, DispatchFacts
  <2>2. ~Lost /\ state \notin Terminal
    BY <2>1 DEF Lost, Terminal
  <2>3. CASE DispatchTask
    <3>1. PICK r \in Result : /\ action' = [action EXCEPT ![HandTask] = r]
                              /\ task' = [task EXCEPT ![HandTask] = TaskStateFor(r)]
                              /\ state' = AfterResult(r, task')
      BY <2>3, RecordFacts
    <3>2. r # "none" /\ (r = "skipped" => state' \in Terminal)
      BY <3>1 DEF Result, AfterResult, Terminal
    <3>3. CASE t = HandTask
      BY <1>0, <2>1, <3>1, <3>2, <3>3 DEF HandTask
    <3>4. CASE t # HandTask
      BY <1>0, <1>1, <2>1, <2>2, <3>1, <3>4
    <3> QED
      BY <3>3, <3>4
  <2>4. CASE DispatchLost
    <3>1. UNCHANGED <<action, task, state>>
      BY <2>4 DEF DispatchLost, rows
    <3>2. Lost'
      BY <2>1, <3>1 DEF Lost
    <3>3. CASE t = HandTask
      BY <1>0, <1>1, <2>1, <2>2, <3>1, <3>2, <3>3 DEF HandTask
    <3>4. CASE t # HandTask
      BY <1>0, <1>1, <2>1, <2>2, <3>1, <3>4
    <3> QED
      BY <3>3, <3>4
  <2> QED
    BY <1>5, <2>3, <2>4
<1>6. CASE DecideSome \/ SelectSome
  BY <1>0, <1>1, <1>6, DecideFacts, SelectFacts DEF Lost, ctx
<1> QED
  BY <1>2, <1>3, <1>4, <1>5, <1>6, StepKinds

LEMMA DependsStep == ASSUME PromiseInv, [Next]_vars PROVE DependsInv'
<1>0. TypeOK /\ DependsInv
  BY DEF PromiseInv, AuthorityInv
<1>1. \A d \in Task : task[d] \in DoneWell => task'[d] \in DoneWell
  BY SettledStays DEF DoneWell, Settled
<1>2. CASE AssureNext
  <2>1. PICK t \in Task, o \in Outcome :
           /\ \A d \in DependsOn[t] : task[d] \in DoneWell
           /\ DOMAIN evals' = DOMAIN evals \cup {Len(evals) + 1}
           /\ \A i \in DOMAIN evals : evals'[i] = evals[i]
           /\ evals'[Len(evals) + 1] = [task |-> t, outcome |-> o, decision |-> "none"]
    BY <1>0, <1>2, AssureFacts
  <2>2. \A e \in DOMAIN evals' : \A d \in DependsOn[evals'[e].task] : task[d] \in DoneWell
    BY <1>0, <2>1 DEF DependsInv
  <2>3. \A e \in DOMAIN evals' : DependsOn[evals'[e].task] \subseteq Task
    BY <1>0, <2>1, EvalTask, DependsOnAssumption
  <2> QED
    BY <1>1, <2>2, <2>3 DEF DependsInv
<1>3. CASE ~AssureNext
  <2>1. /\ DOMAIN evals' = DOMAIN evals
        /\ \A i \in DOMAIN evals : evals'[i].task = evals[i].task
    BY <1>0, <1>3, StepKinds, QuietFacts, ApprovedFacts, RejectedFacts, DispatchFacts,
       DecideFacts, SelectFacts DEF QuietStep, Quiet
  <2>2. \A e \in DOMAIN evals : DependsOn[evals[e].task] \subseteq Task
    BY <1>0, EvalTask, DependsOnAssumption
  <2> QED
    BY <1>0, <1>1, <2>1, <2>2 DEF DependsInv
<1> QED
  BY <1>2, <1>3

\* Where a run may be: never back on the baseline once the selected plan is worked.
LEMMA WhereRunsAre ==
    ASSUME PromiseInv
    PROVE  /\ WorkPlan \in {0, Baseline, selected}
           /\ CurrentPlan \in {0, Baseline, selected}
           /\ plans = {} => WorkPlan = 0 /\ CurrentPlan = 0
           /\ \A e \in DOMAIN evals : PlanOf[evals[e].task] # Baseline =>
                 /\ selected = PlanOf[evals[e].task]
                 /\ WorkPlan # Baseline /\ CurrentPlan # Baseline
<1>1. TypeOK /\ PlanInv
  BY DEF PromiseInv, AuthorityInv
<1>2. CurrentPlan \in {0, Baseline, selected} /\ (plans = {} => CurrentPlan = 0)
  BY <1>1 DEF CurrentPlan, PlanInv
<1>3. WorkPlan \in {0, Baseline, selected} /\ (plans = {} => WorkPlan = 0)
  BY <1>1, <1>2 DEF WorkPlan, PlanInv
<1>4. ASSUME NEW e \in DOMAIN evals, PlanOf[evals[e].task] # Baseline
      PROVE  /\ selected = PlanOf[evals[e].task]
             /\ WorkPlan # Baseline /\ CurrentPlan # Baseline
  <2>1. evals[e].task \in Task
    BY <1>1, EvalTask
  <2>2. selected = PlanOf[evals[e].task] /\ selected # 0 /\ ctxPlan # Baseline
    BY <1>1, <1>4, <2>1, TaskAssumption DEF PlanInv
  <2>3. CurrentPlan = selected
    BY <2>2 DEF CurrentPlan
  <2> QED
    BY <1>4, <2>2, <2>3 DEF WorkPlan
<1> QED
  BY <1>2, <1>3, <1>4

LEMMA PlanStep == ASSUME PromiseInv, [Next]_vars PROVE PlanInv'
<1>0. TypeOK /\ PlanInv
  BY DEF PromiseInv, AuthorityInv
<1>1. CASE QuietStep
  <2>1. /\ UNCHANGED <<selected, evals>> /\ plans \subseteq plans'
        /\ \/ ctxPlan' \in {0, ctxPlan, WorkPlan, CurrentPlan}
           \/ ctxPlan' = Baseline /\ plans = {}
        /\ plans' = {} => plans = {} /\ ctxPlan' \in {0, ctxPlan, CurrentPlan}
    BY <1>1, QuietFacts DEF QuietStep, Quiet
  <2>2. ctxPlan' \in {0, Baseline, selected}
    BY <1>0, <2>1, WhereRunsAre DEF PlanInv
  <2>3. \A e \in DOMAIN evals : PlanOf[evals[e].task] # Baseline => ctxPlan' # Baseline
    <3>1. SUFFICES ASSUME NEW e \in DOMAIN evals, PlanOf[evals[e].task] # Baseline
                   PROVE  ctxPlan' # Baseline
      OBVIOUS
    <3>2. WorkPlan # Baseline /\ CurrentPlan # Baseline /\ ctxPlan # Baseline
      BY <1>0, <3>1, WhereRunsAre DEF PlanInv
    <3>3. plans # {}
      BY <1>0, <3>1 DEF PlanInv
    <3>4. Baseline # 0
      BY TaskAssumption DEF Plan
    <3> QED
      BY <2>1, <3>2, <3>3, <3>4
  <2>4. plans' = {} => ctxPlan' = 0
    BY <1>0, <2>1, WhereRunsAre DEF PlanInv
  <2> QED
    BY <1>0, <2>1, <2>2, <2>3, <2>4 DEF PlanInv
<1>2. CASE AssureNext
  <2>1. PICK t \in Task, o \in Outcome :
           /\ PlanOf[t] = WorkPlan
           /\ DOMAIN evals' = DOMAIN evals \cup {Len(evals) + 1}
           /\ \A i \in DOMAIN evals : evals'[i] = evals[i]
           /\ evals'[Len(evals) + 1] = [task |-> t, outcome |-> o, decision |-> "none"]
           /\ ctxPlan' = WorkPlan
           /\ UNCHANGED <<plans, selected>>
    BY <1>0, <1>2, AssureFacts
  <2>2. WorkPlan # 0
    BY <2>1, TaskAssumption
  <2>3. plans # {}
    BY <2>2, WhereRunsAre
  <2>4. \A e \in DOMAIN evals' :
           /\ PlanOf[evals'[e].task] \in {Baseline, selected}
           /\ PlanOf[evals'[e].task] # Baseline => WorkPlan # Baseline
    BY <1>0, <2>1, <2>2, WhereRunsAre DEF PlanInv
  <2> QED
    BY <1>0, <2>1, <2>3, <2>4, WhereRunsAre DEF PlanInv
<1>3. CASE AwaitApproved \/ AwaitRejected
  <2>1. /\ UNCHANGED <<plans, selected, evals>> /\ ctxPlan' = WorkPlan
    BY <1>3, ApprovedFacts, RejectedFacts
  <2> QED
    BY <1>0, <2>1, WhereRunsAre DEF PlanInv
<1>4. CASE DispatchTask \/ DispatchLost
  <2>1. UNCHANGED <<plans, selected, evals>> /\ ctxPlan' \in {0, ctxPlan}
    BY <1>4, DispatchFacts, RecordFacts DEF DispatchLost, EndRun
  <2>2. Baseline # 0
    BY TaskAssumption DEF Plan
  <2> QED
    BY <1>0, <2>1, <2>2 DEF PlanInv
<1>5. CASE DecideSome
  BY <1>0, <1>5, DecideFacts DEF PlanInv, ctx
<1>6. CASE SelectSome
  <2>1. /\ selected = 0 /\ selected' \in plans
        /\ UNCHANGED <<plans, evals, ctxPlan>>
    BY <1>6, SelectFacts DEF ctx
  <2>2. \A e \in DOMAIN evals : PlanOf[evals[e].task] = Baseline
    BY <1>0, <2>1, EvalTask, TaskAssumption DEF PlanInv
  <2> QED
    BY <1>0, <2>1, <2>2 DEF PlanInv
<1> QED
  BY <1>1, <1>2, <1>3, <1>4, <1>5, <1>6, StepKinds

\* A task the gate cleared or held had no call of its type behind it.
LEMMA ClearedAlone ==
    ASSUME PromiseInv, state = "assuring", NEW t \in Task, NEW o \in GateOutcomes(t),
           o \in {"execute", "hold"}, NEW u \in Task, ActionOf[u] = ActionOf[t]
    PROVE  calls[u] = 0
<1>1. action[u] \in {"none", "skipped"}
  BY DEF GateOutcomes, Conflicts
<1>2. ~Lost /\ state \notin Terminal
  BY DEF Lost, Terminal
<1> QED
  BY <1>1, <1>2 DEF PromiseInv, CallInv

LEMMA CrossPlanStep == ASSUME PromiseInv, [Next]_vars PROVE CrossPlanInv'
<1>0. TypeOK /\ CrossPlanInv /\ PlanInv /\ calls \in [Task -> Nat]
  BY DEF PromiseInv, AuthorityInv, TypeOK
<1>1. CASE AssureNext
  <2>1. PICK t \in Task, o \in Outcome :
           /\ o \in GateOutcomes(t)
           /\ DOMAIN evals' = DOMAIN evals \cup {Len(evals) + 1}
           /\ \A i \in DOMAIN evals : evals'[i] = evals[i]
           /\ evals'[Len(evals) + 1] = [task |-> t, outcome |-> o, decision |-> "none"]
           /\ state = "assuring"
           /\ UNCHANGED calls
    BY <1>0, <1>1, AssureFacts
  <2>2. o \in {"execute", "hold"} =>
           \A u \in Task : ActionOf[u] = ActionOf[t] => calls[u] = 0
    BY <2>1, ClearedAlone
  <2> QED
    BY <1>0, <2>1, <2>2 DEF CrossPlanInv
<1>2. CASE DispatchTask \/ DispatchLost
  <2>1. /\ HandTask \in Task /\ ctxEval # 0
        /\ PlanOf[HandTask] = ctxPlan
        /\ calls' = [calls EXCEPT ![HandTask] = 1]
        /\ UNCHANGED evals
    BY <1>2, DispatchFacts
  <2>2. \A e \in DOMAIN evals : PlanOf[evals[e].task] # Baseline =>
           PlanOf[HandTask] # Baseline
    BY <1>0, <2>1 DEF PlanInv
  <2>3. ASSUME NEW e \in DOMAIN evals, PlanOf[evals[e].task] # Baseline,
               NEW u \in Task, PlanOf[u] = Baseline
        PROVE  calls'[u] = calls[u]
    BY <1>0, <2>1, <2>2, <2>3
  <2> QED
    BY <1>0, <2>1, <2>3 DEF CrossPlanInv
<1>3. CASE ~(AssureNext \/ DispatchTask \/ DispatchLost)
  <2>1. /\ DOMAIN evals' = DOMAIN evals /\ UNCHANGED calls
        /\ \A i \in DOMAIN evals : /\ evals'[i].task = evals[i].task
                                   /\ evals'[i].outcome = evals[i].outcome
    BY <1>0, <1>3, StepKinds, QuietFacts, ApprovedFacts, RejectedFacts,
       DecideFacts, SelectFacts DEF QuietStep, Quiet
  <2> QED
    BY <1>0, <2>1 DEF CrossPlanInv
<1> QED
  BY <1>1, <1>2, <1>3

LEMMA SoleStep == ASSUME PromiseInv, [Next]_vars PROVE SoleInv'
<1>0. TypeOK /\ SoleInv /\ PlanInv /\ CallInv /\ CrossPlanInv /\ InHandExists
  BY DEF PromiseInv, AuthorityInv
<1> USE DEF SoleInv, HandTask
<1>1. CASE AssureNext
  <2>1. PICK t \in Task, o \in Outcome :
           /\ o \in GateOutcomes(t)
           /\ evals'[Len(evals) + 1] = [task |-> t, outcome |-> o, decision |-> "none"]
           /\ ctxEval' = Len(evals) + 1
           /\ state = "assuring" /\ state' = AfterGate(o)
           /\ UNCHANGED calls
    BY <1>0, <1>1, AssureFacts
  <2>2. state' = "executing" => o = "execute"
    BY <2>1 DEF AfterGate
  <2>3. state' = "executing" =>
           \A u \in Task : ActionOf[u] = ActionOf[t] => calls[u] = 0
    BY <2>1, <2>2, ClearedAlone
  <2> QED
    BY <2>1, <2>3
<1>2. CASE AwaitApproved
  <2>1. PICK e \in DOMAIN evals :
           /\ evals[e].task \in Task
           /\ evals[e].outcome \in {"execute", "hold"}
           /\ PlanOf[evals[e].task] = WorkPlan
           /\ ctxEval' = e
           /\ UNCHANGED <<evals, calls>>
    BY <1>2, ApprovedFacts
  <2>2. SUFFICES ASSUME NEW u \in Task \ {evals[e].task},
                        ActionOf[u] = ActionOf[evals[e].task]
                 PROVE  calls[u] = 0
    BY <2>1
  <2>3. PlanOf[u] # PlanOf[evals[e].task]
    BY <2>1, <2>2, ActionAssumption
  <2>4. SUFFICES ASSUME calls[u] = 1 PROVE FALSE
    BY <1>0 DEF CallInv
  <2>5. PICK f \in DOMAIN evals : evals[f].task = u
    BY <1>0, <2>2, <2>4 DEF CallInv
  <2>6. CASE PlanOf[u] = Baseline
    BY <1>0, <2>1, <2>2, <2>3, <2>4, <2>6 DEF CrossPlanInv
  <2>7. CASE PlanOf[u] # Baseline
    <3>1. selected = PlanOf[u] /\ WorkPlan # Baseline
      BY <2>5, <2>7, WhereRunsAre
    <3>2. PlanOf[evals[e].task] \in {Baseline, selected}
      BY <1>0, <2>1 DEF PlanInv
    <3> QED
      BY <2>1, <2>3, <3>1, <3>2
  <2> QED
    BY <2>6, <2>7
<1>3. CASE QuietStep
  <2>1. Quiet
    BY <1>3, QuietFacts DEF QuietStep
  <2>2. \/ ctxEval' = 0
        \/ ctxEval' = ctxEval /\ state' \in {state, "blocked"}
        \/ state' = "blocked"
    BY <1>3, QuietFacts DEF QuietStep
  <2> QED
    BY <1>0, <2>1, <2>2 DEF Quiet
<1>4. CASE AwaitRejected \/ DispatchTask \/ DispatchLost
  BY <1>4, RejectedFacts, DispatchFacts
<1>5. CASE DecideSome \/ SelectSome
  BY <1>0, <1>5, DecideFacts, SelectFacts DEF InHandExists, ctx
<1> QED
  BY <1>1, <1>2, <1>3, <1>4, <1>5, StepKinds

LEMMA PromiseStep == PromiseInv /\ [Next]_vars => PromiseInv'
BY AuthorityStep, HandStep, CallStep, DependsStep, PlanStep, CrossPlanStep, SoleStep
   DEF PromiseInv

LEMMA PromiseInit == Init => PromiseInv
<1> SUFFICES ASSUME Init PROVE PromiseInv
  OBVIOUS
<1>1. HandInv /\ DependsInv /\ CrossPlanInv /\ SoleInv /\ PlanInv
  BY DEF Init, HandInv, DependsInv, CrossPlanInv, SoleInv, PlanInv
<1>2. CallInv
  BY DEF Init, CallInv, DoneWell
<1> QED
  BY <1>1, <1>2, AuthorityInit DEF PromiseInv

-----------------------------------------------------------------------------
(* What follows from it                                                    *)

\* No service is called twice for one task: not by a replayed approval, not by a
\* run that starts after another was lost between the call and its commit.
THEOREM CalledOnce == Spec => []CalledAtMostOnce
<1>1. PromiseInv => CalledAtMostOnce
  BY DEF PromiseInv, CallInv, CalledAtMostOnce
<1> QED
  BY <1>1, PromiseInit, PromiseStep, PTL DEF Spec

\* A step of an incident that ended leaves every task, action and call alone.
LEMMA EndedRests ==
    ASSUME PromiseInv, [Next]_vars, state \in Terminal
    PROVE  UNCHANGED <<task, action, calls>>
<1>1. CASE QuietStep
  BY <1>1, QuietFacts DEF QuietStep, Quiet
<1>2. CASE AssureNext \/ AwaitApproved \/ AwaitRejected \/ DispatchTask \/ DispatchLost
  BY <1>2 DEF AssureNext, AwaitApproved, AwaitRejected, DispatchTask, DispatchLost,
              Stepping, Terminal
<1>3. CASE DecideSome \/ SelectSome
  BY <1>3, DecideFacts, SelectFacts DEF PromiseInv, AuthorityInv
<1> QED
  BY <1>1, <1>2, <1>3, StepKinds

\* What became of a task is final, and an incident that ended never works again,
\* however many runs, decisions and selections follow.
THEOREM SettledForGood == Spec => SettledIsFinal
<1>1. ASSUME PromiseInv, [Next]_vars
      PROVE  [/\ \A t \in Task : task[t] \in Settled => task'[t] = task[t]
              /\ state \in Terminal => UNCHANGED <<task, action, calls>>]_vars
  <2>1. \A t \in Task : task[t] \in Settled => task'[t] = task[t]
    BY <1>1, SettledStays
  <2>2. state \in Terminal => UNCHANGED <<task, action, calls>>
    BY <1>1, EndedRests
  <2> QED
    BY <2>1, <2>2
<1>2. PromiseInv /\ [Next]_vars =>
        [/\ \A t \in Task : task[t] \in Settled => task'[t] = task[t]
         /\ state \in Terminal => UNCHANGED <<task, action, calls>>]_vars
  BY <1>1
<1> QED
  BY <1>2, PromiseInit, PromiseStep, PTL DEF Spec, SettledIsFinal

-----------------------------------------------------------------------------
(* What it means to resolve                                                *)

\* While an incident is open, everything it did succeeded or came back with evidence.
WorkedSoFar ==
    state \notin Terminal => \A t \in Task : action[t] \in {"none", "success", "surfaced"}

LEMMA WorkedStep ==
    ASSUME PromiseInv, WorkedSoFar, [Next]_vars
    PROVE  WorkedSoFar'
<1>0. action \in [Task -> Result \cup {"none"}]
  BY DEF PromiseInv, AuthorityInv, TypeOK
<1>1. CASE DispatchTask
  <2>1. PICK r \in Result : /\ action' = [action EXCEPT ![HandTask] = r]
                            /\ state' = AfterResult(r, task')
    BY <1>1, RecordFacts
  <2>2. state \notin Terminal /\ HandTask \in Task
    BY <1>1, DispatchFacts DEF Terminal
  <2>3. state' \notin Terminal => r \in {"success", "surfaced"}
    BY <2>1 DEF AfterResult, Terminal
  <2> QED
    BY <1>0, <2>1, <2>2, <2>3 DEF WorkedSoFar
<1>2. CASE ~DispatchTask
  <2>1. UNCHANGED action /\ (state \in Terminal => state' \in Terminal)
    <3>1. CASE QuietStep
      BY <3>1, QuietFacts DEF QuietStep, Quiet
    <3>2. CASE AssureNext \/ AwaitApproved \/ AwaitRejected \/ DispatchLost
      BY <3>2 DEF AssureNext, AwaitApproved, AwaitRejected, DispatchLost, Stepping, Terminal, rows
    <3>3. CASE DecideSome \/ SelectSome
      BY <3>3, DecideFacts, SelectFacts DEF PromiseInv, AuthorityInv
    <3> QED
      BY <1>2, <3>1, <3>2, <3>3, StepKinds
  <2> QED
    BY <2>1 DEF WorkedSoFar
<1> QED
  BY <1>1, <1>2

\* Only a result, new or found again, resolves an incident.
LEMMA ResolvedBy ==
    ASSUME PromiseInv, [Next]_vars, state' = "resolved", state # "resolved"
    PROVE  /\ DispatchTask \/ ReplayAction
           /\ state = "executing" /\ ctxEval \in DOMAIN evals /\ ctxEval # 0
           /\ \E r : state' = AfterResult(r, task')
           /\ action'[HandTask] # "none"
<1>1. DispatchTask \/ ReplayAction
  <2>1. ASSUME AssureNext \/ AwaitApproved \/ AwaitRejected PROVE FALSE
    BY <2>1, Targets DEF AssureNext, AwaitApproved, AwaitRejected, Move
  <2>2. ASSUME StepDetected \/ StepAssessing \/ StepPlanning \/ AssureNothing \/ AwaitNothing
               \/ ExecuteUnclaimed \/ ExceedBudget \/ AwaitUndecided
        PROVE FALSE
    BY <2>2, Targets DEF StepDetected, StepAssessing, StepPlanning, AssureNothing, AwaitNothing,
                         ExecuteUnclaimed, ExceedBudget, AwaitUndecided, Move, Rest
  <2>3. ASSUME StartRun \/ StartGroupRun \/ FinishRun \/ AbortRun \/ DispatchLost \/ ReadPlans
               \/ SelectSome \/ DecideSome \/ UNCHANGED vars
        PROVE FALSE
    BY <2>3 DEF StartRun, StartGroupRun, FinishRun, AbortRun, DispatchLost, ReadPlans, SelectSome,
                SelectPlan, DecideSome, Decide, rows, vars
  <2> QED
    BY <2>1, <2>2, <2>3 DEF Next, Step
<1>2. state = "executing" /\ ctxEval # 0
  BY <1>1 DEF DispatchTask, ReplayAction, Stepping
<1>3. ctxEval \in DOMAIN evals
  BY <1>2 DEF PromiseInv, AuthorityInv, InHandExists
<1>4. CASE DispatchTask
  <2>1. PICK r \in Result : /\ action' = [action EXCEPT ![HandTask] = r]
                            /\ state' = AfterResult(r, task')
    BY <1>4, RecordFacts
  <2>2. HandTask \in Task /\ action \in [Task -> Result \cup {"none"}]
    BY <1>4, DispatchFacts DEF PromiseInv, AuthorityInv, TypeOK
  <2>3. action'[HandTask] = r /\ r # "none"
    BY <2>1, <2>2 DEF Result
  <2> QED
    BY <1>1, <1>2, <1>3, <2>1, <2>3
<1>5. CASE ReplayAction
  <2>1. /\ state' = AfterResult(action[HandTask], task) /\ task' = task
        /\ action' = action /\ action[HandTask] # "none"
    BY <1>5 DEF ReplayAction, Move, HandTask, Recorded
  <2> QED
    BY <1>1, <1>2, <1>3, <2>1
<1> QED
  BY <1>1, <1>4, <1>5

LEMMA WorkedWhenResolved ==
    ASSUME PromiseInv, WorkedSoFar, [Next]_vars, state' = "resolved", state # "resolved"
    PROVE  /\ \A t \in TasksOf(ctxPlan) :
                 task'[t] \in {"proposed", "assured"} =>
                     \E d \in DependsOn[t] : task'[d] # "succeeded"
           /\ \A t \in Task : action'[t] \in {"none", "success", "surfaced"}
           /\ \E t \in TasksOf(ctxPlan) : action'[t] # "none"
<1>1. HandTask \in Task
  BY ResolvedBy, EvalTask DEF HandTask, PromiseInv, AuthorityInv
<1>2. PlanOf[HandTask] = ctxPlan
  BY ResolvedBy DEF PromiseInv, HandInv
<1>3. ctxPlan # 0 /\ WorkPlan = ctxPlan
  BY <1>1, <1>2, TaskAssumption DEF WorkPlan
<1>4. HandTask \in TasksOf(ctxPlan) /\ action'[HandTask] # "none"
  BY <1>1, <1>2, ResolvedBy DEF TasksOf
<1>5. Ready(ctxPlan, task') = {}
  BY <1>3, ResolvedBy DEF AfterResult
<1>6. ASSUME NEW t \in TasksOf(ctxPlan), task'[t] \in {"proposed", "assured"}
      PROVE  \E d \in DependsOn[t] : task'[d] # "succeeded"
  <2>1. ~ \A d \in DependsOn[t] : task'[d] \in DoneWell
    BY <1>5, <1>6 DEF Ready, Settled
  <2> QED
    BY <2>1 DEF DoneWell
<1>7. \A t \in Task : action'[t] \in {"none", "success", "surfaced"}
  <2>1. action \in [Task -> Result \cup {"none"}]
    BY DEF PromiseInv, AuthorityInv, TypeOK
  <2>2. \A t \in Task : action[t] \in {"none", "success", "surfaced"}
    BY ResolvedBy DEF WorkedSoFar, Terminal
  <2>3. CASE DispatchTask
    <3>1. PICK r \in Result : /\ action' = [action EXCEPT ![HandTask] = r]
                              /\ state' = AfterResult(r, task')
      BY <2>3, RecordFacts
    <3>2. r \in {"success", "surfaced"}
      BY <3>1 DEF AfterResult
    <3> QED
      BY <1>1, <2>1, <2>2, <3>1, <3>2
  <2>4. CASE ReplayAction
    BY <2>2, <2>4 DEF ReplayAction
  <2> QED
    BY <2>3, <2>4, ResolvedBy
<1> QED
  BY <1>4, <1>6, <1>7

\* "Resolved" hides nothing: no failure behind it, nothing that could have proceeded, and work
\* of the plan in hand, for any plans and results and however often runs are lost.
THEOREM ResolvedWithWork == Spec => ResolvedIsWorked
<1>1. Init => WorkedSoFar
  BY DEF Init, WorkedSoFar
<1>2. PromiseInv /\ WorkedSoFar /\ [Next]_vars => WorkedSoFar'
  BY WorkedStep
<1>3. PromiseInv /\ WorkedSoFar /\ [Next]_vars =>
        [(state' = "resolved" /\ state # "resolved") =>
            /\ \A t \in TasksOf(ctxPlan) :
                  task'[t] \in {"proposed", "assured"} =>
                      \E d \in DependsOn[t] : task'[d] # "succeeded"
            /\ \A t \in Task : action'[t] \in {"none", "success", "surfaced"}
            /\ \E t \in TasksOf(ctxPlan) : action'[t] # "none"]_vars
  BY WorkedWhenResolved
<1> QED
  BY <1>1, <1>2, <1>3, PromiseInit, PromiseStep, PTL DEF Spec, ResolvedIsWorked

-----------------------------------------------------------------------------
(* Refinement                                                              *)

\* A dispatch, kept or lost, is a call the promise allows.
LEMMA DispatchIsAct ==
    ASSUME PromiseInv, DispatchTask \/ DispatchLost
    PROVE  \E t \in Task : Promise!Act(t)
<1>1. /\ HandTask \in Task
      /\ state = "executing" /\ ctxEval \in DOMAIN evals /\ ctxEval # 0
      /\ MayExecute(evals[ctxEval])
      /\ calls[HandTask] = 0
      /\ calls' = [calls EXCEPT ![HandTask] = 1]
      /\ UNCHANGED evals
  BY DispatchFacts
<1>2. HandTask \in Cleared
  <2>1. evals[ctxEval].outcome \in Outcome
    BY <1>1, EvalTask DEF PromiseInv, AuthorityInv, Evaluation
  <2>2. evals[ctxEval].outcome = "execute" \/ evals[ctxEval].decision = "approved"
    BY <1>1 DEF MayExecute, Executable, RequiresHuman
  <2>3. evals[ctxEval].decision = "approved" => MayApprove(evals[ctxEval].outcome)
    BY <1>1 DEF PromiseInv, AuthorityInv, ApprovalsStand
  <2> QED
    BY <1>1, <2>2, <2>3 DEF Cleared, HandTask, MayApprove
<1>3. \A d \in DependsOn[HandTask] : calls[d] = 1
  <2>1. \A d \in DependsOn[HandTask] : d \in Task /\ task[d] \in DoneWell
    BY <1>1, DependsOnAssumption DEF PromiseInv, DependsInv, HandTask
  <2> QED
    BY <2>1 DEF PromiseInv, CallInv
<1>4. \A u \in Task : ActionOf[u] = ActionOf[HandTask] => calls[u] = 0
  BY <1>1 DEF PromiseInv, SoleInv
<1>5. UNCHANGED Cleared
  BY <1>1 DEF Cleared
<1> QED
  BY <1>1, <1>2, <1>3, <1>4, <1>5 DEF Promise!Act

\* An answer of the gate clears its task, or no one.
LEMMA AssureIsClear ==
    ASSUME PromiseInv, AssureNext
    PROVE  (\E t \in Task : Promise!Clear(t)) \/ UNCHANGED <<Cleared, calls>>
<1>0. TypeOK
  BY DEF PromiseInv, AuthorityInv
<1>1. PICK t \in Task, o \in Outcome :
         /\ DOMAIN evals' = DOMAIN evals \cup {Len(evals) + 1}
         /\ \A i \in DOMAIN evals : evals'[i] = evals[i]
         /\ evals'[Len(evals) + 1] = [task |-> t, outcome |-> o, decision |-> "none"]
         /\ UNCHANGED calls
  BY <1>0, AssureFacts
<1>2. CASE o = "execute"
  <2>1. Cleared' = Cleared \cup {t}
    BY <1>1, <1>2 DEF Cleared
  <2> QED
    BY <1>1, <2>1 DEF Promise!Clear
<1>3. CASE o # "execute"
  <2>1. Cleared' = Cleared
    BY <1>1, <1>3 DEF Cleared
  <2> QED
    BY <1>1, <2>1
<1> QED
  BY <1>2, <1>3

\* A person's decision clears the task it is about, or no one.
LEMMA DecisionIsClear ==
    ASSUME PromiseInv, DecideSome
    PROVE  (\E t \in Task : Promise!Clear(t)) \/ UNCHANGED <<Cleared, calls>>
<1>0. TypeOK
  BY DEF PromiseInv, AuthorityInv
<1>1. PICK e \in DOMAIN evals, d \in Decision : Decide(e, d)
  BY DEF DecideSome
<1>2. evals[e] \in Evaluation /\ evals[e].task \in Task /\ evals[e].decision = "none"
  BY <1>0, <1>1, EvalTask DEF Decide, MayDecide
<1>3. evals' = [evals EXCEPT ![e].decision = d] /\ UNCHANGED calls
  BY <1>1 DEF Decide
<1>4. /\ DOMAIN evals' = DOMAIN evals
      /\ \A i \in DOMAIN evals : i # e => evals'[i] = evals[i]
      /\ evals'[e] = [evals[e] EXCEPT !.decision = d]
  BY <1>0, <1>3 DEF TypeOK
<1>5. /\ evals'[e].task = evals[e].task
      /\ evals'[e].outcome = evals[e].outcome
      /\ evals'[e].decision = d
  BY <1>2, <1>4 DEF Evaluation
<1>6. Cleared \subseteq Cleared'
  <2>1. SUFFICES ASSUME NEW t \in Task,
                        NEW i \in DOMAIN evals,
                        evals[i].task = t,
                        \/ evals[i].outcome = "execute"
                        \/ evals[i].outcome = "hold" /\ evals[i].decision = "approved"
                 PROVE  t \in Cleared'
    BY DEF Cleared
  <2>2. i # e => evals'[i] = evals[i]
    BY <1>4
  <2>3. /\ i \in DOMAIN evals' /\ evals'[i].task = t
        /\ \/ evals'[i].outcome = "execute"
           \/ evals'[i].outcome = "hold" /\ evals'[i].decision = "approved"
    BY <1>2, <1>4, <1>5, <2>1, <2>2
  <2> QED
    BY <2>3 DEF Cleared
<1>7. Cleared' \subseteq Cleared \cup {evals[e].task}
  <2>1. SUFFICES ASSUME NEW t \in Task, t # evals[e].task,
                        NEW i \in DOMAIN evals',
                        evals'[i].task = t,
                        \/ evals'[i].outcome = "execute"
                        \/ evals'[i].outcome = "hold" /\ evals'[i].decision = "approved"
                 PROVE  t \in Cleared
    BY DEF Cleared
  <2>2. i \in DOMAIN evals /\ evals'[i] = evals[i]
    BY <1>4, <1>5, <2>1
  <2> QED
    BY <2>1, <2>2 DEF Cleared
<1>8. Cleared' = Cleared \/ Cleared' = Cleared \cup {evals[e].task}
  BY <1>6, <1>7
<1> QED
  BY <1>2, <1>3, <1>8 DEF Promise!Clear

\* Every step of the workflow is a step of the promise or none of its business.
LEMMA PromiseMaps ==
    PromiseInv /\ [Next]_vars => [Promise!Next]_<<Cleared, calls>>
<1> SUFFICES ASSUME PromiseInv, [Next]_vars PROVE [Promise!Next]_<<Cleared, calls>>
  OBVIOUS
<1>1. CASE QuietStep \/ AwaitApproved \/ AwaitRejected \/ SelectSome
  <2>1. UNCHANGED <<evals, calls>>
    BY <1>1, QuietFacts, ApprovedFacts, RejectedFacts, SelectFacts DEF QuietStep, Quiet
  <2> QED
    BY <2>1 DEF Cleared
<1>2. CASE DispatchTask \/ DispatchLost
  BY <1>2, DispatchIsAct DEF Promise!Next
<1>3. CASE AssureNext
  BY <1>3, AssureIsClear DEF Promise!Next
<1>4. CASE DecideSome
  BY <1>4, DecisionIsClear DEF Promise!Next
<1> QED
  BY <1>1, <1>2, <1>3, <1>4, StepKinds

\* The workflow implements the promise: every call of a service, kept or lost, in
\* this plan or another, is one the abstract specification allows.
THEOREM PromiseKept == Spec => KeepsPromise
<1>1. Init => Promise!Init
  BY DEF Init, Promise!Init, Cleared
<1> QED
  BY <1>1, PromiseInit, PromiseStep, PromiseMaps, PTL DEF Spec, KeepsPromise, Promise!Spec
=============================================================================
