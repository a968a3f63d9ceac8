------------------------------ MODULE Workflow ------------------------------
(***************************************************************************)
(* The orchestrator driving ONE incident: the durable rows (the incident,  *)
(* its plans, tasks, assurance evaluations, human decisions and actions),  *)
(* the run that advances it one committed step at a time, and the people   *)
(* who decide evaluations and choose plans while it does.                  *)
(*                                                                         *)
(* A step of the engine is one transaction, so one action here.  At most   *)
(* one run is active at a time; runs that overlap are not part of this     *)
(* module.                                                                 *)
(***************************************************************************)
EXTENDS Naturals, Sequences, FiniteSets, IncidentStates

CONSTANTS
    Task,           \* ids of every task row; within a plan, ids follow task_order
    Baseline,       \* the plan the playbook writes, always the earliest
    PlannerPlans,   \* the candidates the planner agent may add while planning, at most one
    VariantPlans,   \* the variants reading the candidate plans writes
    PlanOf,         \* the plan a task belongs to
    ActionOf,       \* the action type of a task
    DependsOn,      \* the tasks a task waits for
    HighRisk,       \* action types of the high tier: the gate asks for a person
    MaxSteps,       \* limits.max_workflow_steps
    MaxAborts       \* bound on the runs lost to a crash or an exception

Plan == {Baseline} \cup PlannerPlans \cup VariantPlans

TasksOf(p) == {t \in Task : PlanOf[t] = p}

ASSUME TaskAssumption ==
    /\ Task \subseteq Nat \ {0}
    /\ Plan \subseteq Nat \ {0}
    /\ PlanOf \in [Task -> Plan]

\* Dependencies are resolved to rows of the same plan when it is written.
ASSUME DependsOnAssumption ==
    /\ DependsOn \in [Task -> SUBSET Task]
    /\ \A t \in Task : \A d \in DependsOn[t] : PlanOf[d] = PlanOf[t]

\* A playbook, and so a plan, never repeats an action.
ASSUME ActionAssumption ==
    \A t, u \in Task : (PlanOf[t] = PlanOf[u] /\ ActionOf[t] = ActionOf[u]) => t = u

ASSUME BoundAssumption ==
    /\ MaxSteps \in Nat \ {0}
    /\ MaxAborts \in Nat

VARIABLES
    state,      \* Incident.state
    plans,      \* the plans that exist
    selected,   \* the plan an operator selected, or 0
    task,       \* PlanTask.state
    evals,      \* assurance_evaluation rows in id order, each with its human decision
    action,     \* status of the action recorded for a task, or "none"
    actedOn,    \* the evaluation that action row names, or 0
    changes,    \* STATE_CHANGED entries of the decision log
    calls,      \* how often the task's service was called; no rollback undoes a call
    running,    \* whether a run is active
    ctxPlan,    \* WorkflowContext.plan_id of that run, 0 while unresolved
    ctxTaken,   \* WorkflowContext.steps_taken
    ctxEval,    \* metadata: the evaluation (and with it the task) in hand, or 0
    aborts,     \* runs lost so far
    cascaded    \* whether a cascade has driven the incident yet

rows == <<state, plans, selected, task, evals, action, actedOn, changes>>
ctx  == <<running, ctxPlan, ctxTaken, ctxEval>>
past == <<aborts, cascaded>>
vars == <<rows, calls, ctx, past>>

-----------------------------------------------------------------------------
(* What the gate answers, what a service returns, what a row holds         *)

\* execute: every check passed at a low or medium tier.  hold: every check
\* passed at the high tier.  refuse: a check failed on evidence or a conflict.
\* unavailable: the gate could not answer, and a refusal was recorded for it.
Outcome == {"execute", "hold", "refuse", "unavailable"}

Decision == {"approved", "rejected"}

Evaluation == [task : Task, outcome : Outcome, decision : Decision \cup {"none"}]

\* surfaced: status needs_human from a service that ran and has evidence to show.
\* refused: status needs_human with no provenance, so nothing was done.
Result == {"success", "failure", "skipped", "surfaced", "refused"}

\* Mutant of TaskStateFor: the result is written as it is.
TaskStateForRaw(r) == r

\* The task state an action of this result leaves behind.
TaskStateFor(r) ==
    CASE r = "success" -> "succeeded"
      [] r = "failure" -> "failed"
      [] r = "skipped" -> "skipped"
      [] r \in {"surfaced", "refused"} -> "needs_human"

Executable(e) == e.outcome = "execute"

RequiresHuman(e) == ~Executable(e)

\* Mutant of Approvable: whatever asks for a person is filed as an approval request.
ApprovableAny(o) == o # "execute"

\* is_approvable: only a block on risk alone may be approved.
Approvable(o) == o = "hold"

\* An action already recorded for the same action type.  "failure" is among the
\* statuses that conflict: the non-blocking words are task states, and an action
\* row says "failure", never "failed".
Conflicts(t) == \E u \in Task : /\ ActionOf[u] = ActionOf[t]
                                /\ action[u] \notin {"none", "skipped"}

\* Mutant of GateOutcomes: no_conflicts is not consulted.
GateOutcomesBlind(t) ==
    {IF ActionOf[t] \in HighRisk THEN "hold" ELSE "execute", "refuse", "unavailable"}

\* Every answer the gate can give on a task now.  Evidence may be missing, and the
\* gate down, at any time.
GateOutcomes(t) ==
    IF Conflicts(t) THEN {"refuse", "unavailable"}
    ELSE IF ActionOf[t] \in HighRisk THEN {"hold", "refuse", "unavailable"}
    ELSE {"execute", "refuse", "unavailable"}

IsFirst(t, S) == t \in S /\ \A u \in S : t <= u

-----------------------------------------------------------------------------
(* The plan and the task in hand                                           *)

\* The selected plan, else the earliest.
CurrentPlan == IF selected # 0 THEN selected
               ELSE IF plans = {} THEN 0 ELSE Baseline

\* The plan a step works on; a run resolves it once and keeps it.
WorkPlan == IF ctxPlan # 0 THEN ctxPlan ELSE CurrentPlan

\* The tasks of plan p that can proceed when the tasks are in states ts.
Ready(p, ts) ==
    {t \in TasksOf(p) : /\ ts[t] \notin Settled \cup {"needs_human", "executing"}
                        /\ \A d \in DependsOn[t] : ts[d] \in DoneWell}

HeldEvals(t) == {e \in DOMAIN evals : evals[e].task = t /\ RequiresHuman(evals[e])}

\* Mutant of Parked: the state of the task is not asked.
ParkedWhatever(p) == {t \in TasksOf(p) : HeldEvals(t) # {}}

\* Tasks parked on an evaluation that asked for a person.
Parked(p) == {t \in TasksOf(p) : task[t] = "needs_human" /\ HeldEvals(t) # {}}

\* Evaluation e is what plan p waits for: the latest held one of the first parked
\* task.  Whether it was decided, or its task already ran, is not asked.
IsPending(e, p) ==
    /\ e \in DOMAIN evals
    /\ IsFirst(evals[e].task, Parked(p))
    /\ e \in HeldEvals(evals[e].task)
    /\ \A f \in HeldEvals(evals[e].task) : f <= e

-----------------------------------------------------------------------------
TypeOK ==
    /\ state \in IncidentState
    /\ plans \subseteq Plan
    /\ selected \in Plan \cup {0}
    /\ task \in [Task -> TaskState]
    /\ evals \in Seq(Evaluation)
    /\ action \in [Task -> Result \cup {"none"}]
    /\ actedOn \in [Task -> Nat]
    /\ changes \in Nat
    /\ calls \in [Task -> Nat]
    /\ running \in BOOLEAN
    /\ ctxPlan \in Plan \cup {0}
    /\ ctxTaken \in Nat
    /\ ctxEval \in Nat
    /\ aborts \in Nat
    /\ cascaded \in BOOLEAN

Init ==
    /\ state = "detected"
    /\ plans = {}
    /\ selected = 0
    /\ task = [t \in Task |-> "proposed"]
    /\ evals = << >>
    /\ action = [t \in Task |-> "none"]
    /\ actedOn = [t \in Task |-> 0]
    /\ changes = 0
    /\ calls = [t \in Task |-> 0]
    /\ running = FALSE
    /\ ctxPlan = 0
    /\ ctxTaken = 0
    /\ ctxEval = 0
    /\ aborts = 0
    /\ cascaded = FALSE

-----------------------------------------------------------------------------
(* Frames                                                                  *)

Stepping(s) == running /\ state = s /\ ctxTaken < MaxSteps

\* One committed step: the transition, its STATE_CHANGED entry, the budget.
Move(target) ==
    /\ state' = target
    /\ changes' = changes + 1
    /\ ctxTaken' = ctxTaken + 1

EndRun ==
    /\ running' = FALSE
    /\ ctxPlan' = 0
    /\ ctxTaken' = 0
    /\ ctxEval' = 0

-----------------------------------------------------------------------------
(* Runs                                                                    *)

\* Mutant of StepsTaken: every request starts with a fresh budget.
StepsTakenFresh == 0

\* A request recovers its step count from the decision log.
StepsTaken == changes

\* POST /incidents/{id}/run.
StartRun ==
    /\ ~running
    /\ running' = TRUE
    /\ ctxPlan' = CurrentPlan
    /\ ctxTaken' = StepsTaken
    /\ ctxEval' = 0
    /\ UNCHANGED <<rows, calls, past>>

\* A cascade advancing this member builds a context of its own.
StartGroupRun ==
    /\ ~running
    /\ state \notin Terminal
    /\ running' = TRUE
    /\ ctxPlan' = 0
    /\ ctxTaken' = 0
    /\ ctxEval' = 0
    /\ cascaded' = TRUE
    /\ UNCHANGED <<rows, calls, aborts>>

FinishRun ==
    /\ running
    /\ state \in Terminal
    /\ EndRun
    /\ UNCHANGED <<rows, calls, past>>

\* A crash or an exception: the open step rolls back, the context is gone.
AbortRun ==
    /\ running
    /\ state \notin Terminal
    /\ aborts < MaxAborts
    /\ aborts' = aborts + 1
    /\ EndRun
    /\ UNCHANGED <<rows, calls, cascaded>>

\* The budget is spent: block for human review, whatever the state.
ExceedBudget ==
    /\ running
    /\ state \notin Terminal
    /\ ctxTaken >= MaxSteps
    /\ state' = "blocked"
    /\ changes' = changes + 1
    /\ UNCHANGED <<plans, selected, task, evals, action, actedOn, calls, ctx, past>>

-----------------------------------------------------------------------------
(* Detecting, assessing, planning                                          *)

StepDetected ==
    /\ Stepping("detected")
    /\ Move("assessing")
    /\ UNCHANGED <<plans, selected, task, evals, action, actedOn, calls,
                   running, ctxPlan, ctxEval, past>>

StepAssessing ==
    /\ Stepping("assessing")
    /\ Move("planning")
    /\ UNCHANGED <<plans, selected, task, evals, action, actedOn, calls,
                   running, ctxPlan, ctxEval, past>>

\* What a first planning writes: the playbook's plan always, and the planner agent's
\* candidate if the agent produced one in time.
Proposals == {{Baseline}} \cup {{Baseline, p} : p \in PlannerPlans}

\* A plan that is there already is kept: retrying after a failure adds none.
StepPlanning ==
    /\ Stepping("planning")
    /\ IF plans = {}
       THEN /\ plans' \in Proposals
            /\ ctxPlan' = Baseline
       ELSE /\ ctxPlan' = CurrentPlan
            /\ UNCHANGED plans
    /\ Move("assuring")
    /\ UNCHANGED <<selected, task, evals, action, actedOn, calls, running, ctxEval, past>>

-----------------------------------------------------------------------------
(* Assuring                                                                *)

\* Every remaining task is blocked or rejected.
AssureNothing ==
    /\ Stepping("assuring")
    /\ Ready(WorkPlan, task) = {}
    /\ ctxPlan' = WorkPlan
    /\ Move("blocked")
    /\ UNCHANGED <<plans, selected, task, evals, action, actedOn, calls,
                   running, ctxEval, past>>

\* Mutant of AfterGate: any refusal is filed as an approval request.
AfterGateParks(o) == IF o = "execute" THEN "executing" ELSE "awaiting_approval"

AfterGate(o) == IF o = "execute" THEN "executing"
                ELSE IF Approvable(o) THEN "awaiting_approval" ELSE "blocked"

\* Submit the first task that can proceed, record the evaluation, act on it.
AssureNext ==
    /\ Stepping("assuring")
    /\ ctxPlan' = WorkPlan
    /\ \E t \in Ready(WorkPlan, task), o \in Outcome :
          /\ IsFirst(t, Ready(WorkPlan, task))
          /\ o \in GateOutcomes(t)
          /\ evals' = Append(evals, [task |-> t, outcome |-> o, decision |-> "none"])
          /\ ctxEval' = Len(evals) + 1
          /\ task' = [task EXCEPT ![t] = IF o = "execute" THEN "assured"
                                         ELSE "needs_human"]
          /\ Move(AfterGate(o))
    /\ UNCHANGED <<plans, selected, action, actedOn, calls, running, past>>

-----------------------------------------------------------------------------
(* Awaiting approval                                                       *)

\* The evaluation the step looks at: the one this run just made, else the one
\* found in the rows.
InHand(e) == IF ctxEval # 0 THEN e = ctxEval ELSE IsPending(e, WorkPlan)

AwaitNothing ==
    /\ Stepping("awaiting_approval")
    /\ ctxEval = 0
    /\ Parked(WorkPlan) = {}
    /\ ctxPlan' = WorkPlan
    /\ Move(IF Ready(WorkPlan, task) = {} THEN "blocked" ELSE "assuring")
    /\ UNCHANGED <<plans, selected, task, evals, action, actedOn, calls,
                   running, ctxEval, past>>

\* Mutant of Rest: the step is given back and the loop goes round again.
RestSpinning == UNCHANGED ctx

\* The step is given back; the loop sees no progress and the run returns.
Rest == EndRun

\* No decision yet: rest, or block when no decision can ever be accepted.
AwaitUndecided ==
    /\ Stepping("awaiting_approval")
    /\ \E e \in DOMAIN evals :
          /\ InHand(e)
          /\ evals[e].decision = "none"
          /\ IF Approvable(evals[e].outcome)
             THEN Rest /\ UNCHANGED <<state, changes>>
             ELSE /\ Move("blocked")
                  /\ ctxPlan' = WorkPlan
                  /\ ctxEval' = e
                  /\ UNCHANGED running
    /\ UNCHANGED <<plans, selected, task, evals, action, actedOn, calls, past>>

AwaitApproved ==
    /\ Stepping("awaiting_approval")
    /\ \E e \in DOMAIN evals :
          /\ InHand(e)
          /\ evals[e].decision = "approved"
          /\ task' = [task EXCEPT ![evals[e].task] = "assured"]
          /\ ctxPlan' = WorkPlan
          /\ ctxEval' = e
    /\ Move("executing")
    /\ UNCHANGED <<plans, selected, evals, action, actedOn, calls, running, past>>

\* Mutant of AfterRejection: with nothing left to do the incident resolves.
AfterRejectionResolves(ts) == IF Ready(WorkPlan, ts) = {} THEN "resolved" ELSE "assuring"

AfterRejection(ts) == IF Ready(WorkPlan, ts) = {} THEN "blocked" ELSE "assuring"

AwaitRejected ==
    /\ Stepping("awaiting_approval")
    /\ \E e \in DOMAIN evals :
          /\ InHand(e)
          /\ evals[e].decision = "rejected"
          /\ task' = [task EXCEPT ![evals[e].task] = "rejected"]
    /\ ctxPlan' = WorkPlan
    /\ ctxEval' = 0
    /\ Move(AfterRejection(task'))
    /\ UNCHANGED <<plans, selected, evals, action, actedOn, calls, running, past>>

-----------------------------------------------------------------------------
(* Executing                                                               *)

\* Where the incident goes when a run finds it executing with no task in hand.
AfterUnclaimed == "blocked"

ExecuteUnclaimed ==
    /\ Stepping("executing")
    /\ ctxEval = 0
    /\ Move(AfterUnclaimed)
    /\ UNCHANGED <<plans, selected, task, evals, action, actedOn, calls,
                   running, ctxPlan, ctxEval, past>>

\* The two preconditions of execute.  Without them it raises: AbortRun.
MayExecute(e) == IF RequiresHuman(e) THEN e.decision = "approved" ELSE Executable(e)

\* Mutant of AfterResult: a service that failed does not stop the plan.
AfterResultGoesOn(r, ts) == IF Ready(WorkPlan, ts) = {} THEN "resolved" ELSE "assuring"

\* Where the incident goes after result r, the tasks being in states ts.
AfterResult(r, ts) ==
    IF r \notin {"success", "surfaced"} THEN "blocked"
    ELSE IF Ready(WorkPlan, ts) = {} THEN "resolved" ELSE "assuring"

\* Mutant of Recorded: the idempotency key is not looked up.
RecordedNever(t) == FALSE

\* An action row holds the task's idempotency key.
Recorded(t) == action[t] # "none"

\* The key was used: its result comes back, the service is not called again and
\* the task row is not touched.
ReplayAction ==
    /\ Stepping("executing")
    /\ ctxEval # 0
    /\ MayExecute(evals[ctxEval])
    /\ Recorded(evals[ctxEval].task)
    /\ Move(AfterResult(action[evals[ctxEval].task], task))
    /\ ctxEval' = 0
    /\ UNCHANGED <<plans, selected, task, evals, action, actedOn, calls,
                   running, ctxPlan, past>>

DispatchTask ==
    /\ Stepping("executing")
    /\ ctxEval # 0
    /\ MayExecute(evals[ctxEval])
    /\ ~Recorded(evals[ctxEval].task)
    /\ \E t \in Task, r \in Result :
          /\ t = evals[ctxEval].task
          /\ calls' = [calls EXCEPT ![t] = @ + 1]
          /\ action' = [action EXCEPT ![t] = r]
          /\ actedOn' = [actedOn EXCEPT ![t] = ctxEval]
          /\ task' = [task EXCEPT ![t] = TaskStateFor(r)]
          /\ Move(AfterResult(r, task'))
    /\ ctxEval' = 0
    /\ UNCHANGED <<plans, selected, evals, running, ctxPlan, past>>

\* The service was called and the step then failed: the call stands, the rows
\* of the step do not.
DispatchLost ==
    /\ Stepping("executing")
    /\ ctxEval # 0
    /\ MayExecute(evals[ctxEval])
    /\ ~Recorded(evals[ctxEval].task)
    /\ aborts < MaxAborts
    /\ aborts' = aborts + 1
    /\ \E t \in Task :
          /\ t = evals[ctxEval].task
          /\ calls' = [calls EXCEPT ![t] = @ + 1]
    /\ EndRun
    /\ UNCHANGED <<rows, cascaded>>

-----------------------------------------------------------------------------
(* People                                                                  *)

\* enforce_action_approval: refused where the gate failed on evidence or a
\* conflict; approving what the gate already cleared is merely redundant.
MayApprove(o) == o \in {"execute", "hold"}

\* Mutant of MayDecide: a second decision on one evaluation is accepted.
MayDecideAgain(e, d) == d = "approved" => MayApprove(evals[e].outcome)

\* One decision per evaluation, at any time.  A rejection is never refused.
MayDecide(e, d) ==
    /\ evals[e].decision = "none"
    /\ d = "approved" => MayApprove(evals[e].outcome)

\* POST /assurance/{evaluation}/decision.
Decide(e, d) ==
    /\ MayDecide(e, d)
    /\ evals' = [evals EXCEPT ![e].decision = d]
    /\ UNCHANGED <<state, plans, selected, task, action, actedOn, changes, calls, ctx, past>>

\* GET /incidents/{id}/plans and /plans/comparison write the variants they list.
ReadPlans ==
    /\ plans # {}
    /\ plans' = plans \cup VariantPlans
    /\ plans' # plans
    /\ UNCHANGED <<state, selected, task, evals, action, actedOn, changes, calls, ctx, past>>

\* POST /incidents/{id}/plans/{plan}/select: once, in any state of the incident.
SelectPlan(p) ==
    /\ p \in plans
    /\ selected = 0
    /\ selected' = p
    /\ UNCHANGED <<state, plans, task, evals, action, actedOn, changes, calls, ctx, past>>

-----------------------------------------------------------------------------
Step ==
    \/ ExceedBudget
    \/ StepDetected \/ StepAssessing \/ StepPlanning
    \/ AssureNothing \/ AssureNext
    \/ AwaitNothing \/ AwaitUndecided \/ AwaitApproved \/ AwaitRejected
    \/ ExecuteUnclaimed \/ ReplayAction \/ DispatchTask
    \/ FinishRun

DecideSome == \E e \in DOMAIN evals, d \in Decision : Decide(e, d)

ApproveSome == \E e \in DOMAIN evals : Decide(e, "approved")

SelectSome == \E p \in Plan : SelectPlan(p)

Next ==
    \/ StartRun \/ StartGroupRun
    \/ Step
    \/ AbortRun \/ DispatchLost
    \/ DecideSome \/ ReadPlans \/ SelectSome

Spec == Init /\ [][Next]_vars

\* A run that has begun keeps stepping.
RunSpec == Spec /\ WF_vars(Step)

-----------------------------------------------------------------------------
(* Safety                                                                  *)

\* An action row names an evaluation of its own task that authorised it: the gate
\* said execute, or it held the task on risk and a person approved that very
\* evaluation.  Evaluations, decisions and plans keep changing after the action
\* ran; what the row names must stay true.
ActedOnlyWithAuthority ==
    \A t \in Task : action[t] # "none" =>
        /\ actedOn[t] \in DOMAIN evals
        /\ evals[actedOn[t]].task = t
        /\ \/ evals[actedOn[t]].outcome = "execute"
           \/ /\ evals[actedOn[t]].outcome = "hold"
              /\ evals[actedOn[t]].decision = "approved"

\* No task's service is called twice, whatever runs are lost between the call and
\* the commit that records it, and however often its approval is found again.
CalledAtMostOnce == \A t \in Task : calls[t] <= 1

\* A run that stops for a person leaves an item a person may approve: the
\* incident never rests on an evaluation every approval of which is refused.
ParkedIsApprovable ==
    (state = "awaiting_approval" /\ ~running) =>
        \A e \in DOMAIN evals : IsPending(e, CurrentPlan) => evals[e].outcome = "hold"

\* Runs through the API share one budget, kept in the decision log: as long as no
\* cascade drove the incident, asking again cannot buy it more transitions than the
\* limit and the final block.
BudgetSpansRuns == ~cascaded => changes <= MaxSteps + 1

\* The incident moves only along the table the API and the screens rely on; the
\* engine's own check of it never has anything to refuse.
LegalMoves == [][state' # state => CanTransition(state, state')]_state

\* An incident resolves only with nothing left that could proceed, no failure
\* behind it, and the work it did as the last thing that happened.
ResolvedIsWorked ==
    [][(state' = "resolved" /\ state # "resolved") =>
         /\ \A t \in TasksOf(ctxPlan) :
               task'[t] \in {"proposed", "assured"} =>
                   \E d \in DependsOn[t] : task'[d] # "succeeded"
         /\ \A t \in Task : action'[t] \in {"none", "success", "surfaced"}
         /\ \E t \in TasksOf(ctxPlan) : action'[t] # "none"]_vars

\* What became of a task is final, and an incident that ended never works again.
SettledIsFinal ==
    [][/\ \A t \in Task : task[t] \in Settled => task'[t] = task[t]
       /\ state \in Terminal => UNCHANGED <<task, action, calls>>]_vars

-----------------------------------------------------------------------------
(* The abstract promise                                                    *)

Cleared == {t \in Task : \E e \in DOMAIN evals :
              /\ evals[e].task = t
              /\ \/ evals[e].outcome = "execute"
                 \/ evals[e].outcome = "hold" /\ evals[e].decision = "approved"}

Promise == INSTANCE Authorisation WITH cleared <- Cleared, acted <- calls

\* Every call of a service is one the abstract specification allows.
KeepsPromise == Promise!Spec

-----------------------------------------------------------------------------
(* Liveness                                                                *)

\* Every run comes back: it ends, or it waits for a person.
RunReturns == running ~> ~running

\* Somebody keeps asking for runs while the incident is open, whatever may be
\* approved is decided sooner or later, and cascades begin the count anew no more
\* than finitely often.
Driven ==
    /\ <>[][~StartGroupRun]_vars
    /\ WF_vars(StartRun /\ state \notin Terminal)
    /\ WF_vars(ApproveSome)

\* An incident that is driven closes: nobody ever has to reject anything, repair a
\* row or restart the system to end it.
EventuallyClosed == Driven => <>(state \in Terminal)

-----------------------------------------------------------------------------
(* What the repository says and the code does not do                       *)

\* load_context rebuilds a context "from durable state, so a run can resume after a
\* restart": a run that finds the incident executing, with budget left, does not
\* close it as blocked.
ResumesAfterRestart ==
    [][Stepping("executing") /\ ctxEval = 0 => state' # "blocked"]_vars
=============================================================================
