------------------------- MODULE PlanApprovalProofs -------------------------
(***************************************************************************)
(* What a signature on a plan can and cannot do, for any incidents, plans, *)
(* tasks, readings, configurations and number of requests.                 *)
(***************************************************************************)
EXTENDS PlanApproval, GateProofs

USE PlanAssumption, OwnershipAssumption

State == {"assuring", "executing", "awaiting_approval", "blocked", "resolved"}

TaskStates == {"proposed", "assured", "needs_human", "rejected", "succeeded", "failed"}

Decided == {"none", "approved", "rejected"}

WorkItem == [kind : {"work"}, action : {Row(t).action : t \in Task},
             refs : {Range(Row(t).refs) : t \in Task}, state : {"success", "failure"}]

\* What the gate may answer for a task.
ResultsFor(t) ==
    {Evaluate(GateInput(t, reading, work), GateConfig) :
        reading \in Reading, work \in SUBSET WorkItem}

AnyResult == UNION {ResultsFor(t) : t \in Task}

EvalRow == [task : Task, result : AnyResult, decision : Decided, by : Nat]

Covering == [plan : Plan, covered : SUBSET Nat, at : Nat]

IdsOf(p) == {r.id : r \in Range(TasksOf[p])}

-----------------------------------------------------------------------------
(* Lemmas about the rows                                                   *)

LEMMA MakesSeq ==
    ASSUME NEW S, NEW n \in Nat, NEW f \in [1..n -> S]
    PROVE  f \in Seq(S) /\ Len(f) = n
OBVIOUS

LEMMA TaskIds ==
    /\ \A p \in Plan : IdsOf(p) \subseteq Task
    /\ \A p \in Plan : \A t \in IdsOf(p) : PlanOf(t) = p
    /\ \A t \in Task : PlanOf(t) \in Plan /\ t \in IdsOf(PlanOf(t))
    /\ Task \subseteq Nat
<1>1. \A p \in Plan : IdsOf(p) \subseteq Task
  BY DEF IdsOf, Task, AllTasks
<1>2. \A t \in Task : \E p \in Plan : t \in IdsOf(p)
  BY DEF IdsOf, Task, AllTasks
<1>3. \A p, q \in Plan : \A t : t \in IdsOf(p) /\ t \in IdsOf(q) => p = q
  BY DEF IdsOf
<1>4. \A t \in Task : PlanOf(t) \in Plan /\ t \in IdsOf(PlanOf(t))
  BY <1>2 DEF PlanOf, IdsOf
<1>5. \A p \in Plan : \A t \in IdsOf(p) : PlanOf(t) = p
  BY <1>1, <1>3, <1>4
<1> QED BY <1>1, <1>4, <1>5

LEMMA ReadyIds ==
    ASSUME NEW p \in Plan, NEW ts, Ready(p, ts) # {}
    PROVE  Min(Ready(p, ts)) \in IdsOf(p)
<1>1. Ready(p, ts) \subseteq IdsOf(p)
  BY DEF Ready, IdsOf
<1>2. Ready(p, ts) \in SUBSET Nat
  BY <1>1, TaskIds
<1> QED BY <1>1, <1>2, LeastOf

\* What the gate answers for a task of the incident is an answer for that task.
LEMMA ResultType ==
    ASSUME NEW i, NEW t \in Task, NEW reading \in Reading
    PROVE  GateResult(i, t, reading) \in ResultsFor(t) /\ ResultsFor(t) \subseteq AnyResult
<1>1. PriorWork(i) \in SUBSET WorkItem
  BY DEF PriorWork, WorkItem
<1> QED BY <1>1 DEF GateResult, ResultsFor, AnyResult

-----------------------------------------------------------------------------
(* Types                                                                   *)

\* Rows are rows, and a result is one the gate may have given for the task.
RowsInv ==
    /\ evals \in Seq(EvalRow)
    /\ \A e \in DOMAIN evals : evals[e].result \in ResultsFor(evals[e].task)
    /\ approvals \in Seq(Covering)

\* The plans an incident is tied to are its own, and so are the tasks it evaluates.
OwnInv ==
    /\ Range(Baseline) \subseteq plans
    /\ \A i \in Incident :
          /\ choice[i] \in {0, Baseline[i], Sibling[i]}
          /\ driven[i] \in {0, Baseline[i], Sibling[i]}
    /\ \A e \in DOMAIN evals :
          \E i \in Incident : PlanOf(evals[e].task) \in {Baseline[i], Sibling[i]}

\* Whoever executes has an evaluation in hand.
HandInv == \A i \in Incident : inc[i] = "executing" => hand[i] \in DOMAIN evals

BaseInv == TypeOK /\ RowsInv /\ OwnInv /\ HandInv

LEMMA WorkPlanIsOwn ==
    ASSUME BaseInv, NEW i \in Incident
    PROVE  /\ WorkPlan(i) \in Plan /\ WorkPlan(i) \in {Baseline[i], Sibling[i]}
           /\ CurrentPlan(i) \in Plan
BY DEF BaseInv, TypeOK, OwnInv, WorkPlan, CurrentPlan, Plan

\* The evaluation waited for exists.
LEMMA PendingIs ==
    ASSUME BaseInv, NEW i \in Incident, hand[i] # 0 \/ Parked(WorkPlan(i)) # {}
    PROVE  Pending(i) \in DOMAIN evals
<1>1. DOMAIN evals = 1..Len(evals) /\ Len(evals) \in Nat /\ hand[i] \in 0..Len(evals)
  BY DEF BaseInv, RowsInv, TypeOK
<1>2. CASE hand[i] # 0
  BY <1>1, <1>2 DEF Pending
<1>3. CASE hand[i] = 0
  <2> DEFINE parked == Parked(WorkPlan(i))
  <2>1. parked # {} /\ parked \subseteq IdsOf(WorkPlan(i))
    BY <1>3 DEF Parked, IdsOf
  <2>2. parked \in SUBSET Nat
    BY <2>1, TaskIds, WorkPlanIsOwn
  <2>3. Held(Min(parked)) # {}
    BY <2>1, <2>2, LeastOf DEF Parked
  <2>4. Held(Min(parked)) \in SUBSET (0..Len(evals))
    BY <1>1 DEF Held
  <2>5. Max(Held(Min(parked))) \in Held(Min(parked))
    BY <1>1, <2>3, <2>4, GreatestOf
  <2> QED BY <1>3, <2>5 DEF Pending, Held
<1> QED BY <1>2, <1>3

\* What Keep does to one incident, and leaves alone of the others.
LEMMA Kept ==
    ASSUME BaseInv, NEW i \in Incident, NEW e \in 0..Len(evals'), Keep(i, e),
           Len(evals) \in Nat, Len(evals') \in Nat, Len(evals) <= Len(evals')
    PROVE  /\ driven' \in [Incident -> Plan \cup {0}]
           /\ hand' \in [Incident -> 0..Len(evals')]
           /\ driven'[i] \in {0, Baseline[i], Sibling[i]}
           /\ inc'[i] \notin {"resolved", "blocked"} => hand'[i] = e
           /\ \A j \in Incident \ {i} : driven'[j] = driven[j] /\ hand'[j] = hand[j]
<1>1. WorkPlan(i) \in Plan /\ WorkPlan(i) \in {Baseline[i], Sibling[i]}
  BY WorkPlanIsOwn
<1>2. driven \in [Incident -> Plan \cup {0}] /\ hand \in [Incident -> 0..Len(evals)]
  BY DEF BaseInv, TypeOK
<1> QED BY <1>1, <1>2 DEF Keep

\* Rows only grow, and only in their decisions.
RowsStand ==
    /\ DOMAIN evals \subseteq DOMAIN evals'
    /\ \A e \in DOMAIN evals : evals'[e].task = evals[e].task /\ evals'[e].result = evals[e].result

LEMMA InitBase == Init => BaseInv
<1> SUFFICES ASSUME Init PROVE BaseInv
  OBVIOUS
<1>1. Range(Baseline) \subseteq Plan
  BY DEF Range
<1>2. evals = << >> /\ DOMAIN evals = {} /\ Len(evals) = 0 /\ Len(approvals) = 0
  BY DEF Init
<1>3. TypeOK
  BY <1>1, <1>2 DEF Init, TypeOK
<1>4. RowsInv /\ OwnInv /\ HandInv
  BY <1>1, <1>2 DEF Init, RowsInv, OwnInv, HandInv
<1> QED BY <1>3, <1>4 DEF BaseInv

LEMMA AssureBase ==
    ASSUME BaseInv, NEW i \in Incident, Assure(i)
    PROVE  BaseInv' /\ RowsStand
<1> DEFINE ready == Ready(WorkPlan(i), task)
           t == Min(ready)
<1>1. /\ inc[i] = "assuring" /\ ready # {} /\ Keep(i, Len(evals) + 1)
      /\ UNCHANGED <<plans, choice, approvals, request>>
  BY DEF Assure, people
<1>2. PICK reading \in Reading :
        LET r == GateResult(i, t, reading)
        IN  /\ evals' = Append(evals, Evaluation(t, r))
            /\ task' = [task EXCEPT ![t] = TaskAfter(r)]
            /\ inc' = [inc EXCEPT ![i] = AfterGate(r)]
  BY Zenon DEF Assure
<1> DEFINE r == GateResult(i, t, reading)
           row == Evaluation(t, r)
<1>3. /\ t \in IdsOf(WorkPlan(i)) /\ t \in Task
      /\ PlanOf(t) \in {Baseline[i], Sibling[i]}
  <2>1. WorkPlan(i) \in Plan /\ WorkPlan(i) \in {Baseline[i], Sibling[i]}
    BY WorkPlanIsOwn
  <2>2. t \in IdsOf(WorkPlan(i))
    BY <1>1, <2>1, ReadyIds
  <2> QED BY <2>1, <2>2, TaskIds
<1>4. r \in ResultsFor(t) /\ r \in AnyResult
  BY <1>3, ResultType
<1>5. row \in EvalRow /\ row.task = t /\ row.result = r /\ row.by = 0
  BY <1>3, <1>4 DEF Evaluation, EvalRow, Decided
<1>6. evals' = Append(evals, row) /\ evals \in Seq(EvalRow) /\ evals' \in Seq(EvalRow)
  BY <1>2, <1>5 DEF BaseInv, RowsInv
<1>7. /\ Len(evals) \in Nat /\ Len(evals') = Len(evals) + 1
      /\ DOMAIN evals = 1..Len(evals) /\ DOMAIN evals' = 1..(Len(evals) + 1)
      /\ evals'[Len(evals) + 1] = row /\ \A e \in DOMAIN evals : evals'[e] = evals[e]
  BY <1>6
<1>8. RowsStand
  BY <1>7 DEF RowsStand
<1>9. /\ driven' \in [Incident -> Plan \cup {0}] /\ hand' \in [Incident -> 0..Len(evals')]
      /\ driven'[i] \in {0, Baseline[i], Sibling[i]}
      /\ inc'[i] \notin {"resolved", "blocked"} => hand'[i] = Len(evals) + 1
      /\ \A j \in Incident \ {i} : driven'[j] = driven[j] /\ hand'[j] = hand[j]
  BY <1>1, <1>7, Kept
<1>10. /\ inc' \in [Incident -> State] /\ \A j \in Incident \ {i} : inc'[j] = inc[j]
  BY <1>2 DEF BaseInv, TypeOK, AfterGate, State
<1>11. task' \in [Task -> TaskStates]
  BY <1>2 DEF BaseInv, TypeOK, TaskAfter, TaskStates
<1>12. \A e \in DOMAIN evals' : evals'[e].task \in Task /\ evals'[e].by \in 0..Len(approvals')
  BY <1>1, <1>3, <1>5, <1>7 DEF BaseInv, TypeOK, RowsInv
<1>13. TypeOK'
  BY <1>1, <1>7, <1>9, <1>10, <1>11, <1>12 DEF BaseInv, TypeOK, State, TaskStates
<1>14. RowsInv'
  BY <1>1, <1>4, <1>5, <1>6, <1>7 DEF BaseInv, RowsInv
<1>15. OwnInv'
  BY <1>1, <1>3, <1>5, <1>7, <1>9 DEF BaseInv, OwnInv
<1>16. HandInv'
  BY <1>7, <1>9, <1>10 DEF BaseInv, HandInv
<1> QED BY <1>8, <1>13, <1>14, <1>15, <1>16 DEF BaseInv

\* The engine's other steps leave the rows as they are.
LEMMA EngineBase ==
    ASSUME BaseInv, NEW i \in Incident,
           Execute(i) \/ EndRun(i) \/ AwaitNothing(i) \/ Await(i)
    PROVE  BaseInv' /\ RowsStand
<1>1. UNCHANGED <<plans, choice, evals, approvals, request>>
  BY DEF Execute, EndRun, AwaitNothing, Await, people
<1>2. /\ Len(evals) \in Nat /\ DOMAIN evals = 1..Len(evals) /\ Len(evals') = Len(evals)
      /\ \A e \in DOMAIN evals : evals[e].task \in Task
  BY <1>1 DEF BaseInv, RowsInv, TypeOK
<1>3. HandInv /\ inc \in [Incident -> State] /\ task \in [Task -> TaskStates]
  BY DEF BaseInv, TypeOK, State, TaskStates
<1> SUFFICES
      /\ inc' \in [Incident -> State] /\ \A j \in Incident \ {i} : inc'[j] = inc[j]
      /\ task' \in [Task -> TaskStates]
      /\ driven' \in [Incident -> Plan \cup {0}] /\ hand' \in [Incident -> 0..Len(evals')]
      /\ driven'[i] \in {0, Baseline[i], Sibling[i]}
      /\ \A j \in Incident \ {i} : driven'[j] = driven[j] /\ hand'[j] = hand[j]
      /\ inc'[i] = "executing" => hand'[i] \in DOMAIN evals
  <2>1. TypeOK'
    BY <1>1, <1>2 DEF BaseInv, TypeOK, State, TaskStates
  <2>2. RowsInv' /\ RowsStand
    BY <1>1 DEF BaseInv, RowsInv, RowsStand
  <2>3. OwnInv'
    BY <1>1, <1>2 DEF BaseInv, OwnInv
  <2>4. HandInv'
    BY <1>1, <1>3 DEF HandInv
  <2> QED BY <2>1, <2>2, <2>3, <2>4 DEF BaseInv
<1>4. CASE Execute(i)
  <2>1. PICK s \in {"succeeded", "failed"} :
          /\ task' = [task EXCEPT ![evals[hand[i]].task] = s]
          /\ inc' = [inc EXCEPT ![i] = IF s = "failed" THEN "blocked"
                                       ELSE IF Ready(WorkPlan(i), task') = {} THEN "resolved"
                                       ELSE "assuring"]
    BY <1>4 DEF Execute
  <2>2. Keep(i, 0) /\ inc[i] = "executing" BY <1>4 DEF Execute
  <2>3. inc'[i] # "executing" /\ inc' \in [Incident -> State]
    BY <1>3, <2>1 DEF State
  <2>4. task' \in [Task -> TaskStates]
    BY <1>3, <2>1 DEF TaskStates
  <2>5. /\ driven' \in [Incident -> Plan \cup {0}] /\ hand' \in [Incident -> 0..Len(evals')]
        /\ driven'[i] \in {0, Baseline[i], Sibling[i]}
        /\ \A j \in Incident \ {i} : driven'[j] = driven[j] /\ hand'[j] = hand[j]
    <3>1. /\ 0 \in 0..Len(evals') /\ Len(evals) \in Nat /\ Len(evals') \in Nat
          /\ Len(evals) <= Len(evals')
      BY <1>2
    <3> QED BY <2>2, <3>1, Kept
  <2> QED BY <1>3, <2>1, <2>3, <2>4, <2>5
<1>5. CASE EndRun(i)
  BY <1>1, <1>2, <1>3, <1>5 DEF EndRun, BaseInv, TypeOK, State
<1>6. CASE AwaitNothing(i)
  <2>1. Keep(i, 0) /\ task' = task BY <1>6 DEF AwaitNothing
  <2>2. inc'[i] # "executing" /\ inc' \in [Incident -> State]
        /\ \A j \in Incident \ {i} : inc'[j] = inc[j]
    BY <1>3, <1>6 DEF AwaitNothing, State
  <2>3. /\ 0 \in 0..Len(evals') /\ Len(evals) \in Nat /\ Len(evals') \in Nat
        /\ Len(evals) <= Len(evals')
    BY <1>2
  <2>4. /\ driven' \in [Incident -> Plan \cup {0}] /\ hand' \in [Incident -> 0..Len(evals')]
        /\ driven'[i] \in {0, Baseline[i], Sibling[i]}
        /\ \A j \in Incident \ {i} : driven'[j] = driven[j] /\ hand'[j] = hand[j]
    BY <2>1, <2>3, Kept
  <2> QED BY <1>3, <2>1, <2>2, <2>4
<1>7. CASE Await(i)
  <2>1. PICK e \in DOMAIN evals : e = Pending(i)
    BY <1>7, PendingIs DEF Await
  <2>2. \/ /\ task' = [task EXCEPT ![evals[e].task] = "assured"]
           /\ inc' = [inc EXCEPT ![i] = "executing"] /\ Keep(i, e)
        \/ /\ task' = [task EXCEPT ![evals[e].task] = "rejected"]
           /\ inc' = [inc EXCEPT ![i] = IF Ready(WorkPlan(i), task') = {} THEN "blocked"
                                        ELSE "assuring"]
           /\ Keep(i, 0)
    BY <1>7, <2>1, Zenon DEF Await
  <2>3. /\ task' \in [Task -> TaskStates] /\ inc' \in [Incident -> State]
        /\ \A j \in Incident \ {i} : inc'[j] = inc[j]
    BY <1>2, <1>3, <2>2 DEF State, TaskStates
  <2>4. e \in 0..Len(evals') /\ 0 \in 0..Len(evals')
    BY <1>2
  <2>5. /\ Keep(i, e) \/ Keep(i, 0)
        /\ inc'[i] = "executing" => Keep(i, e)
    BY <1>3, <2>2
  <2>6. /\ driven' \in [Incident -> Plan \cup {0}] /\ hand' \in [Incident -> 0..Len(evals')]
        /\ driven'[i] \in {0, Baseline[i], Sibling[i]}
        /\ \A j \in Incident \ {i} : driven'[j] = driven[j] /\ hand'[j] = hand[j]
    <3>1. CASE Keep(i, e) BY <1>2, <2>4, <3>1, Kept
    <3>2. CASE Keep(i, 0) BY <1>2, <2>4, <3>2, Kept
    <3> QED BY <2>5, <3>1, <3>2
  <2>7. ASSUME inc'[i] = "executing" PROVE hand'[i] = e
    <3>1. Keep(i, e) /\ inc'[i] \notin {"resolved", "blocked"}
      BY <2>5, <2>7
    <3> QED BY <1>2, <2>4, <3>1, Kept
  <2> QED BY <2>3, <2>6, <2>7
<1> QED BY <1>4, <1>5, <1>6, <1>7

LEMMA DecideBase ==
    ASSUME BaseInv, NEW e \in DOMAIN evals, NEW d \in {"approved", "rejected"}, Decide(e, d)
    PROVE  BaseInv' /\ RowsStand
<1>1. /\ evals' = [evals EXCEPT ![e].decision = d]
      /\ UNCHANGED <<inc, plans, choice, driven, hand, task, approvals, request>>
  BY DEF Decide, people
<1>2. evals \in Seq(EvalRow) /\ Len(evals) \in Nat /\ DOMAIN evals = 1..Len(evals)
  BY DEF BaseInv, RowsInv
<1>3. /\ evals' \in Seq(EvalRow) /\ Len(evals') = Len(evals) /\ DOMAIN evals' = DOMAIN evals
      /\ \A f \in DOMAIN evals : /\ evals'[f].task = evals[f].task /\ evals'[f].by = evals[f].by
                                 /\ evals'[f].result = evals[f].result
  <2>1. evals[e] \in EvalRow
    BY <1>2
  <2>2. [evals[e] EXCEPT !.decision = d] \in EvalRow
    BY <2>1 DEF EvalRow, Decided
  <2> QED BY <1>1, <1>2, <2>1, <2>2 DEF EvalRow
<1>4. TypeOK'
  BY <1>1, <1>3 DEF BaseInv, TypeOK
<1> QED BY <1>1, <1>3, <1>4 DEF BaseInv, RowsInv, OwnInv, HandInv, RowsStand

LEMMA PlansBase ==
    ASSUME BaseInv, NEW i \in Incident, NEW p \in Plan, OpenComparison(i) \/ SelectPlan(i, p)
    PROVE  BaseInv' /\ RowsStand
<1>1. UNCHANGED <<inc, driven, hand, task, evals, approvals, request>>
  BY DEF OpenComparison, SelectPlan, people
<1>2. /\ plans \subseteq plans' /\ plans' \subseteq Plan
      /\ choice' \in [Incident -> Plan \cup {0}]
      /\ \A j \in Incident : choice'[j] \in {choice[j], Baseline[j], Sibling[j]}
  <2>1. plans \subseteq Plan /\ choice \in [Incident -> Plan \cup {0}]
    BY DEF BaseInv, TypeOK
  <2>2. CASE OpenComparison(i)
    <3>1. plans' = plans \cup {Sibling[i]} /\ Sibling[i] # 0 /\ choice' = choice
      BY <2>2 DEF OpenComparison
    <3>2. Sibling[i] \in Plan BY <3>1
    <3> QED BY <2>1, <3>1, <3>2
  <2>3. CASE SelectPlan(i, p)
    <3>1. plans' = plans /\ choice' = [choice EXCEPT ![i] = p] /\ p \in {Baseline[i], Sibling[i]}
      BY <2>3 DEF SelectPlan, PlansOf
    <3> QED BY <2>1, <3>1
  <2> QED BY <2>2, <2>3
<1>3. TypeOK'
  BY <1>1, <1>2 DEF BaseInv, TypeOK
<1>4. OwnInv'
  BY <1>1, <1>2 DEF BaseInv, OwnInv
<1> QED BY <1>1, <1>3, <1>4 DEF BaseInv, RowsInv, HandInv, RowsStand

LEMMA PlanNumbers ==
    ASSUME NEW i \in Incident PROVE Baseline[i] \in Nat /\ Sibling[i] \in Nat
<1>1. \A p \in Plan \cup {0} : p \in Nat
  OBVIOUS
<1>2. Baseline[i] \in Plan \cup {0}
  OBVIOUS
<1>3. Sibling[i] \in Plan \cup {0}
  OBVIOUS
<1> HIDE DEF Plan
<1> QED BY ONLY <1>1, <1>2, <1>3

\* The plan a review reads for a member is a plan.
LEMMA ReviewedIs ==
    ASSUME BaseInv, NEW i \in Incident PROVE Reviewed(i) \in Plan
<1>1. CASE choice[i] # 0
  BY <1>1 DEF Reviewed, BaseInv, TypeOK
<1>2. CASE choice[i] = 0
  <2>1. PlansOf(i) \subseteq Plan /\ Baseline[i] \in PlansOf(i)
    BY DEF BaseInv, TypeOK, OwnInv, PlansOf, Range
  <2>2. PICK n \in Nat : PlansOf(i) \in SUBSET (0..n)
    <3> DEFINE n == IF Baseline[i] < Sibling[i] THEN Sibling[i] ELSE Baseline[i]
    <3>0. Baseline[i] \in Nat /\ Sibling[i] \in Nat
      BY PlanNumbers
    <3>1. n \in Nat /\ Baseline[i] \in 0..n /\ Sibling[i] \in 0..n
      BY <3>0
    <3> QED BY <3>1 DEF PlansOf
  <2>3. Max(PlansOf(i)) \in PlansOf(i)
    BY <2>1, <2>2, GreatestOf
  <2> QED BY <1>2, <2>1, <2>3 DEF Reviewed
<1> QED BY <1>1, <1>2

LEMMA RequestBase ==
    ASSUME BaseInv, NEW q \in Request, BeginApproval(q) \/ CommitApproval(q)
    PROVE  BaseInv' /\ RowsStand
<1>1. UNCHANGED <<inc, plans, choice, driven, hand, task>>
  BY DEF BeginApproval, CommitApproval
<1>2. /\ evals \in Seq(EvalRow) /\ Len(evals) \in Nat /\ DOMAIN evals = 1..Len(evals)
      /\ approvals \in Seq(Covering) /\ Len(approvals) \in Nat
  BY DEF BaseInv, RowsInv
<1>3. CASE BeginApproval(q)
  <2>1. /\ evals' = evals /\ approvals' = approvals /\ CoveredNow # {}
        /\ request' = [request EXCEPT ![q] = [plan |-> SignedPlan, covered |-> CoveredNow,
                                             at |-> Len(evals)]]
    BY <1>3 DEF BeginApproval
  <2>2. CoveredNow \subseteq DOMAIN evals
    BY DEF CoveredNow, Awaiting
  <2>3. SignedPlan \in Plan
    <3>1. Incident # {}
      BY <2>1, <2>2 DEF BaseInv, OwnInv
    <3>2. Min(Incident) \in Incident
      BY <3>1, LeastOf
    <3> QED BY <3>2, ReviewedIs DEF SignedPlan
  <2>4. TypeOK'
    BY <1>1, <1>2, <2>1, <2>2, <2>3 DEF BaseInv, TypeOK
  <2> QED BY <1>1, <2>1, <2>4 DEF BaseInv, RowsInv, OwnInv, HandInv, RowsStand
<1>4. CASE CommitApproval(q) /\ Collides(request[q])
  <2>1. evals' = evals /\ approvals' = approvals /\ request' = [request EXCEPT ![q] = Idle]
    BY <1>4 DEF CommitApproval
  <2>2. TypeOK'
    BY <1>1, <1>2, <2>1 DEF BaseInv, TypeOK
  <2> QED BY <1>1, <2>1, <2>2 DEF BaseInv, RowsInv, OwnInv, HandInv, RowsStand
<1>5. CASE CommitApproval(q) /\ ~Collides(request[q])
  <2> DEFINE c == request[q]
  <2>1. /\ c # Idle /\ approvals' = Append(approvals, c)
        /\ evals' = [e \in DOMAIN evals |->
                        IF e \in Written(c)
                        THEN [evals[e] EXCEPT !.decision = "approved", !.by = Len(approvals) + 1]
                        ELSE evals[e]]
        /\ request' = [request EXCEPT ![q] = Idle]
    BY <1>5 DEF CommitApproval
  <2>2. c \in Covering /\ c.covered \subseteq DOMAIN evals
    <3>1. c \in [plan : Plan, covered : SUBSET DOMAIN evals, at : 0..Len(evals)]
      BY <2>1 DEF BaseInv, TypeOK
    <3> QED BY <1>2, <3>1 DEF Covering
  <2> HIDE DEF c
  <2>3. approvals' \in Seq(Covering) /\ Len(approvals') = Len(approvals) + 1
    <3>1. approvals' = Append(approvals, c)
      BY <2>1
    <3> QED BY <1>2, <2>2, <3>1
  <2>4. \A e \in DOMAIN evals : evals[e] \in EvalRow
    BY <1>2
  <2>5. /\ \A e \in DOMAIN evals : /\ evals'[e] \in EvalRow
                                  /\ evals'[e].task = evals[e].task
                                  /\ evals'[e].result = evals[e].result
                                  /\ evals'[e].by \in {evals[e].by, Len(approvals) + 1}
      /\ DOMAIN evals' = DOMAIN evals /\ evals' \in Seq(EvalRow) /\ Len(evals') = Len(evals)
    <3>1. ASSUME NEW e \in DOMAIN evals
          PROVE  /\ evals'[e] \in EvalRow
                 /\ evals'[e].task = evals[e].task
                 /\ evals'[e].result = evals[e].result
                 /\ evals'[e].by \in {evals[e].by, Len(approvals) + 1}
      <4>1. Len(approvals) + 1 \in Nat /\ evals[e] \in EvalRow
        BY <1>2, <2>4
      <4>2. CASE e \in Written(c)
        <5>1. evals'[e] = [evals[e] EXCEPT !.decision = "approved", !.by = Len(approvals) + 1]
          BY <2>1, <4>2
        <5> QED BY <4>1, <5>1 DEF EvalRow, Decided
      <4>3. CASE e \notin Written(c)
        BY <2>1, <4>1, <4>3
      <4> QED BY <4>2, <4>3
    <3>2. evals' \in [1..Len(evals) -> EvalRow]
      BY <1>2, <2>1, <3>1
    <3>3. evals' \in Seq(EvalRow) /\ Len(evals') = Len(evals)
      BY <1>2, <3>2, MakesSeq
    <3> QED BY <2>1, <3>1, <3>3
  <2>6. TypeOK'
    <3>1. /\ inc' \in [Incident -> State] /\ plans' \subseteq Plan
          /\ choice' \in [Incident -> Plan \cup {0}] /\ driven' \in [Incident -> Plan \cup {0}]
          /\ hand' \in [Incident -> 0..Len(evals')] /\ task' \in [Task -> TaskStates]
      BY <1>1, <2>5 DEF BaseInv, TypeOK, State, TaskStates
    <3>2. ASSUME NEW e \in DOMAIN evals'
          PROVE  evals'[e].task \in Task /\ evals'[e].by \in 0..Len(approvals')
      <4>1. evals[e].task \in Task /\ evals[e].by \in 0..Len(approvals)
        BY <2>5, <3>2 DEF BaseInv, TypeOK
      <4>2. evals'[e].by \in {evals[e].by, Len(approvals) + 1}
            /\ evals'[e].task = evals[e].task
        BY <2>5, <3>2
      <4> QED BY <1>2, <2>3, <4>1, <4>2
    <3>3. request' \in [Request -> {Idle} \cup [plan : Plan, covered : SUBSET DOMAIN evals',
                                                at : 0..Len(evals')]]
      BY <2>1, <2>5 DEF BaseInv, TypeOK
    <3> QED BY <3>1, <3>2, <3>3 DEF TypeOK, State, TaskStates
  <2> QED BY <1>1, <2>3, <2>5, <2>6 DEF BaseInv, RowsInv, OwnInv, HandInv, RowsStand
<1> QED BY <1>3, <1>4, <1>5

LEMMA StepBase ==
    ASSUME BaseInv, [Next]_vars
    PROVE  BaseInv' /\ RowsStand
<1>1. CASE Next
  <2>1. CASE \E i \in Incident : Assure(i)
    BY <2>1, AssureBase
  <2>2. CASE \E i \in Incident : Execute(i) \/ EndRun(i) \/ AwaitNothing(i) \/ Await(i)
    BY <2>2, EngineBase
  <2>3. CASE \E i \in Incident : OpenComparison(i)
    <3>1. PICK i \in Incident : OpenComparison(i) BY <2>3
    <3>2. Baseline[i] \in Plan OBVIOUS
    <3> QED BY <3>1, <3>2, PlansBase
  <2>4. CASE \E i \in Incident, p \in Plan : SelectPlan(i, p)
    BY <2>4, PlansBase
  <2>5. CASE \E e \in DOMAIN evals, d \in {"approved", "rejected"} : Decide(e, d)
    BY <2>5, DecideBase
  <2>6. CASE \E q \in Request : BeginApproval(q) \/ CommitApproval(q)
    BY <2>6, RequestBase
  <2> QED BY <1>1, <2>1, <2>2, <2>3, <2>4, <2>5, <2>6 DEF Next
<1>2. CASE UNCHANGED vars
  BY <1>2 DEF vars, BaseInv, TypeOK, RowsInv, OwnInv, HandInv, RowsStand
<1> QED BY <1>1, <1>2

\* Every row is of its type, whatever is approved when: an approval in flight points to rows
\* that exist, and a decision to an approval that does.
THEOREM AssuranceTypeCorrect == Spec => []TypeOK
<1>1. BaseInv => TypeOK BY DEF BaseInv
<1> QED BY InitBase, StepBase, <1>1, PTL DEF Spec

-----------------------------------------------------------------------------
(* Decisions                                                               *)

\* What a step may do to the rows: add one, decide one, or write an approval with its decisions.
AddsRow == \E i \in Incident : Assure(i)

DecidesRow == \E e \in DOMAIN evals, d \in {"approved", "rejected"} : Decide(e, d)

WritesApproval == \E q \in Request : CommitApproval(q) /\ ~Collides(request[q])

LEMMA RowSteps ==
    ASSUME [Next]_vars, ~AddsRow, ~DecidesRow, ~WritesApproval
    PROVE  UNCHANGED <<evals, approvals>>
<1>1. CASE UNCHANGED vars
  BY <1>1 DEF vars
<1>2. CASE \E i \in Incident : Execute(i) \/ EndRun(i) \/ AwaitNothing(i) \/ Await(i)
                               \/ OpenComparison(i)
  BY <1>2 DEF Execute, EndRun, AwaitNothing, Await, OpenComparison, people
<1>3. CASE \E i \in Incident, p \in Plan : SelectPlan(i, p)
  BY <1>3 DEF SelectPlan, people
<1>4. CASE \E q \in Request : BeginApproval(q)
  BY <1>4 DEF BeginApproval
<1>5. CASE \E q \in Request : CommitApproval(q)
  BY <1>5 DEF CommitApproval, WritesApproval
<1> QED BY <1>1, <1>2, <1>3, <1>4, <1>5 DEF Next, AddsRow, DecidesRow

LEMMA RowAdded ==
    ASSUME BaseInv, NEW i \in Incident, Assure(i)
    PROVE  /\ \A e \in DOMAIN evals : evals'[e] = evals[e]
           /\ DOMAIN evals' = DOMAIN evals \cup {Len(evals) + 1}
           /\ Len(evals) + 1 \notin DOMAIN evals
           /\ evals'[Len(evals) + 1].decision = "none" /\ evals'[Len(evals) + 1].by = 0
           /\ approvals' = approvals /\ request' = request
           /\ evals'[Len(evals) + 1].task = Min(Ready(WorkPlan(i), task))
           /\ inc' = [inc EXCEPT ![i] = AfterGate(evals'[Len(evals) + 1].result)]
<1> DEFINE t == Min(Ready(WorkPlan(i), task))
<1>1. PICK r : /\ evals' = Append(evals, Evaluation(t, r))
               /\ inc' = [inc EXCEPT ![i] = AfterGate(r)]
  BY Zenon DEF Assure
<1>2. Len(evals) \in Nat /\ DOMAIN evals = 1..Len(evals) /\ evals \in Seq(EvalRow)
  BY DEF BaseInv, RowsInv
<1>3. approvals' = approvals /\ request' = request
  BY DEF Assure, people
<1> DEFINE row == Evaluation(t, r)
<1>4. row.decision = "none" /\ row.by = 0 /\ row.task = t /\ row.result = r
  BY DEF Evaluation
<1>5. evals' = Append(evals, row)
  BY <1>1
<1> HIDE DEF row, t
<1>6. /\ \A e \in DOMAIN evals : evals'[e] = evals[e]
      /\ DOMAIN evals' = DOMAIN evals \cup {Len(evals) + 1}
      /\ evals'[Len(evals) + 1] = row /\ Len(evals) + 1 \notin DOMAIN evals
  BY <1>2, <1>5
<1> QED BY <1>1, <1>3, <1>4, <1>6 DEF t

LEMMA RowDecided ==
    ASSUME BaseInv, NEW e \in DOMAIN evals, NEW d \in {"approved", "rejected"}, Decide(e, d)
    PROVE  /\ evals[e].decision = "none" /\ evals'[e].decision = d
           /\ d = "approved" => ApprovalEnforced(evals[e].result)
           /\ DOMAIN evals' = DOMAIN evals
           /\ \A f \in DOMAIN evals : evals'[f].by = evals[f].by /\ (f # e => evals'[f] = evals[f])
           /\ approvals' = approvals /\ request' = request
<1>1. /\ evals' = [evals EXCEPT ![e].decision = d] /\ evals[e].decision = "none"
      /\ d = "approved" => ApprovalEnforced(evals[e].result)
      /\ approvals' = approvals /\ request' = request
  BY DEF Decide, people
<1>2. \A f \in DOMAIN evals : evals[f] \in EvalRow
  BY DEF BaseInv, RowsInv
<1>3. evals'[e].decision = d /\ evals'[e].by = evals[e].by
  BY <1>1, <1>2 DEF EvalRow
<1> QED BY <1>1, <1>3

LEMMA ApprovalWritten ==
    ASSUME BaseInv, NEW q \in Request, CommitApproval(q), ~Collides(request[q])
    PROVE  LET c == request[q]
           IN  /\ c # Idle /\ c \in Covering /\ c.covered \subseteq DOMAIN evals
               /\ \A e \in c.covered : evals[e].decision = "none"
               /\ DOMAIN evals' = DOMAIN evals
               /\ \A e \in DOMAIN evals \ c.covered : evals'[e] = evals[e]
               /\ \A e \in c.covered : /\ evals'[e].decision = "approved"
                                       /\ evals'[e].by = Len(approvals) + 1
               /\ Len(approvals') = Len(approvals) + 1
               /\ DOMAIN approvals' = DOMAIN approvals \cup {Len(approvals) + 1}
               /\ \A a \in DOMAIN approvals : approvals'[a] = approvals[a]
               /\ approvals'[Len(approvals) + 1] = c
               /\ request' = [request EXCEPT ![q] = Idle]
               /\ DOMAIN approvals = 1..Len(approvals) /\ Len(approvals) \in Nat
<1>1. PICK c : c = request[q]
  OBVIOUS
<1>2. /\ c # Idle /\ approvals' = Append(approvals, c)
      /\ evals' = [e \in DOMAIN evals |->
                      IF e \in Written(c)
                      THEN [evals[e] EXCEPT !.decision = "approved", !.by = Len(approvals) + 1]
                      ELSE evals[e]]
      /\ request' = [request EXCEPT ![q] = Idle]
  BY <1>1 DEF CommitApproval
<1>3. c \in Covering /\ c.covered \subseteq DOMAIN evals
  <2>1. c \in [plan : Plan, covered : SUBSET DOMAIN evals, at : 0..Len(evals)]
    BY <1>1, <1>2 DEF BaseInv, TypeOK
  <2>2. Len(evals) \in Nat BY DEF BaseInv, RowsInv
  <2> QED BY <2>1, <2>2 DEF Covering
<1>4. \A e \in c.covered : evals[e].decision = "none"
  BY <1>1 DEF Collides
<1>5. approvals \in Seq(Covering) /\ \A e \in DOMAIN evals : evals[e] \in EvalRow
  BY DEF BaseInv, RowsInv
<1>6. /\ Len(approvals') = Len(approvals) + 1 /\ Len(approvals) \in Nat
      /\ DOMAIN approvals = 1..Len(approvals)
      /\ DOMAIN approvals' = DOMAIN approvals \cup {Len(approvals) + 1}
      /\ \A a \in DOMAIN approvals : approvals'[a] = approvals[a]
      /\ approvals'[Len(approvals) + 1] = c
  <2>1. approvals' = Append(approvals, c) BY <1>2
  <2> QED BY <1>3, <1>5, <2>1
<1>7. /\ DOMAIN evals' = DOMAIN evals
      /\ \A e \in DOMAIN evals \ c.covered : evals'[e] = evals[e]
  BY <1>2 DEF Written
<1>8. ASSUME NEW e \in c.covered
      PROVE  evals'[e].decision = "approved" /\ evals'[e].by = Len(approvals) + 1
  <2>1. e \in DOMAIN evals /\ evals[e] \in EvalRow
    BY <1>3, <1>5
  <2>2. evals'[e] = [evals[e] EXCEPT !.decision = "approved", !.by = Len(approvals) + 1]
    BY <1>2, <2>1 DEF Written
  <2> QED BY <2>1, <2>2 DEF EvalRow
<1> QED BY <1>1, <1>2, <1>3, <1>4, <1>6, <1>7, <1>8

\* A decision once written is never written over.
LEMMA StandStep ==
    ASSUME BaseInv, [Next]_vars, NEW e \in DOMAIN evals, evals[e].decision # "none"
    PROVE  evals'[e] = evals[e]
<1>1. CASE AddsRow
  BY <1>1, RowAdded DEF AddsRow
<1>2. CASE DecidesRow
  <2>1. PICK f \in DOMAIN evals, d \in {"approved", "rejected"} : Decide(f, d)
    BY <1>2 DEF DecidesRow
  <2> QED BY <2>1, RowDecided
<1>3. CASE WritesApproval
  <2>1. PICK q \in Request : CommitApproval(q) /\ ~Collides(request[q])
    BY <1>3 DEF WritesApproval
  <2> QED BY <2>1, ApprovalWritten
<1> QED BY <1>1, <1>2, <1>3, RowSteps

\* A decision is a record: whatever else happens, and however many requests to sign are in
\* flight, nothing replaces it.
THEOREM DecisionsAreRecords == Spec => DecisionsStand
<1>1. BaseInv /\ [Next]_vars =>
          [\A e \in DOMAIN evals : evals[e].decision # "none" => evals'[e] = evals[e]]_vars
  BY StandStep
<1> QED BY InitBase, StepBase, <1>1, PTL DEF Spec, DecisionsStand

-----------------------------------------------------------------------------
(* A signature is whole                                                    *)

\* What is being signed names something, and nothing that came after it was read.
RequestWhole ==
    \A q \in Request : request[q] # Idle =>
        /\ request[q].covered # {}
        /\ \A e \in request[q].covered : e <= request[q].at

WholeInv == ApprovalIsWhole /\ RequestWhole

LEMMA WholeStep ==
    ASSUME BaseInv, WholeInv, [Next]_vars
    PROVE  WholeInv'
<1>1. /\ Len(evals) \in Nat /\ DOMAIN evals = 1..Len(evals)
      /\ Len(approvals) \in Nat /\ DOMAIN approvals = 1..Len(approvals)
      /\ \A e \in DOMAIN evals : evals[e].by \in 0..Len(approvals)
      /\ request \in [Request -> {Idle} \cup [plan : Plan, covered : SUBSET DOMAIN evals,
                                             at : 0..Len(evals)]]
  BY DEF BaseInv, RowsInv, TypeOK
<1>2. \A a \in DOMAIN approvals : \A e \in approvals[a].covered :
          e \in DOMAIN evals /\ evals[e].by = a /\ evals[e].decision = "approved"
  BY DEF WholeInv, ApprovalIsWhole
<1>3. RequestWhole'
  <2>1. CASE request' = request
    BY <2>1 DEF WholeInv, RequestWhole
  <2>2. CASE \E q \in Request : request' = [request EXCEPT ![q] = Idle]
    BY <1>1, <2>2 DEF WholeInv, RequestWhole
  <2>3. CASE \E q \in Request : BeginApproval(q)
    <3>1. PICK q \in Request : BeginApproval(q) BY <2>3
    <3>2. /\ CoveredNow # {}
          /\ request' = [request EXCEPT ![q] = [plan |-> SignedPlan, covered |-> CoveredNow,
                                               at |-> Len(evals)]]
      BY <3>1 DEF BeginApproval
    <3>3. \A e \in CoveredNow : e <= Len(evals)
      BY <1>1 DEF CoveredNow, Awaiting
    <3>4. request'[q].covered = CoveredNow /\ request'[q].at = Len(evals)
      BY <1>1, <3>2
    <3>5. \A r \in Request \ {q} : request'[r] = request[r]
      BY <1>1, <3>2
    <3> QED BY <3>2, <3>3, <3>4, <3>5 DEF WholeInv, RequestWhole
  <2>4. request' = request \/ (\E q \in Request : request' = [request EXCEPT ![q] = Idle])
        \/ \E q \in Request : BeginApproval(q)
    BY DEF Next, vars, Assure, Execute, EndRun, AwaitNothing, Await, OpenComparison, SelectPlan,
           Decide, CommitApproval, people
  <2> QED BY <2>1, <2>2, <2>3, <2>4
<1>4. ApprovalIsWhole'
  <2>1. CASE ~AddsRow /\ ~DecidesRow /\ ~WritesApproval
    BY <2>1, RowSteps DEF WholeInv, ApprovalIsWhole
  <2>2. CASE AddsRow
    <3>1. PICK i \in Incident : Assure(i) BY <2>2 DEF AddsRow
    <3> DEFINE n == Len(evals) + 1
    <3>2. /\ \A e \in DOMAIN evals : evals'[e] = evals[e]
          /\ DOMAIN evals' = DOMAIN evals \cup {n} /\ evals'[n].by = 0
          /\ approvals' = approvals
      BY <3>1, RowAdded
    <3>3. ASSUME NEW a \in DOMAIN approvals
          PROVE  {e \in DOMAIN evals' : evals'[e].by = a} = approvals[a].covered
      <4>1. a # 0 BY <1>1
      <4>2. {e \in DOMAIN evals : evals[e].by = a} = approvals[a].covered
        BY DEF WholeInv, ApprovalIsWhole
      <4> QED BY <3>2, <4>1, <4>2
    <3> QED BY <1>2, <3>2, <3>3 DEF WholeInv, ApprovalIsWhole
  <2>3. CASE DecidesRow
    <3>1. PICK f \in DOMAIN evals, d \in {"approved", "rejected"} : Decide(f, d)
      BY <2>3 DEF DecidesRow
    <3>2. /\ evals[f].decision = "none" /\ DOMAIN evals' = DOMAIN evals
          /\ \A e \in DOMAIN evals : evals'[e].by = evals[e].by /\ (e # f => evals'[e] = evals[e])
          /\ approvals' = approvals
      BY <3>1, RowDecided
    <3>3. \A a \in DOMAIN approvals : f \notin approvals[a].covered
      BY <1>2, <3>2
    <3>4. \A a \in DOMAIN approvals :
              {e \in DOMAIN evals' : evals'[e].by = a} = {e \in DOMAIN evals : evals[e].by = a}
      BY <3>2
    <3> QED BY <1>2, <3>2, <3>3, <3>4 DEF WholeInv, ApprovalIsWhole
  <2>4. CASE WritesApproval
    <3>1. PICK q \in Request : CommitApproval(q) /\ ~Collides(request[q])
      BY <2>4 DEF WritesApproval
    <3>2. PICK c : c = request[q] OBVIOUS
    <3> DEFINE n == Len(approvals) + 1
    <3>3. /\ c # Idle /\ c.covered \subseteq DOMAIN evals
          /\ \A e \in c.covered : evals[e].decision = "none"
          /\ DOMAIN evals' = DOMAIN evals
          /\ \A e \in DOMAIN evals \ c.covered : evals'[e] = evals[e]
          /\ \A e \in c.covered : evals'[e].decision = "approved" /\ evals'[e].by = n
          /\ DOMAIN approvals' = DOMAIN approvals \cup {n}
          /\ \A a \in DOMAIN approvals : approvals'[a] = approvals[a]
          /\ approvals'[n] = c
      BY <3>1, <3>2, ApprovalWritten
    <3>4. n \notin DOMAIN approvals /\ \A e \in DOMAIN evals : evals[e].by # n
      BY <1>1
    <3> HIDE DEF n
    <3>5. ASSUME NEW a \in DOMAIN approvals
          PROVE  /\ {e \in DOMAIN evals' : evals'[e].by = a} = approvals'[a].covered
                 /\ approvals'[a].covered # {}
                 /\ \A e \in approvals'[a].covered : /\ evals'[e].decision = "approved"
                                                     /\ e <= approvals'[a].at
      <4>1. /\ {e \in DOMAIN evals : evals[e].by = a} = approvals[a].covered
            /\ approvals[a].covered # {} /\ \A e \in approvals[a].covered : e <= approvals[a].at
        BY DEF WholeInv, ApprovalIsWhole
      <4>2. approvals'[a] = approvals[a] /\ a # n
        BY <3>3, <3>4
      <4>3. approvals[a].covered \cap c.covered = {}
        BY <1>2, <3>3
      <4>4. \A e \in approvals[a].covered : e \in DOMAIN evals /\ evals'[e] = evals[e]
        BY <1>2, <3>3, <4>3
      <4>5. \A e \in c.covered : evals'[e].by # a /\ e \notin approvals[a].covered
        BY <3>3, <4>2, <4>3
      <4>6. {e \in DOMAIN evals' : evals'[e].by = a} = approvals[a].covered
        BY <3>3, <4>1, <4>4, <4>5
      <4> QED BY <1>2, <4>1, <4>2, <4>4, <4>6
    <3>6. /\ {e \in DOMAIN evals' : evals'[e].by = n} = approvals'[n].covered
          /\ approvals'[n].covered # {}
          /\ \A e \in approvals'[n].covered : /\ evals'[e].decision = "approved"
                                              /\ e <= approvals'[n].at
      <4>1. c.covered # {} /\ \A e \in c.covered : e <= c.at
        BY <3>1, <3>2, <3>3 DEF WholeInv, RequestWhole
      <4>2. {e \in DOMAIN evals' : evals'[e].by = n} = c.covered
        BY <3>3, <3>4
      <4> QED BY <3>3, <4>1, <4>2
    <3> QED BY <3>3, <3>5, <3>6 DEF ApprovalIsWhole
  <2> QED BY <2>1, <2>2, <2>3, <2>4
<1> QED BY <1>3, <1>4 DEF WholeInv

\* However requests to sign overlap with each other and with decisions, an approval carries
\* exactly the decisions it names.
THEOREM SignatureIsWhole == Spec => []ApprovalIsWhole
<1>1. Init => WholeInv
  BY DEF Init, WholeInv, ApprovalIsWhole, RequestWhole
<1>2. BaseInv /\ WholeInv /\ [Next]_vars => WholeInv'
  BY WholeStep
<1>3. WholeInv => ApprovalIsWhole BY DEF WholeInv
<1> QED BY InitBase, StepBase, <1>1, <1>2, <1>3, PTL DEF Spec

-----------------------------------------------------------------------------
(* What a signature releases                                               *)

\* What the gate held for another reason than risk has closed its incident.
HeldInv ==
    \A e \in DOMAIN evals : \/ Executable(evals[e].result) \/ IsApprovable(evals[e].result)
                            \/ inc[Owner(e)] = "blocked"

ClearsAll(c) == c.covered \subseteq DOMAIN evals /\ \A e \in c.covered : Executable(evals[e].result)

SignInv ==
    /\ \A q \in Request : request[q] # Idle => ClearsAll(request[q])
    /\ \A a \in DOMAIN approvals : ClearsAll(approvals[a])

LEMMA OneOwner ==
    ASSUME NEW p \in Plan, NEW i \in Incident, p \in {Baseline[i], Sibling[i]}
    PROVE  (CHOOSE j \in Incident : p \in {Baseline[j], Sibling[j]}) = i
<1> DEFINE o == CHOOSE j \in Incident : p \in {Baseline[j], Sibling[j]}
<1>1. o \in Incident /\ p \in {Baseline[o], Sibling[o]}
  BY Zenon
<1> HIDE DEF o
<1>2. o = i
  BY <1>1
<1> QED BY <1>2 DEF o

\* The incident of an evaluation: there is one, and one only.
LEMMA OwnerIs ==
    ASSUME BaseInv, NEW e \in DOMAIN evals
    PROVE  /\ Owner(e) \in Incident
           /\ \A i \in Incident :
                 PlanOf(evals[e].task) \in {Baseline[i], Sibling[i]} => Owner(e) = i
<1> DEFINE p == PlanOf(evals[e].task)
<1>1. PICK i \in Incident : p \in {Baseline[i], Sibling[i]}
  BY DEF BaseInv, OwnInv
<1>2. evals[e].task \in Task
  BY DEF BaseInv, TypeOK
<1>3. p \in Plan
  BY <1>2, TaskIds
<1>4. Owner(e) \in Incident /\ p \in {Baseline[Owner(e)], Sibling[Owner(e)]}
  BY <1>1, Zenon DEF Owner
<1>5. \A j \in Incident : p \in {Baseline[j], Sibling[j]} => Owner(e) = j
  BY <1>3, <1>4, OwnershipAssumption
<1> QED BY <1>4, <1>5

LEMMA OwnerStands ==
    ASSUME BaseInv, RowsStand, NEW e \in DOMAIN evals
    PROVE  Owner(e)' = Owner(e)
<1>1. evals'[e].task = evals[e].task
  BY DEF RowsStand
<1> QED BY <1>1 DEF Owner

\* A closed incident stays closed.
LEMMA BlockedStands ==
    ASSUME BaseInv, [Next]_vars, NEW i \in Incident, inc[i] = "blocked"
    PROVE  inc'[i] = "blocked"
<1>1. inc \in [Incident -> State]
  BY DEF BaseInv, TypeOK, State
<1>2. CASE \E j \in Incident : Assure(j)
  BY <1>1, <1>2 DEF Assure
<1>3. CASE \E j \in Incident : Execute(j)
  BY <1>1, <1>3 DEF Execute
<1>4. CASE \E j \in Incident : EndRun(j)
  BY <1>1, <1>4 DEF EndRun
<1>5. CASE \E j \in Incident : AwaitNothing(j)
  BY <1>1, <1>5 DEF AwaitNothing
<1>6. CASE \E j \in Incident : Await(j)
  BY <1>1, <1>6 DEF Await
<1>7. CASE inc' = inc
  BY <1>7
<1> QED
  BY <1>2, <1>3, <1>4, <1>5, <1>6, <1>7
     DEF Next, vars, OpenComparison, SelectPlan, Decide, BeginApproval, CommitApproval

LEMMA HeldStep ==
    ASSUME BaseInv, HeldInv, [Next]_vars
    PROVE  HeldInv'
<1>1. BaseInv' /\ RowsStand
  BY StepBase
<1>2. ASSUME NEW e \in DOMAIN evals
      PROVE  \/ Executable(evals'[e].result) \/ IsApprovable(evals'[e].result)
             \/ inc'[Owner(e)'] = "blocked"
  <2>1. evals'[e].result = evals[e].result /\ Owner(e)' = Owner(e)
    BY <1>1, OwnerStands DEF RowsStand
  <2>2. Owner(e) \in Incident
    BY OwnerIs
  <2>3. \/ Executable(evals[e].result) \/ IsApprovable(evals[e].result)
        \/ inc[Owner(e)] = "blocked"
    BY DEF HeldInv
  <2> QED BY <2>1, <2>2, <2>3, BlockedStands
<1>3. CASE AddsRow
  <2>1. PICK i \in Incident : Assure(i) BY <1>3 DEF AddsRow
  <2> DEFINE t == Min(Ready(WorkPlan(i), task))
  <2>0. PICK n : n = Len(evals) + 1
    OBVIOUS
  <2>2. /\ DOMAIN evals' = DOMAIN evals \cup {n} /\ evals'[n].task = t
        /\ inc' = [inc EXCEPT ![i] = AfterGate(evals'[n].result)]
    BY <2>1, <2>0, RowAdded
  <2>3. PlanOf(t) \in Plan /\ PlanOf(t) \in {Baseline[i], Sibling[i]}
    <3>1. WorkPlan(i) \in Plan /\ WorkPlan(i) \in {Baseline[i], Sibling[i]}
      BY WorkPlanIsOwn
    <3>2. t \in IdsOf(WorkPlan(i))
      BY <2>1, <3>1, ReadyIds DEF Assure
    <3>3. PlanOf(t) = WorkPlan(i)
      BY <3>1, <3>2, TaskIds
    <3> QED BY <3>1, <3>3
  <2>4. Owner(n)' = i
    <3>1. (CHOOSE j \in Incident : PlanOf(evals'[n].task) \in {Baseline[j], Sibling[j]}) = i
      <4>1. PlanOf(evals'[n].task) \in Plan /\ PlanOf(evals'[n].task) \in {Baseline[i], Sibling[i]}
        BY <2>2, <2>3
      <4> QED BY <4>1, OneOwner
    <3> QED BY <3>1 DEF Owner
  <2>5. inc \in [Incident -> State]
    BY DEF BaseInv, TypeOK, State
  <2>6. inc'[i] = AfterGate(evals'[n].result)
    BY <2>2, <2>5
  <2>7. \/ Executable(evals'[n].result) \/ IsApprovable(evals'[n].result)
        \/ inc'[Owner(n)'] = "blocked"
    BY <2>4, <2>6 DEF AfterGate
  <2> QED BY <1>2, <2>2, <2>7 DEF HeldInv
<1>4. CASE ~AddsRow
  <2>1. DOMAIN evals' = DOMAIN evals
    <3>1. CASE DecidesRow BY <3>1, RowDecided DEF DecidesRow
    <3>2. CASE WritesApproval BY <3>2, ApprovalWritten DEF WritesApproval
    <3> QED BY <1>4, <3>1, <3>2, RowSteps
  <2> QED BY <1>2, <2>1 DEF HeldInv
<1> QED BY <1>3, <1>4

\* What a request is about to sign, the gate had cleared.
LEMMA CoveredIsCleared ==
    ASSUME Policy.highSeparate, BaseInv, HeldInv, NEW e \in CoveredNow
    PROVE  e \in DOMAIN evals /\ Executable(evals[e].result)
<1>1. e \in DOMAIN evals /\ inc[Owner(e)] = "awaiting_approval"
  BY DEF CoveredNow, Awaiting
<1>2. evals[e].result.tier # "high"
  <2>1. PICK scope : PlanApprovalCovers(scope, TaskOutcome(evals[e].task, evals[e].result),
                                        SignedPlan, Policy) = "none"
    BY DEF CoveredNow
  <2>2. TaskOutcome(evals[e].task, evals[e].result).tier = evals[e].result.tier
    BY DEF TaskOutcome
  <2> QED BY <2>1, <2>2 DEF PlanApprovalCovers
<1>3. ~IsApprovable(evals[e].result)
  <2>1. PICK input : evals[e].result = Evaluate(input, GateConfig)
    BY <1>1 DEF BaseInv, RowsInv, ResultsFor
  <2>2. IsApprovable(evals[e].result) => "risk" \in BlockingKinds(evals[e].result)
    BY DEF IsApprovable
  <2> QED BY <1>2, <2>1, <2>2, RiskMeansHigh
<1> QED BY <1>1, <1>3 DEF HeldInv

LEMMA SignStep ==
    ASSUME Policy.highSeparate, BaseInv, HeldInv, SignInv, [Next]_vars
    PROVE  SignInv'
<1>1. BaseInv' /\ RowsStand
  BY StepBase
<1>2. ASSUME NEW c, ClearsAll(c)
      PROVE  c.covered \subseteq DOMAIN evals' /\ \A e \in c.covered : Executable(evals'[e].result)
  BY <1>1, <1>2 DEF ClearsAll, RowsStand
<1>3. ASSUME NEW r \in Request, request'[r] # Idle
      PROVE  /\ request'[r].covered \subseteq DOMAIN evals'
             /\ \A e \in request'[r].covered : Executable(evals'[e].result)
  <2>1. CASE request'[r] = request[r]
    BY <1>2, <1>3, <2>1 DEF SignInv
  <2>2. CASE \E q \in Request : BeginApproval(q) /\ request'[r] # request[r]
    <3>1. PICK q \in Request : BeginApproval(q) /\ request'[r] # request[r] BY <2>2
    <3>2. /\ evals' = evals
          /\ request' = [request EXCEPT ![q] = [plan |-> SignedPlan, covered |-> CoveredNow,
                                               at |-> Len(evals)]]
      BY <3>1 DEF BeginApproval
    <3>3. request \in [Request -> {Idle} \cup [plan : Plan, covered : SUBSET DOMAIN evals,
                                              at : 0..Len(evals)]]
      BY DEF BaseInv, TypeOK
    <3>4. request'[r].covered = CoveredNow
      BY <3>1, <3>2, <3>3
    <3> QED BY <3>2, <3>4, CoveredIsCleared
  <2>3. \/ request'[r] = request[r] \/ request'[r] = Idle
        \/ \E q \in Request : BeginApproval(q) /\ request'[r] # request[r]
    <3>1. CASE \E q \in Request : CommitApproval(q)
      <4>1. PICK q \in Request : request' = [request EXCEPT ![q] = Idle]
        BY <3>1 DEF CommitApproval
      <4>2. request \in [Request -> {Idle} \cup [plan : Plan, covered : SUBSET DOMAIN evals,
                                                at : 0..Len(evals)]]
        BY DEF BaseInv, TypeOK
      <4> QED BY <4>1, <4>2
    <3>2. CASE \E q \in Request : BeginApproval(q)
      BY <3>2
    <3>3. CASE request' = request
      BY <3>3
    <3> QED
      BY <3>1, <3>2, <3>3
         DEF Next, vars, Assure, Execute, EndRun, AwaitNothing, Await, OpenComparison, SelectPlan,
             Decide, people
  <2> QED BY <1>3, <2>1, <2>2, <2>3
<1>4. ASSUME NEW a \in DOMAIN approvals'
      PROVE  /\ approvals'[a].covered \subseteq DOMAIN evals'
             /\ \A e \in approvals'[a].covered : Executable(evals'[e].result)
  <2>1. CASE WritesApproval
    <3>1. PICK q \in Request : CommitApproval(q) /\ ~Collides(request[q])
      BY <2>1 DEF WritesApproval
    <3>2. PICK c : c = request[q] OBVIOUS
    <3>3. /\ c # Idle /\ DOMAIN approvals' = DOMAIN approvals \cup {Len(approvals) + 1}
          /\ \A b \in DOMAIN approvals : approvals'[b] = approvals[b]
          /\ approvals'[Len(approvals) + 1] = c
      BY <3>1, <3>2, ApprovalWritten
    <3>4. ClearsAll(c)
      BY <3>2, <3>3 DEF SignInv
    <3>5. ClearsAll(approvals'[a])
      BY <3>3, <3>4 DEF SignInv
    <3> QED BY <1>2, <3>5
  <2>2. CASE ~WritesApproval
    <3>1. approvals' = approvals
      <4>1. CASE AddsRow BY <4>1, RowAdded DEF AddsRow
      <4>2. CASE DecidesRow BY <4>2, RowDecided DEF DecidesRow
      <4> QED BY <2>2, <4>1, <4>2, RowSteps
    <3>2. ClearsAll(approvals'[a])
      BY <3>1 DEF SignInv
    <3> QED BY <1>2, <3>2
  <2> QED BY <2>1, <2>2
<1> QED BY <1>3, <1>4 DEF SignInv, ClearsAll

LEMMA InitSign == Init => HeldInv /\ SignInv
BY DEF Init, HeldInv, SignInv

\* Where the policy keeps high risk apart, a signature on a plan covers only what the gate had
\* cleared by itself, whatever the tiers the policy lets it cover.
THEOREM NothingReleased ==
    ASSUME Policy.highSeparate PROVE Spec => []SignatureReleasesNothing
<1>1. BaseInv /\ HeldInv /\ [Next]_vars => HeldInv'
  BY HeldStep
<1>2. BaseInv /\ HeldInv /\ SignInv /\ [Next]_vars => SignInv'
  BY SignStep
<1>3. SignInv => SignatureReleasesNothing
  BY DEF SignInv, ClearsAll, SignatureReleasesNothing
<1> QED BY InitBase, InitSign, StepBase, <1>1, <1>2, <1>3, PTL DEF Spec

\* An evaluation a task is carried out on has a decision of its own, if the task is high-risk.
LEMMA DecidedAlone ==
    ASSUME Policy.highSeparate, GateConfig.highNeedsHuman, BaseInv, WholeInv, SignInv,
           NEW i \in Incident, Execute(i),
           TierFor(GateConfig, Row(evals[hand[i]].task).action) = "high"
    PROVE  evals[hand[i]].decision = "approved" /\ evals[hand[i]].by = 0
<1>1. PICK e : e = hand[i]
  OBVIOUS
<1>2. e \in DOMAIN evals /\ Authorised(evals[e])
  BY <1>1 DEF Execute, BaseInv, HandInv
<1>3. ~Executable(evals[e].result)
  <2>1. PICK reading, work :
          evals[e].result = Evaluate(GateInput(evals[e].task, reading, work), GateConfig)
    BY <1>2 DEF BaseInv, RowsInv, ResultsFor
  <2>2. GateInput(evals[e].task, reading, work).action = Row(evals[e].task).action
    BY DEF GateInput
  <2> QED BY <1>1, <2>1, <2>2, GateFailsClosed
<1>4. evals[e].decision = "approved"
  BY <1>2, <1>3 DEF Authorised
<1>5. ASSUME evals[e].by # 0 PROVE FALSE
  <2>1. evals[e].by \in DOMAIN approvals
    <3>1. evals[e].by \in 0..Len(approvals)
      BY <1>2 DEF BaseInv, TypeOK
    <3>2. Len(approvals) \in Nat /\ DOMAIN approvals = 1..Len(approvals)
      BY DEF BaseInv, RowsInv
    <3> QED BY <1>5, <3>1, <3>2
  <2>2. e \in approvals[evals[e].by].covered
    BY <1>2, <2>1 DEF WholeInv, ApprovalIsWhole
  <2>3. Executable(evals[e].result)
    BY <2>1, <2>2 DEF SignInv, ClearsAll
  <2> QED BY <1>3, <2>3
<1> QED BY <1>1, <1>4, <1>5

LEMMA HighRiskStep ==
    ASSUME Policy.highSeparate, GateConfig.highNeedsHuman, BaseInv, WholeInv, SignInv,
           HighRiskDecidedAlone, [Next]_vars
    PROVE  HighRiskDecidedAlone'
<1> SUFFICES ASSUME NEW t \in Task, task'[t] = "succeeded",
                    TierFor(GateConfig, Row(t).action) = "high"
             PROVE  \E e \in DOMAIN evals' : /\ evals'[e].task = t
                                             /\ evals'[e].decision = "approved"
                                             /\ evals'[e].by = 0
  BY DEF HighRiskDecidedAlone
<1>1. task \in [Task -> TaskStates]
  BY DEF BaseInv, TypeOK, TaskStates
<1>2. CASE task[t] = "succeeded"
  <2>1. PICK e \in DOMAIN evals : /\ evals[e].task = t /\ evals[e].decision = "approved"
                                  /\ evals[e].by = 0
    BY <1>2 DEF HighRiskDecidedAlone
  <2>2. evals'[e] = evals[e]
    BY <2>1, StandStep
  <2>3. e \in DOMAIN evals'
    BY StepBase DEF RowsStand
  <2> QED BY <2>1, <2>2, <2>3
<1>3. CASE task[t] # "succeeded"
  <2>1. PICK i \in Incident : Execute(i)
    <3>1. ASSUME NEW i \in Incident, Assure(i) PROVE FALSE
      <4>1. PICK u, r : task' = [task EXCEPT ![u] = TaskAfter(r)]
        BY <3>1, Zenon DEF Assure
      <4>2. TaskAfter(r) # "succeeded"
        BY DEF TaskAfter
      <4> QED BY <1>1, <1>3, <4>1, <4>2
    <3>2. ASSUME NEW i \in Incident, Await(i) PROVE FALSE
      <4>1. PICK u, s : task' = [task EXCEPT ![u] = s] /\ s \in {"assured", "rejected"}
        BY <3>2, Zenon DEF Await
      <4> QED BY <1>1, <1>3, <4>1
    <3>3. task' # task
      BY <1>3
    <3> QED
      BY <3>1, <3>2, <3>3
         DEF Next, vars, EndRun, AwaitNothing, OpenComparison, SelectPlan, Decide, BeginApproval,
             CommitApproval
  <2>2. evals' = evals /\ \E s : task' = [task EXCEPT ![evals[hand[i]].task] = s]
    BY <2>1 DEF Execute
  <2>3. evals[hand[i]].task = t
    BY <1>1, <1>3, <2>2
  <2>4. hand[i] \in DOMAIN evals
    BY <2>1 DEF Execute, BaseInv, HandInv
  <2> QED BY <2>1, <2>2, <2>3, <2>4, DecidedAlone
<1> QED BY <1>2, <1>3

\* Where high risk needs a person and the policy keeps it apart, money, a cancellation or a bulk
\* effect went out only on an evaluation a person approved by itself, whoever signed what.
THEOREM HighRiskNeedsItsOwn ==
    ASSUME Policy.highSeparate, GateConfig.highNeedsHuman
    PROVE  Spec => []HighRiskDecidedAlone
<1>1. BaseInv /\ HeldInv /\ [Next]_vars => HeldInv'
  BY HeldStep
<1>2. BaseInv /\ HeldInv /\ SignInv /\ [Next]_vars => SignInv'
  BY SignStep
<1>3. Init => WholeInv /\ HighRiskDecidedAlone
  <2>1. Init => WholeInv
    BY DEF Init, WholeInv, ApprovalIsWhole, RequestWhole
  <2>2. Init => HighRiskDecidedAlone
    BY DEF Init, HighRiskDecidedAlone
  <2> QED BY <2>1, <2>2
<1>4. BaseInv /\ WholeInv /\ [Next]_vars => WholeInv'
  BY WholeStep
<1>5. BaseInv /\ WholeInv /\ SignInv /\ HighRiskDecidedAlone /\ [Next]_vars => HighRiskDecidedAlone'
  BY HighRiskStep
<1> QED BY InitBase, InitSign, StepBase, <1>1, <1>2, <1>3, <1>4, <1>5, PTL DEF Spec
=============================================================================
