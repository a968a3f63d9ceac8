---------------------------- MODULE PlanApproval ----------------------------
(***************************************************************************)
(* The human side of a cascade: the incidents of one group work through    *)
(* their plans under the gate, people decide single evaluations, open      *)
(* plans for comparison and select them, and sign the plan as a whole.  A  *)
(* plan approval reads its evaluations in one moment and writes a decision *)
(* for each in another.                                                    *)
(*                                                                         *)
(* Gate and PlanGate decide; Workflow has the engine's steps in full.      *)
(***************************************************************************)
EXTENDS Gate, PlanGate

CONSTANTS
    Incident,     \* the incidents of the group, numbered as they were opened
    Request,      \* approval requests that may be in flight at once
    Baseline,     \* the plan of an incident written first
    Sibling,      \* the variant that opening the comparison adds, or 0
    TasksOf,      \* the tasks of a plan in order: [id, action, refs, deps]
    Reading,      \* what an evaluation may be handed: [facts, sources, constraints, payload]
    GateConfig,   \* the gate's configuration
    PlanConfig,   \* the plan gate's
    Policy,       \* plan_approval: [boundToHash, highSeparate, tiers]
    HotelAction,  \* the action whose record makes the group's exposure known
    Exposure,     \* the figures of the group once it is known
    MaxDecisions  \* bound on the decisions of single evaluations

Plan == DOMAIN TasksOf

AllTasks == UNION {Range(TasksOf[p]) : p \in Plan}

Task == {t.id : t \in AllTasks}

ASSUME PlanAssumption ==
    /\ Incident \subseteq Nat \ {0} /\ Plan \subseteq Nat \ {0}
    /\ Baseline \in [Incident -> Plan]
    /\ Sibling \in [Incident -> Plan \cup {0}]

\* Rows have ids of their own, tasks belong to one plan and plans to one incident.
ASSUME OwnershipAssumption ==
    /\ Task \subseteq Nat
    /\ \A p, q \in Plan : \A r \in Range(TasksOf[p]), s \in Range(TasksOf[q]) :
          r.id = s.id => p = q
    /\ \A i, j \in Incident : \A p \in Plan :
          p \in {Baseline[i], Sibling[i]} /\ p \in {Baseline[j], Sibling[j]} => i = j

VARIABLES
    inc,        \* Incident.state
    plans,      \* the plans that exist
    choice,     \* the plan selected for an incident, or 0: its others are discarded
    driven,     \* the plan the incident's run keeps, 0 while there is no run
    hand,       \* the evaluation the run executes, or 0
    task,       \* PlanTask.state
    evals,      \* evaluations in id order, with their decision and its approval
    approvals,  \* plan_approval rows
    request     \* approval requests between reading and writing

vars == <<inc, plans, choice, driven, hand, task, evals, approvals, request>>

people == <<approvals, request>>

Row(t) == CHOOSE r \in AllTasks : r.id = t

PlanOf(t) == CHOOSE p \in Plan : t \in {r.id : r \in Range(TasksOf[p])}

PlansOf(i) == {p \in plans : p \in {Baseline[i], Sibling[i]}}

Owner(e) == CHOOSE i \in Incident : PlanOf(evals[e].task) \in {Baseline[i], Sibling[i]}

-----------------------------------------------------------------------------
(* The engine, cut to what approval meets                                  *)

CurrentPlan(i) == IF choice[i] # 0 THEN choice[i] ELSE Baseline[i]

WorkPlan(i) == IF driven[i] # 0 THEN driven[i] ELSE CurrentPlan(i)

Ready(p, ts) == {t \in {r.id : r \in Range(TasksOf[p])} :
                    ts[t] = "proposed" /\ \A d \in Range(Row(t).deps) : ts[d] = "succeeded"}

\* What the incident has done: recorded actions of its tasks, whatever plan they are of.
PriorWork(i) ==
    {[kind |-> "work", action |-> Row(t).action, refs |-> Range(Row(t).refs),
      state |-> IF task[t] = "succeeded" THEN "success" ELSE "failure"] :
        t \in {u \in Task : /\ PlanOf(u) \in {Baseline[i], Sibling[i]}
                            /\ task[u] \in {"succeeded", "failed"}}}

GateInput(t, reading, work) ==
    [action |-> Row(t).action, required |-> {"f"}, facts |-> reading.facts,
     sources |-> reading.sources, referenced |-> {}, resolved |-> << >>,
     payload |-> reading.payload, constraints |-> reading.constraints,
     targets |-> Range(Row(t).refs), work |-> work]

GateResult(i, t, reading) == Evaluate(GateInput(t, reading, PriorWork(i)), GateConfig)

Evaluation(t, r) == [task |-> t, result |-> r, decision |-> "none", by |-> 0]

\* Mutant of TaskAfter: the task takes the name of the decision.
TaskAfterRaw(r) == r.decision

TaskAfter(r) == IF Executable(r) THEN "assured" ELSE "needs_human"

AfterGate(r) == IF Executable(r) THEN "executing"
                ELSE IF IsApprovable(r) THEN "awaiting_approval" ELSE "blocked"

\* A run keeps its plan and the evaluation it has in hand until the incident is closed.
Keep(i, e) ==
    LET over == inc'[i] \in {"resolved", "blocked"}
    IN  /\ driven' = [driven EXCEPT ![i] = IF over THEN 0 ELSE WorkPlan(i)]
        /\ hand' = [hand EXCEPT ![i] = IF over THEN 0 ELSE e]

\* A run that assures has something ready here: nothing but its plan's end empties Ready.
Assure(i) ==
    LET ready == Ready(WorkPlan(i), task)
        t     == Min(ready)
    IN  /\ inc[i] = "assuring" /\ ready # {}
        /\ \E reading \in Reading :
              LET r == GateResult(i, t, reading)
              IN  /\ evals' = Append(evals, Evaluation(t, r))
                  /\ task' = [task EXCEPT ![t] = TaskAfter(r)]
                  /\ inc' = [inc EXCEPT ![i] = AfterGate(r)]
        /\ Keep(i, Len(evals) + 1)
        /\ UNCHANGED <<plans, choice, people>>

Authorised(e) == IF RequiresHuman(e.result) THEN e.decision = "approved"
                 ELSE Executable(e.result)

Execute(i) ==
    /\ inc[i] = "executing" /\ Authorised(evals[hand[i]])
    /\ \E s \in {"succeeded", "failed"} :
          /\ task' = [task EXCEPT ![evals[hand[i]].task] = s]
          /\ inc' = [inc EXCEPT ![i] = IF s = "failed" THEN "blocked"
                                       ELSE IF Ready(WorkPlan(i), task') = {} THEN "resolved"
                                       ELSE "assuring"]
    /\ Keep(i, 0)
    /\ UNCHANGED <<plans, choice, evals, people>>

\* The run ends or is lost.  One lost while executing has no task in hand to go on with.
EndRun(i) ==
    /\ driven[i] # 0
    /\ driven' = [driven EXCEPT ![i] = 0]
    /\ hand' = [hand EXCEPT ![i] = 0]
    /\ inc' = [inc EXCEPT ![i] = IF @ = "executing" THEN "blocked" ELSE @]
    /\ UNCHANGED <<plans, choice, task, evals, people>>

Held(t) == {e \in DOMAIN evals : evals[e].task = t /\ RequiresHuman(evals[e].result)}

Parked(p) == {t \in {r.id : r \in Range(TasksOf[p])} : task[t] = "needs_human" /\ Held(t) # {}}

\* The evaluation waited for: the one in hand, else the latest of the first parked task.
Pending(i) == IF hand[i] # 0 THEN hand[i] ELSE Max(Held(Min(Parked(WorkPlan(i)))))

AwaitNothing(i) ==
    /\ inc[i] = "awaiting_approval" /\ hand[i] = 0 /\ Parked(WorkPlan(i)) = {}
    /\ inc' = [inc EXCEPT ![i] = IF Ready(WorkPlan(i), task) = {} THEN "blocked"
                                 ELSE "assuring"]
    /\ Keep(i, 0)
    /\ UNCHANGED <<plans, choice, task, evals, people>>

Await(i) ==
    /\ inc[i] = "awaiting_approval" /\ (hand[i] # 0 \/ Parked(WorkPlan(i)) # {})
    /\ LET e == Pending(i)
           t == evals[e].task
       IN  \/ /\ evals[e].decision = "approved"
              /\ task' = [task EXCEPT ![t] = "assured"]
              /\ inc' = [inc EXCEPT ![i] = "executing"]
              /\ Keep(i, e)
           \/ /\ evals[e].decision = "rejected"
              /\ task' = [task EXCEPT ![t] = "rejected"]
              /\ inc' = [inc EXCEPT ![i] = IF Ready(WorkPlan(i), task') = {} THEN "blocked"
                                           ELSE "assuring"]
              /\ Keep(i, 0)
    /\ UNCHANGED <<plans, choice, evals, people>>

-----------------------------------------------------------------------------
(* People and single evaluations, people and plans                         *)

\* POST /assurance/{id}/decision.  A repeated decision only replays.
Decide(e, d) ==
    /\ evals[e].decision = "none"
    /\ Cardinality({f \in DOMAIN evals : evals[f].decision # "none" /\ evals[f].by = 0})
          < MaxDecisions
    /\ d = "approved" => ApprovalEnforced(evals[e].result)
    /\ evals' = [evals EXCEPT ![e].decision = d]
    /\ UNCHANGED <<inc, plans, choice, driven, hand, task, people>>

\* Opening the comparison writes the variants it compares.
OpenComparison(i) ==
    /\ Sibling[i] \notin plans \cup {0}
    /\ plans' = plans \cup {Sibling[i]}
    /\ UNCHANGED <<inc, choice, driven, hand, task, evals, people>>

SelectPlan(i, p) ==
    /\ p \in PlansOf(i) /\ choice[i] = 0
    /\ choice' = [choice EXCEPT ![i] = p]
    /\ UNCHANGED <<inc, plans, driven, hand, task, evals, people>>

-----------------------------------------------------------------------------
(* People and the plan of the group                                        *)

\* The plan a review reads for an incident: the selected one, else the latest.
Reviewed(i) == IF choice[i] # 0 THEN choice[i] ELSE Max(PlansOf(i))

LatestOf(t) == {e \in DOMAIN evals : evals[e].task = t}

\* scope_for_plan looks up the texts a row's dependencies are in a table of numbers, and finds
\* none of them.
SeenDependencies(t) == << >>

TaskOutcome(t, r) ==
    [id |-> t, action |-> Row(t).action, refs |-> Row(t).refs, deps |-> SeenDependencies(t),
     decision |-> r.decision, tier |-> r.tier, kinds |-> BlockingKinds(r)]

\* A task nobody evaluated is a gap, never a pass.
NotEvaluated(t) ==
    [id |-> t, action |-> Row(t).action, refs |-> Row(t).refs, deps |-> SeenDependencies(t),
     decision |-> "needs_human", tier |-> "high", kinds |-> {"evidence"}]

ScopeOf(p) ==
    [k \in DOMAIN TasksOf[p] |->
        LET t == TasksOf[p][k].id
        IN  IF LatestOf(t) = {} THEN NotEvaluated(t)
            ELSE TaskOutcome(t, evals[Max(LatestOf(t))].result)]

\* One plan per member, in the order of the incidents.
ReviewTasks == FlattenSeq([k \in 1..Cardinality(Incident) |->
                              ScopeOf(Reviewed(SetToSortSeq(Incident, <)[k]))])

\* Whatever no task addresses is deferred with a reason, so the membership is covered.
Coverage == [declared |-> TRUE, impacted |-> {}, deferred |-> {}, unexplained |-> {}]

\* Rooms and money are unknown until an allocation is recorded.
GroupExposure ==
    LET known == \E t \in Task : Row(t).action = HotelAction /\ task[t] = "succeeded"
    IN  [unresolved |-> {},
         figures |-> IF known THEN Exposure
                     ELSE [Exposure EXCEPT !.total_exposure_inr = Unknown,
                                           !.rooms_committed = Unknown]]

Review == EvaluatePlan(ReviewTasks, Coverage, GroupExposure, PlanConfig)

\* Every evaluation, of any plan, of the incidents that wait for a person.
Awaiting == {e \in DOMAIN evals : inc[Owner(e)] = "awaiting_approval"}

\* The approval is bound to the plan of the first member.
SignedPlan == Reviewed(Min(Incident))

CoveredNow ==
    LET scope == [hash |-> SignedPlan, tasks |-> {evals[e].task : e \in Awaiting},
                  tiers |-> Policy.tiers]
        covers(e) == PlanApprovalCovers(scope, TaskOutcome(evals[e].task, evals[e].result),
                                        SignedPlan, Policy) = "none"
    IN  {e \in Awaiting : covers(e)}

Idle == [plan |-> 0, covered |-> {}, at |-> 0]

\* Signed already: the recorded approval comes back.  The plan stands for its hash; a plan
\* without one is signed under the hash of the review.
Signed(p) == \E a \in DOMAIN approvals : approvals[a].plan = p

\* Refused unless risk alone holds the plan and something would be covered.
BeginApproval(q) ==
    /\ request[q] = Idle
    /\ ~Signed(SignedPlan)
    /\ MayApprovePlan(Review) = "none"
    /\ CoveredNow # {}
    /\ request' = [request EXCEPT ![q] = [plan |-> SignedPlan, covered |-> CoveredNow,
                                          at |-> Len(evals)]]
    /\ UNCHANGED <<inc, plans, choice, driven, hand, task, evals, approvals>>

\* Mutant of Collides: the decision rows are written over what is there.
CollidesNever(c) == FALSE

\* The unique constraints on (plan, hash) and on the evaluation of a decision.
Collides(c) == Signed(c.plan) \/ \E e \in c.covered : evals[e].decision # "none"

\* Mutant of Written: a decision is written for one tier of those covered.
WrittenForLow(c) == {e \in c.covered : evals[e].result.tier = "low"}

\* The evaluations a decision is written for.
Written(c) == c.covered

\* One transaction: the approval and every decision, or, on a collision, nothing.
CommitApproval(q) ==
    /\ request[q] # Idle
    /\ LET c == request[q]
       IN  IF Collides(c) THEN UNCHANGED <<evals, approvals>>
           ELSE /\ approvals' = Append(approvals, c)
                /\ evals' = [e \in DOMAIN evals |->
                                IF e \in Written(c)
                                THEN [evals[e] EXCEPT !.decision = "approved",
                                                      !.by = Len(approvals) + 1]
                                ELSE evals[e]]
    /\ request' = [request EXCEPT ![q] = Idle]
    /\ UNCHANGED <<inc, plans, choice, driven, hand, task>>

-----------------------------------------------------------------------------
Init ==
    /\ inc = [i \in Incident |-> "assuring"]
    /\ plans = Range(Baseline)
    /\ choice = [i \in Incident |-> 0]
    /\ driven = [i \in Incident |-> 0]
    /\ hand = [i \in Incident |-> 0]
    /\ task = [t \in Task |-> "proposed"]
    /\ evals = << >>
    /\ approvals = << >>
    /\ request = [q \in Request |-> Idle]

Next ==
    \/ \E i \in Incident : \/ Assure(i) \/ Execute(i) \/ EndRun(i)
                           \/ AwaitNothing(i) \/ Await(i) \/ OpenComparison(i)
    \/ \E i \in Incident, p \in Plan : SelectPlan(i, p)
    \/ \E e \in DOMAIN evals, d \in {"approved", "rejected"} : Decide(e, d)
    \/ \E q \in Request : BeginApproval(q) \/ CommitApproval(q)

Spec == Init /\ [][Next]_vars

-----------------------------------------------------------------------------
TypeOK ==
    /\ inc \in [Incident -> {"assuring", "executing", "awaiting_approval", "blocked",
                             "resolved"}]
    /\ plans \subseteq Plan
    /\ choice \in [Incident -> Plan \cup {0}]
    /\ driven \in [Incident -> Plan \cup {0}]
    /\ hand \in [Incident -> 0..Len(evals)]
    /\ task \in [Task -> {"proposed", "assured", "needs_human", "rejected", "succeeded",
                          "failed"}]
    /\ \A e \in DOMAIN evals : evals[e].task \in Task /\ evals[e].by \in 0..Len(approvals)
    /\ request \in [Request -> {Idle} \cup [plan : Plan, covered : SUBSET DOMAIN evals,
                                           at : 0..Len(evals)]]

\* What a plan approval covers the gate had cleared on its own: an evaluation on which
\* the gate held its task never gets its decision from a signature on the plan, for any
\* order of evaluations, decisions, selections and requests.  The tiers a signature
\* covers are cleared without one, and whatever else is held closes its incident.
SignatureReleasesNothing ==
    \A a \in DOMAIN approvals : \A e \in approvals[a].covered : Executable(evals[e].result)

\* An approval is whole: every evaluation it names carries its decision and no other one
\* does, it names one at least, and none that came after it was read.
ApprovalIsWhole ==
    \A a \in DOMAIN approvals :
        /\ {e \in DOMAIN evals : evals[e].by = a} = approvals[a].covered
        /\ approvals[a].covered # {}
        /\ \A e \in approvals[a].covered : /\ evals[e].decision = "approved"
                                           /\ e <= approvals[a].at

\* A high-risk task that was carried out has an evaluation a person approved by itself:
\* "high risk: money, cancellation or a bulk external effect gets its own decision".
HighRiskDecidedAlone ==
    \A t \in Task : (task[t] = "succeeded" /\ TierFor(GateConfig, Row(t).action) = "high") =>
        \E e \in DOMAIN evals : /\ evals[e].task = t
                                /\ evals[e].decision = "approved" /\ evals[e].by = 0

\* A decision is a record: neither a later one nor a signature on the plan replaces it.
DecisionsStand ==
    [][\A e \in DOMAIN evals : evals[e].decision # "none" => evals'[e] = evals[e]]_vars
=============================================================================
