------------------------------ MODULE PlanGate ------------------------------
(***************************************************************************)
(* The plan-level gate: six checks on a plan as a whole, made of the       *)
(* recorded outcomes of its tasks, its declared coverage and its exposure. *)
(* It admits a plan to review; it never lets an action run.                *)
(*                                                                         *)
(* A task outcome is [id, action, refs, deps, decision, tier, kinds]; refs *)
(* is a sequence, for a task may name one entity twice.                    *)
(***************************************************************************)
EXTENDS Integers, Sequences, FiniteSets, FiniteSetsExt, SequencesExt, Functions

PlanCheckName == {"tasks_authorised", "dependencies_sound", "plan_consistent",
                  "coverage_complete", "exposure_within_limits", "plan_risk"}

PlanCheck(name, state, code, tier) ==
    [name |-> name, state |-> state, code |-> code, tier |-> tier]

PlanPassed(name) == PlanCheck(name, "passed", "OK", "none")

PlanFailed(name, code) == PlanCheck(name, "failed", code, "none")

HardBlocked(t) == t.kinds \cap {"evidence", "conflict"} # {}

NeedsHuman(t) == t.decision = "needs_human"

RefsOf(t) == Range(t.refs)

-----------------------------------------------------------------------------
(* 1. Authorisation                                                        *)

\* A task that waits for a person on its risk alone is no failure here.
TasksAuthorised(tasks) ==
    IF tasks = << >> THEN PlanFailed("tasks_authorised", "PLAN_EMPTY")
    ELSE IF \E t \in Range(tasks) : t.kinds = {} /\ NeedsHuman(t)
    THEN PlanFailed("tasks_authorised", "TASK_EVALUATION_MISSING")
    ELSE IF \E t \in Range(tasks) : HardBlocked(t)
    THEN PlanFailed("tasks_authorised", "TASK_NOT_AUTHORISED")
    ELSE PlanPassed("tasks_authorised")

-----------------------------------------------------------------------------
(* 2. Dependencies                                                         *)

\* The depth-first walks of _find_cycle.  A walk from n carries the nodes it is on and
\* those that are done; it meets a cycle when it comes back to a node it is on.
Walks(edges) ==
    LET ids == DOMAIN edges
        walk[n \in ids, on \in SUBSET ids, done \in SUBSET ids] ==
            IF n \in done THEN [cycle |-> FALSE, done |-> done]
            ELSE IF n \in on THEN [cycle |-> TRUE, done |-> done]
            ELSE LET step(acc, d) == IF acc.cycle \/ d \notin ids THEN acc
                                     ELSE walk[d, on \cup {n}, acc.done]
                     end == FoldLeft(step, [cycle |-> FALSE, done |-> done], edges[n])
                 IN  [end EXCEPT !.done = @ \cup {n}]
    IN  walk

\* Every task starts a walk, but one that an earlier walk finished.
HasCycle(tasks) ==
    LET edges == [n \in {t.id : t \in Range(tasks)} |->
                    (CHOOSE t \in Range(tasks) : t.id = n).deps]
        step(acc, t) == IF acc.cycle THEN acc ELSE Walks(edges)[t.id, {}, acc.done]
    IN  FoldLeft(step, [cycle |-> FALSE, done |-> {}], tasks).cycle

DependenciesSound(tasks) ==
    LET known   == {t.id : t \in Range(tasks)}
        blocked == {t.id : t \in {u \in Range(tasks) : HardBlocked(u)}}
        deps    == UNION {Range(t.deps) : t \in Range(tasks)}
    IN  IF ~(deps \subseteq known) THEN PlanFailed("dependencies_sound", "DEPENDENCY_UNKNOWN")
        ELSE IF HasCycle(tasks) THEN PlanFailed("dependencies_sound", "DEPENDENCY_CYCLE")
        ELSE IF deps \cap blocked # {}
        THEN PlanFailed("dependencies_sound", "DEPENDENCY_BLOCKED")
        ELSE PlanPassed("dependencies_sound")

-----------------------------------------------------------------------------
(* 3. Consistency                                                          *)

\* Every (action, ref) of the plan in the order of the tasks.
Commitments(tasks) ==
    FlattenSeq([k \in DOMAIN tasks |->
                    [j \in DOMAIN tasks[k].refs |-> <<tasks[k].action, tasks[k].refs[j]>>]])

\* config.exclusive: pairs of actions that must not meet on one entity.
PlanConsistent(tasks, config) ==
    LET at(r) == {t.action : t \in {u \in Range(tasks) : r \in RefsOf(u)}}
    IN  IF ~IsInjective(Commitments(tasks))
        THEN PlanFailed("plan_consistent", "DUPLICATE_TASK")
        ELSE IF \E r \in UNION {RefsOf(t) : t \in Range(tasks)}, pair \in config.exclusive :
                    pair \subseteq at(r)
        THEN PlanFailed("plan_consistent", "MUTUALLY_EXCLUSIVE_TASKS")
        ELSE PlanPassed("plan_consistent")

-----------------------------------------------------------------------------
(* 4. Coverage                                                             *)

\* deferred: refs left out with a reason; unexplained: with a blank one.
CoverageComplete(tasks, c) ==
    LET addressed == UNION {RefsOf(t) : t \in Range(tasks)}
    IN  IF ~c.declared THEN PlanFailed("coverage_complete", "COVERAGE_NOT_DECLARED")
        ELSE IF ~(c.impacted \subseteq addressed \cup c.deferred \cup c.unexplained)
                \/ c.unexplained # {}
        THEN PlanFailed("coverage_complete", "COVERAGE_INCOMPLETE")
        ELSE PlanPassed("coverage_complete")

-----------------------------------------------------------------------------
(* 5. Exposure                                                             *)

Unknown == -1   \* a figure nobody established

Figure == {"total_exposure_inr", "passengers_affected", "rooms_committed", "external_effects"}

HighCount(tasks) == Cardinality({k \in DOMAIN tasks : tasks[k].tier = "high"})

ExposureWithinLimits(tasks, e, config) ==
    IF e.unresolved # {} THEN PlanFailed("exposure_within_limits", "EXPOSURE_UNKNOWN")
    ELSE IF Len(tasks) > config.maxTasks
    THEN PlanFailed("exposure_within_limits", "PLAN_TOO_LARGE")
    ELSE IF \E f \in Figure : e.figures[f] = Unknown
    THEN PlanFailed("exposure_within_limits", "EXPOSURE_UNKNOWN")
    ELSE IF (\E f \in Figure : e.figures[f] > config.limits[f])
            \/ HighCount(tasks) > config.maxHigh
    THEN PlanFailed("exposure_within_limits", "EXPOSURE_LIMIT_BREACHED")
    ELSE PlanPassed("exposure_within_limits")

-----------------------------------------------------------------------------
(* 6. Risk                                                                 *)

\* A figure at or above a fraction of its limit, in percent.
NearLimit(e, f, config) ==
    e.figures[f] # Unknown /\ e.figures[f] * 100 >= config.limits[f] * config.percent[f]

\* The aggregate makes the plan high whatever its tasks are.
Escalated(tasks, e, config) ==
    \/ NearLimit(e, "total_exposure_inr", config)
    \/ NearLimit(e, "passengers_affected", config)
    \/ HighCount(tasks) >= config.manyHigh
    \/ e.figures["external_effects"] >= config.manyExternal
    \/ e.figures["total_exposure_inr"] = Unknown \/ e.unresolved # {}

\* Never fails: the tier is what blocks.
PlanRisk(tasks, e, config) ==
    LET tiers == {t.tier : t \in Range(tasks)}
    IN  IF tasks = << >> THEN PlanCheck("plan_risk", "passed", "OK", "high")
        ELSE IF Escalated(tasks, e, config) \/ "high" \in tiers
        THEN PlanCheck("plan_risk", "passed", "HUMAN_APPROVAL_REQUIRED", "high")
        ELSE PlanCheck("plan_risk", "passed", "OK",
                       IF "medium" \in tiers THEN "medium" ELSE "low")

-----------------------------------------------------------------------------
(* Aggregation                                                             *)

PlanSeverity == [passed |-> 0, warn |-> 1, failed |-> 2]

\* A check that did not run is a failure; of two reports the worse one counts.
PlanOrdered(name, checks) ==
    LET mine == {c \in checks : c.name = name}
    IN  IF mine = {} THEN PlanFailed(name, "PLAN_CONFIG_MISSING")
        ELSE CHOOSE c \in mine : \A d \in mine : PlanSeverity[d.state] <= PlanSeverity[c.state]

PlanResult(decision, tier, blocking) ==
    [decision |-> decision, tier |-> tier, blocking |-> blocking]

AggregatePlan(checks, config) ==
    LET ordered  == {PlanOrdered(n, checks) : n \in PlanCheckName}
        reported == (CHOOSE c \in ordered : c.name = "plan_risk").tier
        tier     == IF reported = "none" THEN "high" ELSE reported
        failures == {c.name : c \in {d \in ordered : d.state = "failed"}}
        warnings == {c.name : c \in {d \in ordered : d.state = "warn"}}
        risk     == IF tier = "high" THEN {"plan_risk"} ELSE {}
    IN  IF failures # {} THEN PlanResult("needs_human", tier, failures \cup risk)
        ELSE IF tier = "high" THEN PlanResult("needs_human", tier, risk)
        ELSE IF ~(warnings \subseteq config.warns)
        THEN PlanResult("needs_human", tier, warnings \ config.warns)
        ELSE IF warnings # {} THEN PlanResult("execute_flagged", tier, {})
        ELSE PlanResult("execute", tier, {})

\* The canonical plan-level entry point.
EvaluatePlan(tasks, coverage, exposure, config) ==
    IF ~config.loaded THEN PlanResult("needs_human", "high", PlanCheckName)
    ELSE AggregatePlan({TasksAuthorised(tasks), DependenciesSound(tasks),
                        PlanConsistent(tasks, config), CoverageComplete(tasks, coverage),
                        ExposureWithinLimits(tasks, exposure, config),
                        PlanRisk(tasks, exposure, config)}, config)

\* "none" when the plan's aggregate risk may be approved, else the refusal.
MayApprovePlan(r) ==
    IF r.decision # "needs_human" THEN "NOTHING_TO_APPROVE"
    ELSE IF ~(r.blocking \subseteq {"plan_risk"}) THEN "NOT_APPROVABLE_EVIDENCE"
    ELSE "none"

\* Mutant of PlanApprovalCovers: the tier of the task is not asked.
PlanApprovalCoversAnyTier(approval, t, hash, policy) ==
    IF HardBlocked(t) THEN "NOT_APPROVABLE_EVIDENCE" ELSE "none"

\* Whether a plan approval releases the need for a decision of the task's own.
PlanApprovalCovers(approval, t, hash, policy) ==
    IF policy.boundToHash /\ approval.hash # hash THEN "PLAN_HASH_MISMATCH"
    ELSE IF approval.tasks # {} /\ t.id \notin approval.tasks THEN "TASK_NOT_IN_SCOPE"
    ELSE IF t.tier = "high" /\ policy.highSeparate THEN "HIGH_RISK_NEEDS_OWN_DECISION"
    ELSE IF t.tier \notin approval.tiers THEN "TIER_NOT_COVERED"
    ELSE IF HardBlocked(t) THEN "NOT_APPROVABLE_EVIDENCE"
    ELSE "none"
=============================================================================
