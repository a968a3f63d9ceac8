-------------------------------- MODULE Gate --------------------------------
(***************************************************************************)
(* The Decision Assurance Gate: six checks on one proposed action, and the *)
(* fail-closed order in which they become a decision.  Pure: what it is    *)
(* given is its whole world.                                               *)
(*                                                                         *)
(* A value of a payload is a set of numbers; a scalar is a singleton.      *)
(* Facts are "yes", "no" or "null".                                        *)
(***************************************************************************)
EXTENDS Integers, Sequences, FiniteSets, FiniteSetsExt

CONSTANTS
    ActionType,     \* the closed set of action types
    PolicyBearing   \* those whose payload asserts a legal entitlement

ASSUME GateAssumption == PolicyBearing \subseteq ActionType

CheckName == {"evidence_complete", "sources_fresh", "entities_valid",
              "policy_compliant", "no_conflicts", "action_risk"}

CheckState == {"passed", "warn", "failed"}

RiskTier == {"low", "medium", "high"}

Check(name, state, code, tier) == [name |-> name, state |-> state, code |-> code, tier |-> tier]

Passed(name) == Check(name, "passed", "OK", "none")

Failed(name, code) == Check(name, "failed", code, "none")

\* A path that is not in the facts, or holds null, is absent.
Absent(facts, path) == path \notin DOMAIN facts \/ facts[path] = "null"

-----------------------------------------------------------------------------
(* Configuration                                                           *)

\* tier_for: an action the configuration does not list is high.
TierFor(config, action) ==
    IF action \in DOMAIN config.tiers THEN config.tiers[action] ELSE "high"

WarnPermitted(config, action, name) == <<action, name>> \in config.warns

-----------------------------------------------------------------------------
(* The six checks                                                          *)

EvidenceComplete(i) ==
    IF \E path \in i.required : Absent(i.facts, path)
    THEN Failed("evidence_complete", "MISSING_REQUIRED_FACT")
    ELSE Passed("evidence_complete")

\* How bad a source is, and with it what is wrong: 0 nothing, 1 its age, 2 no usable
\* timestamp, 3 a kind without a configured limit.
SourceRank(s, limits) ==
    IF s.kind \notin DOMAIN limits THEN 3
    ELSE IF s.stamp # "aware" THEN 2
    ELSE IF s.age < 0 \/ s.age > limits[s.kind] THEN 1
    ELSE 0

SourceCode == <<"SOURCE_STALE", "SOURCE_MISSING_TIMESTAMP", "CONFIG_MISSING">>

\* Only known staleness may become a warning.
Downgradable(s, limits) == SourceRank(s, limits) = 1 /\ s.age >= 0

SourcesFresh(i, config) ==
    LET rank(s)  == SourceRank(s, config.limits)
        worst    == Max({0} \cup {rank(s) : s \in i.sources})
        selected == {s \in i.sources : rank(s) = worst}
        softened == /\ \A s \in selected : Downgradable(s, config.limits)
                    /\ WarnPermitted(config, i.action, "sources_fresh")
    IN  IF worst = 0 THEN Passed("sources_fresh")
        ELSE Check("sources_fresh", IF softened THEN "warn" ELSE "failed",
                   SourceCode[worst], "none")

\* i.resolved: ref -> found, gone (null, false or exists false) or changed.
EntitiesValid(i) ==
    LET gone == {r \in i.referenced : r \notin DOMAIN i.resolved \/ i.resolved[r] = "gone"}
    IN  IF gone # {} THEN Failed("entities_valid", "ENTITY_NOT_FOUND")
        ELSE IF \E r \in i.referenced : i.resolved[r] = "changed"
        THEN Failed("entities_valid", "ENTITY_STATE_MISMATCH")
        ELSE Passed("entities_valid")

Operators == {"eq", "ne", "lt", "lte", "gt", "gte", "in", "not_in", "disjoint_from",
              "required", "forbidden", "max_total"}

IsScalar(v) == Cardinality(v) = 1

Scalar(v) == CHOOSE n \in v : TRUE

\* An ordering between things that have none does not hold, and that is a breach.
Holds(op, l, r) ==
    CASE op = "eq" -> l = r
      [] op = "ne" -> l # r
      [] op = "in" -> IsScalar(l) /\ l \subseteq r
      [] op = "not_in" -> ~(IsScalar(l) /\ l \subseteq r)
      [] op = "disjoint_from" -> l \cap r = {}
      [] op = "max_total" -> IsScalar(r) /\ SumSet(l) <= Scalar(r)
      [] op \in {"lt", "lte", "gt", "gte"} ->
            /\ IsScalar(l) /\ IsScalar(r)
            /\ CASE op = "lt"  -> Scalar(l) < Scalar(r)
                 [] op = "lte" -> Scalar(l) <= Scalar(r)
                 [] op = "gt"  -> Scalar(l) > Scalar(r)
                 [] op = "gte" -> Scalar(l) >= Scalar(r)

\* c.flag: an upstream verdict (unsatisfiable, pack_unavailable) or none.
ConstraintRank(c, i) ==
    LET breach == IF c.soft THEN 1 ELSE 2
        absent == c.field \notin DOMAIN i.payload
    IN  IF c.scope # {} /\ i.action \notin c.scope THEN 0
        ELSE IF c.flag = "unsatisfiable" THEN 4
        ELSE IF c.flag = "pack_unavailable" THEN 5
        ELSE IF c.op \notin Operators THEN 6
        ELSE IF c.op = "forbidden" THEN (IF absent THEN 0 ELSE breach)
        ELSE IF absent THEN 3
        ELSE IF c.op = "required" \/ Holds(c.op, i.payload[c.field], c.value) THEN 0
        ELSE breach

ConstraintCode == <<"POLICY_CONSTRAINT_BREACH", "POLICY_CONSTRAINT_BREACH",
                    "MISSING_REQUIRED_FACT", "POLICY_CONSTRAINT_BREACH",
                    "POLICY_PACK_UNAVAILABLE", "UNKNOWN_RULE_OPERATOR">>

PolicyCompliant(i) ==
    LET worst == Max({0} \cup {ConstraintRank(c, i) : c \in i.constraints})
    IN  IF worst = 0 THEN Passed("policy_compliant")
        ELSE Check("policy_compliant", IF worst = 1 THEN "warn" ELSE "failed",
                   ConstraintCode[worst], "none")

NonBlockingStates == {"failed", "rejected", "skipped"}

\* Prior work on the same action type whose refs meet these; work without refs, or a
\* request without refs, meets everything.
Duplicates(i, w) ==
    /\ w.kind = "work" /\ w.action = i.action /\ w.state \notin NonBlockingStates
    /\ w.refs = {} \/ i.targets = {} \/ w.refs \cap i.targets # {}

\* available: the units left, -1 when the entry does not say.
Exhausted(i, w) == w.kind = "capacity" /\ w.refs \cap i.targets # {} /\ w.available <= 0

NoConflicts(i) ==
    IF \E w \in i.work : Duplicates(i, w) THEN Failed("no_conflicts", "DUPLICATE_ACTION")
    ELSE IF \E w \in i.work : Exhausted(i, w)
    THEN Failed("no_conflicts", "CAPACITY_UNAVAILABLE")
    ELSE Passed("no_conflicts")

\* Classifies, never fails.
ActionRisk(i, config) ==
    LET tier == TierFor(config, i.action)
    IN  Check("action_risk", "passed",
              IF tier = "high" THEN "HUMAN_APPROVAL_REQUIRED" ELSE "OK", tier)

\* A policy check of an entitlement that had nothing to check did not check it.
RefuseVacuous(c, i) ==
    IF i.action \notin PolicyBearing \/ c.state # "passed" THEN c
    ELSE IF c.name = "evidence_complete" /\ i.required = {}
    THEN Failed(c.name, "MISSING_REQUIRED_FACT")
    ELSE IF c.name = "policy_compliant" /\ i.constraints = {}
    THEN Failed(c.name, "POLICY_CONSTRAINT_BREACH")
    ELSE c

-----------------------------------------------------------------------------
(* Aggregation                                                             *)

Severity == [passed |-> 0, warn |-> 1, failed |-> 2]

HardFail == {"CONFIG_MISSING", "UNKNOWN_ACTION_TYPE", "UNKNOWN_RULE_OPERATOR"}

\* Rule 1 whatever state was reported.
Coerce(c) == IF c.code \in HardFail THEN [c EXCEPT !.state = "failed"] ELSE c

\* The worst report of a check; one that did not run is a failure.
Ordered(name, checks) ==
    LET mine == {Coerce(c) : c \in {d \in checks : d.name = name}}
    IN  IF mine = {} THEN Failed(name, "MISSING_EVIDENCE")
        ELSE CHOOSE c \in mine : \A d \in mine : Severity[d.state] <= Severity[c.state]

Result(decision, tier, checks, blocking) ==
    [decision |-> decision, tier |-> tier, checks |-> checks, blocking |-> blocking]

\* The record for "the gate did not evaluate this": no configuration, or an error.
Refusal == Result("needs_human", "high",
                  {Failed(n, "CONFIG_MISSING") : n \in CheckName}, CheckName)

\* Rules 2 to 5, in their order: the decision and the checks that block.
Verdict(action, config, failures, warnings, high) ==
    LET unpermitted == {n \in warnings : ~WarnPermitted(config, action, n)}
    IN  IF failures # {}
        THEN <<"needs_human", failures \cup (IF high THEN {"action_risk"} ELSE {})>>
        ELSE IF high THEN <<"needs_human", {"action_risk"}>>
        ELSE IF unpermitted # {} THEN <<"needs_human", unpermitted>>
        ELSE IF warnings # {} THEN <<"execute_flagged", {}>>
        ELSE <<"execute", {}>>

Aggregate(checks, action, config) ==
    LET ordered  == {Ordered(n, checks) : n \in CheckName}
        risk     == CHOOSE c \in ordered : c.name = "action_risk"
        tier     == IF risk.tier # "none" THEN risk.tier ELSE TierFor(config, action)
        failures == {c.name : c \in {d \in ordered : d.state = "failed"}}
        warnings == {c.name : c \in {d \in ordered : d.state = "warn"}}
        unknown  == Check("action_risk", "failed", "UNKNOWN_ACTION_TYPE", "high")
        decided  == Verdict(action, config, failures, warnings,
                           tier = "high" /\ config.highNeedsHuman)
    IN  IF action \in ActionType THEN Result(decided[1], tier, ordered, decided[2])
        ELSE Result("needs_human", "high", (ordered \ {risk}) \cup {unknown},
                    failures \cup {"action_risk"})

\* The canonical entry point.
Evaluate(i, config) ==
    IF ~config.loaded THEN Refusal
    ELSE Aggregate({RefuseVacuous(c, i) :
                        c \in {EvidenceComplete(i), SourcesFresh(i, config), EntitiesValid(i),
                               PolicyCompliant(i), NoConflicts(i), ActionRisk(i, config)}},
                   i.action, config)

-----------------------------------------------------------------------------
(* What a person may approve                                               *)

ConflictCode == {"DUPLICATE_ACTION", "CAPACITY_UNAVAILABLE", "POLICY_CONSTRAINT_BREACH"}

\* A code nobody classified is evidence, never risk.
KindFor(code) ==
    IF code = "HUMAN_APPROVAL_REQUIRED" THEN "risk"
    ELSE IF code \in ConflictCode THEN "conflict" ELSE "evidence"

BlockingKinds(r) ==
    {KindFor(c.code) : c \in {d \in r.checks :
        d.state = "failed" \/ d.code = "HUMAN_APPROVAL_REQUIRED"}}

IsApprovable(r) == BlockingKinds(r) = {"risk"}

RequiresHuman(r) == r.decision = "needs_human"

Executable(r) == r.decision \in {"execute", "execute_flagged"}

\* "none" when it may be approved, else the refusal.
MayApproveAction(r) ==
    IF ~RequiresHuman(r) THEN "NOTHING_TO_APPROVE"
    ELSE IF IsApprovable(r) THEN "none"
    ELSE IF "conflict" \in BlockingKinds(r) THEN "NOT_APPROVABLE_CONFLICT"
    ELSE "NOT_APPROVABLE_EVIDENCE"

\* A redundant endorsement is let through; one that would stand in for evidence is not.
ApprovalEnforced(r) ==
    MayApproveAction(r) \notin {"NOT_APPROVABLE_EVIDENCE", "NOT_APPROVABLE_CONFLICT"}
=============================================================================
