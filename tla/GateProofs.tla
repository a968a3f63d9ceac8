----------------------------- MODULE GateProofs -----------------------------
(***************************************************************************)
(* What the gate's answer implies, for every input and configuration.      *)
(***************************************************************************)
EXTENDS Gate, WellFoundedInduction, TLAPS

\* The order of the numbers is well founded, so a set of numbers has a least one.
Less == {pair \in Nat \X Nat : pair[1] < pair[2]}

LEMMA LessWellFounded == IsWellFoundedOn(Less, Nat)
BY NatLessThanWellFounded, Zenon DEF OpToRel, Less

LEMMA LeastOf ==
    ASSUME NEW S \in SUBSET Nat, S # {}
    PROVE  Min(S) \in S /\ \A y \in S : Min(S) <= y
<1>1. PICK x \in S : \A y \in S : ~(<<y, x>> \in Less)
  BY LessWellFounded, WFMin, Zenon
<1>2. \A y \in Nat : y < x => <<y, x>> \in Less
  BY DEF Less
<1>3. ASSUME NEW y \in S PROVE x <= y
  <2>1. y \in Nat /\ x \in Nat /\ <<y, x>> \notin Less
    BY <1>1
  <2> QED BY <2>1, <1>2
<1> QED BY <1>3 DEF Min

\* A bounded one has a greatest.
LEMMA GreatestOf ==
    ASSUME NEW n \in Nat, NEW S \in SUBSET (0..n), S # {}
    PROVE  Max(S) \in S /\ \A y \in S : y <= Max(S)
<1> DEFINE short == {n - x : x \in S}
<1>1. /\ \A x \in S : x \in Int /\ 0 <= x /\ x <= n
      /\ \A x \in S : n - x \in Nat
  OBVIOUS
<1>0. short \in SUBSET Nat /\ short # {}
  BY <1>1
<1>2. Min(short) \in short /\ \A d \in short : Min(short) <= d
  BY <1>0, LeastOf
<1>3. PICK x \in S : Min(short) = n - x
  BY <1>2
<1>4. \A y \in S : n - x <= n - y
  BY <1>2, <1>3
<1>5. \A y \in S : x >= y
  BY <1>1, <1>4
<1>6. Max(S) \in S /\ \A y \in S : Max(S) >= y
  BY <1>5 DEF Max
<1> QED BY <1>6

\* The reports Evaluate aggregates.
Reports(i, config) ==
    {RefuseVacuous(c, i) :
        c \in {EvidenceComplete(i), SourcesFresh(i, config), EntitiesValid(i),
               PolicyCompliant(i), NoConflicts(i), ActionRisk(i, config)}}

\* A report is a record of the four fields, in one of the three states.
IsReport(c) == c = Check(c.name, c.state, c.code, c.tier) /\ c.state \in CheckState

LEMMA ReportFields ==
    ASSUME NEW n, NEW s \in CheckState, NEW c, NEW t
    PROVE  /\ Check(n, s, c, t).name = n /\ Check(n, s, c, t).state = s
           /\ Check(n, s, c, t).code = c /\ Check(n, s, c, t).tier = t
           /\ IsReport(Check(n, s, c, t))
BY DEF Check, IsReport, CheckState

\* Each check reports under its own name.
LEMMA OwnName ==
    ASSUME NEW i, NEW config
    PROVE  /\ EvidenceComplete(i).name = "evidence_complete"
           /\ SourcesFresh(i, config).name = "sources_fresh"
           /\ EntitiesValid(i).name = "entities_valid"
           /\ PolicyCompliant(i).name = "policy_compliant"
           /\ NoConflicts(i).name = "no_conflicts"
           /\ ActionRisk(i, config).name = "action_risk"
<1>1. EvidenceComplete(i).name = "evidence_complete"
  BY DEF EvidenceComplete, Passed, Failed, Check
<1>2. SourcesFresh(i, config).name = "sources_fresh"
  BY DEF SourcesFresh, Passed, Failed, Check
<1>3. EntitiesValid(i).name = "entities_valid"
  BY DEF EntitiesValid, Passed, Failed, Check
<1>4. PolicyCompliant(i).name = "policy_compliant"
  BY DEF PolicyCompliant, Passed, Failed, Check
<1>5. NoConflicts(i).name = "no_conflicts"
  BY DEF NoConflicts, Passed, Failed, Check
<1>6. ActionRisk(i, config).name = "action_risk"
  BY DEF ActionRisk, Check
<1> QED BY <1>1, <1>2, <1>3, <1>4, <1>5, <1>6

\* Refusing a vacuous check keeps its name, and makes it no more than a failure.
LEMMA VacuousKeepsName ==
    ASSUME NEW c, NEW i PROVE RefuseVacuous(c, i).name = c.name
BY DEF RefuseVacuous, Failed, Check

\* Coercion keeps the name, the code and the tier.
LEMMA CoerceKeeps ==
    ASSUME NEW c, IsReport(c)
    PROVE  /\ Coerce(c).name = c.name /\ Coerce(c).code = c.code /\ Coerce(c).tier = c.tier
           /\ Coerce(c).state = IF c.code \in HardFail THEN "failed" ELSE c.state
BY DEF Coerce, IsReport, Check

\* Every report is one: the six of the checks, or what refusing a vacuous one makes of it.
LEMMA ReportsAreReports ==
    ASSUME NEW i, NEW config, NEW c \in Reports(i, config) PROVE IsReport(c)
<1>1. /\ IsReport(EvidenceComplete(i)) /\ IsReport(EntitiesValid(i)) /\ IsReport(NoConflicts(i))
      /\ IsReport(ActionRisk(i, config))
  BY DEF EvidenceComplete, EntitiesValid, NoConflicts, ActionRisk, Passed, Failed, Check, IsReport,
         CheckState
<1>2. IsReport(SourcesFresh(i, config))
  BY ReportFields DEF SourcesFresh, Passed, Failed, CheckState
<1>3. IsReport(PolicyCompliant(i))
  BY ReportFields DEF PolicyCompliant, Passed, Failed, CheckState
<1>4. ASSUME NEW d, IsReport(d) PROVE IsReport(RefuseVacuous(d, i))
  BY <1>4, ReportFields DEF RefuseVacuous, Failed, CheckState
<1> QED BY <1>1, <1>2, <1>3, <1>4 DEF Reports

\* The report under a name is the one check's of that name.
LEMMA OneReport ==
    ASSUME NEW i, NEW config
    PROVE  \E e, s, t, p, n, r :
        /\ e = RefuseVacuous(EvidenceComplete(i), i)
        /\ s = RefuseVacuous(SourcesFresh(i, config), i)
        /\ t = RefuseVacuous(EntitiesValid(i), i) /\ p = RefuseVacuous(PolicyCompliant(i), i)
        /\ n = RefuseVacuous(NoConflicts(i), i) /\ r = RefuseVacuous(ActionRisk(i, config), i)
        /\ Reports(i, config) = {e, s, t, p, n, r}
        /\ e.name = "evidence_complete" /\ s.name = "sources_fresh"
        /\ t.name = "entities_valid" /\ p.name = "policy_compliant"
        /\ n.name = "no_conflicts" /\ r.name = "action_risk"
BY OwnName, VacuousKeepsName DEF Reports

\* So a check's ordered report is that report, coerced.
LEMMA OrderedReport ==
    ASSUME NEW i, NEW config, NEW c \in Reports(i, config)
    PROVE  Ordered(c.name, Reports(i, config)) = Coerce(c)
<1>1. \A d \in Reports(i, config) : d.name = c.name => d = c
  BY OneReport
<1>2. {d \in Reports(i, config) : d.name = c.name} = {c}
  BY <1>1
<1>3. {Coerce(d) : d \in {x \in Reports(i, config) : x.name = c.name}} = {Coerce(c)}
  BY <1>2
<1>4. IsReport(c) BY ReportsAreReports
<1>5. Coerce(c).state \in CheckState
  BY <1>4, CoerceKeeps DEF IsReport, CheckState
<1>6. Severity[Coerce(c).state] <= Severity[Coerce(c).state]
  BY <1>5 DEF Severity, CheckState
<1> QED BY <1>3, <1>6 DEF Ordered

\* The reports the record keeps.
LEMMA KeptReports ==
    ASSUME NEW i, NEW config
    PROVE  {Ordered(n, Reports(i, config)) : n \in CheckName} =
               {Coerce(c) : c \in Reports(i, config)}
<1>1. {c.name : c \in Reports(i, config)} = CheckName
  BY OneReport DEF CheckName
<1> QED BY <1>1, OrderedReport

\* The worst rank of a set of sources, or of constraints, is a rank.
LEMMA WorstSource ==
    ASSUME NEW i, NEW config
    PROVE  LET rank(s) == SourceRank(s, config.limits)
           IN  Max({0} \cup {rank(s) : s \in i.sources}) \in 0..3
<1> DEFINE ranks == {0} \cup {SourceRank(s, config.limits) : s \in i.sources}
<1>1. ranks \in SUBSET (0..3) /\ ranks # {}
  BY DEF SourceRank
<1>2. Max(ranks) \in ranks BY <1>1, GreatestOf
<1> QED BY <1>1, <1>2

LEMMA WorstConstraint ==
    ASSUME NEW i
    PROVE  LET ranks == {0} \cup {ConstraintRank(c, i) : c \in i.constraints}
           IN  /\ Max(ranks) \in 0..6
               /\ \A c \in i.constraints : ConstraintRank(c, i) <= Max(ranks)
<1> DEFINE ranks == {0} \cup {ConstraintRank(c, i) : c \in i.constraints}
<1>1. \A c : ConstraintRank(c, i) \in 0..6
  BY DEF ConstraintRank
<1>2. ranks \in SUBSET (0..6) /\ ranks # {}
  BY <1>1
<1>3. Max(ranks) \in ranks /\ \A y \in ranks : y <= Max(ranks)
  BY <1>2, GreatestOf
<1> QED BY <1>2, <1>3

\* The risk report of the record: it has the configured tier, and it alone asks for a person.
LEMMA RiskReport ==
    ASSUME NEW i, NEW config
    PROVE  LET r == Coerce(ActionRisk(i, config))
           IN  /\ r \in {Coerce(c) : c \in Reports(i, config)}
               /\ r.name = "action_risk" /\ r.tier = TierFor(config, i.action)
               /\ \A c \in Reports(i, config) :
                     /\ Coerce(c).name = "action_risk" => Coerce(c) = r
                     /\ Coerce(c).code = "HUMAN_APPROVAL_REQUIRED" => Coerce(c) = r
               /\ r.code = "HUMAN_APPROVAL_REQUIRED" <=> TierFor(config, i.action) = "high"
<1> DEFINE risk == ActionRisk(i, config)
<1>1. risk.name = "action_risk" /\ risk.tier = TierFor(config, i.action) /\ IsReport(risk)
      /\ (risk.code = "HUMAN_APPROVAL_REQUIRED" <=> TierFor(config, i.action) = "high")
  BY DEF ActionRisk, Check, IsReport, CheckState
<1>2. RefuseVacuous(risk, i) = risk
  BY <1>1 DEF RefuseVacuous
<1>3. risk \in Reports(i, config)
  BY <1>2 DEF Reports
<1>4. \A c \in Reports(i, config) : c.name = "action_risk" => c = risk
  BY OneReport, <1>2
<1>5. \A c \in Reports(i, config) : c.code = "HUMAN_APPROVAL_REQUIRED" => c = risk
  <2>1. EvidenceComplete(i).code # "HUMAN_APPROVAL_REQUIRED"
    BY DEF EvidenceComplete, Passed, Failed, Check
  <2>2. SourcesFresh(i, config).code # "HUMAN_APPROVAL_REQUIRED"
    BY WorstSource DEF SourcesFresh, SourceCode, Passed, Check
  <2>3. EntitiesValid(i).code # "HUMAN_APPROVAL_REQUIRED"
    BY DEF EntitiesValid, Passed, Failed, Check
  <2>4. PolicyCompliant(i).code # "HUMAN_APPROVAL_REQUIRED"
    BY WorstConstraint DEF PolicyCompliant, ConstraintCode, Passed, Check
  <2>5. NoConflicts(i).code # "HUMAN_APPROVAL_REQUIRED"
    BY DEF NoConflicts, Passed, Failed, Check
  <2>6. ASSUME NEW d, d.code # "HUMAN_APPROVAL_REQUIRED"
        PROVE RefuseVacuous(d, i).code # "HUMAN_APPROVAL_REQUIRED"
    BY <2>6 DEF RefuseVacuous, Failed, Check
  <2> QED BY <2>1, <2>2, <2>3, <2>4, <2>5, <2>6, <1>2 DEF Reports
<1>6. \A c \in Reports(i, config) :
         Coerce(c).name = c.name /\ Coerce(c).code = c.code /\ Coerce(c).tier = c.tier
  BY ReportsAreReports, CoerceKeeps
<1> QED BY <1>1, <1>3, <1>4, <1>5, <1>6

-----------------------------------------------------------------------------
(* What the answer implies                                                 *)

\* The answer in terms of the coerced reports.
LEMMA Answer ==
    ASSUME NEW i, NEW config, config.loaded, i.action \in ActionType
    PROVE  LET kept     == {Coerce(c) : c \in Reports(i, config)}
               tier     == TierFor(config, i.action)
               failures == {c.name : c \in {d \in kept : d.state = "failed"}}
               warnings == {c.name : c \in {d \in kept : d.state = "warn"}}
               decided  == Verdict(i.action, config, failures, warnings,
                                   tier = "high" /\ config.highNeedsHuman)
           IN  Evaluate(i, config) = Result(decided[1], tier, kept, decided[2])
<1> DEFINE kept == {Coerce(c) : c \in Reports(i, config)}
<1>1. Evaluate(i, config) = Aggregate(Reports(i, config), i.action, config)
  BY DEF Evaluate, Reports
<1>2. {Ordered(n, Reports(i, config)) : n \in CheckName} = kept
  BY KeptReports
<1>3. (CHOOSE c \in kept : c.name = "action_risk") = Coerce(ActionRisk(i, config))
  BY RiskReport
<1>4. Coerce(ActionRisk(i, config)).tier = TierFor(config, i.action)
  BY RiskReport
<1>5. (IF Coerce(ActionRisk(i, config)).tier # "none" THEN Coerce(ActionRisk(i, config)).tier
       ELSE TierFor(config, i.action)) = TierFor(config, i.action)
  BY <1>4
<1> HIDE DEF kept
<1>6. Aggregate(Reports(i, config), i.action, config) =
        LET failures == {c.name : c \in {d \in kept : d.state = "failed"}}
            warnings == {c.name : c \in {d \in kept : d.state = "warn"}}
            decided  == Verdict(i.action, config, failures, warnings,
                                TierFor(config, i.action) = "high" /\ config.highNeedsHuman)
        IN  Result(decided[1], TierFor(config, i.action), kept, decided[2])
  BY <1>2, <1>3, <1>5 DEF Aggregate
<1> QED BY <1>1, <1>6 DEF kept

\* A record asks a person about risk only where the tier it reports is high.
LEMMA RiskMeansHigh ==
    ASSUME NEW i, NEW config, "risk" \in BlockingKinds(Evaluate(i, config))
    PROVE  Evaluate(i, config).tier = "high"
<1> DEFINE r == Evaluate(i, config)
<1>1. CASE ~config.loaded
  BY <1>1 DEF Evaluate, Refusal, Result
<1>2. CASE config.loaded /\ i.action \notin ActionType
  BY <1>2 DEF Evaluate, Aggregate, Result
<1>3. CASE config.loaded /\ i.action \in ActionType
  <2> DEFINE kept == {Coerce(c) : c \in Reports(i, config)}
             risk == Coerce(ActionRisk(i, config))
  <2>1. r.checks = kept /\ r.tier = TierFor(config, i.action)
    <3>1. \E d, b : r = Result(d, TierFor(config, i.action), kept, b)
      BY <1>3, Answer, Zenon
    <3> QED BY <3>1 DEF Result
  <2>2. PICK c \in kept : c.code = "HUMAN_APPROVAL_REQUIRED"
    BY <2>1 DEF BlockingKinds, KindFor
  <2> QED BY <2>1, <2>2, RiskReport
<1> QED BY <1>1, <1>2, <1>3

\* What it means for an action that none of its reports is a failure.
LEMMA NothingFailed ==
    ASSUME NEW i, NEW config, \A c \in Reports(i, config) : c.state # "failed"
    PROVE  /\ \A path \in i.required : ~Absent(i.facts, path)
           /\ \A ref \in i.referenced : ref \in DOMAIN i.resolved /\ i.resolved[ref] # "gone"
           /\ \A w \in i.work : ~Duplicates(i, w) /\ ~Exhausted(i, w)
           /\ \A c \in i.constraints : ConstraintRank(c, i) \in {0, 1}
           /\ i.action \in PolicyBearing => i.required # {} /\ i.constraints # {}
<1>5. ASSUME NEW c \in {EvidenceComplete(i), EntitiesValid(i), PolicyCompliant(i), NoConflicts(i)}
      PROVE  RefuseVacuous(c, i).state # "failed" /\ c.state # "failed"
  <2>1. RefuseVacuous(c, i).state # "failed"
    BY DEF Reports
  <2> QED BY <2>1 DEF RefuseVacuous
<1>6. \A path \in i.required : ~Absent(i.facts, path)
  BY <1>5 DEF EvidenceComplete, Failed, Check
<1>7. \A ref \in i.referenced : ref \in DOMAIN i.resolved /\ i.resolved[ref] # "gone"
  BY <1>5 DEF EntitiesValid, Failed, Check
<1>8. \A w \in i.work : ~Duplicates(i, w) /\ ~Exhausted(i, w)
  BY <1>5 DEF NoConflicts, Failed, Check
<1>9. ASSUME i.action \in PolicyBearing PROVE i.required # {} /\ i.constraints # {}
  <2>1. i.required # {}
    BY <1>5, <1>9, OwnName DEF RefuseVacuous, EvidenceComplete, Passed, Failed, Check
  <2>2. ASSUME i.constraints = {} PROVE FALSE
    <3> DEFINE ranks == {0} \cup {ConstraintRank(c, i) : c \in i.constraints}
    <3>1. ranks = {0} /\ Max(ranks) = 0
      BY <2>2, GreatestOf
    <3>2. PolicyCompliant(i) = Passed("policy_compliant")
      BY <3>1 DEF PolicyCompliant
    <3>3. RefuseVacuous(PolicyCompliant(i), i).state = "failed"
      BY <2>2, <3>2, <1>9 DEF RefuseVacuous, Passed, Failed, Check
    <3> QED BY <3>3, <1>5
  <2> QED BY <2>1, <2>2
<1>10. \A c \in i.constraints : ConstraintRank(c, i) \in {0, 1}
  <2> DEFINE ranks == {0} \cup {ConstraintRank(c, i) : c \in i.constraints}
  <2>1. Max(ranks) \in {0, 1}
    BY <1>5, WorstConstraint DEF PolicyCompliant, Check
  <2>2. \A c : ConstraintRank(c, i) \in 0..6
    BY DEF ConstraintRank
  <2> QED BY <2>1, <2>2, WorstConstraint
<1> QED BY <1>6, <1>7, <1>8, <1>9, <1>10

\* What the gate lets run on its own was evaluated: the configuration was there, the action
\* is one of the closed set and, where a person must see it, not of the high tier; every
\* required fact was there, no entity was gone, no constraint was broken that is not a
\* soft one, nothing of the kind was done before, and an entitlement came with facts and
\* constraints to check (gate.evaluate: fails closed).
THEOREM GateFailsClosed ==
    ASSUME NEW i, NEW config, Executable(Evaluate(i, config))
    PROVE  /\ config.loaded /\ i.action \in ActionType
           /\ ~(TierFor(config, i.action) = "high" /\ config.highNeedsHuman)
           /\ \A path \in i.required : ~Absent(i.facts, path)
           /\ \A ref \in i.referenced : ref \in DOMAIN i.resolved /\ i.resolved[ref] # "gone"
           /\ \A w \in i.work : ~Duplicates(i, w) /\ ~Exhausted(i, w)
           /\ \A c \in i.constraints : ConstraintRank(c, i) \in {0, 1}
           /\ i.action \in PolicyBearing => i.required # {} /\ i.constraints # {}
<1> DEFINE r == Evaluate(i, config)
           kept == {Coerce(c) : c \in Reports(i, config)}
<1>1. config.loaded
  BY DEF Executable, Evaluate, Refusal, Result
<1>2. i.action \in ActionType
  <2>1. SUFFICES ASSUME i.action \notin ActionType PROVE FALSE
    OBVIOUS
  <2>2. Evaluate(i, config) = Aggregate(Reports(i, config), i.action, config)
    BY <1>1 DEF Evaluate, Reports
  <2>3. Aggregate(Reports(i, config), i.action, config).decision = "needs_human"
    BY <2>1 DEF Aggregate, Result
  <2> QED BY <2>2, <2>3 DEF Executable
<1>3. /\ ~(TierFor(config, i.action) = "high" /\ config.highNeedsHuman)
      /\ \A d \in kept : d.state # "failed"
  <2> DEFINE failures == {c.name : c \in {d \in kept : d.state = "failed"}}
             warnings == {c.name : c \in {d \in kept : d.state = "warn"}}
             high     == TierFor(config, i.action) = "high" /\ config.highNeedsHuman
             decided  == Verdict(i.action, config, failures, warnings, high)
  <2>1. \E t, b : r = Result(decided[1], t, kept, b)
    BY <1>1, <1>2, Answer, Zenon
  <2>2. decided[1] \in {"execute", "execute_flagged"}
    BY <2>1 DEF Executable, Result
  <2>3. failures = {} /\ ~high
    BY <2>2 DEF Verdict
  <2> QED BY <2>3
<1>4. \A c \in Reports(i, config) : c.state # "failed"
  BY <1>3, ReportsAreReports, CoerceKeeps
<1> QED BY <1>1, <1>2, <1>3, <1>4, NothingFailed

\* What a person may approve was evaluated as well, and lacks nothing but that person: it is
\* of the high tier, and everything the gate asks of what it lets run holds of it
\* (assurance/blocking.py: approval "cannot manufacture a fact nobody has").
THEOREM OnlyRiskIsApproved ==
    ASSUME NEW i, NEW config, MayApproveAction(Evaluate(i, config)) = "none"
    PROVE  /\ config.loaded /\ i.action \in ActionType
           /\ TierFor(config, i.action) = "high"
           /\ \A path \in i.required : ~Absent(i.facts, path)
           /\ \A ref \in i.referenced : ref \in DOMAIN i.resolved /\ i.resolved[ref] # "gone"
           /\ \A w \in i.work : ~Duplicates(i, w) /\ ~Exhausted(i, w)
           /\ \A c \in i.constraints : ConstraintRank(c, i) \in {0, 1}
           /\ i.action \in PolicyBearing => i.required # {} /\ i.constraints # {}
<1> DEFINE r == Evaluate(i, config)
           kept == {Coerce(c) : c \in Reports(i, config)}
           risk == Coerce(ActionRisk(i, config))
<1>1. BlockingKinds(r) = {"risk"}
  BY DEF MayApproveAction, IsApprovable
<1>2. \A c \in r.checks : c.state = "failed" => KindFor(c.code) = "risk"
  BY <1>1 DEF BlockingKinds
<1>3. KindFor("CONFIG_MISSING") = "evidence" /\ KindFor("UNKNOWN_ACTION_TYPE") = "evidence"
  BY DEF KindFor, ConflictCode
<1>4. config.loaded
  <2>1. SUFFICES ASSUME ~config.loaded PROVE FALSE
    OBVIOUS
  <2>2. r.checks = {Failed(n, "CONFIG_MISSING") : n \in CheckName}
    BY <2>1 DEF Evaluate, Refusal, Result
  <2>3. Failed("action_risk", "CONFIG_MISSING") \in r.checks
    BY <2>2 DEF CheckName
  <2> QED BY <2>3, <1>2, <1>3 DEF Failed, Check
<1>5. i.action \in ActionType
  <2>1. SUFFICES ASSUME i.action \notin ActionType PROVE FALSE
    OBVIOUS
  <2>2. r = Aggregate(Reports(i, config), i.action, config)
    BY <1>4 DEF Evaluate, Reports
  <2>3. Check("action_risk", "failed", "UNKNOWN_ACTION_TYPE", "high") \in r.checks
    BY <2>1, <2>2 DEF Aggregate, Result
  <2> QED BY <2>3, <1>2, <1>3 DEF Check
<1>6. r.checks = kept
  <2> DEFINE tier     == TierFor(config, i.action)
             failures == {c.name : c \in {d \in kept : d.state = "failed"}}
             warnings == {c.name : c \in {d \in kept : d.state = "warn"}}
             decided  == Verdict(i.action, config, failures, warnings,
                                 tier = "high" /\ config.highNeedsHuman)
  <2>1. r = Result(decided[1], tier, kept, decided[2])
    BY <1>4, <1>5, Answer, Zenon
  <2> HIDE DEF decided, tier, kept, r
  <2> QED BY <2>1 DEF Result
<1>7. TierFor(config, i.action) = "high"
  <2>1. PICK c \in kept : KindFor(c.code) = "risk"
    BY <1>1, <1>6 DEF BlockingKinds
  <2>2. c.code = "HUMAN_APPROVAL_REQUIRED"
    BY <2>1 DEF KindFor
  <2> QED BY <2>2, RiskReport
<1>8. risk.state # "failed"
  <2>1. /\ ActionRisk(i, config).state = "passed"
        /\ ActionRisk(i, config).code \in {"HUMAN_APPROVAL_REQUIRED", "OK"}
        /\ IsReport(ActionRisk(i, config))
    BY DEF ActionRisk, Check, IsReport, CheckState
  <2> QED BY <2>1, CoerceKeeps DEF HardFail
<1>9. \A d \in kept : d.state # "failed"
  <2>1. \A d \in kept : d.state = "failed" => d.code = "HUMAN_APPROVAL_REQUIRED"
    BY <1>2, <1>6 DEF KindFor
  <2> QED BY <2>1, <1>8, RiskReport
<1>10. \A c \in Reports(i, config) : c.state # "failed"
  BY <1>9, ReportsAreReports, CoerceKeeps
<1> QED BY <1>4, <1>5, <1>7, <1>10, NothingFailed
=============================================================================
