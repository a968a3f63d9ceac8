---------------------------- MODULE PolicyProofs ----------------------------
(***************************************************************************)
(* What a person may approve of an entitlement, and what the records of    *)
(* decisions keep, for any packs, revisions of them, proposals and trips.  *)
(***************************************************************************)
EXTENDS PolicyRecord, GateProofs, FiniteSetTheorems

-----------------------------------------------------------------------------
(* The engine's answer                                                     *)

\* An answer that is not a refusal states a figure, and came past the evidence gate.
LEMMA EvaluatedPack ==
    ASSUME NEW facts, NEW pack, EvaluatePack(facts, pack).outcome # "needs_human"
    PROVE  /\ EvaluatePack(facts, pack).cash # NoCash
           /\ \A k \in Valued(pack, facts, "true") : Gap(pack, facts, k) = {}
<1> DEFINE fired == Valued(pack, facts, "true")
           open  == Valued(pack, facts, "unknown")
<1>1. \A reason, missing, undetermined :
         Blocked(reason, missing, undetermined).outcome = "needs_human"
  BY DEF Blocked, Entitlement
<1>2. /\ ~\E k \in fired \cup open : Gap(pack, facts, k) # {}
      /\ \E undetermined :
            EvaluatePack(facts, pack) = Build(pack, fired, facts, undetermined)
  BY <1>1, Zenon DEF EvaluatePack
<1>3. \A undetermined : Build(pack, fired, facts, undetermined).cash # {}
  BY DEF Build, Entitlement
<1> QED BY <1>2, <1>3 DEF NoCash

LEMMA CalculatedFigure ==
    ASSUME NEW facts, NEW pack, Calculate(facts, pack).outcome # "needs_human"
    PROVE  /\ Calculate(facts, pack).cash # NoCash
           /\ \A k \in Valued(pack, facts, "true") : Gap(pack, facts, k) = {}
<1>1. Calculate(facts, pack) = EvaluatePack(facts, pack)
  BY DEF Calculate, Entitlement
<1> QED BY <1>1, EvaluatedPack

\* A rule without a gap whose evidence somebody asserted has all of it.
LEMMA NoGapNoAbsence ==
    ASSUME NEW facts, NEW rule, NEW gaps, EvidenceGap(rule, facts, gaps) = {},
           IsEvidenceGated(rule), IsAsserted(rule, facts)
    PROVE  AbsentFacts(facts, rule.requires) = {}
BY DEF EvidenceGap

-----------------------------------------------------------------------------
(* What a person may approve                                               *)

\* The gate asks of the facts only whether they are there.
LEMMA GateSeesAbsence ==
    ASSUME NEW c, NEW d, NEW mode, NEW path
    PROVE  Absent(GateInputs(c, d, mode).facts, path) <=> IsAbsent(c.facts, path)
BY DEF GateInputs, Absent, IsAbsent

\* A constraint of the pack that is in force, not soft, is kept by what may be approved.
LEMMA ConstraintKept ==
    ASSUME NEW i, NEW field, NEW value,
           ConstraintRank(Constraint(field, "eq", value), i) \in {0, 1}
    PROVE  field \in DOMAIN i.payload /\ i.payload[field] = value
<1> DEFINE c == Constraint(field, "eq", value)
<1>1. /\ c.scope = {} /\ c.flag = "none" /\ c.op = "eq" /\ c.soft = FALSE
      /\ c.field = field /\ c.value = value
  BY DEF Constraint
<1>2. "eq" \in Operators
  BY DEF Operators
<1>3. field \in DOMAIN i.payload
  BY <1>1, <1>2 DEF ConstraintRank
<1>4. Holds("eq", i.payload[field], value)
  BY <1>1, <1>2, <1>3 DEF ConstraintRank
<1> QED BY <1>3, <1>4 DEF Holds

LEMMA RefusalKeepsOut ==
    ASSUME NEW i, NEW flag \in {"unsatisfiable", "pack_unavailable"}
    PROVE  ConstraintRank(Refuse(flag), i) \notin {0, 1}
<1>1. Refuse(flag).scope = {} /\ Refuse(flag).flag = flag
  BY DEF Refuse, Constraint
<1> QED BY <1>1 DEF ConstraintRank

\* One proposal and one pack: what may be approved shows the figure, or was refused for
\* facts that are there.
LEMMA ApprovedStands ==
    ASSUME NEW c, NEW d, MayBeApproved(c, d, Mode),
           \A r \in Fired(c.facts, d) : IsEvidenceGated(r) => IsAsserted(r, c.facts)
    PROVE  LET cited == Calculate(c.facts, LoadedPack(d))
           IN  /\ ~c.model /\ LoadRefusal(d, Mode) = "none"
               /\ ShowsTheFigure(c, d, cited) \/ RefusedUnsettled(c, cited)
<1> DEFINE i        == GateInputs(c, d, Mode)
           pack     == LoadedPack(d)
           cited    == Calculate(c.facts, pack)
           demanded == DeriveFactRequirements(c.facts, pack)
           demands  == GateRequirements(c.facts, d, Mode)
<1>1. /\ \A path \in i.required : ~Absent(i.facts, path)
      /\ \A k \in i.constraints : ConstraintRank(k, i) \in {0, 1}
  BY OnlyRiskIsApproved DEF MayBeApproved
<1>2. /\ i.required = demands.required /\ i.payload = c.payload
      /\ i.constraints = demands.constraints \cup AuthorshipConstraints(c)
  BY DEF GateInputs
<1>3. \A path \in demands.required : ~IsAbsent(c.facts, path)
  BY <1>1, <1>2, GateSeesAbsence
<1>4. \A flag \in {"unsatisfiable", "pack_unavailable"} : Refuse(flag) \notin i.constraints
  BY <1>1, RefusalKeepsOut
<1>5. LoadRefusal(d, Mode) = "none"
  <2>1. SUFFICES ASSUME LoadRefusal(d, Mode) # "none" PROVE FALSE
    OBVIOUS
  <2>2. \E flag \in {"unsatisfiable", "pack_unavailable"} : demands.constraints = {Refuse(flag)}
    BY <2>1 DEF GateRequirements
  <2> QED BY <2>2, <1>2, <1>4
<1>6. /\ demands.required = demanded \cup cited.missing
      /\ demands.constraints = DeriveConstraints(d, cited)
            \cup (IF Unnamed(cited, demanded) THEN {Refuse("unsatisfiable")} ELSE {})
  BY <1>5 DEF GateRequirements
<1>7. ~Unnamed(cited, demanded)
  BY <1>2, <1>4, <1>6
<1>8. "pack_version" \in DOMAIN c.payload
  <2>1. Constraint("pack_version", "eq", {PackVersion}) \in i.constraints
    BY <1>2, <1>6 DEF DeriveConstraints
  <2> QED BY <2>1, <1>1, <1>2, ConstraintKept
<1>9. ~c.model
  BY <1>2, <1>4, <1>8 DEF AuthorshipConstraints, SystemAuthored
<1>10. CASE cited.outcome = "needs_human"
  <2>1. cited.missing # {}
    BY <1>7, <1>10 DEF Unnamed
  <2>2. AbsentFacts(c.facts, cited.missing) = {}
    BY <1>3, <1>6 DEF AbsentFacts
  <2> QED BY <1>5, <1>9, <1>10, <2>1, <2>2 DEF RefusedUnsettled
<1>11. CASE cited.outcome # "needs_human"
  <2>1. cited.cash # NoCash /\ \A k \in Valued(pack, c.facts, "true") : Gap(pack, c.facts, k) = {}
    BY <1>11, CalculatedFigure
  <2>2. Constraint("cash_inr", "eq", cited.cash) \in i.constraints
    BY <1>2, <1>6, <2>1 DEF DeriveConstraints
  <2>3. c.payload["cash_inr"] = cited.cash
    BY <2>2, <1>1, <1>2, ConstraintKept
  <2>4. ASSUME NEW r \in Fired(c.facts, d), IsEvidenceGated(r)
        PROVE  AbsentFacts(c.facts, r.requires) = {}
    <3>1. PICK k \in DOMAIN pack.rules : pack.rules[k] = r
      BY DEF Fired, Range
    <3>2. k \in Valued(pack, c.facts, "true")
      BY <3>1 DEF Fired, Valued
    <3>3. EvidenceGap(r, c.facts, Unknowns(pack, c.facts, k)) = {}
      BY <2>1, <3>1, <3>2 DEF Gap
    <3> QED BY <2>4, <3>3, NoGapNoAbsence
  <2> QED BY <1>5, <1>9, <1>11, <2>1, <2>3, <2>4 DEF ShowsTheFigure
<1> QED BY <1>10, <1>11

\* The pack on disk is one of those that may lie there.
OnDisk == disk \in Revision

LEMMA DiskInit == Init => OnDisk
BY DEF Init, OnDisk

LEMMA DiskStep == OnDisk /\ [Next]_vars => OnDisk'
BY DEF OnDisk, Next, vars, Revise, IngestPack, ExtractClause, RecordResolution, RecordEvaluation

\* What a person may approve is no model's, is of a pack that may be loaded, and shows the
\* engine's figure with every exemption on complete evidence - or the engine refused it for
\* want of facts that are there and settle nothing; for any packs whose exemptions read
\* their evidence and any proposals (policy/requirements.py, assurance/authorship.py).
THEOREM ApprovableFiguredOrUnsettled ==
    EvidenceIsRead /\ Spec => []ApprovableIsFiguredOrUnsettled
<1>1. SUFFICES ASSUME EvidenceIsRead PROVE Spec => []ApprovableIsFiguredOrUnsettled
  OBVIOUS
<1>2. OnDisk => ApprovableIsFiguredOrUnsettled
  BY <1>1, ApprovedStands DEF OnDisk, EvidenceIsRead, ApprovableIsFiguredOrUnsettled
<1> QED BY DiskInit, DiskStep, <1>2, PTL DEF Spec

-----------------------------------------------------------------------------
(* Sources                                                                 *)

LEMMA VerifiedSource ==
    ASSUME NEW d \in Revision, VerifySourceDocument(d.source)
    PROVE  /\ d.source.archived /\ d.source.recorded \in Digests
           /\ d.source.document = d.source.recorded
BY PolicyRecordAssumption DEF VerifySourceDocument

\* Whatever the record calls approved, or archived, came with a source that was checked
\* (loader._reject_for_source_integrity, policy_ingest._content_hash_to_persist).
THEOREM ProvenanceChecked == Spec => []ProvenanceIsChecked
<1> DEFINE Inv == OnDisk /\ ProvenanceIsChecked
<1>1. Init => Inv
  BY DiskInit DEF Init, ProvenanceIsChecked
<1>2. Inv /\ [Next]_vars => Inv'
  <2> SUFFICES ASSUME Inv, [Next]_vars PROVE Inv'
    OBVIOUS
  <2>1. OnDisk'
    BY DiskStep
  <2>2. CASE IngestPack
    <3>1. packRow'.status = disk.status /\ packRow'.archived = disk.source.archived
          /\ packRow'.digest = disk.source.recorded /\ packRow'.document = disk.source.document
      BY <2>2 DEF IngestPack
    <3>2. ~RejectForSourceIntegrity(disk, Mode) /\ ~RefusesHash(disk.source)
      BY <2>2 DEF IngestPack, LoadRefusal, NotEligible, Unavailable
    <3>3. disk.status = "approved" \/ disk.source.archived => VerifySourceDocument(disk.source)
      BY <3>2 DEF RejectForSourceIntegrity, RefusesHash
    <3> QED BY <2>1, <3>1, <3>3, VerifiedSource DEF ProvenanceIsChecked, OnDisk
  <2>3. CASE UNCHANGED packRow
    BY <2>1, <2>3 DEF ProvenanceIsChecked
  <2> QED BY <2>2, <2>3 DEF Next, vars, Revise, ExtractClause, RecordResolution, RecordEvaluation
<1> QED BY <1>1, <1>2, PTL DEF Spec

\* Extracted text is never thrown away by an ingest of a pack that still cites the clause
\* (policy_ingest._sync_clauses).
THEOREM ExtractedTextKept == Spec => ExtractedTextStands
<1>1. ASSUME [Next]_vars, NEW c \in DOMAIN clauses, clauses[c] = "extracted", c \in ClauseRefs(disk)
      PROVE  c \in DOMAIN clauses' /\ clauses'[c] = "extracted"
  <2>1. CASE IngestPack
    BY <1>1, <2>1 DEF IngestPack, SyncClauses
  <2>2. ASSUME NEW b \in DOMAIN clauses, ExtractClause(b) PROVE clauses'[c] = "extracted" /\ c \in DOMAIN clauses'
    BY <1>1, <2>2 DEF ExtractClause
  <2>3. CASE UNCHANGED clauses
    BY <1>1, <2>3
  <2> QED BY <1>1, <2>1, <2>2, <2>3 DEF Next, vars, Revise, RecordResolution, RecordEvaluation
<1>2. [Next]_vars => [\A c \in DOMAIN clauses :
                          clauses[c] = "extracted" /\ c \in ClauseRefs(disk) =>
                              c \in DOMAIN clauses' /\ clauses'[c] = "extracted"]_vars
  BY <1>1
<1> QED BY <1>2, PTL DEF Spec, ExtractedTextStands

-----------------------------------------------------------------------------
(* The records of decisions                                                *)

\* What a record pins: a pack that was accepted, and what followed from it.
RecordInv ==
    /\ OnDisk
    /\ resolutions \in Seq(Range(resolutions))
    /\ \A k \in DOMAIN resolutions :
          LET r == resolutions[k]
          IN  /\ r.by \in Revision /\ LoadRefusal(r.by, Mode) = "none"
              /\ r.hash = ResolverHash(r.trip, r.by)
    /\ \A e \in evaluations :
          /\ e.resolution \in DOMAIN resolutions
          /\ LET r == resolutions[e.resolution]
             IN  /\ e.result = CitedEntitlement(r.trip, LoadedPack(r.by))
                 /\ \E x \in Range(LoadedPack(r.by).rules) : x.id = e.rule
          /\ e.rule \in DOMAIN ruleRows

LEMMA RecordInit == Init => RecordInv
BY DiskInit DEF Init, RecordInv, Range

LEMMA RecordStep == RecordInv /\ [Next]_vars => RecordInv'
<1> SUFFICES ASSUME RecordInv, [Next]_vars PROVE RecordInv'
  OBVIOUS
<1>0. OnDisk'
  BY DiskStep DEF RecordInv
<1>1. CASE IngestPack
  <2>1. \A e \in evaluations : e.rule \in {r.id : r \in Range(disk.rules)}
    BY <1>1 DEF IngestPack, PruneBlocked
  <2>2. DOMAIN ruleRows' = {r.id : r \in Range(disk.rules)}
    BY <1>1 DEF IngestPack, SyncRules
  <2> QED BY <1>0, <1>1, <2>1, <2>2 DEF IngestPack, RecordInv
<1>2. ASSUME NEW t \in Trips, RecordResolution(t) PROVE RecordInv'
  <2> DEFINE new == [trip |-> t, by |-> disk, outcome |-> Resolved(t, disk),
                     hash |-> ResolverHash(t, disk)]
  <2>1. /\ resolutions' = Append(resolutions, new) /\ LoadRefusal(disk, Mode) = "none"
        /\ disk' = disk /\ evaluations' = evaluations /\ ruleRows' = ruleRows
    BY <1>2 DEF RecordResolution
  <2>2. resolutions \in Seq(Range(resolutions)) /\ Len(resolutions) \in Nat
        /\ DOMAIN resolutions = 1..Len(resolutions)
    BY DEF RecordInv
  <2>3. /\ DOMAIN resolutions' = 1..(Len(resolutions) + 1)
        /\ resolutions'[Len(resolutions) + 1] = new
        /\ \A k \in DOMAIN resolutions : k \in DOMAIN resolutions' /\ resolutions'[k] = resolutions[k]
    BY <2>1, <2>2
  <2>4. resolutions' \in Seq(Range(resolutions'))
    BY <2>1, <2>2, <2>3 DEF Range
  <2>5. ASSUME NEW k \in DOMAIN resolutions'
        PROVE  LET r == resolutions'[k]
               IN  /\ r.by \in Revision /\ LoadRefusal(r.by, Mode) = "none"
                   /\ r.hash = ResolverHash(r.trip, r.by)
    <3>1. CASE k \in DOMAIN resolutions
      BY <3>1, <2>3 DEF RecordInv
    <3>2. CASE k = Len(resolutions) + 1
      BY <3>2, <2>1, <2>3 DEF RecordInv, OnDisk
    <3> QED BY <3>1, <3>2, <2>2, <2>3
  <2> QED BY <1>0, <2>1, <2>3, <2>4, <2>5 DEF RecordInv
<1>3. ASSUME NEW k \in DOMAIN resolutions, RecordEvaluation(k) PROVE RecordInv'
  <2> DEFINE trip  == resolutions[k].trip
             by    == resolutions[k].by
             cited == CitedEntitlement(trip, LoadedPack(by))
             fired == RulesFired(cited, trip, by)
  <2>1. /\ \A r \in fired : r.id \in DOMAIN ruleRows
        /\ evaluations' = evaluations \cup
              {[resolution |-> k, rule |-> r.id, result |-> cited] : r \in fired}
        /\ disk' = disk /\ resolutions' = resolutions /\ ruleRows' = ruleRows
    BY <1>3 DEF RecordEvaluation
  <2>2. \A r \in fired : r \in Range(LoadedPack(by).rules)
    BY DEF RulesFired, Fired
  <2> HIDE DEF cited, fired
  <2>3. ASSUME NEW e \in evaluations'
        PROVE  /\ e.resolution \in DOMAIN resolutions
               /\ LET r == resolutions[e.resolution]
                  IN  /\ e.result = CitedEntitlement(r.trip, LoadedPack(r.by))
                      /\ \E x \in Range(LoadedPack(r.by).rules) : x.id = e.rule
               /\ e.rule \in DOMAIN ruleRows
    <3>1. CASE e \in evaluations
      BY <3>1 DEF RecordInv
    <3>2. ASSUME NEW r \in fired, e = [resolution |-> k, rule |-> r.id, result |-> cited]
          PROVE  /\ e.resolution = k /\ e.rule = r.id /\ e.rule \in DOMAIN ruleRows
                 /\ e.result = CitedEntitlement(trip, LoadedPack(by))
                 /\ r \in Range(LoadedPack(by).rules)
      BY <2>1, <2>2, <3>2 DEF cited
    <3> QED BY <2>1, <3>1, <3>2
  <2> QED BY <1>0, <2>1, <2>3 DEF RecordInv
<1>4. CASE UNCHANGED <<resolutions, evaluations, ruleRows>>
  BY <1>0, <1>4 DEF RecordInv
<1> QED BY <1>1, <1>2, <1>3, <1>4 DEF Next, vars, Revise, ExtractClause

\* A pack that was accepted names each of its rules once.
LEMMA RulesAreNamedOnce ==
    ASSUME NEW d \in Revision, LoadRefusal(d, Mode) = "none",
           NEW q \in Range(d.rules), NEW r \in Range(d.rules), q.id = r.id
    PROVE  q = r
<1> DEFINE ids == {x.id : x \in Range(d.rules)}
           n   == Len(d.rules)
           f   == [k \in 1..n |-> d.rules[k].id]
<1>1. d.rules \in Seq(Range(d.rules))
  BY PolicyRecordAssumption
<1>2. n \in Nat /\ DOMAIN d.rules = 1..n
  BY <1>1
<1>3. Cardinality(ids) = n
  BY DEF LoadRefusal, Unavailable
<1>4. f \in Surjection(1..n, ids)
  BY <1>2 DEF Surjection, Range
<1>5. IsFiniteSet(1..n) /\ Cardinality(1..n) = n
  BY <1>2, FS_Interval
<1>6. f \in Injection(1..n, ids)
  BY <1>3, <1>4, <1>5, FS_Surjection
<1>7. PICK j \in 1..n, k \in 1..n : q = d.rules[j] /\ r = d.rules[k]
  BY <1>2 DEF Range
<1>8. j = k
  BY <1>6, <1>7 DEF Injection, IsInjective
<1> QED BY <1>7, <1>8

\* A recorded evaluation resolves to a rule row over every later revision, and no rule that
\* may not be evaluated has produced one (policy_ingest._sync_rules, loader.evaluable_rules).
THEOREM RecordsExplained == Spec => []EvaluationsExplained
<1>1. ASSUME RecordInv PROVE EvaluationsExplained
  <2>1. ASSUME NEW e \in evaluations,
               NEW r \in Range(resolutions[e.resolution].by.rules), r.id = e.rule
        PROVE  ~r.excluded /\ ~r.outOfScope
    <3> DEFINE by == resolutions[e.resolution].by
    <3>1. by \in Revision /\ LoadRefusal(by, Mode) = "none"
      BY <1>1 DEF RecordInv
    <3>2. PICK q \in Range(LoadedPack(by).rules) : q.id = e.rule
      BY <1>1 DEF RecordInv
    <3>3. q \in Range(by.rules) /\ ~q.excluded /\ ~q.outOfScope
      BY <3>2 DEF LoadedPack, EvaluableRules, Restrict, Range
    <3> QED BY <2>1, <3>1, <3>2, <3>3, RulesAreNamedOnce
  <2> QED BY <1>1, <2>1 DEF EvaluationsExplained, RecordInv
<1> QED BY <1>1, RecordInit, RecordStep, PTL DEF Spec

\* The engine reads of a pack its rules and whether it settles conflicts.
LEMMA EngineReads ==
    ASSUME NEW facts, NEW a, NEW b, a.rules = b.rules, a.conflictRules = b.conflictRules
    PROVE  EvaluatePack(facts, a) = EvaluatePack(facts, b)
<1>1. \A value : Valued(a, facts, value) = Valued(b, facts, value)
  BY DEF Valued
<1>2. \A k : Gap(a, facts, k) = Gap(b, facts, k) /\ Unknowns(a, facts, k) = Unknowns(b, facts, k)
  BY DEF Gap, Unknowns
<1>3. \A value : Lacking(a, facts, value) = Lacking(b, facts, value)
  BY <1>1, <1>2 DEF Lacking
<1>4. FirstIncomplete(a, facts) = FirstIncomplete(b, facts)
  BY <1>3 DEF FirstIncomplete
<1>5. \A fired, undetermined : Build(a, fired, facts, undetermined) = Build(b, fired, facts, undetermined)
  BY DEF Build
<1> DEFINE undetermined(p) == {p.rules[k].id : k \in Valued(p, facts, "unknown")}
           decided(p)  == {k \in Valued(p, facts, "true") : StatesCash(p.rules[k])}
           openCash(p) == {k \in Valued(p, facts, "unknown") : StatesCash(p.rules[k])}
           inputs(p)   == UNION {AbsentFacts(facts, FormulaInputs(p.rules[k])) : k \in decided(p)}
           open(p)     == UNION {Unknowns(p, facts, k) : k \in openCash(p)}
           amounts(p)  == {ComputeCash(p.rules[k].cash, facts) : k \in decided(p)}
           gaps(p)     == \E k \in Valued(p, facts, "true") \cup Valued(p, facts, "unknown") :
                             Gap(p, facts, k) # {}
           defers(p)   == \E k \in Valued(p, facts, "true") : p.rules[k].defers
<1>6. undetermined(a) = undetermined(b) /\ decided(a) = decided(b) /\ openCash(a) = openCash(b)
  BY <1>1
<1>7. inputs(a) = inputs(b) /\ open(a) = open(b) /\ amounts(a) = amounts(b)
  <2> HIDE DEF decided, openCash
  <2> QED BY <1>2, <1>6
<1>8. (gaps(a) <=> gaps(b)) /\ (defers(a) <=> defers(b))
  BY <1>1, <1>2
<1>9. \A p \in {a, b} : EvaluatePack(facts, p) =
         IF Valued(p, facts, "raise") # {}
         THEN Blocked("UNKNOWN_RULE_OPERATOR", {}, {})
         ELSE IF gaps(p)
         THEN Blocked("MISSING_REQUIRED_FACT", Gap(p, facts, FirstIncomplete(p, facts)),
                      undetermined(p))
         ELSE IF defers(p) THEN Blocked("DEFERS_TO_OTHER_JURISDICTION", {}, undetermined(p))
         ELSE IF decided(p) = {} /\ openCash(p) # {}
         THEN Blocked("MISSING_REQUIRED_FACT", open(p), undetermined(p))
         ELSE IF inputs(p) # {} THEN Blocked("MISSING_REQUIRED_FACT", inputs(p), undetermined(p))
         ELSE IF Cardinality(amounts(p)) > 1 /\ ~p.conflictRules
         THEN Blocked("CONFLICTING_ENTITLEMENTS", {}, undetermined(p))
         ELSE Build(p, Valued(p, facts, "true"), facts, undetermined(p))
  BY Zenon DEF EvaluatePack
<1> HIDE DEF undetermined, decided, openCash, inputs, open, amounts, gaps, defers
<1> QED BY <1>1, <1>2, <1>4, <1>5, <1>6, <1>7, <1>8, <1>9

\* The choice of a pack reads its conditions and whether it settles conflicts.
LEMMA SelectReads ==
    ASSUME NEW facts, NEW a, NEW b, a.required = b.required, a.applies = b.applies,
           a.conflictRules = b.conflictRules
    PROVE  Select(facts, {a}) = Select(facts, {b})
<1>1. Applicability(facts, a) = Applicability(facts, b)
  BY DEF Applicability
<1> DEFINE status(p) == Applicability(facts, p)
           governing(p) == {q \in {p} : status(q).status = "applicable"}
<1>2. \A p : UNION {status(q).missing : q \in {p}} = status(p).missing
  OBVIOUS
<1>3. \A p : governing(p) = {} <=> status(p).status # "applicable"
  OBVIOUS
<1>4. \A p : Select(facts, {p}) =
         IF status(p).status = "undetermined"
         THEN [proceed |-> FALSE, missing |-> status(p).missing,
               reasons |-> {"UNDETERMINED_APPLICABILITY"} \cup
                           (IF status(p).missing = {} THEN {} ELSE {"MISSING_REQUIRED_FACT"})]
         ELSE IF status(p).status # "applicable"
         THEN [proceed |-> FALSE, missing |-> {}, reasons |-> {"NO_APPLICABLE_PACK"}]
         ELSE [proceed |-> TRUE, missing |-> {}, reasons |-> {}]
  <2> TAKE p
  <2>1. ~(Cardinality(governing(p)) > 1)
    <3>1. CASE status(p).status = "applicable"
      <4>1. governing(p) = {p}
        BY <3>1
      <4>2. Cardinality({p}) = 1
        BY FS_Singleton
      <4> HIDE DEF governing
      <4> QED BY <4>1, <4>2
    <3>2. CASE status(p).status # "applicable"
      <4>1. governing(p) = {}
        BY <3>2
      <4>2. Cardinality({}) = 0
        BY FS_EmptySet
      <4> HIDE DEF governing
      <4> QED BY <4>1, <4>2
    <3> QED BY <3>1, <3>2
  <2> HIDE DEF status
  <2> QED BY <1>2, <1>3, <2>1 DEF Select, status
<1> QED BY <1>1, <1>4

\* Packs of one hash are one pack to the engine.
LEMMA HashDecides ==
    ASSUME NEW a, NEW b, PackHash(a) = PackHash(b), NEW facts
    PROVE  Calculate(facts, LoadedPack(a)) = Calculate(facts, LoadedPack(b))
<1> DEFINE p == LoadedPack(a)
           q == LoadedPack(b)
<1>1. /\ a.rules = b.rules /\ a.conflictRules = b.conflictRules
      /\ a.required = b.required /\ a.applies = b.applies
  BY DEF PackHash
<1>2. /\ p.rules = q.rules /\ p.conflictRules = q.conflictRules
      /\ p.required = q.required /\ p.applies = q.applies
  BY <1>1 DEF LoadedPack
<1> HIDE DEF p, q
<1>3. EvaluatePack(facts, p) = EvaluatePack(facts, q) /\ Select(facts, {p}) = Select(facts, {q})
  BY <1>2, EngineReads, SelectReads
<1>4. Calculate(facts, p) = Calculate(facts, q)
  BY <1>3 DEF Calculate
<1> QED BY <1>4 DEF p, q

\* What the hash leaves out does not change what a pack that may be loaded is called: one
\* that says it is approved is not loaded without its source.
LEMMA HashStanding ==
    ASSUME NEW a, NEW b, PackHash(a) = PackHash(b), LoadRefusal(a, Mode) = "none",
           LoadRefusal(b, Mode) = "none"
    PROVE  MayBeCalledCurrentLaw(PackIdentity(a)) = MayBeCalledCurrentLaw(PackIdentity(b))
<1>1. a.status = b.status /\ a.eligible = b.eligible
  BY DEF PackHash
<1>2. ~RejectForSourceIntegrity(a, Mode) /\ ~RejectForSourceIntegrity(b, Mode)
  BY DEF LoadRefusal, NotEligible, Unavailable
<1>3. \A d \in {a, b} : d.status = "approved" => PackIdentity(d).verified = VerifySourceDocument(d.source)
                                             /\ VerifySourceDocument(d.source)
  BY <1>2 DEF RejectForSourceIntegrity, PackIdentity
<1>4. \A d \in {a, b} : PackIdentity(d).status = d.status /\ PackIdentity(d).eligible = d.eligible
  BY DEF PackIdentity
<1>5. \A d \in {a, b} : MayBeCalledCurrentLaw(PackIdentity(d)) = (d.status = "approved" /\ d.eligible)
  BY <1>3, <1>4 DEF MayBeCalledCurrentLaw
<1> QED BY <1>1, <1>5

\* Decisions that share a hash replay alike, whatever was revised between them: the same
\* entitlement and the same standing as current law, though the record of the source, which
\* both carry, is not in the hash (policy_identity.canonical_resolution,
\* loader.compute_pack_hash, loader._reject_for_source_integrity).
THEOREM HashesReplay == Spec => []ReplaysAlike
<1>1. ASSUME RecordInv PROVE ReplaysAlike
  <2>1. ASSUME NEW e \in evaluations, NEW f \in evaluations,
               resolutions[e.resolution].hash = resolutions[f.resolution].hash,
               resolutions[e.resolution].trip = resolutions[f.resolution].trip
        PROVE  /\ e.result.entitlement = f.result.entitlement
               /\ MayBeCalledCurrentLaw(e.result.pack) = MayBeCalledCurrentLaw(f.result.pack)
    <3> DEFINE r == resolutions[e.resolution]
               q == resolutions[f.resolution]
    <3>1. PackHash(r.by) = PackHash(q.by)
      <4>1. ResolverHash(r.trip, r.by) = ResolverHash(q.trip, q.by)
        BY <1>1, <2>1 DEF RecordInv
      <4> QED BY <4>1 DEF ResolverHash
    <3>2. LoadRefusal(r.by, Mode) = "none" /\ LoadRefusal(q.by, Mode) = "none"
      BY <1>1 DEF RecordInv
    <3>3. /\ e.result = CitedEntitlement(r.trip, LoadedPack(r.by))
          /\ f.result = CitedEntitlement(q.trip, LoadedPack(q.by))
      BY <1>1 DEF RecordInv
    <3>4. /\ e.result.entitlement = Calculate(r.trip, LoadedPack(r.by))
          /\ f.result.entitlement = Calculate(q.trip, LoadedPack(q.by))
          /\ e.result.pack = PackIdentity(r.by) /\ f.result.pack = PackIdentity(q.by)
      BY <3>3 DEF CitedEntitlement, LoadedPack
    <3> HIDE DEF r, q
    <3>5. Calculate(r.trip, LoadedPack(r.by)) = Calculate(r.trip, LoadedPack(q.by))
      BY <3>1, HashDecides
    <3>6. MayBeCalledCurrentLaw(PackIdentity(r.by)) = MayBeCalledCurrentLaw(PackIdentity(q.by))
      BY <3>1, <3>2, HashStanding
    <3>7. r.trip = q.trip
      BY <2>1 DEF r, q
    <3> QED BY <3>4, <3>5, <3>6, <3>7
  <2> QED BY <2>1 DEF ReplaysAlike
<1> QED BY <1>1, RecordInit, RecordStep, PTL DEF Spec
=============================================================================
