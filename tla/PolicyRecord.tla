---------------------------- MODULE PolicyRecord ----------------------------
(***************************************************************************)
(* The policy tables: a projection of the pack on disk, and the decisions  *)
(* recorded against it.  Packs are revised on disk by people; ingestion    *)
(* mirrors what load_pack accepts; a resolution and an evaluation pin what *)
(* was decided.  Every operation is one transaction of its caller.         *)
(***************************************************************************)
EXTENDS PolicyGate

CONSTANTS
    Revision,       \* the packs that may lie at the one configured path
    Mode,           \* POLICY_MODE
    Trips,          \* the trip contexts that are evaluated
    MaxDecisions    \* bound: the resolutions recorded

Digests == {"h1", "h2"}

\* A pack's rules are in the order of its file; a recorded digest is one of those that mean
\* none, or one a document may have.
ASSUME PolicyRecordAssumption ==
    /\ Mode \in PolicyMode
    /\ \A d \in Revision :
          /\ d.rules \in Seq(Range(d.rules))
          /\ d.source.recorded \in {"none", "pending", "garbled"} \cup Digests

VARIABLES
    disk,           \* the pack on disk
    packRow,        \* policy_pack with its source document, or NoRow
    ruleRows,       \* policy_rule: rule_key -> what the row says of it
    clauses,        \* policy_clause: clause_ref -> reference_only or extracted
    resolutions,    \* policy_applicability, in order
    evaluations     \* entitlement_evaluation: one per rule that fired

vars == <<disk, packRow, ruleRows, clauses, resolutions, evaluations>>

rows == <<packRow, ruleRows, clauses>>

NoRow == [status |-> "none"]

Init ==
    /\ disk \in Revision
    /\ packRow = NoRow
    /\ ruleRows = << >>
    /\ clauses = << >>
    /\ resolutions = << >>
    /\ evaluations = {}

\* The pack directory is revised.
Revise(d) ==
    /\ disk' = d
    /\ UNCHANGED <<packRow, ruleRows, clauses, resolutions, evaluations>>

-----------------------------------------------------------------------------
(* Ingestion                                                               *)

\* _content_hash_to_persist: archived and not verified is refused.
RefusesHash(source) == source.archived /\ ~VerifySourceDocument(source)

ClauseRefs(d) == UNION {r.refs : r \in Range(d.rules)}

\* Mutant of SyncClauses: a re-ingest starts from placeholders.
SyncClausesAfresh(d, now) == [c \in ClauseRefs(d) |-> "reference_only"]

\* Cited clauses are kept or added as references; the others are pruned.
SyncClauses(d, now) ==
    [c \in ClauseRefs(d) |-> IF c \in DOMAIN now THEN now[c] ELSE "reference_only"]

RuleRow(rule) ==
    [when |-> rule.when, type |-> rule.type, cash |-> rule.cash, refs |-> rule.refs,
     status |-> rule.status, excluded |-> rule.excluded]

SyncRules(d) ==
    [k \in {r.id : r \in Range(d.rules)} |->
        RuleRow(CHOOSE r \in Range(d.rules) : r.id = k)]

\* Mutant of PruneBlocked: evaluations go with their rule.
PruneBlockedNever(d) == FALSE

\* A pruned rule that an evaluation names: the foreign key refuses the delete.
PruneBlocked(d) == \E e \in evaluations : e.rule \notin {r.id : r \in Range(d.rules)}

\* ingest_active_pack in its caller's transaction: whole, or not at all.
IngestPack ==
    /\ LoadRefusal(disk, Mode) = "none"
    /\ ~disk.fixture
    /\ ~RefusesHash(disk.source)
    /\ ~PruneBlocked(disk)
    /\ packRow' = [status |-> disk.status, eligible |-> disk.eligible,
                   hash |-> PackHash(disk), archived |-> disk.source.archived,
                   digest |-> disk.source.recorded, document |-> disk.source.document]
    /\ ruleRows' = SyncRules(disk)
    /\ clauses' = SyncClauses(disk, clauses)
    /\ UNCHANGED <<disk, resolutions, evaluations>>

\* Clause text is extracted from the archived document.
ExtractClause(c) ==
    /\ clauses' = [clauses EXCEPT ![c] = "extracted"]
    /\ UNCHANGED <<disk, packRow, ruleRows, resolutions, evaluations>>

-----------------------------------------------------------------------------
(* Decision records                                                        *)

Resolved(trip, d) == Select(trip, {LoadedPack(d)})

\* canonical_resolution: the outcome, the pack's hash and the facts it consulted.
ResolverHash(trip, d) ==
    <<Resolved(trip, d), PackHash(d),
      Restrict(trip, {p \in d.required \cap DOMAIN trip : trip[p] # Null})>>

\* _pack_row: a decision is pinned to a row.
Ingested == packRow # NoRow

\* A row per candidate; there is one pack.
RecordResolution(trip) ==
    /\ Len(resolutions) < MaxDecisions
    /\ LoadRefusal(disk, Mode) = "none"
    /\ Ingested
    /\ resolutions' = Append(resolutions,
            [trip |-> trip, by |-> disk, outcome |-> Resolved(trip, disk),
             hash |-> ResolverHash(trip, disk)])
    /\ UNCHANGED <<disk, packRow, ruleRows, clauses, evaluations>>

Fired(trip, d) ==
    {r \in Range(LoadedPack(d).rules) : EvaluateCondition(r.when, trip).value = "true"}

\* A refusal names no rules.
RulesFired(cited, trip, d) ==
    IF cited.entitlement.outcome = "needs_human" THEN {} ELSE Fired(trip, d)

\* The rules that fired, one row each; one that is not ingested refuses them all.
RecordEvaluation(k) ==
    LET trip  == resolutions[k].trip
        by    == resolutions[k].by
        cited == CitedEntitlement(trip, LoadedPack(by))
        fired == RulesFired(cited, trip, by)
    IN  /\ resolutions[k].outcome.proceed
        /\ \A r \in fired : r.id \in DOMAIN ruleRows
        /\ evaluations' = evaluations \cup
                {[resolution |-> k, rule |-> r.id, result |-> cited] : r \in fired}
        /\ UNCHANGED <<disk, packRow, ruleRows, clauses, resolutions>>

Next ==
    \/ \E d \in Revision : Revise(d)
    \/ IngestPack
    \/ \E c \in DOMAIN clauses : ExtractClause(c)
    \/ \E t \in Trips : RecordResolution(t)
    \/ \E k \in DOMAIN resolutions : RecordEvaluation(k)

Spec == Init /\ [][Next]_vars

-----------------------------------------------------------------------------
(* Properties                                                              *)

\* The engine's own figure, with every exemption that fired on complete evidence.
ShowsTheFigure(c, d, cited) ==
    /\ cited.outcome # "needs_human"
    /\ cited.cash # NoCash /\ c.payload["cash_inr"] = cited.cash
    /\ \A r \in Fired(c.facts, d) :
          IsEvidenceGated(r) => AbsentFacts(c.facts, r.requires) = {}

\* The engine refused to state a figure for want of facts that are there and settle nothing.
RefusedUnsettled(c, cited) ==
    /\ cited.outcome = "needs_human"
    /\ cited.missing # {} /\ AbsentFacts(c.facts, cited.missing) = {}

\* What the packs' exemptions have in common: a rule that asks for evidence reads some of it
\* (the conditions of exemption.* in policy_packs/*/rules.yaml), so it does not fire while
\* nobody has asserted any.
EvidenceIsRead ==
    \A d \in Revision, c \in Case :
        \A r \in Fired(c.facts, d) : IsEvidenceGated(r) => IsAsserted(r, c.facts)

\* What a person may approve is no model's, is of a pack that may be loaded, and shows the
\* engine's figure - but for one exception, the refusals of RefusedUnsettled, which reach
\* the gate as facts it finds (requirements.gate_requirements).  The answer reads the pack
\* alone, so it is asked of each before anything is ingested.
ApprovableIsFiguredOrUnsettled ==
    packRow = NoRow =>
        \A c \in Case : MayBeApproved(c, disk, Mode) =>
            /\ ~c.model
            /\ LoadRefusal(disk, Mode) = "none"
            /\ LET cited == Calculate(c.facts, LoadedPack(disk))
               IN  ShowsTheFigure(c, disk, cited) \/ RefusedUnsettled(c, cited)

\* What the engine refused nobody may approve: without a constraint of its own "the gate
\* could find every demanded fact present and authorise an action the policy layer had
\* already refused" (requirements.gate_requirements).
RefusedIsNotApprovable ==
    packRow = NoRow =>
        \A c \in Case : MayBeApproved(c, disk, Mode) =>
            Calculate(c.facts, LoadedPack(disk)).outcome # "needs_human"

\* Whatever the record calls approved, or archived, was ingested from a document checked
\* against the digest the row stores, in any mode (loader._reject_for_source_integrity,
\* policy_ingest._content_hash_to_persist).
ProvenanceIsChecked ==
    packRow # NoRow /\ (packRow.status = "approved" \/ packRow.archived) =>
        packRow.archived /\ packRow.digest \in Digests /\ packRow.document = packRow.digest

\* A recorded evaluation resolves to a rule row, over every later revision of the pack, and
\* no rule that may not be evaluated has produced one.
EvaluationsExplained ==
    \A e \in evaluations :
        /\ e.rule \in DOMAIN ruleRows
        /\ \A r \in Range(resolutions[e.resolution].by.rules) :
              r.id = e.rule => ~r.excluded /\ ~r.outOfScope

\* Decisions that share a hash replay alike: the same trip under the same hash was given
\* the same entitlement and the same standing as current law, though the pack was revised
\* in between.  That its source was checked is in the record and not in the hash; the two
\* records may differ in it, and what keeps it from changing the standing is that a pack
\* called approved is not loaded without (policy_identity.canonical_resolution,
\* loader._reject_for_source_integrity).
ReplaysAlike ==
    \A e, f \in evaluations :
        LET r == resolutions[e.resolution]
            q == resolutions[f.resolution]
        IN  r.trip = q.trip /\ r.hash = q.hash =>
                /\ e.result.entitlement = f.result.entitlement
                /\ MayBeCalledCurrentLaw(e.result.pack) = MayBeCalledCurrentLaw(f.result.pack)

\* Extracted text is never thrown away by an ingest of a pack that still cites the clause.
ExtractedTextStands ==
    [][\A c \in DOMAIN clauses :
          clauses[c] = "extracted" /\ c \in ClauseRefs(disk) =>
              c \in DOMAIN clauses' /\ clauses'[c] = "extracted"]_vars
=============================================================================
