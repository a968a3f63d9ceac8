----------------------------- MODULE PackLoader -----------------------------
(***************************************************************************)
(* Which policy pack may be loaded.  A pack on disk is                     *)
(*   [files, declares, status, eligible, fixture, wellFormed, rules,       *)
(*    review, source, required, applies, conflictRules]                    *)
(* and its hash is of everything of it but the record of its source.       *)
(***************************************************************************)
EXTENDS PolicyEngine

PolicyPackStatus == {"draft", "official_guidance_dated", "approved", "retired"}

PolicyMode == {"demo", "charter", "verified"}

AllowedStatuses == [demo     |-> {"draft", "official_guidance_dated"},
                    charter  |-> {"official_guidance_dated", "approved"},
                    verified |-> {"approved"}]

IsComputational(rule) == rule.type # "none" \/ rule.effect

\* Each under its place in the file.
EvaluableRules(rules) ==
    Restrict(rules, {k \in DOMAIN rules : /\ ~rules[k].excluded /\ ~rules[k].outOfScope
                                          /\ IsComputational(rules[k])})

ExcludedRules(rules) == {r \in Range(rules) : r.excluded}

\* source: [archived, recorded, document]; recorded is none, pending, garbled or a digest,
\* document is what local_path holds, none when it names nothing.
VerifySourceDocument(source) ==
    /\ source.archived
    /\ source.recorded \notin {"none", "pending", "garbled"}
    /\ source.document = source.recorded

Unavailable == "POLICY_PACK_UNAVAILABLE"

NotEligible == "PACK_NOT_VERIFIED_ELIGIBLE"

RejectForMode(disk, mode) ==
    IF mode = "verified"
    THEN (IF disk.status # "approved" \/ ~disk.eligible THEN NotEligible ELSE "none")
    ELSE IF disk.status \notin AllowedStatuses[mode] THEN Unavailable ELSE "none"

\* A rule does not out-rank its pack, what is superseded is out, and what is approved has
\* its evidence.
ValidateRules(disk) ==
    \/ disk.status # "approved" /\ \E r \in Range(disk.rules) : r.status = "approved"
    \/ \E r \in Range(disk.rules) : r.status = "superseded_suspected" /\ ~r.excluded
    \/ /\ disk.status = "approved"
       /\ \/ ~disk.review.approval \/ ~disk.review.reviewer
          \/ \E r \in Range(disk.rules) : IsComputational(r) /\ r.refs = {}

\* Mutant of RejectForSourceIntegrity: only the mode asks for the source.
RejectForSourceIntegrityByMode(disk, mode) ==
    ~VerifySourceDocument(disk.source) /\ mode = "verified"

RejectForSourceIntegrity(disk, mode) ==
    ~VerifySourceDocument(disk.source) /\ (mode = "verified" \/ disk.status = "approved")

\* The first refusal of load_pack, or none.
LoadRefusal(disk, mode) ==
    IF disk.files # "complete" \/ ~disk.declares \/ disk.status \notin PolicyPackStatus
    THEN Unavailable
    ELSE IF RejectForMode(disk, mode) # "none" THEN RejectForMode(disk, mode)
    ELSE IF \/ mode = "demo" /\ ~disk.fixture
            \/ ~disk.wellFormed \/ disk.rules = << >>
            \/ Cardinality({r.id : r \in Range(disk.rules)}) # Len(disk.rules)
            \/ ValidateRules(disk)
    THEN Unavailable
    ELSE IF RejectForSourceIntegrity(disk, mode) THEN NotEligible ELSE "none"

\* compute_pack_hash: the source's record is not part of what a pack means.
PackHash(disk) == <<disk.id, disk.status, disk.eligible, disk.fixture, disk.rules,
                    disk.review, disk.required, disk.applies, disk.conflictRules>>

\* _pack_identity: what the engine's answers say of the pack.  Whether its source was checked
\* is the one field the hash leaves out.
PackIdentity(disk) ==
    [id |-> disk.id, hash |-> PackHash(disk), status |-> disk.status,
     eligible |-> disk.eligible, verified |-> VerifySourceDocument(disk.source)]

\* The pack the engine evaluates.
LoadedPack(disk) ==
    [identity |-> PackIdentity(disk), rules |-> EvaluableRules(disk.rules),
     conflictRules |-> disk.conflictRules, required |-> disk.required, applies |-> disk.applies]

MayBeCalledCurrentLaw(identity) ==
    identity.status = "approved" /\ identity.eligible /\ identity.verified
=============================================================================
