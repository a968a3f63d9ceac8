----------------------------- MODULE PolicyGate -----------------------------
(***************************************************************************)
(* What the gate must demand of an action: the facts and the constraints   *)
(* policy/requirements.py derives from the pack in force, those            *)
(* assurance/authorship.py adds for a model's proposal, and the gate's     *)
(* answer to both.  A case is what engine._gate_inputs gathers:            *)
(*   [facts, payload, model, corroborated]                                 *)
(* with whether a model wrote the proposal and its citations are known.    *)
(* The currency goes with the cash; the checks that do not read the policy *)
(* have nothing to object to.                                              *)
(***************************************************************************)
EXTENDS PackLoader, Gate

CONSTANTS
    Case,           \* the entitlement proposals considered
    PackVersion     \* the version of the pack the mode resolves to

Bearing == "evaluate_entitlements"

ASSUME PolicyGateAssumption == Bearing \in PolicyBearing

\* assurance.v2.yaml, of this action: high, never softened.
Config == [loaded |-> TRUE, tiers |-> [a \in {Bearing} |-> "high"], warns |-> {}, limits |-> << >>,
           highNeedsHuman |-> TRUE]

Constraint(field, op, value) ==
    [field |-> field, op |-> op, value |-> value, flag |-> "none", soft |-> FALSE, scope |-> {}]

\* A constraint no payload satisfies.
Refuse(flag) == [Constraint("none", "required", {}) EXCEPT !.flag = flag]

-----------------------------------------------------------------------------
(* requirements.py                                                         *)

\* Rules that the facts do not rule out; one that raises stays in.
CandidateRules(facts, pack) ==
    {r \in Range(pack.rules) : EvaluateCondition(r.when, facts).value # "false"}

\* A rule that states a figure, an exemption once it is asserted, an effect without
\* declared evidence: each is asked what it reads.
Demanded(rule, facts) ==
    LET reads == ConditionFactPaths(rule.when)
    IN  (IF StatesCash(rule) THEN reads \cup FormulaInputs(rule) ELSE {})
        \cup (IF IsEvidenceGated(rule) /\ IsAsserted(rule, facts)
              THEN reads \cup rule.requires ELSE {})
        \cup (IF rule.effect /\ ~IsEvidenceGated(rule) THEN reads ELSE {})

DeriveFactRequirements(facts, pack) ==
    pack.required \cup UNION {Demanded(r, facts) : r \in CandidateRules(facts, pack)}

DeriveConstraints(disk, cited) ==
    {Constraint("pack_version", "eq", {PackVersion}),
     Constraint("cited_rule_ids", "disjoint_from", {r.id : r \in ExcludedRules(disk.rules)})}
    \cup (IF MayBeCalledCurrentLaw(PackIdentity(disk)) THEN {}
          ELSE {Constraint("presented_as_current_law", "eq", {0})})
    \cup (IF cited.cash = NoCash THEN {} ELSE {Constraint("cash_inr", "eq", cited.cash)})

\* Mutant of Unnamed: a refusal is left to the facts it lacks.
UnnamedNever(cited, demanded) == FALSE

\* A refusal the demanded facts do not express needs a constraint of its own.
Unnamed(cited, demanded) ==
    cited.outcome = "needs_human" /\ cited.missing \cap demanded = {}

\* gate_requirements: never raises; a pack that cannot be loaded refuses by constraint.
GateRequirements(facts, disk, mode) ==
    LET refusal  == LoadRefusal(disk, mode)
        pack     == LoadedPack(disk)
        cited    == Calculate(facts, pack)
        demanded == DeriveFactRequirements(facts, pack)
    IN  IF refusal # "none"
        THEN [required |-> {},
              constraints |-> {Refuse(IF refusal = Unavailable THEN "pack_unavailable"
                                      ELSE "unsatisfiable")}]
        ELSE [required |-> demanded \cup cited.missing,
              constraints |-> DeriveConstraints(disk, cited)
                  \cup (IF Unnamed(cited, demanded) THEN {Refuse("unsatisfiable")} ELSE {})]

-----------------------------------------------------------------------------
(* authorship.py                                                           *)

\* proposal_authority.v1.yaml: what only the system may say.
SystemAuthored == {"cash_inr", "cited_rule_ids", "pack_version", "presented_as_current_law"}

AuthorshipConstraints(c) ==
    IF c.model /\ (DOMAIN c.payload \cap SystemAuthored # {} \/ ~c.corroborated)
    THEN {Refuse("unsatisfiable")} ELSE {}

-----------------------------------------------------------------------------
(* The gate's answer                                                       *)

\* engine._gate_inputs: of the facts, the gate only asks which there are.
GateInputs(c, disk, mode) ==
    LET demands == GateRequirements(c.facts, disk, mode)
    IN  [action |-> Bearing, required |-> demands.required,
         facts |-> [p \in DOMAIN c.facts |-> IF c.facts[p] = Null THEN "null" ELSE "yes"],
         constraints |-> demands.constraints \cup AuthorshipConstraints(c),
         payload |-> c.payload, sources |-> {}, referenced |-> {}, resolved |-> << >>,
         targets |-> {}, work |-> {}]

\* Left to a person's decision alone.
MayBeApproved(c, disk, mode) ==
    MayApproveAction(Evaluate(GateInputs(c, disk, mode), Config)) = "none"
=============================================================================
