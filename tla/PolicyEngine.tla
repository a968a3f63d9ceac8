---------------------------- MODULE PolicyEngine ----------------------------
(***************************************************************************)
(* What a reviewed policy pack says of a trip: which pack governs, which   *)
(* of its rules fire on facts that may be absent, and the entitlement and  *)
(* the cash that follow, or the refusal to state any.                      *)
(*                                                                         *)
(* A fact is a tagged value, Null included; facts are a function from      *)
(* paths.  A condition is a tree, given as the sequence of its nodes with  *)
(* every node after its children and the root at the end: none, all, any   *)
(* and not with the positions (of) of their children, malformed, or a leaf *)
(* [fact, op, value, from, to].  value is the set a leaf compares with,    *)
(* empty when its value_from leads nowhere.                                *)
(***************************************************************************)
EXTENDS Integers, Sequences, FiniteSets, FiniteSetsExt, SequencesExt, Functions

Fact(kind, n) == [kind |-> kind, n |-> n]

Null == Fact("null", 0)

Yes == Fact("bool", 1)

Num(n) == Fact("num", n)

IsAbsent(facts, path) == path \notin DOMAIN facts \/ facts[path] = Null

AbsentFacts(facts, paths) == {p \in paths : IsAbsent(facts, p)}

-----------------------------------------------------------------------------
(* Conditions, in three values                                             *)

Tri(value, unknown) == [value |-> value, unknown |-> unknown]

Truth(b) == IF b THEN "true" ELSE "false"

\* Numbers compare with numbers (a truth value is one), texts with texts.
Comparable(a, b) == \/ {a.kind, b.kind} \subseteq {"num", "bool"}
                    \/ a.kind = b.kind

Same(a, b) == Comparable(a, b) /\ a.n = b.n

\* A window that wraps midnight holds outside its gap.
WithinLocalWindow(a, from, to) ==
    IF a.kind # "time" THEN "unknown"
    ELSE IF from <= to THEN Truth(from <= a.n /\ a.n <= to)
    ELSE Truth(a.n >= from \/ a.n <= to)

ConditionOperators == {"within_local_window", "present", "absent", "confirmed", "eq", "ne",
                       "lt", "lte", "gt", "gte", "in", "not_in"}

\* Only a literal yes confirms; a no is not yet a confirmation of anything.  An order
\* between things that have none is unknown.
ApplyOperator(leaf, a) ==
    LET e == CHOOSE v \in leaf.value : TRUE
    IN  CASE leaf.op = "within_local_window" -> WithinLocalWindow(a, leaf.from, leaf.to)
          [] leaf.op = "present" -> "true"
          [] leaf.op = "confirmed" -> IF a = Yes THEN "true" ELSE "unknown"
          [] leaf.op \in {"eq", "in"} -> Truth(\E v \in leaf.value : Same(a, v))
          [] leaf.op \in {"ne", "not_in"} -> Truth(\A v \in leaf.value : ~Same(a, v))
          [] leaf.op \in {"lt", "lte", "gt", "gte"} ->
                IF ~Comparable(a, e) THEN "unknown"
                ELSE CASE leaf.op = "lt"  -> Truth(a.n < e.n)
                       [] leaf.op = "lte" -> Truth(a.n <= e.n)
                       [] leaf.op = "gt"  -> Truth(a.n > e.n)
                       [] leaf.op = "gte" -> Truth(a.n >= e.n)
          [] leaf.op \notin ConditionOperators -> "raise"

EvaluateLeaf(leaf, facts) ==
    IF leaf.op = "absent" THEN Tri(Truth(IsAbsent(facts, leaf.fact)), {})
    ELSE IF IsAbsent(facts, leaf.fact) THEN Tri("unknown", {leaf.fact})
    ELSE IF leaf.value = {} THEN Tri("raise", {})
    ELSE LET v == ApplyOperator(leaf, facts[leaf.fact])
         IN  Tri(v, IF v = "unknown" THEN {leaf.fact} ELSE {})

\* The children in order: the first that settles it, else unknown if one is, else the
\* value that none of them contradicted.
Combine(results, stop) ==
    LET stops   == {k \in DOMAIN results : results[k].value \in {stop, "raise"}}
        unknown == {k \in DOMAIN results : results[k].value = "unknown"}
    IN  IF stops # {} THEN Tri(results[Min(stops)].value, {})
        ELSE IF unknown # {} THEN Tri("unknown", UNION {results[k].unknown : k \in unknown})
        ELSE Tri(IF stop = "true" THEN "false" ELSE "true", {})

Root(condition) == condition[Len(condition)]

EvaluateCondition(condition, facts) ==
    LET result[k \in DOMAIN condition] ==
          LET node == condition[k]
              children == [j \in DOMAIN node.of |-> result[node.of[j]]]
          IN  CASE node.node = "none" -> Tri("true", {})
                [] node.node = "malformed" -> Tri("raise", {})
                [] node.node = "leaf" -> EvaluateLeaf(node, facts)
                [] node.node = "all" -> Combine(children, "false")
                [] node.node = "any" -> Combine(children, "true")
                [] node.node = "not" -> CASE children[1].value = "true"  -> Tri("false", {})
                                          [] children[1].value = "false" -> Tri("true", {})
                                          [] OTHER -> children[1]
    IN  result[Len(condition)]

ConditionFactPaths(condition) == {leaf.fact : leaf \in {n \in Range(condition) : n.node = "leaf"}}

-----------------------------------------------------------------------------
(* Cash                                                                    *)

BasicFare == "fare.one_way_basic_fare_inr"

FuelCharge == "fare.airline_fuel_charge_inr"

\* rule.cash: [kind, amount, cap, percentage]; a cap of -1 is no cap.  Kind none is a
\* rule that states no cash; a limit by itself is none.
StatesCash(rule) == rule.cash.kind # "none"

FormulaInputs(rule) ==
    IF rule.cash.kind \in {"least_of", "percentage"} THEN {BasicFare, FuelCharge} ELSE {}

Least(S) == CHOOSE n \in S : \A m \in S : n <= m

\* Python's round: half to even.
RoundDiv(a, b) ==
    LET q == a \div b
        r == 2 * (a % b)
    IN  IF r > b \/ (r = b /\ q % 2 = 1) THEN q + 1 ELSE q

ComputeCash(cash, facts) ==
    IF cash.kind = "stated" THEN cash.amount
    ELSE LET base == facts[BasicFare].n + facts[FuelCharge].n
             raw  == IF cash.kind = "percentage" THEN RoundDiv(base * cash.percentage, 100)
                     ELSE base
         IN  IF cash.cap = -1 THEN raw ELSE Least({cash.cap, raw})

-----------------------------------------------------------------------------
(* Evaluating a pack's rules                                               *)

\* rule: [id, when, type, limit, cash, requires, human, defers, suppresses, effect].
\* human: a missing required fact asks for a person.
IsEvidenceGated(rule) == rule.requires # {} /\ rule.human

IsAsserted(rule, facts) == \E p \in rule.requires : ~IsAbsent(facts, p)

\* The cash of an entitlement: its one figure, or none.
NoCash == {}

\* What is said of the trip; of the pack says CitedEntitlement.
Entitlement(outcome, cash, owed, reasons, missing, undetermined) ==
    [outcome |-> outcome, cash |-> cash, owed |-> owed, reasons |-> reasons,
     missing |-> missing, undetermined |-> undetermined]

\* needs_human, with no figure: a zero would read as nothing owed.
Blocked(reason, missing, undetermined) ==
    Entitlement("needs_human", NoCash, {}, {reason}, missing, undetermined)

\* What an evidence-gated rule lacks once somebody asserted it.
EvidenceGap(rule, facts, gaps) ==
    LET absent      == AbsentFacts(facts, rule.requires)
        unconfirmed == (gaps \cap rule.requires) \ absent
    IN  IF IsEvidenceGated(rule) /\ IsAsserted(rule, facts) /\ absent \cup unconfirmed # {}
        THEN gaps \cup absent ELSE {}

\* owed, not_owed, or a limit, which is no payment.
Record(rule, facts) ==
    [type |-> rule.type,
     outcome |-> IF StatesCash(rule)
                 THEN (IF ComputeCash(rule.cash, facts) > 0 THEN "owed" ELSE "not_owed")
                 ELSE IF rule.limit THEN "limit" ELSE "owed"]

\* pack: [identity, rules, conflictRules, required, applies]; rules are those that may be
\* evaluated, a function from their places in the file.
Valued(pack, facts, value) ==
    {k \in DOMAIN pack.rules : EvaluateCondition(pack.rules[k].when, facts).value = value}

Unknowns(pack, facts, k) == EvaluateCondition(pack.rules[k].when, facts).unknown

Gap(pack, facts, k) == EvidenceGap(pack.rules[k], facts, Unknowns(pack, facts, k))

\* The rules that lack evidence, the fired before the open: the one the loop stops at.
Lacking(pack, facts, value) == {k \in Valued(pack, facts, value) : Gap(pack, facts, k) # {}}

FirstIncomplete(pack, facts) ==
    IF Lacking(pack, facts, "true") # {} THEN Min(Lacking(pack, facts, "true"))
    ELSE Min(Lacking(pack, facts, "unknown"))

\* With every gate passed: the entitlements of the fired rules, less those suppressed.
Build(pack, fired, facts, undetermined) ==
    LET decided    == {k \in fired : StatesCash(pack.rules[k])}
        suppressed == UNION {pack.rules[k].suppresses : k \in fired}
        cash       == IF decided = {} \/ "cash" \in suppressed THEN 0
                      ELSE ComputeCash(pack.rules[Min(decided)].cash, facts)
        owed       == {Record(pack.rules[k], facts) :
                          k \in {j \in fired : pack.rules[j].type # "none"}}
    IN  Entitlement(IF suppressed = {} THEN "evaluated" ELSE "suppressed", {cash},
                    {o \in owed : o.type \notin suppressed}, {}, {}, undetermined)

\* The gates in their order.
EvaluatePack(facts, pack) ==
    LET fired        == Valued(pack, facts, "true")
        open         == Valued(pack, facts, "unknown")
        undetermined == {pack.rules[k].id : k \in open}
        decided      == {k \in fired : StatesCash(pack.rules[k])}
        openCash     == {k \in open : StatesCash(pack.rules[k])}
        inputs       == UNION {AbsentFacts(facts, FormulaInputs(pack.rules[k])) : k \in decided}
    IN  IF Valued(pack, facts, "raise") # {}
        THEN Blocked("UNKNOWN_RULE_OPERATOR", {}, {})
        ELSE IF \E k \in fired \cup open : Gap(pack, facts, k) # {}
        THEN Blocked("MISSING_REQUIRED_FACT", Gap(pack, facts, FirstIncomplete(pack, facts)),
                     undetermined)
        ELSE IF \E k \in fired : pack.rules[k].defers
        THEN Blocked("DEFERS_TO_OTHER_JURISDICTION", {}, undetermined)
        ELSE IF decided = {} /\ openCash # {}
        THEN Blocked("MISSING_REQUIRED_FACT", UNION {Unknowns(pack, facts, k) : k \in openCash},
                     undetermined)
        ELSE IF inputs # {} THEN Blocked("MISSING_REQUIRED_FACT", inputs, undetermined)
        ELSE IF Cardinality({ComputeCash(pack.rules[k].cash, facts) : k \in decided}) > 1
                /\ ~pack.conflictRules
        THEN Blocked("CONFLICTING_ENTITLEMENTS", {}, undetermined)
        ELSE Build(pack, fired, facts, undetermined)

-----------------------------------------------------------------------------
(* Which pack governs                                                      *)

Applies(r) ==
    CASE r.value = "true"  -> [status |-> "applicable", missing |-> {}]
      [] r.value = "false" -> [status |-> "not_applicable", missing |-> {}]
      [] OTHER -> [status |-> "undetermined", missing |-> r.unknown]

Applicability(facts, pack) ==
    LET absent == AbsentFacts(facts, pack.required)
    IN  IF absent # {} THEN [status |-> "undetermined", missing |-> absent]
        ELSE IF Root(pack.applies).node = "none" THEN [status |-> "undetermined", missing |-> {}]
        ELSE Applies(EvaluateCondition(pack.applies, facts))

\* Undetermined, then nothing applicable, then an overlap nobody reviewed: each is a
\* person's to settle.
Select(facts, packs) ==
    LET status(p)  == Applicability(facts, p)
        governing  == {p \in packs : status(p).status = "applicable"}
        missing    == UNION {status(p).missing : p \in packs}
    IN  IF \E p \in packs : status(p).status = "undetermined"
        THEN [proceed |-> FALSE, missing |-> missing,
              reasons |-> {"UNDETERMINED_APPLICABILITY"} \cup
                          (IF missing = {} THEN {} ELSE {"MISSING_REQUIRED_FACT"})]
        ELSE IF governing = {}
        THEN [proceed |-> FALSE, missing |-> {}, reasons |-> {"NO_APPLICABLE_PACK"}]
        ELSE IF Cardinality(governing) > 1 /\ \E p \in governing : ~p.conflictRules
        THEN [proceed |-> FALSE, missing |-> {}, reasons |-> {"UNRESOLVED_PACK_OVERLAP"}]
        ELSE [proceed |-> TRUE, missing |-> {}, reasons |-> {}]

\* The entitlement of a trip under the loaded pack.
Calculate(facts, pack) ==
    LET s == Select(facts, {pack})
    IN  IF s.proceed THEN EvaluatePack(facts, pack)
        ELSE Entitlement("needs_human", NoCash, {},
                         s.reasons \cup {"APPLICABILITY_UNRESOLVED"}, s.missing, {})

\* What is recorded of a decision: the entitlement and the identity of the pack.
CitedEntitlement(facts, pack) ==
    [entitlement |-> Calculate(facts, pack), pack |-> pack.identity]

-----------------------------------------------------------------------------
(* Cohorts                                                                 *)

\* cohort: [id, facts, passengers].  The total is withheld while one is unresolved.
CohortExposure(cohorts, pack) ==
    LET cited(c)   == Calculate(c.facts, pack)
        unresolved == {c.id : c \in {d \in Range(cohorts) : cited(d).outcome = "needs_human"}}
    IN  [unresolved |-> unresolved,
         total |-> IF unresolved # {} THEN NoCash
                   ELSE {FoldLeft(LAMBDA acc, c : acc + Least(cited(c).cash) * c.passengers,
                                  0, cohorts)}]
=============================================================================
