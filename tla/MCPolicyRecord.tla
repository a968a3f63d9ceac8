--------------------------- MODULE MCPolicyRecord ---------------------------
(***************************************************************************)
(* Seven packs a directory may come to hold, and two trips.  The charter   *)
(* states cash for a cancellation (clause c1) and for a denied boarding    *)
(* (clause c2), lifts the first for an external cause once its evidence is *)
(* in, and defers to other law for a foreign carrier; the others reprice,  *)
(* drop, exclude, approve, source or mis-source it.                        *)
(***************************************************************************)
EXTENDS PolicyRecord

Cancelled == Num(1)
Denied == Num(2)

\* The leaves that compare a fact.
Reads(path, op, value) == [node |-> "leaf", fact |-> path, op |-> op, value |-> value,
                           from |-> 0, to |-> 0]

WhenOneOf(events) == <<Reads("event.type", "eq", events)>>

When(event) == WhenOneOf({event})

Stated(id, event, ref, amount) ==
    [id |-> id, when |-> When(event), type |-> "cash", limit |-> FALSE,
     cash |-> [kind |-> "stated", amount |-> amount, cap |-> -1, percentage |-> 0],
     requires |-> {}, human |-> FALSE, defers |-> FALSE, suppresses |-> {}, effect |-> FALSE,
     status |-> "informational", excluded |-> FALSE, outOfScope |-> FALSE, refs |-> {ref}]

Cancel == Stated("cancel", Cancelled, "c1", 5)
Deny == Stated("deny", Denied, "c2", 7)

Pending == [archived |-> FALSE, recorded |-> "pending", document |-> "none"]

\* The exemption, once its evidence is in, and the carrier other law governs.
Exempt ==
    [Stated("exempt", Cancelled, "c2", 0) EXCEPT
        !.when = When(Cancelled) \o <<Reads("cause.measures", "confirmed", {Null}),
                                   [node |-> "all", of |-> <<1, 2>>]>>,
        !.type = "none", !.cash = [@ EXCEPT !.kind = "none"],
        !.requires = {"cause.external", "cause.measures"}, !.human = TRUE,
        !.suppresses = {"cash"}, !.effect = TRUE]

Foreign ==
    [Stated("foreign", Cancelled, "c2", 0) EXCEPT
        !.when = <<Reads("carrier.foreign", "eq", {Yes})>>, !.type = "none",
        !.cash = [@ EXCEPT !.kind = "none"], !.defers = TRUE, !.effect = TRUE]

Others == <<Deny, Exempt, Foreign>>

Charter ==
    [id |-> "charter", files |-> "complete", declares |-> TRUE,
     status |-> "official_guidance_dated", eligible |-> FALSE, fixture |-> FALSE,
     wellFormed |-> TRUE, rules |-> <<Cancel>> \o Others,
     review |-> [approval |-> FALSE, reviewer |-> FALSE], source |-> Pending,
     required |-> {"event.type"}, applies |-> When(Cancelled), conflictRules |-> FALSE]

Widened == [Charter EXCEPT !.applies = WhenOneOf({Cancelled, Denied})]
Dropped == [Charter EXCEPT !.rules = Others]

\* Another price, and the rule on denied boarding superseded.
Repriced ==
    [Widened EXCEPT !.rules =
        <<[Cancel EXCEPT !.cash = [@ EXCEPT !.amount = 6]],
          [Deny EXCEPT !.status = "superseded_suspected", !.excluded = TRUE], Exempt, Foreign>>]

Signed == [Widened EXCEPT !.status = "approved", !.eligible = TRUE,
                          !.review = [approval |-> TRUE, reviewer |-> TRUE]]
Sourced == [Signed EXCEPT !.source = [archived |-> TRUE, recorded |-> "h1", document |-> "h1"]]

\* Two that differ in the record of their source alone.
DatedSourced == [Widened EXCEPT !.source = Sourced.source]
DatedSwapped == [DatedSourced EXCEPT !.source.document = "h2"]

MCRevision == {Charter, Repriced, Dropped, Signed, Sourced, DatedSourced, DatedSwapped}

Trip(event) == [p \in {"event.type"} |-> event]

\* Facts a proposal may come with: some absent, one there that settles nothing.
Gathered ==
    {g \in [{"event.type", "cause.measures", "cause.external", "carrier.foreign"} ->
                {Null, Cancelled, Denied, Yes, Fact("bool", 0)}] :
        /\ g["event.type"] \in {Null, Cancelled, Denied}
        /\ g["cause.measures"] \in {Null, Yes, Fact("bool", 0)}
        /\ g["cause.external"] \in {Null, Yes}
        /\ g["carrier.foreign"] \in {Null, Yes, Fact("bool", 0)}}

Payload(version, law, cash, cited) ==
    [f \in {"pack_version", "presented_as_current_law", "cash_inr", "cited_rule_ids"} |->
        CASE f = "pack_version" -> {version}
          [] f = "presented_as_current_law" -> {law}
          [] f = "cash_inr" -> {cash}
          [] f = "cited_rule_ids" -> cited]

Payloads == {<< >>} \cup
    {Payload(v, l, n, cited) : v \in {1, 2}, l \in {0, 1}, n \in {0, 5, 6, 7},
                               cited \in {{}, {"deny"}}}

\* What corroborates a proposal is asked of a model's.
MCCase == {c \in [facts : Gathered, payload : Payloads, model : BOOLEAN,
                  corroborated : BOOLEAN] : c.model \/ c.corroborated}

ASSUME MCAssumption == EvidenceIsRead

MCTrips == {Trip(Cancelled), Trip(Denied)}
=============================================================================
