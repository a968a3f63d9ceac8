-------------------------- MODULE PassengerImpact --------------------------
(***************************************************************************)
(* The ranking of affected passengers: a sum of the weights of the facts   *)
(* recorded about a booking, its band, and the order it gives.  A ruleset  *)
(* is a record of the weights of the facts, of the tiers and of the bands' *)
(* lower bounds.                                                           *)
(***************************************************************************)
EXTENDS Integers, FiniteSets, FiniteSetsExt

DefaultRuleset ==
    [facts |-> [broken_connection |-> 30, overnight_exposure |-> 25,
                special_needs_recorded |-> 20, unreachable_contact |-> 15,
                journey_incomplete |-> 10],
     tiers |-> [platinum |-> 10, gold |-> 7, silver |-> 4, standard |-> 0],
     bands |-> [critical |-> 70, high |-> 45, elevated |-> 20]]

\* load_ruleset: a row replaces the defaults whole, and only if it weighs facts.
Ruleset(row) ==
    IF "facts" \in DOMAIN row /\ row.facts # <<>> THEN row ELSE DefaultRuleset

Weight(weights, name) == IF name \in DOMAIN weights THEN weights[name] ELSE 0

\* A fact that weighs nothing is not named as a factor.
Factors(facts, tier, rules) ==
    {f \in facts : Weight(rules.facts, f) # 0}
        \cup (IF Weight(rules.tiers, tier) = 0 THEN {} ELSE {"recorded_tier"})

\* Mutant of PriorityIndex: the sum is not held to a hundred.
PriorityIndexOpen(facts, tier, rules) ==
    LET Points(f) == Weight(rules.facts, f)
    IN  MapThenSumSet(Points, facts) + Weight(rules.tiers, tier)

PriorityIndex(facts, tier, rules) ==
    LET Points(f) == Weight(rules.facts, f)
    IN  Min({100, Max({0, MapThenSumSet(Points, facts) + Weight(rules.tiers, tier)})})

\* _band_for: a band the ruleset does not name starts above every index.
BandFor(index, bands) ==
    LET Reaches(name) == name \in DOMAIN bands /\ index >= bands[name]
    IN  IF Reaches("critical") THEN "critical"
        ELSE IF Reaches("high") THEN "high"
        ELSE IF Reaches("elevated") THEN "elevated" ELSE "routine"

\* score_passenger
Score(booking, facts, tier, rules) ==
    LET index == PriorityIndex(facts, tier, rules)
    IN  [booking |-> booking, index |-> index, band |-> BandFor(index, rules.bands),
         factors |-> Factors(facts, tier, rules)]

\* The order of assess_passenger_impact: the higher index first; among equals the code goes
\* by passenger and booking, for which one id stands here.
RankedBefore(a, b) ==
    \/ a.index > b.index
    \/ a.index = b.index /\ a.booking < b.booking

\* PassengerCohort: the members of a band and how often each factor occurs in it.
Cohort(priorities, band) ==
    LET members == {p \in priorities : p.band = band}
        Having(f) == {p \in members : f \in p.factors}
    IN  [bookings |-> {p.booking : p \in members},
         counts   |-> [f \in UNION {p.factors : p \in members} |-> Cardinality(Having(f))],
         lowest   |-> Min({p.index : p \in members}),
         highest  |-> Max({p.index : p \in members})]

Cohorts(priorities) ==
    [band \in {p.band : p \in priorities} |-> Cohort(priorities, band)]

\* load_group_impacts: the recorded rows, cut to the first `limit` of the order.
Listed(priorities, limit) ==
    {p \in priorities : Cardinality({q \in priorities : RankedBefore(q, p)}) < limit}
=============================================================================
