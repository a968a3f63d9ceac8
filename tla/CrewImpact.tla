----------------------------- MODULE CrewImpact -----------------------------
(***************************************************************************)
(* Which crew rotations a set of delayed flights puts at risk, and why.    *)
(* A roster is a sequence of rotations in the order of their references;   *)
(* a rotation is the sequence of its legs, each with a flight, a role and  *)
(* the turnaround it needs.  Attribution goes by reference and gives every *)
(* rotation one mechanism; the expansion then follows legs that break, one *)
(* wave at a time, to a depth the deployment sets.                         *)
(***************************************************************************)
EXTENDS Integers, Sequences, FiniteSets, FiniteSetsExt

LegsOn(legs, flights) == {k \in DOMAIN legs : legs[k].flight \in flights}

\* The leg after k-1 cannot be reached in time.  Only the leg the delay came in on is
\* late: a leg whose connection held runs to schedule and absorbs it.
Missed(legs, k, entry, schedule, delay) ==
    LET before == legs[k - 1]
        late   == IF k - 1 = entry THEN delay[before.flight] ELSE 0
    IN  schedule[before.flight].arrival + late + before.minimum
            > schedule[legs[k].flight].departure

\* _first_infeasible_downstream_leg, as the set of the legs it could return.
Infeasible(legs, entry, schedule, delay) ==
    {k \in DOMAIN legs : k > entry /\ Missed(legs, k, entry, schedule, delay)}

\* The leg an impact names: the one that breaks, else the one that is delayed.
AffectedLeg(legs, entry, schedule, delay) ==
    LET broken == Infeasible(legs, entry, schedule, delay)
    IN  IF broken = {} THEN entry ELSE Min(broken)

\* The earlier rotations that already carry the flight p came in on: `carried`.
Carriers(roster, p, flights) ==
    LET Entry(q) == roster[q][Min(LegsOn(roster[q], flights))]
    IN  {q \in 1..(p - 1) : /\ LegsOn(roster[q], flights) # {}
                            /\ Entry(q).role # "positioning"
                            /\ Entry(q).flight = Entry(p).flight}

\* The precedence of attribute_pairing_impacts, first match wins.
Mechanism(roster, p, flights, schedule, delay) ==
    LET entry == Min(LegsOn(roster[p], flights))
    IN  IF roster[p][entry].role = "positioning" THEN "positioning"
        ELSE IF Infeasible(roster[p], entry, schedule, delay) # {} THEN "onward_duty"
        ELSE IF Carriers(roster, p, flights) # {} THEN "second_pairing"
        ELSE "operating"

\* Crew who only ride on a delayed flight and still make their duty are not at risk.
Impact(roster, p, flights, schedule, delay) ==
    LET legs  == roster[p]
        entry == Min(LegsOn(legs, flights))
        mechanism == Mechanism(roster, p, flights, schedule, delay)
    IN  [pairing |-> p, source |-> legs[entry].flight, mechanism |-> mechanism,
         leg     |-> AffectedLeg(legs, entry, schedule, delay),
         atRisk  |-> \/ mechanism # "positioning"
                     \/ Infeasible(legs, entry, schedule, delay) # {},
         covered |-> {legs[k].flight : k \in LegsOn(legs, flights)},
         depth   |-> 1]

AttributeImpacts(roster, flights, schedule, delay) ==
    {Impact(roster, p, flights, schedule, delay) :
        p \in {q \in DOMAIN roster : LegsOn(roster[q], flights) # {}}}

AtRisk(impacts) == {i \in impacts : i.atRisk}

Pairings(impacts) == {i.pairing : i \in impacts}

-----------------------------------------------------------------------------
(* expand_crew_cascade                                                     *)

\* _broken_downstream_flights.  It resolves the leg that breaks by its flight number.
Frontier(roster, impacts, seen, schedule, loaded) ==
    LET broken == {roster[i.pairing][i.leg].flight :
                     i \in {j \in AtRisk(impacts) :
                              j.mechanism \in {"onward_duty", "positioning",
                                               "downstream_flight"}}}
    IN  {f \in loaded \ seen : \E g \in broken : schedule[g].number = schedule[f].number}

\* _downstream_impact: reached through flight f, which nobody delayed.
Downstream(roster, p, f, depth, schedule, delay) ==
    [pairing |-> p, source |-> f, mechanism |-> "downstream_flight",
     leg     |-> AffectedLeg(roster[p], Min(LegsOn(roster[p], {f})), schedule, delay),
     atRisk  |-> TRUE, covered |-> {f}, depth |-> depth]

\* The state of the loop after the wave at a depth.
ExpandTo(roster, flights, schedule, delay, loaded, limit) ==
    LET direct == AttributeImpacts(roster, flights, schedule, delay)
        First  == [found |-> {}, attributed |-> Pairings(direct), covered |-> flights,
                   frontier |-> Frontier(roster, direct, flights, schedule, loaded)]
        After(s, d) ==
            LET covered == s.covered \cup s.frontier
                wave == UNION {{Downstream(roster, p, f, d, schedule, delay) :
                                  p \in {q \in DOMAIN roster \ s.attributed :
                                           LegsOn(roster[q], {f}) # {}}} : f \in s.frontier}
            IN  [found      |-> s.found \cup wave, covered |-> covered,
                 attributed |-> s.attributed \cup Pairings(wave),
                 frontier   |-> Frontier(roster, wave, covered, schedule, loaded)]
        wave[d \in 1..limit] ==
            IF d = 1 THEN First
            ELSE IF wave[d - 1].frontier = {} THEN wave[d - 1] ELSE After(wave[d - 1], d)
    IN  wave[limit]

\* CrewCascade: a limit of one is the direct set alone, and says nothing of truncation.
ExpandCrewCascade(roster, flights, schedule, delay, loaded, limit) ==
    LET bound == Max({1, limit})
        last  == ExpandTo(roster, flights, schedule, delay, loaded, bound)
    IN  [direct     |-> AttributeImpacts(roster, flights, schedule, delay),
         downstream |-> last.found,
         truncated  |-> bound > 1 /\ last.frontier # {},
         newly      |-> last.covered \ flights]

-----------------------------------------------------------------------------
\* The walk over pairing_leg in SQL: every rotation with a leg on these flights, and how
\* many of its legs are reached from the first of them.
PairingsInSql(roster, flights) ==
    {[pairing |-> p, reached |-> Len(roster[p]) - Min(LegsOn(roster[p], flights)) + 1] :
        p \in {q \in DOMAIN roster : LegsOn(roster[q], flights) # {}}}

\* explain_identity: the carriers and the rotations that come on top of them.
Identity(impacts) ==
    LET carriers == {i \in AtRisk(impacts) : i.mechanism \in {"operating", "onward_duty"}}
        extras == {i \in AtRisk(impacts) : i.mechanism \in {"second_pairing", "positioning"}}
    IN  [flights |-> UNION {i.covered : i \in carriers}, carriers |-> Cardinality(carriers),
         extras  |-> Cardinality(extras)]
=============================================================================
