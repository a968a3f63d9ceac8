------------------------------ MODULE Recovery ------------------------------
(***************************************************************************)
(* The recovery services at work on one disruption group: what they read,  *)
(* what they leave behind, and the figures composed from it.  A service    *)
(* runs for the incident of one flight; its findings are the payload of an *)
(* action row.  Hotel rooms are held in a ledger every incident at the     *)
(* airport draws on.  Nothing is computed twice: the rollup, the graph,    *)
(* the ranking, the blast radius and the room totals read recorded rows.   *)
(*                                                                         *)
(* An incident is named by its flight, an action row by its type and its   *)
(* incident: the gate refuses a second action of a type for a flight.      *)
(***************************************************************************)
EXTENDS Integers, Sequences, FiniteSets, FiniteSetsExt, Hotels, Connections,
        CrewImpact, PassengerImpact, DelayRisk

CONSTANTS
    Member,         \* the flights the group declares
    Other,          \* flights at the same airport with an incident of another group
    Schedule,       \* flight |-> number, origin, destination, departure, arrival
    Estimate,       \* flight.estimated_departure in minutes after the schedule
    Itinerary,      \* booking |-> its flights in order
    Roster,         \* rotations by reference
    Inventory,      \* the properties at the airport
    Known,          \* booking |-> the facts its rows record about the passenger
    Tier,           \* booking |-> tier
    Reachable,      \* bookings on the allowlist of the mail provider
    HotelRows,      \* business_constraint rows of the hotel services
    RankingRow,     \* the one of the ranking
    Minimum,        \* minimum connection time
    Margin,         \* near-miss margin
    Archive,        \* weather reports in the database
    Report,         \* the report a live provider would give now
    Runways,
    Clock,          \* the incidents' clock
    Threshold,      \* delay_risk_event_threshold
    Overlays,       \* what a live status provider may answer: flight |-> minutes
    Tasks,          \* flight |-> action type |-> the types its task waits for
    Overlapping     \* whether two requests may allocate rooms at the same time

Affected == Member \cup Other
Flight   == DOMAIN Schedule
Booking  == DOMAIN Itinerary
HotelId  == {h.id : h \in Inventory}
Group(f) == IF f \in Member THEN "group" ELSE "other"

\* A flight's incident is of one group; a property has an id of its own and no negative
\* number of rooms; the rows of a deployment hold what their columns hold; and a connection
\* is found broken, never known beforehand.
ASSUME RecoveryAssumption ==
    /\ Member \cap Other = {} /\ Affected \subseteq Flight
    /\ IsFiniteSet(Booking) /\ IsFiniteSet(Inventory)
    /\ \A h \in Inventory : /\ h.id \in Int /\ h.distance \in Int /\ h.rate \in Int
                            /\ h.partner \in BOOLEAN /\ h.total \in Nat
    /\ \A h, k \in Inventory : h.id = k.id => h = k
    /\ "passengers_per_room" \in DOMAIN HotelRows => HotelRows["passengers_per_room"] \in Int
    /\ "prefer_partner" \in DOMAIN HotelRows => HotelRows["prefer_partner"] \in BOOLEAN
    /\ \A b \in Booking : IsFiniteSet(Known[b]) /\ "broken_connection" \notin Known[b]
    /\ \A name \in DOMAIN Ruleset(RankingRow).facts : Ruleset(RankingRow).facts[name] \in Int
    /\ \A name \in DOMAIN Ruleset(RankingRow).tiers : Ruleset(RankingRow).tiers[name] \in Int
    /\ Overlapping \in BOOLEAN

NoEstimate == -1

VARIABLES
    opened,     \* flights with an incident
    recorded,   \* action rows
    held,       \* the hold ledger summed by property and group
    reading,    \* flight |-> options its request has read and not yet allocated from
    weather,    \* weather_observation rows
    predicted,  \* flight |-> its latest prediction
    edges,      \* disruption_edge rows of the group
    snapshot,   \* the latest cascade_snapshot
    ranking     \* passenger_impact rows of the group

vars == <<opened, recorded, held, reading, weather, predicted, edges, snapshot, ranking>>

Nothing      == {}
NoPrediction == [index |-> -1, level |-> "none", recommended |-> FALSE]

-----------------------------------------------------------------------------
(* Inputs                                                                  *)

\* Bookings with a segment on one of the flights.
On(flights) == {b \in Booking : \E k \in DOMAIN Itinerary[b] : Itinerary[b][k] \in flights}

Itineraries(flights) == [b \in On(flights) |-> Itinerary[b]]

\* _flight_delay_minutes: no estimate is no delay, an early one is none either.
Late(f) == Max({0, Estimate[f]})
DerivedDelay == [f \in Flight |-> Late(f)]

\* apply_live_flight_status: a usable observed delay replaces the derived one.
Overlaid(overlay) ==
    [f \in Flight |-> IF f \in DOMAIN overlay THEN overlay[f] ELSE Late(f)]

\* load_crew_impact_inputs: the rotations that touch the flights, the others left empty,
\* and the flights of their legs.
RosterOf(flights) ==
    [p \in DOMAIN Roster |-> IF LegsOn(Roster[p], flights) = {} THEN <<>> ELSE Roster[p]]
FlightsOf(roster, flights) ==
    flights \cup UNION {{roster[p][k].flight : k \in DOMAIN roster[p]} : p \in DOMAIN roster}

Terms == HotelTerms(HotelRows)

HeldIn(h, groups) ==
    LET By(g) == held[h][g] IN MapThenSumSet(By, groups)

\* Mutant of Options: the stored counter instead of the ledger.
OptionsStored(excluded) ==
    {[id |-> h.id, rate |-> h.rate, partner |-> h.partner, distance |-> h.distance,
      total |-> h.total, held |-> 0] : h \in Inventory}

\* load_hotel_options: availability from the holds, those of one group left out.
Options(excluded) ==
    {[id |-> h.id, rate |-> h.rate, partner |-> h.partner, distance |-> h.distance,
      total |-> h.total, held |-> HeldIn(h.id, {"group", "other"} \ excluded)] :
        h \in Inventory}

-----------------------------------------------------------------------------
(* Action rows                                                             *)

Blank == [atRisk |-> {}, nearMisses |-> {}, impacts |-> {}, ranked |-> {}, sent |-> {},
          capacity |-> 0, required |-> 0, allocated |-> 0, cost |-> 0, allocations |-> {}]

Row(f, type, status, payload) ==
    [incident |-> f, type |-> type, status |-> status, payload |-> payload]

\* recorded_actions
Recorded(flights, type, statuses) ==
    {a \in recorded : a.incident \in flights /\ a.type = type /\ a.status \in statuses}

Succeeded(flights, type) == Recorded(flights, type, {"success"})

\* A partial allocation is recorded as needs_human and holds rooms all the same.
RoomStatuses == {"success", "needs_human"}

RoomRows(flights) == Recorded(flights, "reserve_hotel_block", RoomStatuses)

\* The newest actual report no later than the incident's clock.
Scored(reports) ==
    LET usable == {w \in reports : w.actual /\ w.at <= Clock}
    IN  {w \in usable : \A v \in usable : v.at <= w.at}

\* The incident has been assessed and planned for, what the task waits for is done, and
\* the gate knows of no earlier action of its type on the flight.
Dispatchable(f, type) ==
    /\ f \in opened /\ type \in DOMAIN Tasks[f]
    /\ f \in Other \/ predicted[f] # NoPrediction \/ Scored(weather) = {}
    /\ Recorded({f}, type, {"success", "needs_human"}) = {}
    /\ \A t \in Tasks[f][type] : Succeeded({f}, t) # {}

Record(f, type, status, payload) ==
    recorded' = recorded \cup {Row(f, type, status, payload)}

-----------------------------------------------------------------------------
(* The views composed from recorded rows                                   *)

Payloads(rows) == {a.payload : a \in rows}

\* The bookings every recorded connection check of these flights found broken.
BrokenBookings(flights) ==
    Bookings(UNION {p.atRisk : p \in Payloads(Succeeded(flights, "check_connections"))})

CrewImpacts(flights) ==
    UNION {p.impacts : p \in Payloads(Succeeded(flights, "assess_crew_impact"))}

Precedence == [positioning |-> 0, onward_duty |-> 1, second_pairing |-> 2,
               operating |-> 3, downstream_flight |-> 4]

\* A rotation two incidents found keeps the mechanism of the lower precedence.
BestMechanism(p, impacts) ==
    CHOOSE m \in {i.mechanism : i \in {j \in impacts : j.pairing = p}} :
        \A i \in impacts : i.pairing = p => Precedence[m] <= Precedence[i.mechanism]

Incidents == Member \cap opened

AssessedBy(type) == {a.incident : a \in Succeeded(Incidents, type)}

\* Mutant of WithoutIncident: completeness asks about the open incidents alone.
WithoutIncidentIgnored == {}

WithoutIncident == Member \ opened

\* cascade_rollup
Rollup ==
    LET impacts == CrewImpacts(Incidents)
    IN  [flights    |-> Member,
         passengers |-> On(Member),
         hotels     |-> HotelId,
         bookings   |-> BrokenBookings(Incidents),
         pairings   |-> [p \in Pairings(impacts) |-> BestMechanism(p, impacts)],
         complete   |-> /\ Incidents # {} /\ WithoutIncident = {}
                        /\ AssessedBy("check_connections") = Incidents
                        /\ AssessedBy("assess_crew_impact") = Incidents]

Edge(kind, source, target, mechanism) ==
    [kind |-> kind, source |-> source, target |-> target, mechanism |-> mechanism]

CrewEdges(a) ==
    {Edge("crew", a.incident, i.pairing, i.mechanism) : i \in a.payload.impacts}
ConnectionEdges(a) ==
    {Edge("connection", a.incident, b, "missed_connection") : b \in Bookings(a.payload.atRisk)}
RoomEdges(a) ==
    {Edge("accommodation", a.incident, i.hotel, "overnight_required") :
        i \in a.payload.allocations}

Targets(drawn, kind) == {e.target : e \in {d \in drawn : d.kind = kind}}

\* project_graph: edges of four kinds, each from the row it is derived from.
Graph ==
    LET connections == Succeeded(Incidents, "check_connections")
        crew  == Succeeded(Incidents, "assess_crew_impact")
        rooms == RoomRows(Incidents)
        roots == {f \in Member : predicted[f] # NoPrediction}
        drawn == {Edge("root_cause", "event", f, "none") : f \in roots}
            \cup (UNION {CrewEdges(a) : a \in crew})
            \cup (UNION {ConnectionEdges(a) : a \in connections})
            \cup (UNION {RoomEdges(a) : a \in rooms})
        evidenced == roots \cup {a.incident : a \in connections \cup crew \cup rooms}
    IN  [edges |-> drawn, hotels |-> Targets(drawn, "accommodation"),
         bookings |-> Targets(drawn, "connection"), pairings |-> Targets(drawn, "crew"),
         sources   |-> {<<a.incident, a.type>> : a \in connections \cup crew \cup rooms},
         evidenced |-> evidenced, complete |-> evidenced = Member]

Sum(F(_), S) == MapThenSumSet(F, S)
RequiredOf(a)  == a.payload.required
AllocatedOf(a) == a.payload.allocated
PaidFor(a)     == a.payload.cost

\* group_hotel_totals; its caller has checked that there are rows.
Totals ==
    LET rows == RoomRows(Incidents)
    IN  [required  |-> Sum(RequiredOf, rows), allocated |-> Sum(AllocatedOf, rows),
         short     |-> Max({0, Sum(RequiredOf, rows) - Sum(AllocatedOf, rows)}),
         cost      |-> Sum(PaidFor, rows),
         covered   |-> {a.incident : a \in rows} = Incidents /\ Incidents # {}]

Dimension(name, value, exact) == [name |-> name, value |-> value, exact |-> exact]

\* Mutant of RoomsExact: the rooms are exact when the assessments are.
RoomsExactByAssessment(totals, rollup) == rollup.complete

\* Allocation goes on after the assessments are complete, so it says itself how far it is.
RoomsExact(totals, rollup) == totals.covered

\* compose_blast_radius.  The ranking is an argument no caller gives it.
Radius ==
    LET rollup == Rollup
        totals == Totals
        always ==
            {Dimension("flights", Cardinality(rollup.flights), TRUE),
             Dimension("passengers", Cardinality(rollup.passengers), TRUE),
             Dimension("hotels", Cardinality(rollup.hotels), TRUE),
             Dimension("connections", Cardinality(rollup.bookings), rollup.complete),
             Dimension("rotations", Cardinality(DOMAIN rollup.pairings), rollup.complete)}
        rooms ==
            {Dimension("required", totals.required, RoomsExact(totals, rollup)),
             Dimension("short", totals.short, RoomsExact(totals, rollup))}
        cost == {Dimension("cost", totals.cost, rollup.complete)}
    IN  IF RoomRows(Incidents) = {} THEN always
        ELSE IF totals.cost = 0 THEN always \cup rooms ELSE always \cup rooms \cup cost

\* What the radius says of itself; it counts the crew assessments alone.
RadiusIsComplete == Member # {} /\ AssessedBy("assess_crew_impact") = Member

-----------------------------------------------------------------------------
(* evaluate_what_if.  A lever is a key of the record levers.               *)

AllowedLevers == {"delay", "minimum", "perRoom", "rate", "depth"}

Lever(levers, name, default) == IF name \in DOMAIN levers THEN levers[name] ELSE default

\* The levers that are applied, and the names that are refused.
ValidateLevers(levers) ==
    [accepted |-> [l \in DOMAIN levers \cap AllowedLevers |-> levers[l]],
     rejected |-> DOMAIN levers \ AllowedLevers]

\* Mutant of OwnGroup: the group competes with its own rooms.
OwnGroupCompetes == {}

\* _group_id_for: a group is re-evaluated against the rooms other groups left.
OwnGroup == IF Incidents = {} THEN {} ELSE {"group"}

\* _accommodation_basis: the recorded rooms, in passengers.
AccommodationBasis == Sum(RequiredOf, RoomRows(Incidents)) * Terms.perRoom

\* _re_evaluate: all members at once, where the services ran one incident at a time.
ReEvaluateReach(levers) ==
    LET delay  == Overlaid(Lever(levers, "delay", <<>>))
        roster == RosterOf(Member)
        found  == FindAtRisk(Itineraries(Member), Member, Schedule, delay,
                             Lever(levers, "minimum", Minimum), Margin)
        crew   == ExpandCrewCascade(roster, Member, Schedule, delay,
                                    FlightsOf(roster, Member), Lever(levers, "depth", 1))
    IN  [connections |-> Cardinality(Bookings(found.atRisk)),
         rotations   |-> Cardinality(Pairings(AtRisk(crew.direct))
                                        \cup Pairings(AtRisk(crew.downstream)))]

ReEvaluateRooms(levers) ==
    LET terms  == [Terms EXCEPT !.perRoom = Lever(levers, "perRoom", @),
                                !.rate    = Lever(levers, "rate", @)]
        result == AllocateRooms(AccommodationBasis, Options(OwnGroup), terms)
    IN  [required |-> result.required, short |-> Shortfall(result)]

Figures(reach, rooms) ==
    [connections |-> reach.connections, rotations |-> reach.rotations,
     required    |-> rooms.required,    short     |-> rooms.short]

ReEvaluate(levers) == Figures(ReEvaluateReach(levers), ReEvaluateRooms(levers))

Deltas(before, after) ==
    [k \in DOMAIN before |-> [baseline |-> before[k], scenario |-> after[k]]]

\* Baseline and scenario of every figure; nothing is evaluated without a lever.
WhatIf(levers) ==
    LET accepted == ValidateLevers(levers).accepted
    IN  IF DOMAIN accepted = {} THEN <<>>
        ELSE Deltas(ReEvaluate(<<>>), ReEvaluate(accepted))

-----------------------------------------------------------------------------
(* Actions                                                                 *)

Init ==
    /\ opened = Other
    /\ recorded = {}
    /\ held = [h \in HotelId |-> [g \in {"group", "other"} |-> 0]]
    /\ reading = [f \in Affected |-> Nothing]
    /\ weather = Archive
    /\ predicted = [f \in Affected |-> NoPrediction]
    /\ edges = {} /\ ranking = {}
    /\ snapshot = [bookings |-> {}, pairings |-> {}, complete |-> FALSE, sources |-> {}]

OpenIncident(f) ==
    /\ f \in Member \ opened
    /\ opened' = opened \cup {f}
    /\ UNCHANGED <<recorded, held, reading, weather, predicted, edges, snapshot, ranking>>

\* What is kept of a score.
Prediction(score) ==
    [index |-> score.index, level |-> score.level, recommended |-> score.recommended]

\* _assess_delay_risk, before the incident is planned for.  A live report joins the ledger
\* once; it is scored only if it is not later than the incident.  Of the other groups only
\* the rooms matter here.
AssessDelayRisk(f, live) ==
    /\ f \in Incidents /\ predicted[f] = NoPrediction
    /\ \A a \in recorded : a.incident # f
    /\ weather' = weather \cup live
    /\ IF Scored(weather') = {} THEN UNCHANGED predicted
       ELSE \E w \in Scored(weather') :
              predicted' = [predicted EXCEPT
                    ![f] = Prediction(AssessRisk(w, Runways, DefaultBands, Threshold))]
    /\ UNCHANGED <<opened, recorded, held, reading, edges, snapshot, ranking>>

\* run_connection
CheckConnections(f, overlay) ==
    /\ Dispatchable(f, "check_connections")
    /\ LET found == FindAtRisk(Itineraries({f}), {f}, Schedule, Overlaid(overlay),
                               Minimum, Margin)
       IN  Record(f, "check_connections", "success",
                  [Blank EXCEPT !.atRisk = found.atRisk, !.nearMisses = found.nearMisses])
    /\ UNCHANGED <<opened, held, reading, weather, predicted, edges, snapshot, ranking>>

\* run_crew_impact: the delays are those of the estimates, whatever a provider observed.
AssessCrewImpact(f) ==
    /\ Dispatchable(f, "assess_crew_impact")
    /\ LET impacts == AttributeImpacts(RosterOf({f}), {f}, Schedule, DerivedDelay)
       IN  Record(f, "assess_crew_impact", "success", [Blank EXCEPT !.impacts =
                {[pairing |-> i.pairing, mechanism |-> i.mechanism] : i \in AtRisk(impacts)}])
    /\ UNCHANGED <<opened, held, reading, weather, predicted, edges, snapshot, ranking>>

Passengers(f) == Cardinality(On({f}))

\* run_hotel_search
FindHotelOptions(f) ==
    /\ Dispatchable(f, "find_hotel_options")
    /\ LET search == SearchHotels(Passengers(f), Options({}), Terms)
       IN  Record(f, "find_hotel_options", "success",
                  [Blank EXCEPT !.required = search.required, !.capacity = search.capacity])
    /\ UNCHANGED <<opened, held, reading, weather, predicted, edges, snapshot, ranking>>

\* run_hotel_allocation up to the query of the hold ledger.
ReadHotelOptions(f) ==
    /\ Dispatchable(f, "reserve_hotel_block") /\ reading[f] = Nothing
    /\ Overlapping \/ \A g \in Affected : reading[g] = Nothing
    /\ reading' = [reading EXCEPT ![f] = Options({})]
    /\ UNCHANGED <<opened, recorded, held, weather, predicted, edges, snapshot, ranking>>

\* The rest of it: the rooms are held whether or not they are enough.
ReserveHotelBlock(f) ==
    /\ reading[f] # Nothing
    /\ LET result == AllocateRooms(Passengers(f), reading[f], Terms)
           At(h)  == {a \in result.allocations : a.hotel = h}
       IN  /\ Record(f, "reserve_hotel_block", AllocationStatus(result),
                     [Blank EXCEPT !.required = result.required, !.cost = result.cost,
                                   !.allocated = result.allocated,
                                   !.allocations = result.allocations])
           /\ held' = [h \in HotelId |->
                         [held[h] EXCEPT ![Group(f)] = @ + MapThenSumSet(RoomsOf, At(h))]]
    /\ reading' = [reading EXCEPT ![f] = Nothing]
    /\ UNCHANGED <<opened, weather, predicted, edges, snapshot, ranking>>

\* assess_passenger_impact over the bookings of the flights.  Two facts the ruleset
\* weighs are never established.
Ranked(flights) ==
    LET broken == BrokenBookings(flights \cap opened)
        Facts(b) == Known[b] \cup (IF b \in broken THEN {"broken_connection"} ELSE {})
    IN  {Score(b, Facts(b), Tier[b], Ruleset(RankingRow)) : b \in On(flights)}

\* run_passenger_impact
RebookPassengers(f) ==
    /\ Dispatchable(f, "rebook_passengers")
    /\ IF On({f}) = {} THEN Record(f, "rebook_passengers", "needs_human", Blank)
       ELSE Record(f, "rebook_passengers", "success",
                   [Blank EXCEPT !.ranked = Ranked({f})])
    /\ UNCHANGED <<opened, held, reading, weather, predicted, edges, snapshot, ranking>>

\* render: without an estimate the template lacks a fact and nobody gets a notice.
Rendered(f) == IF Estimate[f] = NoEstimate THEN {} ELSE On({f})

\* Success only when every booking got its notice.
NoticeStatus(f, sent) == IF sent = On({f}) /\ sent # {} THEN "success" ELSE "needs_human"

\* run_communication, for both action types it is registered under; a refusal of the
\* provider loses a notice.
Communicate(f, type, failed) ==
    /\ Dispatchable(f, type)
    /\ failed \subseteq Rendered(f) \cap Reachable
    /\ LET sent == Rendered(f) \ failed
       IN  Record(f, type, NoticeStatus(f, sent), [Blank EXCEPT !.sent = sent])
    /\ UNCHANGED <<opened, held, reading, weather, predicted, edges, snapshot, ranking>>

\* _record_cascade: the edges nobody recorded yet, a new snapshot, the ranking afresh.
RecordCascade ==
    /\ LET rollup == Rollup
           graph  == Graph
       IN  /\ edges' = edges \cup graph.edges
           /\ snapshot' = [bookings |-> rollup.bookings,
                           pairings |-> DOMAIN rollup.pairings,
                           complete |-> rollup.complete, sources |-> graph.sources]
    /\ ranking' = Ranked(Member)
    /\ UNCHANGED <<opened, recorded, held, reading, weather, predicted>>

Next ==
    \/ RecordCascade
    \/ \E f \in Affected :
        \/ OpenIncident(f) \/ AssessCrewImpact(f) \/ FindHotelOptions(f)
        \/ ReadHotelOptions(f) \/ ReserveHotelBlock(f) \/ RebookPassengers(f)
        \/ \E live \in {{}, {Report}} : AssessDelayRisk(f, live)
        \/ \E overlay \in Overlays : CheckConnections(f, overlay)
        \/ \E type \in {"prepare_notifications", "notify_passengers"},
              failed \in SUBSET Reachable : Communicate(f, type, failed)

Spec == Init /\ [][Next]_vars

-----------------------------------------------------------------------------
(* Properties                                                              *)

\* Every row of every table is one the services can have written: a status is one of the
\* two they return, a hold is positive only for an allocation, a reading is of the
\* inventory, a prediction scores a report that was current.
TypeOK ==
    /\ Other \subseteq opened /\ opened \subseteq Affected
    /\ \A a \in recorded : /\ a.incident \in opened /\ a.type \in DOMAIN Tasks[a.incident]
                           /\ a.status \in {"success", "needs_human"}
                           /\ a.payload.allocated \in 0..a.payload.required
                           /\ a.payload.sent \subseteq On({a.incident})
    /\ held \in [HotelId -> [{"group", "other"} -> Nat]]
    /\ \A f \in Affected : {o.id : o \in reading[f]} \in {{}, HotelId}
    /\ weather \subseteq Archive \cup {Report}
    /\ \A f \in Affected : /\ predicted[f].index \in -1..100
                           /\ predicted[f] # NoPrediction =>
                                predicted[f].level = LevelFor(predicted[f].index)
    /\ {p.booking : p \in ranking} \in {{}, On(Member)}
    /\ {p.index : p \in ranking} \subseteq 0..100

\* The ledger never promises a room twice: what all the groups together hold in a property
\* is at most the rooms it has, however the allocations follow each other.
NoRoomTwice ==
    \A h \in Inventory : HeldIn(h.id, {"group", "other"}) <= h.total

\* The three accounts of the group's rooms agree: the recorded payloads, the ledger, and
\* the what-if's baseline, which allocates for all incidents at once from what other
\* groups left, as if the group had nothing yet.
RoomsAddUp ==
    LET whatIf == WhatIf([depth |-> 2])
        HeldByGroup(h) == held[h]["group"]
    IN  RoomRows(Incidents) # {} =>
            /\ Totals.allocated = MapThenSumSet(HeldByGroup, HotelId)
            /\ whatIf.required.baseline = Totals.required
            /\ whatIf.short.baseline = Totals.short

\* The ruleset of the ranking weighs a broken connection: one that does not never names it.
BrokenIsWeighed == Weight(Ruleset(RankingRow).facts, "broken_connection") # 0

\* One figure, one place: the graph shows the bookings and rotations the rollup counts and
\* the properties the ledger says the group is in; a complete rollup leaves no member
\* without evidence and the radius not short of an assessment; the ranking and the snapshot
\* of a projection tell the same bookings; and a snapshot that says it is complete is never
\* overtaken.
FiguresAgree ==
    LET rollup == Rollup
        graph  == Graph
    IN  /\ graph.bookings = rollup.bookings
        /\ graph.pairings = DOMAIN rollup.pairings
        /\ graph.hotels = {h \in HotelId : held[h]["group"] > 0}
        /\ rollup.complete => graph.complete /\ RadiusIsComplete
        /\ snapshot.bookings =
              {p.booking : p \in {q \in ranking : "broken_connection" \in q.factors}}
        /\ snapshot.complete => /\ snapshot.bookings = rollup.bookings
                                /\ snapshot.pairings = DOMAIN rollup.pairings

\* Where a figure of the blast radius is shown as exact it is shown so, with the same value,
\* in every later state: each step keeps both.  Of the rooms that is said only until a
\* further incident of the group is opened, and of the committed cost not at all: these two
\* may be shown as exact before every flight contributed (hotel.py:576, blast_radius.py:250).
Stands(before, after, opening) ==
    \A d \in before :
        d.exact /\ d.name # "cost" =>
            d \in after \/ (opening /\ d.name \in {"required", "short"})

ExactStandsStill ==
    [][\A before \in {Radius}, after \in {Radius'} : Stands(before, after, opened' # opened)]_vars
=============================================================================
