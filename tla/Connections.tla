---------------------------- MODULE Connections ----------------------------
(***************************************************************************)
(* Which itineraries a delay breaks.  An itinerary is the sequence of its  *)
(* flights, schedule[f] a flight's times and city pair, delay[f] the       *)
(* minutes it is late.  The walk looks at the connections whose inbound    *)
(* flight is in scope, in order, and stops at the first one that breaks or *)
(* holds by no more than the margin.                                       *)
(***************************************************************************)
EXTENDS Integers, Sequences, FiniteSets, FiniteSetsExt

\* The earliest moment a passenger off flight f is at the next gate.
AtGate(schedule, delay, minimum, f) == schedule[f].arrival + delay[f] + minimum

\* Scheduled departure of the onward flight: the delay it may have itself is no margin.
Slack(schedule, delay, minimum, route, k) ==
    schedule[route[k + 1]].departure - AtGate(schedule, delay, minimum, route[k])

Examined(route, scope) == {k \in 1..(Len(route) - 1) : route[k] \in scope}

\* The connections at which the walk stops: broken, or held by the margin or less.
Stops(route, scope, schedule, delay, minimum, margin) ==
    {k \in Examined(route, scope) : Slack(schedule, delay, minimum, route, k) <= margin}

\* Later departures of the same city pair the passenger can reach: the first three.
Alternatives(onward, ready, schedule, delay, flights) ==
    LET Leaves(f) == schedule[f].departure + delay[f]
        reach == {f \in flights \ {onward} :
                    /\ schedule[f].origin = schedule[onward].origin
                    /\ schedule[f].destination = schedule[onward].destination
                    /\ Leaves(f) >= ready}
        Sooner(f) == {g \in reach : \/ Leaves(g) < Leaves(f)
                                    \/ Leaves(g) = Leaves(f) /\ g < f}
    IN  {f \in reach : Cardinality(Sooner(f)) < 3}

BrokenConnection(b, k, route, schedule, delay, minimum, flights) ==
    LET ready == AtGate(schedule, delay, minimum, route[k])
    IN  [booking |-> b, inbound |-> route[k], onward |-> route[k + 1],
         slack   |-> Slack(schedule, delay, minimum, route, k),
         alternatives |-> Alternatives(route[k + 1], ready, schedule, delay, flights),
         recovered    |-> ready <= schedule[route[k + 1]].departure + delay[route[k + 1]]]

\* find_at_risk_connections: one booking, one result.
StopAt(stops) == Min(stops)

\* ConnectionAssessment over the itineraries loaded for the flights in scope.
FindAtRisk(itinerary, scope, schedule, delay, minimum, margin) ==
    LET flights  == UNION {{itinerary[b][k] : k \in DOMAIN itinerary[b]} :
                             b \in DOMAIN itinerary}
        S(b)     == Stops(itinerary[b], scope, schedule, delay, minimum, margin)
        stopped  == {b \in DOMAIN itinerary : S(b) # {}}
        At(b)    == Slack(schedule, delay, minimum, itinerary[b], StopAt(S(b)))
        long     == {b \in DOMAIN itinerary : Len(itinerary[b]) >= 2}
    IN  [atRisk |-> {BrokenConnection(b, StopAt(S(b)), itinerary[b], schedule, delay,
                                      minimum, flights) :
                       b \in {c \in stopped : At(c) < 0}},
         nearMisses |-> {[booking |-> b, slack |-> At(b)] :
                           b \in {c \in stopped : At(c) >= 0}},
         connecting |-> Cardinality(long),
         single     |-> Cardinality(DOMAIN itinerary) - Cardinality(long)]

Bookings(broken) == {item.booking : item \in broken}
=============================================================================
