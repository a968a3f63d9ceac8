------------------------------- MODULE Hotels -------------------------------
(***************************************************************************)
(* Rooms for stranded passengers: the caps a search works under, the rank  *)
(* of the properties inside them and the greedy allocation by that rank.   *)
(* An option is a property with the rooms the hold ledger says are taken.  *)
(*                                                                         *)
(* The allocation is a loop in the code; here a property's share is what   *)
(* the properties ranked before it leave over.                             *)
(***************************************************************************)
EXTENDS Integers, FiniteSets, FiniteSetsExt

DefaultTerms == [rate |-> 6000, partner |-> TRUE, perRoom |-> 2, nights |-> 1]

\* load_constraints: the rows a deployment seeded override the defaults; a count of
\* passengers to a room is at least one.  rows is a function from the keys it found.
HotelTerms(rows) ==
    [DefaultTerms EXCEPT
        !.rate    = IF "max_rate_inr" \in DOMAIN rows THEN rows["max_rate_inr"] ELSE @,
        !.partner = IF "prefer_partner" \in DOMAIN rows THEN rows["prefer_partner"] ELSE @,
        !.perRoom = IF "passengers_per_room" \in DOMAIN rows
                    THEN Max({1, rows["passengers_per_room"]}) ELSE @]

\* HotelOption.available_rooms
Available(option) == Max({0, option.total - option.held})

RoomsRequired(passengers, terms) ==
    LET per == Max({1, terms.perRoom})
    IN  IF passengers <= 0 THEN 0 ELSE (passengers + per - 1) \div per

Eligible(options, terms) ==
    {o \in options : o.rate <= terms.rate /\ Available(o) > 0}

\* The sort key of rank_options: partners first when they are preferred, then the
\* nearer, the cheaper, the lower id.
Before(a, b, terms) ==
    \/ terms.partner /\ a.partner /\ ~b.partner
    \/ /\ terms.partner => a.partner = b.partner
       /\ \/ a.distance < b.distance
          \/ a.distance = b.distance /\ a.rate < b.rate
          \/ a.distance = b.distance /\ a.rate = b.rate /\ a.id < b.id

Ahead(o, options, terms) == {p \in Eligible(options, terms) : Before(p, o, terms)}

Rooms(options) == MapThenSumSet(Available, options)

\* How many rooms the loop of allocate_rooms takes in property o.
Share(o, required, options, terms) ==
    Min({Available(o), Max({0, required - Rooms(Ahead(o, options, terms))})})

Allocations(required, options, terms) ==
    {[hotel |-> o.id, rooms |-> Share(o, required, options, terms),
      cost |-> Share(o, required, options, terms) * o.rate * terms.nights] :
        o \in {e \in Eligible(options, terms) : Share(e, required, options, terms) > 0}}

RoomsOf(allocation) == allocation.rooms
CostOf(allocation)  == allocation.cost

\* AllocationResult
AllocateRooms(passengers, options, terms) ==
    LET required == RoomsRequired(passengers, terms)
        taken    == Allocations(required, options, terms)
        within   == {o \in options : o.rate <= terms.rate}
    IN  [required    |-> required,
         allocated   |-> MapThenSumSet(RoomsOf, taken),
         cost        |-> MapThenSumSet(CostOf, taken),
         allocations |-> taken,
         exhausted   |-> {o.id : o \in {w \in within : \/ Available(w) = 0
                                           \/ \A a \in taken : a.hotel # w.id}},
         excluded    |-> {o.id : o \in options \ within}]

Shortfall(result) == Max({0, result.required - result.allocated})

\* The passengers an operator is told are left without a room.
Unaccommodated(result, terms) == Shortfall(result) * terms.perRoom

\* HotelAllocationService.execute: rooms secured stand, a gap goes to a person.
AllocationStatus(result) == IF Shortfall(result) = 0 THEN "success" ELSE "needs_human"

\* HotelSearchService.execute: what the ranked properties could hold.
SearchHotels(passengers, options, terms) ==
    [required |-> RoomsRequired(passengers, terms),
     capacity |-> Rooms(Eligible(options, terms)),
     ranked   |-> {o.id : o \in Eligible(options, terms)}]
=============================================================================
