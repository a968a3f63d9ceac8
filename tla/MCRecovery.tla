----------------------------- MODULE MCRecovery -----------------------------
(* Two flights of a group, 1 and 2, and flight 3 of another at the same       *)
(* airport.  Flight 2 arrives where flight 1 does not; 4 and 5 are onward.    *)
EXTENDS Recovery, TLC

F(number, from, to, departure, arrival) ==
    [number |-> number, origin |-> from, destination |-> to,
     departure |-> departure, arrival |-> arrival]

MCSchedule == << F("UK1", "BLR", "DEL", 0, 100), F("UK2", "DEL", "BLR", 180, 280),
                 F("UK3", "BLR", "BOM", 10, 110), F("UK4", "DEL", "AMD", 170, 230),
                 F("UK5", "DEL", "AMD", 400, 460) >>
MCEstimate == << 60, 90, NoEstimate, NoEstimate, NoEstimate >>
\* A connection that breaks, one that a delay of 30 leaves as a near miss, a booking on
\* both members, a single flight, and the other group's passengers.
MCItinerary == << <<1, 4>>, <<1, 5>>, <<1, 2>>, <<2>>, <<3>>, <<3>> >>

L(flight, role) == [flight |-> flight, role |-> role, minimum |-> 30]
MCRoster == << <<L(1, "operating"), L(4, "operating")>>, <<L(1, "operating"), L(5, "operating")>>,
               <<L(1, "positioning"), L(2, "operating")>>, <<L(2, "positioning")>> >>

H(id, rate, partner, distance, total) ==
    [id |-> id, rate |-> rate, partner |-> partner, distance |-> distance, total |-> total]
MCInventory == { H(1, 5, TRUE, 2, 1), H(2, 4, FALSE, 1, 2), H(3, 9, TRUE, 1, 5) }
MCHotelRows == [max_rate_inr |-> 6, passengers_per_room |-> 2]
\* Weights a deployment chose, of facts that together pass a hundred.
MCRankingRow ==
    [facts |-> [broken_connection |-> 60, special_needs_recorded |-> 50,
                unreachable_contact |-> 10],
     tiers |-> [platinum |-> 10, gold |-> 5], bands |-> [critical |-> 70, high |-> 45]]
MCKnown == << {"special_needs_recorded"}, {}, {"unreachable_contact"}, {}, {}, {} >>
MCTier  == << "gold", "standard", "platinum", "silver", "standard", "standard" >>

W(at, actual, visibility) ==
    [at |-> at, actual |-> actual, visibility |-> visibility, ceiling |-> 400, wind |-> 20,
     direction |-> 90, precipitation |-> "thunderstorm"]
MCArchive == {W(1, TRUE, 800), W(2, FALSE, 5000)}
MCReport  == W(3, TRUE, 3000)
MCRunways == << [heading |-> 90, active |-> FALSE], [heading |-> 270, active |-> TRUE] >>
MCOverlays == {<<>>, 1 :> 30}

MCTasks ==
    << [check_connections     |-> {}, assess_crew_impact |-> {"check_connections"},
        find_hotel_options    |-> {"assess_crew_impact"},
        reserve_hotel_block   |-> {"find_hotel_options"},
        notify_passengers     |-> {"reserve_hotel_block"}],
       [check_connections     |-> {}, assess_crew_impact |-> {"check_connections"},
        reserve_hotel_block   |-> {"check_connections"},
        rebook_passengers     |-> {"assess_crew_impact"}],
       [reserve_hotel_block   |-> {}] >>
=============================================================================
