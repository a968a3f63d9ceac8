--------------------------- MODULE MCPlanApproval ---------------------------
(***************************************************************************)
(* Two members of one cascade.  The first allocates rooms (medium) and     *)
(* notifies (high), its variant looks for rooms (low) and notifies;        *)
(* the second has a notification only.  Evaluations are clear, or breach a *)
(* soft constraint nobody tolerates.                                       *)
(***************************************************************************)
EXTENDS PlanApproval

CONSTANTS r1, r2

Requests == {r1, r2}

Symmetry == Permutations(Requests)

TaskRow(id, action, ref, deps) == [id |-> id, action |-> action, refs |-> <<ref>>, deps |-> deps]

MCActions == {"reserve_hotel_block", "find_hotel_options", "notify_passengers"}

MCTasks ==
    1 :> <<TaskRow(1, "reserve_hotel_block", "flight1", << >>),
           TaskRow(2, "notify_passengers", "flight1", <<1>>)>>
    @@ 2 :> <<TaskRow(3, "notify_passengers", "flight2", << >>)>>
    @@ 3 :> <<TaskRow(4, "find_hotel_options", "flight1", << >>),
              TaskRow(5, "notify_passengers", "flight1", << >>)>>

MCBaseline == <<1, 2>>
MCSibling == <<3, 0>>

Clear == [facts |-> [f |-> "yes"], sources |-> {}, constraints |-> {}, payload |-> << >>]
Soft == [Clear EXCEPT !.constraints =
            {[field |-> "n", op |-> "lte", value |-> {1}, soft |-> TRUE, scope |-> {},
              flag |-> "none"]}, !.payload = [n |-> {2}]]
MCReading == {Clear, Soft}

MCGateConfig ==
    [loaded |-> TRUE, warns |-> {}, limits |-> << >>, highNeedsHuman |-> TRUE,
     tiers |-> [reserve_hotel_block |-> "medium", find_hotel_options |-> "low",
                notify_passengers |-> "high"]]

MCPlanConfig ==
    [loaded |-> TRUE, exclusive |-> {}, warns |-> {}, maxTasks |-> 60, maxHigh |-> 12,
     manyHigh |-> 6, manyExternal |-> 5,
     limits |-> [total_exposure_inr |-> 750000, passengers_affected |-> 800,
                 rooms_committed |-> 200, external_effects |-> 10],
     percent |-> [total_exposure_inr |-> 60, passengers_affected |-> 60]]

MCPolicy == [boundToHash |-> TRUE, highSeparate |-> TRUE, tiers |-> {"low", "medium"}]

MCExposure == [total_exposure_inr |-> 200000, passengers_affected |-> 300,
               rooms_committed |-> 70, external_effects |-> 2]
=============================================================================
