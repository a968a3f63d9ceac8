----------------------------- MODULE MCWorkflow -----------------------------
(***************************************************************************)
(* Instances of Workflow.  The baseline plan is a cut of the playbook:     *)
(* check_connections, then reserve_hotel_block on its own, then            *)
(* notify_passengers, which waits for the connections.  The variant is the *)
(* code's notify-first: the same actions, reordered, without dependencies. *)
(* The planner's candidate notifies after the hotel, without a check, or   *)
(* it is tied in a knot: nothing it goes through rejects two tasks that    *)
(* wait for each other.                                                    *)
(***************************************************************************)
EXTENDS Workflow

MCTask == 1..10
MCPlanOf == [t \in MCTask |-> CASE t \in 1..3 -> 1
                                [] t \in 4..6 -> 2
                                [] t \in 7..8 -> 3
                                [] t \in 9..10 -> 4]
MCActionOf == [t \in MCTask |-> CASE t \in {1, 5} -> "check"
                                  [] t \in {2, 6, 7, 9} -> "hotel"
                                  [] t \in {3, 4, 8, 10} -> "notify"]
MCDependsOn == [t \in MCTask |-> CASE t = 3 -> {1}
                                   [] t = 8 -> {7}
                                   [] t = 9 -> {10}
                                   [] t = 10 -> {9}
                                   [] OTHER -> {}]

\* The same, cut to two tasks in one plan, for the questions about one run.
SmallTask == 1..2
SmallPlanOf == [t \in SmallTask |-> 1]
SmallActionOf == [t \in SmallTask |-> IF t = 1 THEN "check" ELSE "notify"]
SmallDependsOn == [t \in SmallTask |-> IF t = 2 THEN {1} ELSE {}]
=============================================================================
