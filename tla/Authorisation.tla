--------------------------- MODULE Authorisation ---------------------------
(***************************************************************************)
(* What the orchestrator promises whoever is affected by its actions, with *)
(* no state machine, run, plan choice or database in sight: a task's       *)
(* service is called at most once, only after the task was cleared (by the *)
(* gate, or by a person where the gate asked for one), only after the work *)
(* it depends on, and never beside another call of the same action type.   *)
(***************************************************************************)
EXTENDS Naturals

CONSTANTS Task, ActionOf, DependsOn

VARIABLES cleared, acted

Init == cleared = {} /\ acted = [t \in Task |-> 0]

Clear(t) == cleared' = cleared \cup {t} /\ UNCHANGED acted

Act(t) ==
    /\ t \in cleared
    /\ acted[t] = 0
    /\ \A d \in DependsOn[t] : acted[d] = 1
    /\ \A u \in Task : ActionOf[u] = ActionOf[t] => acted[u] = 0
    /\ acted' = [acted EXCEPT ![t] = 1]
    /\ UNCHANGED cleared

Next == \E t \in Task : Clear(t) \/ Act(t)

Spec == Init /\ [][Next]_<<cleared, acted>>
=============================================================================
