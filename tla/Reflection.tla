----------------------------- MODULE Reflection -----------------------------
(* What is left of a plan a model proposed: agents/reflection.py.            *)
EXTENDS Naturals, Sequences, FiniteSets

\* A proposed task names an action, the entities it is about and the actions it waits for.
Task == [action : STRING, targets : SUBSET STRING, depends : SUBSET STRING]

\* The n-th of some positions, and what stands at them, in order.
Nth(S, n) == CHOOSE i \in S : Cardinality({j \in S : j <= i}) = n
InOrder(s, S) == [n \in 1 .. Cardinality(S) |-> s[Nth(S, n)]]

Passes(task, available, allowed) == task.action \in available /\ task.targets \subseteq allowed

\* The first proposal of an action that may be carried out is the one kept.
IsKept(tasks, i, available, allowed) ==
    /\ Passes(tasks[i], available, allowed)
    /\ \A j \in 1 .. (i - 1) :
          Passes(tasks[j], available, allowed) => tasks[j].action # tasks[i].action

\* Mutant of Narrowed: only an edge out of the plan goes.
NarrowedToPlan(task, kept, allowed) ==
    [task EXCEPT !.targets = allowed, !.depends = @ \cap kept]

\* Targets are the orchestrator's own; an edge to the task itself or out of the plan goes.
Narrowed(task, kept, allowed) ==
    [task EXCEPT !.targets = allowed, !.depends = (@ \cap kept) \ {task.action}]

Reflect(tasks, available, allowed) ==
    LET kept == {i \in DOMAIN tasks : IsKept(tasks, i, available, allowed)}
        names == {tasks[i].action : i \in kept}
        narrowed == [i \in DOMAIN tasks |-> Narrowed(tasks[i], names, allowed)]
    IN  InOrder(narrowed, kept)

Rejected(tasks) == tasks = <<>>
=============================================================================
