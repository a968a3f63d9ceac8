--------------------------- MODULE IncidentStates ---------------------------
(***************************************************************************)
(* The vocabulary of one incident: the states of the incident and of the   *)
(* tasks of its plans, and the table of legal moves between incident       *)
(* states.  Shared by every module that talks about an incident.           *)
(***************************************************************************)

\* The table the API answers 409 from.  No handler of the engine moves an
\* incident to "failed"; the table still lists it.
Transitions ==
    [ detected          |-> {"assessing", "failed"},
      assessing         |-> {"planning", "blocked", "failed"},
      planning          |-> {"assuring", "blocked", "failed"},
      assuring          |-> {"executing", "awaiting_approval", "blocked", "failed"},
      awaiting_approval |-> {"assuring", "executing", "blocked", "failed"},
      executing         |-> {"assuring", "resolved", "blocked", "failed"},
      resolved          |-> {},
      blocked           |-> {},
      failed            |-> {} ]

IncidentState == DOMAIN Transitions

Terminal == {"resolved", "blocked", "failed"}

CanTransition(current, target) == target \in Transitions[current]

TaskState == {"proposed", "assured", "needs_human", "rejected", "executing",
              "succeeded", "failed", "skipped"}

\* _TASK_SETTLED: states that no longer need work.
Settled == {"succeeded", "failed", "skipped", "rejected"}

\* _TASK_DONE_WELL: states that satisfy a dependency.
DoneWell == {"succeeded", "skipped"}
=============================================================================
