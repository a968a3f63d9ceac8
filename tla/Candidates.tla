----------------------------- MODULE Candidates ------------------------------
(* The plans of a group's incidents: the playbook's, the one a model may add  *)
(* while the run waits for it, the variants a reader of the comparison adds   *)
(* and the choice an operator makes.  engine.py, candidates.py, api/plans.py. *)
(* Requests hold sessions of their own and overlap; a row a transaction       *)
(* changed is locked until it ends, and rows a session read stay as read      *)
(* (db/session.py: autoflush and expire_on_commit are off).                   *)
EXTENDS ModelCall, Reflection, Relation

CONSTANTS Member,          \* the incidents, in the order the group advances them
          Primary,         \* the declared primary of the demo dataset
          PrimaryBudget, OrdinaryBudget, PoolBudget,
          MinSlice,        \* the least of the pool worth a call
          MaxGrace,        \* the backstop's grace, at most a fifth of the allowance
          Available,       \* the actions with a service behind them
          Target,          \* what the orchestrator lets a plan be about
          PlaybookTasks,   \* the deterministic plan
          Reply,           \* what a provider may answer
          Prompt,          \* sizes of the prompt
          Request,         \* requests about plans
          Contested,       \* bound: the incidents whose plans people look at
          MaxPlans,        \* bound: plans of an incident an operator may choose
          MaxLost          \* bound: runs lost half-way

ASSUME CandidatesAssumption ==
    /\ Member \subseteq Nat /\ IsFiniteSet(Member)
    /\ {PrimaryBudget, OrdinaryBudget, PoolBudget, MinSlice, MaxGrace} \subseteq Nat
    /\ MinAttempt <= MinSlice
    /\ Contested \subseteq Member

VARIABLES mode,     \* LLM_MODE
          state,    \* incident.state, of the two states around planning
          plans,    \* the plan rows that are committed, by incident, oldest first
          run,      \* the request advancing the group and its orchestrator's pool
          call,     \* the model call it waits for
          request,  \* requests about plans and what their sessions hold
          lost      \* runs lost

vars == <<mode, state, plans, run, call, request, lost>>

-----------------------------------------------------------------------------
(* Plan rows                                                               *)

Actions(tasks) == {tasks[i].action : i \in DOMAIN tasks}

\* Not empty, each action once, with a service, about what the orchestrator knows, waiting
\* only for other tasks of the plan; that two wait for each other is not excluded.
Narrow(tasks) ==
    /\ tasks # <<>>
    /\ \A i, j \in DOMAIN tasks : tasks[i].action = tasks[j].action => i = j
    /\ \A i \in DOMAIN tasks :
          /\ tasks[i].action \in Available /\ tasks[i].targets \subseteq Target
          /\ tasks[i].depends \subseteq Actions(tasks) \ {tasks[i].action}

\* The playbook's steps name an action each and what they wait for, those without a service
\* are left out; a proposal has the shape of its schema.
ASSUME PlansAssumption ==
    /\ Target \subseteq STRING
    /\ PlaybookTasks \in Seq(Task) /\ Narrow(PlaybookTasks)
    /\ \A reply \in Reply : PhaseOf(reply) = "none" => reply.tasks \in Seq(Task)

Row(generator, variant, tasks) ==
    [generator |-> generator, variant |-> variant, tasks |-> tasks,
     hashed |-> FALSE, selection |-> "candidate"]

PlaybookRow == Row("playbook", "none", PlaybookTasks)

PlannerRow(tasks) == Row("planner-agent", "planner", tasks)

\* Communicating first is offered when the playbook does not begin with it.
Declared(tasks) ==
    IF "notify_passengers" \in Actions(tasks) /\ tasks[1].action # "notify_passengers"
    THEN <<"baseline", "notify-first">> ELSE <<"baseline">>

Reorder(tasks) ==
    LET first == {i \in DOMAIN tasks : tasks[i].action = "notify_passengers"}
    IN  InOrder(tasks, first) \o InOrder(tasks, DOMAIN tasks \ first)

\* A variant's tasks wait for nothing, whatever those it was made from wait for.
VariantRow(base, variant) ==
    LET ordered == IF variant = "notify-first" THEN Reorder(base.tasks) ELSE base.tasks
    IN  [Row(base.generator, variant,
             [i \in DOMAIN ordered |-> [ordered[i] EXCEPT !.depends = {}]])
            EXCEPT !.hashed = TRUE]

-----------------------------------------------------------------------------
(* The planner's allowance                                                 *)

Grace(budget) == Smaller(MaxGrace, (budget + 4) \div 5)

Backstop(budget) == budget + Grace(budget)

Pooled(m) == mode = "live" /\ m # Primary

Pool == IF run.pool = -1 THEN PoolBudget ELSE run.pool

Attempts(m) == ~Pooled(m) \/ Pool >= MinSlice

ChargedForAnswers(m, c) ==
    IF Pooled(m) /\ c.phase = "none" THEN Larger(0, Pool - c.spent) ELSE run.pool

Allowance(m) == CASE m = Primary -> PrimaryBudget
                  [] m # Primary /\ mode = "live" -> Smaller(OrdinaryBudget, Pool)
                  [] OTHER -> OrdinaryBudget

\* The pool pays for the time that passed, whatever came of the call.
Charged(m, c) == IF Pooled(m) THEN Larger(0, Pool - c.spent) ELSE run.pool

-----------------------------------------------------------------------------
(* The run                                                                 *)

NoRun  == [member |-> 0, pool |-> -1, waited |-> 0]
NoCall == Failed(Opened(0), "idle")

Init ==
    /\ mode \in {"off", "fixture", "live"}
    /\ state = [m \in Member |-> "planning"]
    /\ plans = [m \in Member |-> <<>>]
    /\ run = NoRun
    /\ call = NoCall
    /\ request = [r \in Request |-> [at |-> "new"]]
    /\ lost = 0

Planning == {m \in Member : state[m] = "planning"}

IsNext(m) == m \in Planning /\ \A n \in Planning : m <= n

\* A request advances the group with an orchestrator, and so a pool, of its own.
StartRun ==
    /\ run.member = 0
    /\ \E m \in Member : IsNext(m) /\ run' = [NoRun EXCEPT !.member = m]
    /\ UNCHANGED <<mode, state, plans, call, request, lost>>

\* The step commits: the playbook's plan, what the planner added to it, and the move.
Planned(m, added) ==
    /\ state' = [state EXCEPT ![m] = "assuring"]
    /\ plans' = [plans EXCEPT ![m] = <<PlaybookRow>> \o added]
    /\ LET others == Planning \ {m}
           following == IF others = {} THEN 0 ELSE CHOOSE n \in others : \A o \in others : n <= o
       IN  run' = IF following = 0 THEN NoRun
                  ELSE [member |-> following, pool |-> Charged(m, call),
                        waited |-> run.waited + call.spent]
    /\ call' = NoCall
    /\ UNCHANGED <<mode, request, lost>>

UnavailableRaises(m) ==
    /\ m \in Member
    /\ run' = NoRun /\ call' = NoCall
    /\ UNCHANGED <<mode, state, plans, request, lost>>

\* A call that failed, for a reason the client names or for another, costs the
\* candidate and nothing else.
Unavailable(m) == Planned(m, <<>>)

\* The proposal that was accepted, narrowed.  That its rows cannot be flushed (engine.py:902),
\* which takes the playbook's plan back with them, is the case of LoseRun.
Propose(m, tasks) ==
    LET kept == Reflect(tasks, Available, Target)
    IN  Planned(m, IF Rejected(kept) THEN <<>> ELSE <<PlannerRow(kept)>>)

Waiting == call.at # "over" \/ call.phase # "idle"

PlanUnaided ==
    /\ run.member # 0 /\ ~Waiting /\ mode = "off"
    /\ Planned(run.member, <<>>)

PlanUnfunded ==
    /\ run.member # 0 /\ ~Waiting /\ mode # "off"
    /\ ~Attempts(run.member)
    /\ Unavailable(run.member)

\* A fixture is replayed when there is one and it has the shape asked for.
PlanReplayed ==
    /\ run.member # 0 /\ mode = "fixture"
    /\ \/ Unavailable(run.member)
       \/ \E reply \in Reply : PhaseOf(reply) = "none" /\ Propose(run.member, reply.tasks)

OpenCall ==
    /\ run.member # 0 /\ ~Waiting /\ mode = "live"
    /\ Attempts(run.member)
    /\ \E key \in BOOLEAN, prompt \in Prompt :
          call' = Preflight(Opened(Allowance(run.member)), key, prompt)
    /\ UNCHANGED <<mode, state, plans, run, request, lost>>

AskProvider ==
    /\ call.at = "ready"
    /\ call' = Ask(call)
    /\ UNCHANGED <<mode, state, plans, run, request, lost>>

\* The transport's limit is one on each operation, so a reply may come after it; past
\* the backstop the engine has stopped waiting.
HearProvider ==
    /\ call.at = "asked"
    /\ \E reply \in Reply, took \in {1, AttemptLimit(call) + 1} :
          /\ call.spent + took <= Backstop(call.budget)
          /\ call' = Answered(call, reply, took)
    /\ UNCHANGED <<mode, state, plans, run, request, lost>>

StopWaiting ==
    /\ call.at = "asked"
    /\ call' = [Failed(call, "orchestrator_budget") EXCEPT !.spent = Backstop(call.budget)]
    /\ UNCHANGED <<mode, state, plans, run, request, lost>>

\* An exception the client has no name for.
CallFaults ==
    /\ call.at = "asked"
    /\ call' = [Failed(call, "fault") EXCEPT !.spent = @ + 1]
    /\ UNCHANGED <<mode, state, plans, run, request, lost>>

Conclude ==
    /\ call.at = "over" /\ Waiting
    /\ IF call.phase = "none" THEN Propose(run.member, call.answer)
       ELSE Unavailable(run.member)

\* The process dies or the client goes: what the step had not committed is gone.
LoseRun ==
    /\ run.member # 0 /\ lost < MaxLost
    /\ lost' = lost + 1 /\ run' = NoRun /\ call' = NoCall
    /\ UNCHANGED <<mode, state, plans, request>>

-----------------------------------------------------------------------------
(* Requests about the plans of an incident                                 *)

\* at: "new", "read" once the session holds the rows, "identified" once a choice has
\* stamped its plan, "writing" when the last flush is under way, "done".  seen is what
\* the session holds, todo the updates a flush has still to send, row by row, wrote
\* those it has sent, added the rows inserted.
Untouched == [i \in {} |-> {}]

\* A row, or an update of one, with the columns of a further update.
Changed(row, change) ==
    [c \in DOMAIN row \cup DOMAIN change |->
        IF c \in DOMAIN change THEN change[c] ELSE row[c]]

Opens(r, m, target, seen) ==
    request' = [request EXCEPT ![r] =
        [at |-> "read", member |-> m, target |-> target, seen |-> seen,
         todo |-> Untouched, wrote |-> Untouched, added |-> <<>>]]

\* Rows committed since appear in a second query; rows the session holds do not change.
Reread(r) == LET now == plans[request[r].member]
                 held == request[r].seen
             IN  [i \in DOMAIN now |-> IF i \in DOMAIN held THEN held[i] ELSE now[i]]

Answers(r, answer) == request' = [request EXCEPT ![r] = [at |-> "done", answer |-> answer]]

Chosen(m) == {i \in DOMAIN plans[m] : plans[m][i].selection = "selected"}

Base(tasks) == tasks[1]

\* GET plans and the comparison; an incident without a plan has nothing to vary.
ReadPlans(r, m) ==
    /\ request[r].at = "new" /\ plans[m] # <<>>
    /\ Opens(r, m, 0, plans[m])
    /\ UNCHANGED <<mode, state, plans, run, call, lost>>

\* The base is stamped and learns which variant it is, and the variants the session
\* did not see are made.
MakeVariants(r) ==
    /\ request[r].at = "read" /\ request[r].target = 0
    /\ LET seen == request[r].seen
           base == Base(seen)
           known == {seen[i].variant : i \in DOMAIN seen}
                       \cup (IF base.variant = "none" THEN {"baseline"} ELSE {})
           declared == Declared(base.tasks)
           made == [i \in DOMAIN declared |-> VariantRow(base, declared[i])]
           stamps == IF base.variant = "none" \/ ~base.hashed THEN {1} ELSE {}
       IN  request' = [request EXCEPT ![r] =
              [@ EXCEPT !.at = "writing",
                        !.todo = [i \in stamps |-> [variant |-> "baseline", hashed |-> TRUE]],
                        !.added = InOrder(made, {i \in DOMAIN made : declared[i] \notin known})]]
    /\ UNCHANGED <<mode, state, plans, run, call, lost>>

\* POST select: a repeat of the choice made returns it, another is refused.
ReadChoice(r, m, p) ==
    /\ request[r].at = "new" /\ p \in DOMAIN plans[m]
    /\ CASE Chosen(m) = {}  -> Opens(r, m, p, plans[m])
         [] Chosen(m) = {p} -> Answers(r, "ok")
         [] OTHER           -> Answers(r, "conflict")
    /\ UNCHANGED <<mode, state, plans, run, call, lost>>

\* A plan without a hash is stamped first, in a flush of its own.
Identify(r) ==
    /\ request[r].at = "read" /\ request[r].target # 0
    /\ LET p == request[r].target
           stamps == IF request[r].seen[p].hashed THEN {} ELSE {p}
       IN  request' = [request EXCEPT ![r] =
              [@ EXCEPT !.at = "identified", !.todo = [i \in stamps |-> [hashed |-> TRUE]]]]
    /\ UNCHANGED <<mode, state, plans, run, call, lost>>

Choose(r) ==
    /\ request[r].at = "identified" /\ request[r].todo = Untouched
    /\ LET rows == Reread(r)
           target == request[r].target
           others == {i \in DOMAIN rows \ {target} : rows[i].selection = "candidate"}
       IN  request' = [request EXCEPT ![r] =
              [@ EXCEPT !.at = "writing",
                        !.todo = [i \in {target} \cup others |->
                                    [selection |-> IF i = target THEN "selected"
                                                   ELSE "discarded"]]]]
    /\ UNCHANGED <<mode, state, plans, run, call, lost>>

Open(q) == request[q].at \in {"identified", "writing"}

\* What a session sent of a row, and of a column of it, "none" if nothing.
Wrote(q, i) == IF i \in DOMAIN request[q].wrote THEN request[q].wrote[i] ELSE Untouched

Sent(q, i, column) ==
    IF column \in DOMAIN Wrote(q, i) THEN Wrote(q, i)[column] ELSE "none"

HasChosen(q) == \E i \in DOMAIN request[q].wrote : Sent(q, i, "selection") = "selected"

\* The other transactions that changed a row and have not ended.
Holding(r, i) == {q \in Request \ {r} : /\ Open(q) /\ request[q].member = request[r].member
                                        /\ i \in DOMAIN request[q].wrote}

Selecting(change) == "selection" \in DOMAIN change /\ change.selection = "selected"

\* uq_plan_selected_per_incident, over what is committed and what the transaction sent.
IndexRefuses(r, i) ==
    \E j \in Chosen(request[r].member) \ {i} : Sent(r, j, "selection") = "none"

\* A flush sends its updates in the order of the primary key.
Due(r) == CHOOSE i \in DOMAIN request[r].todo : \A j \in DOMAIN request[r].todo : i <= j

Updating(r) == Open(r) /\ DOMAIN request[r].todo # {}

\* The transactions a row's update must wait for: its row's, and where it chooses, those
\* with a chosen row the index has yet to hear of.
WaitsFor(r) ==
    {q \in Request \ {r} :
        /\ Updating(r)
        /\ \/ q \in Holding(r, Due(r))
           \/ /\ Selecting(request[r].todo[Due(r)]) /\ Open(q)
              /\ request[q].member = request[r].member
              /\ HasChosen(q)}

\* The session once the update of row i is sent.
Flushed(r, i) ==
    LET todo == request[r].todo
        wrote == request[r].wrote
    IN  [request[r] EXCEPT
            !.todo = [j \in DOMAIN todo \ {i} |-> todo[j]],
            !.wrote = [j \in DOMAIN wrote \cup {i} |->
                          IF j = i THEN Changed(Wrote(r, i), todo[i]) ELSE wrote[j]]]

UpdateRow(r) ==
    /\ Updating(r) /\ WaitsFor(r) = {}
    /\ LET i == Due(r)
           refused == Selecting(request[r].todo[i]) /\ IndexRefuses(r, i)
       IN  \/ refused /\ Answers(r, "conflict")
           \/ ~refused /\ request' = [request EXCEPT ![r] = Flushed(r, i)]
    /\ UNCHANGED <<mode, state, plans, run, call, lost>>

\* Transactions that wait for one another: the database ends one of them.
Deadlocked(r) ==
    TransitiveClosure([x, y \in Request |-> y \in WaitsFor(x)], Request)[r, r]

EndDeadlock(r) ==
    /\ Deadlocked(r)
    /\ Answers(r, "error")
    /\ UNCHANGED <<mode, state, plans, run, call, lost>>

\* The session commits when the handler returns.
CommitRequest(r) ==
    /\ request[r].at = "writing" /\ request[r].todo = Untouched
    /\ LET m == request[r].member
       IN  plans' = [plans EXCEPT ![m] =
              [i \in DOMAIN @ |-> Changed(@[i], Wrote(r, i))]
              \o request[r].added]
    /\ Answers(r, "ok")
    /\ UNCHANGED <<mode, state, run, call, lost>>

-----------------------------------------------------------------------------

Advance == StartRun \/ PlanUnaided \/ PlanUnfunded \/ PlanReplayed \/ OpenCall \/ AskProvider
           \/ HearProvider \/ StopWaiting \/ CallFaults \/ Conclude

Serve(r) ==
    \/ \E m \in Contested : ReadPlans(r, m)
    \/ \E m \in Contested, p \in 1 .. MaxPlans : ReadChoice(r, m, p)
    \/ MakeVariants(r)
    \/ Identify(r)
    \/ Choose(r)
    \/ UpdateRow(r)
    \/ EndDeadlock(r)
    \/ CommitRequest(r)

Next == Advance \/ LoseRun \/ \E r \in Request : Serve(r)

Spec == Init /\ [][Next]_vars

\* Somebody asks for a run while an incident is planning, and a run goes on.
DrivenSpec == Spec /\ WF_vars(Advance)

-----------------------------------------------------------------------------
(* Properties                                                              *)

\* "a reserved 75s (80s including the orchestrator's backstop grace) plus a 75s shared
\* pool bounds planner waiting at about 159s" (config.py): what one run spends waiting
\* for the planner, over all its members, retries, late replies and failures.
PlannerWaitBounded ==
    run.waited + call.spent <=
        Backstop(PrimaryBudget) + PoolBudget + Grace(OrdinaryBudget)

\* An incident waiting for its plan gets past it with the playbook's plan first,
\* whatever the model, its provider or the time does (_propose_planner_candidate: "a
\* model failure must never block recovery").
PlanningEnds ==
    \A m \in Member : (state[m] = "planning") ~>
        (state[m] = "assuring" /\ plans[m][1].tasks = PlaybookTasks)

\* Whatever was proposed, and whoever reads or chooses at the same time, at most one plan
\* of an incident is chosen (uq_plan_selected_per_incident), and every plan that can be
\* chosen has only tasks a service carries out, each action once, about what the
\* orchestrator knows, waiting for other tasks of the plan (reflection.reflect,
\* candidates._reorder).  That its tasks can all become ready is not said and not so: tasks
\* that wait for each other are let through (reflection.py:147).
OneIsChosen == \A m \in Member : Cardinality(Chosen(m)) <= 1

PlansAreNarrow ==
    \A m \in Member : \A p \in DOMAIN plans[m] : Narrow(plans[m][p].tasks)

PlansAreSound == OneIsChosen /\ PlansAreNarrow

\* "Immutable once made": a plan an operator chose stays the chosen one (api/plans.py:
\* "a race becomes a conflict rather than a lost write").
SelectionStands ==
    [][\A m \in Member : Chosen(m) \subseteq {i \in DOMAIN plans'[m] :
                                               plans'[m][i].selection = "selected"}]_plans
=============================================================================
