# A formal model of TravelOps

TravelOps watches flight disruptions. A trigger opens an **incident** on a
flight; an **orchestrator** assesses it, proposes a plan of actions (check the
connections, reserve hotel rooms, notify passengers ...), submits every action to a
deterministic **assurance gate**, asks a person where the gate says so, carries
out what was cleared and closes the incident. This directory holds TLA+
models of the parts whose order of steps matters, the TLC configurations that
check them, and TLAPS proofs of what matters most. Every definition is
translated from the Python source under `src/backend/app` (paths below are
relative to it); `PROJECT.json` maps each to its lines.

## 1. Inventory

| Component | State it keeps | Operations | Interacts with | What is hard |
| --- | --- | --- | --- | --- |
| Workflow engine (`orchestrator/engine.py`, `state.py`, `limits.py`) | `incident`, `plan`, `plan_task`, `assurance_evaluation`, `human_decision`, `action`, `decision_log` rows; in memory one `WorkflowContext` per run | `open_incident`, `load_context`, `advance`, `run`, one handler per incident state, `execute` | calls the gate, the services, the bus; reads decisions and plan selections other requests commit | one commit per step, the task in hand only in memory, people and readers writing between the steps, calls no rollback undoes |
| Dispatch and registry (`dispatch.py`, `service_registry.py`) | none | `dispatch` | engine -> services | five kinds of answer with different consequences |
| Assurance gate (`assurance/`) | versioned configuration | `evaluate`: six checks, aggregated | engine -> gate | evidence that ages; the conflict check reads the incident's own actions |
| Human decisions (`api/assurance_router.py`) | `human_decision`, unique per evaluation | approve, reject | engine finds the decision at its next run | arrives at any time, also for evaluations nobody asked it for |
| Candidates and selection (`candidates.py`, `api/plans.py`) | variants of the plan, the selected plan | list and compare (which write), select | engine works on the selected plan | switches the plan under a half executed one |
| Plan approval, plan assurance (`plan_approval.py`, `plan_assurance.py`, `assurance/plan_*.py`) | one approval per plan hash, covering decisions | preview, approve | writes the decisions the engine reads | coverage against what changed meanwhile |
| Cascade groups (`group.py`, `group_state.py`) | declared members, group state derived from their incidents | open, advance | runs the engine on every member; other triggers open incidents on the same flights | every member commits on its own and the group at the very end; partial progress, derived state going backwards, overlapping requests |
| Event bus (`events/bus.py`) | a Redis stream, a group's cursor and pending entries, markers, a dead-letter stream; `_groups_ready` in each worker | publish; `run`: reclaim, read, process, acknowledge | producers: engine and routers; handlers | workers racing, crashes, failed commands, Redis losing everything |
| Policy engine, packs and records (`policy/`, `db/policy_ingest.py`, `db/policy_identity.py`) | a pack directory on disk; pack, rule and clause rows; resolutions and evaluations | load, ingest, resolve, evaluate; what the gate must demand of an entitlement | engine -> gate: required facts and constraints | absent facts, refusals that must not turn into approvals; packs revised under decisions already recorded |
| Recovery services (`services/`, `service_registry.py`) | `action` rows, a hold ledger of hotel rooms, predictions, edges, snapshots, a ranking | seven services, the group's snapshot, a what-if | dispatch calls them; views compose figures from their rows | several incidents draw on one ledger; figures composed at different moments must agree |
| Planner and LLM client (`agents/`, `llm/client.py`) | the allowance left of a run, the spent time of a call | one bounded call with retries; what is kept of its answer | planning steps wait for it | late, failed, oversized or wrong answers; a wait nobody bounded |
| Database, read APIs, demo drivers, frontend, data tools | - | - | - | not concurrent in a way of their own |

What makes each correct:

* **workflow** - nothing is done without the authority of the gate or of a person
  on that very evaluation; nothing is done twice; an incident moves only along its
  table; `resolved` hides no failure; the budget is a budget; every run returns; an
  incident somebody keeps driving ends.
* **bus** - at least once: no event is dropped; handlers repeat only for a cause;
  poison leaves the pending list; workers survive faults.
* **gate** - fails closed; only a block on risk alone may be approved.
* **plan approval** - an approval is whole or absent, releases nothing the gate holds,
  leaves the high tier to individual decisions and overwrites none.
* **group** - one incident per flight however often it is opened; its state moves along
  its table and closes over closed incidents only, and does close in the end.
* **candidates** - planning ends with the playbook's plan whatever the model does, within
  a bounded wait; what can be chosen can be worked off, one task after the other (the code
  does not ensure it for tasks that wait for each other: section 5); a choice stands (nor
  this: `plan_selection`).
* **policy** - what a person may approve is the engine's own figure on complete
  evidence, and never what the engine refused (the code lets some of it through:
  `policy_refusal`); records stay explainable and replay alike; sources were checked.
* **recovery** - no room is promised twice; the accounts of one figure agree; what is
  shown as exact is a total and does not move (the rooms and the committed cost may:
  section 5).

The hazards behind these, each at its line, are in `PROJECT.json`; those no
property covers say why. Section 5 names those that are beyond its list.

## 2. Modules

| Module | What it is |
| --- | --- |
| `IncidentStates` | the state vocabulary and the transition table of `state.py` and `models/enums.py` |
| `Authorisation` | the abstract specification: tasks are cleared, and acted on at most once, after clearance, after their dependencies, never beside another action of the same type |
| `Workflow` | the engine driving one incident, the people, the readers and the cascade around it |
| `MCWorkflow` | its instances for TLC |
| `WorkflowProofs` | types, authority, legal moves, the budget, that what waits is approvable; one call per task, finality, what resolving means, and the refinement of `Authorisation` |
| `EventBus` | the Redis Streams bus with one consumer group |
| `MCEventBus` | its instance for TLC |
| `EventBusProofs` | types, that no entry is dropped, how often an entry is delivered and how often its handlers succeed |
| `Cascade` | a group of flights: opening, advancing and deriving its state, under requests that may overlap |
| `MCCascade` | its instances for TLC |
| `CascadeProofs` | types, the derivation against the table, one incident per flight, legal moves, closing over all |
| `Gate` | the action gate: six checks, the vacuous-check rule, aggregation, what is approvable |
| `GateProofs` | what the gate lets run was evaluated and is clean; what it leaves to a person lacks nothing else |
| `PlanGate` | the plan gate: six checks of a plan as a whole, coverage of an evaluation by an approval |
| `PlanApproval` | a group's incidents under the gate while people decide, select plans and sign the plan |
| `MCPlanApproval` | its instance for TLC |
| `PlanApprovalProofs` | types, decisions and signatures as records, what a signature may and may not do |
| `PolicyEngine` | conditions in three values, applicability, entitlement and cash of a pack |
| `PackLoader` | which pack may be loaded, and its hash |
| `PolicyGate` | what the gate demands of an entitlement proposal and what it answers |
| `PolicyRecord` | a pack on disk that people revise, its rows, the decisions recorded against it |
| `MCPolicyRecord` | its instance for TLC |
| `PolicyProofs` | what of an entitlement may be approved; what the records keep over every revision |
| `Hotels`, `Connections`, `CrewImpact`, `PassengerImpact`, `DelayRisk` | the pure computations of the recovery services |
| `Recovery` | the services at work on a group, the hold ledger, the figures composed from their rows |
| `MCRecovery` | its instances for TLC |
| `RecoveryProofs` | a theory of finite sums and of the allocation loop; types, no room twice, the accounts of rooms, figures that agree and figures that stand |
| `Reflection` | what is kept of a plan a model proposed |
| `ModelCall` | one bounded call of a model: attempts, waits, refusals |
| `Candidates` | planning with a model in the way, the variants, the choice |
| `MCCandidates` | its instances for TLC |
| `CandidatesProofs` | the bound on a run's wait for its planner, one chosen plan, what the plans that can be chosen have in common |

`PlanApproval` composes `Gate` and `PlanGate`; `PolicyGate` composes an instance of
`Gate` with the packs, and `PolicyRecord` adds the tables; `Recovery` composes the five
computations; `Candidates` composes `ModelCall` and `Reflection`. `Workflow` takes the
gate's answers, the services' results and the planner's candidates as any of their
kinds; these modules say which answers those are.

### Workflow

The variables are the durable columns (`state`, `plans`, `selected`, `task`,
`evals` with their human decision, `action`, `actedOn` for
`action.assurance_id`, `changes` for the STATE_CHANGED rows of the decision log)
and the run's memory (`running`, `ctxPlan`, `ctxTaken`, `ctxEval`). `calls`
counts how often each task's service was called: it is the one thing a rollback
does not undo. `aborts` and `cascaded` are history: runs lost, and whether a cascade has
driven the incident.

`advance` commits once per step, so a step is one action, and the actions are the
handlers split along their branches: `StepDetected`, `StepAssessing`,
`StepPlanning`; `AssureNothing`, `AssureNext`; `AwaitNothing`, `AwaitUndecided`,
`AwaitApproved`, `AwaitRejected`; `ExecuteUnclaimed`, `ReplayAction`,
`DispatchTask`; `ExceedBudget`; `FinishRun`. `StartRun` is POST run (context
rebuilt from the rows), `StartGroupRun` a cascade's (context made afresh).
`AbortRun` is a crash or an exception at any point of a step: the transaction
rolls back and the context is gone. `DispatchLost` is the case where the service
had been called already. `Decide`, `ReadPlans` and `SelectPlan` are the requests
of people, enabled in every state in which the API accepts them.

Abstractions. The gate answers any of its outcomes at any time (evidence comes
and goes), except that its conflict check, which reads the actions of this very
incident, is computed as the code computes it; `execute_flagged` is `execute`. A
service returns any result; `needs_human` is split by whether it carries evidence,
because the engine is. Target references are left out: all tasks of an incident
name the same flight, so an idempotency key stands for its task. Journal lines
other than STATE_CHANGED, events and reports are left out.

### EventBus

One action per Redis command of a pass and one for the run of an entry's
handlers: `EnsureGroup` (XGROUP CREATE, skipped when `_groups_ready` remembers
it), `FindStale` (XPENDING), `Bury`/`BuryAck` (XADD to the dead-letter stream,
XACK), `Claim` (XCLAIM), `Read` (XREADGROUP), `TakeUp` (decode, find handlers,
look up the marker), `Handle`/`HandlerFails`, `Mark`, `Ack`. Between any two,
other workers step, entries go stale (`GrowStale`), a worker dies (`Crash`), a
command fails under the guard (`CommandFails`: back off, start the pass again) or
outside of it (`RegistryFails`: `run` ends), and Redis restarts empty
(`RestartRedis`), as `docker-compose.yml` configures it. `done` and `excused` are
history: how often an entry's handlers succeeded, and how often something
happened that explains one more time. Redis is external; its commands are
modelled by what the bus relies on.

### Cascade

The durable state is the incidents on the member flights (`incidents`: the flight,
whether the incident belongs to this group, its state) and `group`. The rest is one
record per request: what it is (`kind`: POST open, POST run of the group, POST run of
one incident), the members it has listed and still has to come to (`rows`), the
group's state as its session loaded it (`read`), the member states collected so far
(`outcomes`), the incident in hand with the state the run holds (`hand`, `at`,
`taken`) and its `max_incidents` (`left`).

The actions follow the loops: `ListMembers` (`group_affected_flights`), `OpenNext`
(one turn of `open_group`), `SkipNext` and `RunNext` (one turn of `advance_group`),
`MemberStep` (one committed step of a member's run), `MemberReturns`, `Sync`
(`_sync_state` and the commit of the request). `Abort` is a crash or an exception
anywhere: what members committed stays, the group is not written. `OpenForeign` is
any other trigger that opens an incident on a member flight; the partial unique index
is the condition that the flight has no active one. A member moves along the table of
`IncidentStates` and may block; why it moves is the matter of `Workflow`. The
past-budget step is kept because it is what makes a run end. Left out: the recorded
group run replayed by its key, the cascade snapshot (whose failure is swallowed),
journal lines, and the injection script that opens one incident of a group by itself.

### Gate, PlanGate, PlanApproval

`Gate` is `assurance/checks.py`, `gate.py` and `blocking.py` as operators on a record
of what the gate was handed; `PlanGate` the same for `plan_checks.py`, `plan_gate.py`
and `approval.py`. `PlanApproval` runs them: `Assure` evaluates the first ready task of
an incident on any of the readings, `Execute`, `Await`, `AwaitNothing` and `EndRun` are
the engine's steps as far as approval meets them (the full ones are `Workflow`'s),
`Decide` a single decision, `OpenComparison` and `SelectPlan` the plans, and
`BeginApproval`/`CommitApproval` the two moments of a signature: what it read, and what
it writes. The unique constraints on (plan, hash) and on a decision's evaluation are
`Collides`. A plan's id stands for its hash. In the code a plan that has none is signed
under the hash of the review (`plan_approval.py:99`) and may be stamped with another by a
later comparison (`candidates.py:226`); a second signature is then refused by the decisions
of the first, on which the properties rest.
Evaluations are kept with their decision and the approval it came with.

### PolicyEngine, PackLoader, PolicyGate, PolicyRecord

A fact is a tagged value or null, a condition a tree in three values, written as the
sequence of its nodes with children before parents, so that its value is a recursive
function of positions; a cash figure is a set of at most one number. `Lacking` are the
rules the evidence gate stops at, `FirstIncomplete` the one it reports. `Calculate` and
`EvaluatePack` follow the gates of `policy/engine.py` in their order, to the entitlement,
the cash or the refusal. `CitedEntitlement` adds what the record says of the pack,
`PackIdentity`, with the one field the hash does not cover: whether the source was checked.
`PackLoader` has the refusals of `load_pack` and what a pack's hash covers. `PolicyGate` is the road from an entitlement proposal to the gate's answer
(`policy/requirements.py`, `assurance/authorship.py`). `PolicyRecord` is the state: the
pack on `disk`, which people revise at any time, its rows, and the resolutions and
evaluations pinned to what they were made from; each operation is one transaction.

### Recovery and its computations

A service runs for one incident and leaves an `action` row with a payload; `held` is the
hold ledger. One action per service (`AssessDelayRisk`, `CheckConnections`,
`AssessCrewImpact`, `FindHotelOptions`, `ReadHotelOptions`/`ReserveHotelBlock`,
`RebookPassengers`, `Communicate`), with the reading of the ledger and the writing of the
holds apart, and `RecordCascade` for the group's snapshot. `Rollup`, `Graph`, `Totals`,
`Radius` (its dimensions as a set of records) and `WhatIf` (`ReEvaluate` under a set of
levers) are the views, computed from the rows as the code does. Strings, currencies and
texts are left out; minutes and rooms are numbers. Passengers of equal rank are ordered by
one id, where the code orders them by passenger and booking.

### Candidates, ModelCall, Reflection

`ModelCall` is a call as a record and its steps as operators: allowance, attempts, waits,
refusals; time is in ticks of half a second. `Reflection` is what is left of a proposal.
`Candidates` has the run that plans the members one after the other (`StartRun`,
`PlanUnaided`, `PlanUnfunded`, `PlanReplayed`, `OpenCall`, `AskProvider`, `HearProvider`,
`StopWaiting`, `CallFaults`, `Conclude`, `LoseRun`) and the requests about plans with the
sessions they hold: rows read (`ReadPlans`, `ReadChoice`), made (`MakeVariants`,
`Identify`, `Choose`), sent one by one in the order of the primary key, under row locks
and the partial unique index (`UpdateRow` and `Flushed`, `EndDeadlock`), and committed
(`CommitRequest`). A flush of candidate rows that fails takes the playbook's plan with it
(`engine.py:902`): the step is lost as by `LoseRun`.

## 3. Runs

| Run | Instance | Shows |
| --- | --- | --- |
| `workflow` | a playbook's plan of three tasks, a variant of it, and a planner's candidate of two: in order, or tied in a knot (its two tasks wait for each other, which `agents/reflection.py` lets through); action types shared by all, two of them high-tier, budget 11, two lost runs, cascades too, fair steps | `TypeOK`, `ActedOnlyWithAuthority`, `CalledAtMostOnce`, `ParkedIsApprovable`, `BudgetSpansRuns`; `LegalMoves`, `ResolvedIsWorked`, `SettledIsFinal`; the refinement `KeepsPromise`; `RunReturns`, `EventuallyClosed` |
| `event_bus` | two workers, a good and a poison entry, passes of two, cap 2, one fault (crash, failed command or restart) | `TypeOK`, `NothingDropped`, `EffectsExplained`, `AttemptsBounded`, `EverySettled` |
| `workflow_restart` | violated | `ResumesAfterRestart`: a run lost in `executing` is not resumed but blocked |
| `event_bus_restart` | violated | `WorkersRecover`: after a Redis restart the group is never created again |
| `cascade` | two flights, one request at a time, one foreign incident, one lost request, six steps a run | `TypeOK`, `OneIncidentPerMember`, `RefusedOnlyWhenClosed`, `GroupMovesLegally`, `ClosedOverAll`, `EventuallyDerived` |
| `assurance` | two incidents of a group, one with a variant; low, medium and high tasks; readings that are clear or breach a soft constraint; two single decisions, two signatures in flight | `TypeOK`, `SignatureReleasesNothing`, `HighRiskDecidedAlone`, `ApprovalIsWhole`, `DecisionsStand` |
| `policy` | charter mode, seven revisions of a pack (of up to four rules, among them an exempting, a deferring and a superseded one; sources that match, do not, or are missing), two trips, two resolutions; 54 sets of facts with 33 payloads, written by a model or not | `ApprovableIsFiguredOrUnsettled`, `ProvenanceIsChecked`, `EvaluationsExplained`, `ReplaysAlike`, `ExtractedTextStands` |
| `policy_refusal` | violated; the same | `RefusedIsNotApprovable`: a measure that is there and not confirmed makes the engine refuse and the gate content, and a person may approve any figure |
| `recovery` | two flights of a group and one of another at the same airport, a live delay of half an hour or none, requests for rooms one at a time | `TypeOK`, `NoRoomTwice`, `RoomsAddUp`, `FiguresAgree`, `ExactStandsStill` |
| `recovery_overlap` | violated; the requests overlap | `NoRoomTwice`: two incidents are given the same rooms |
| `candidates` | three members sharing a pool that pays for less than two, eleven answers of a provider, early, late or never, one lost run, three requests about the last member's plans | `PlannerWaitBounded`, `PlansAreSound` (`OneIsChosen` and `PlansAreNarrow`), `PlanningEnds` |
| `plan_selection` | violated; two operators | `SelectionStands`: the second choice is written from rows read before the first, which is gone |

**Bounds, and why they are enough.** The workflow's plans are the smallest in which
every relation between tasks occurs: a dependency within a plan, tasks after each
other without one, tasks that wait for each other, the same action in several plans in
another order. Budget 11 lets the API finish the first plan and is exceeded by an
approval found again and again; a cascade starts it again. Two lost runs put a crash both before and after a call. The
number of evaluations needs no bound: each costs a step of the budget, and a
cascade's fresh budgets stop when the incident closes. The bus's two entries are
one of each kind the bus treats differently and one batch; two workers are what a
race needs; cap 2 is the least with a redelivery; one fault at any of the steps,
the second being beyond the time of a run. Unhandled entries take part in the
proofs but not in this run. The cascade's two flights are the least on which members
differ, and the derivation asks which states occur, not how often; six steps take an
incident from the start to `resolved` through an approval; one foreign incident and
one lost request meet an opening and a run at any point, and the proofs lift both
bounds. The assurance run has a task of each tier, an incident that can be signed while
the other goes on, and a sibling plan; two requests are what a collision needs. The policy
run's packs differ in the one thing each refusal asks about, two of them in the record of
their source alone, and its cases are every combination of the facts and payload fields
the demands name. The recovery run's bookings
have a connection each way the walk tells apart, its hotels a partner, one that is none and
one too dear; four rooms are asked for and three are there. The candidates run's pool is
empty at the third member, and its budgets, in half seconds, keep the proportions
of `config.py` with fewer ticks. Deadlock is checked in the workflow, bus and cascade
runs, where a request for a run, or a worker's pass, is always possible; in the others
people may stop asking, and the tasks are finite.

**Fairness.** `RunSpec` makes `Step` weakly fair: `run` is a loop that calls
`advance` until it returns, and a step that cannot finish aborts. Nothing forces a
run to start or a person to decide. `EventuallyClosed` therefore assumes `Driven`:
somebody asks for runs while the incident is open, what may be approved is decided in
the end, and cascades, whose runs begin the count of steps anew, ask finitely often. For
the bus, a worker's steps are weakly fair (its loop), and
so is the passing of the idle threshold; `EverySettled` also assumes `Staffed`,
that somebody starts a worker when none runs, and, where Redis restarted, that the
group exists again - which `WorkersRecover` shows the code does not ensure.
Handlers are not assumed to succeed. A cascade's request, once begun, is carried on
with (`RequestStep` is weakly fair); `EventuallyDerived` assumes, as `Driven`, that
runs of the group are asked for over and over. That a member's run returns is what
`RunReturns` checks. `PlanningEnds` assumes `WF(Advance)`: somebody asks for a run while
an incident is planning, and a run that is there goes on (a coroutine with a timeout on
every wait: `StopWaiting` is always possible). Requests about plans are not fair.

## 4. Proofs

All for every value of the constants that satisfies the named `ASSUME`s of the
modules: task ids are positive numbers, dependencies stay in a plan, a plan does not
repeat an action; for the bus, finitely many workers and positive batch and cap; for the
cascade, finitely many flights and a positive step budget; for plan approval, a task
belongs to one plan and a plan to one incident; for the gate, the policy-bearing actions
are actions (`GateAssumption`, `PolicyGateAssumption`); for the policy's records, rules
are a sequence and a recorded digest is a digest or one of the words for none
(`PolicyRecordAssumption`); for the recovery services, a flight is of one group, finitely
many bookings and properties with ids of their own, and rows that hold what their columns
hold (`RecoveryAssumption`); for the planner, budgets are numbers and a slice of the pool
is worth an attempt, the playbook's own steps name each action once, with a service, and wait
for each other only (`Narrow`), and a reply that was accepted has the shape of its schema (`CandidatesAssumption`, `PlansAssumption`). What a
theorem assumes beyond that is part of its statement:

* `OneAtATime` and `~Overlapping`: requests for a group's incidents, or for rooms, do not
  overlap. Without it the property is false; `recovery_overlap` shows it for the rooms.
* `EvidenceIsRead`: a rule that asks for evidence reads some of it in its condition, so
  it does not fire before anybody asserted some. The exemptions of
  `policy_packs/*/rules.yaml` are written like that and `MCPolicyRecord` assumes it of its
  packs, where TLC evaluates it. The engine does not enforce it: a rule that fires with
  nothing asserted passes the evidence gate (`policy/engine.py:656`).
* `BrokenIsWeighed`: the ranking's ruleset gives a broken connection a weight. One with
  weight zero names no such passenger, and the ranking would not tell the snapshot's
  bookings.

| Theorem | Statement | Argument |
| --- | --- | --- |
| `TypeCorrect` | `Spec => []TypeOK` | inductive as it stands |
| `Authority` | `Spec => []ActedOnlyWithAuthority` | `AuthorityInv` adds that the task in hand carries an evaluation of its own with its authority, and that decisions are never taken back |
| `MovesAreLegal` | `Spec => LegalMoves` | `MovesInv`: a fresh incident has an untouched budget, so the budget cannot run out in `detected`, from where `blocked` is not legal |
| `BudgetHolds` | `Spec => []BudgetSpansRuns` | `BudgetInv` ties the run's count to the decision log until a cascade drives the incident |
| `WaitsForApprovable` | `Spec => []ParkedIsApprovable` | `HeldOnRisk`: any answer of the gate but clearance and a hold on risk closed the incident |
| `CalledOnce` | `Spec => []CalledAtMostOnce` | `PromiseInv`, below |
| `SettledForGood` | `Spec => SettledIsFinal` | `PromiseInv` |
| `ResolvedWithWork` | `Spec => ResolvedIsWorked` | `PromiseInv` and `WorkedSoFar`: an open incident has no failed action behind it; the step that resolves has just recorded one of the plan |
| `PromiseKept` | `Spec => KeepsPromise` | `PromiseInv`, one step lemma per action |
| `BusTypeCorrect` | `Spec => []TypeOK` (bus) | inductive with the ranges of the workers' lists |
| `BusDropsNothing` | `Spec => []NothingDropped` | `DropInv`: what a worker is about to acknowledge is marked, buried or of no interest, now or before the last restart |
| `DeliveriesBounded` | `Spec => []AttemptsBounded` | `LookInv`: each worker that has found an entry and not yet claimed it counts as a delivery to come |
| `RepeatsExplained` | `Spec => []EffectsExplained` | `AccountInv`, below |
| `CascadeTypeCorrect` | `Spec => []TypeOK` (cascade) | with `IndexInv`: what a request points to exists |
| `OnlyClosedRefuses` | `Spec => []RefusedOnlyWhenClosed` | from types alone: every answer of the derivation against every stage (`StageBackwards`, `OpenGroupMoves`) |
| `NoDoubleOpening` | `OneAtATime /\ Spec => []OneIncidentPerMember` | `SoleInv` |
| `GroupIsLegal` | `OneAtATime /\ Spec => GroupMovesLegally` | `CloseInv` |
| `GroupClosesOverAll` | `OneAtATime /\ Spec => ClosedOverAll` | `CloseInv` |
| `GateFailsClosed` | what the gate lets run by itself was evaluated, known, of a tier that may, complete, within every hard constraint, no repetition, and no entitlement nothing was demanded of | check by check through the aggregation |
| `OnlyRiskIsApproved` | what a person may approve is of the high tier, and all that `GateFailsClosed` says but the tier holds of it too | `NothingFailed`: a block on risk alone leaves no other check failed |
| `ApprovableFiguredOrUnsettled` | `EvidenceIsRead /\ Spec => []ApprovableIsFiguredOrUnsettled` | through the demands of `PolicyGate` and `OnlyRiskIsApproved`, below |
| `ProvenanceChecked` | `Spec => []ProvenanceIsChecked` | what the loader refuses never reaches a row |
| `ExtractedTextKept` | `Spec => ExtractedTextStands` | clause by clause through `SyncClauses` |
| `RecordsExplained` | `Spec => []EvaluationsExplained` | `RecordInv`, below |
| `HashesReplay` | `Spec => []ReplaysAlike` | `RecordInv`, `HashDecides` and `HashStanding`, below |
| `AssuranceTypeCorrect` | `Spec => []TypeOK` (plan approval) | `BaseInv`: what plans, hands and signatures point to exists |
| `DecisionsAreRecords` | `Spec => DecisionsStand` | the unique constraint, under any overlap |
| `SignatureIsWhole` | `Spec => []ApprovalIsWhole` | `WholeInv`: what is being signed names something, and nothing that came after it was read |
| `NothingReleased` | `Policy.highSeparate /\ Spec => []SignatureReleasesNothing` | `HeldInv`, `SignInv`, below |
| `HighRiskNeedsItsOwn` | with high risk kept apart and in need of a person, `Spec => []HighRiskDecidedAlone` | the same |
| `RecoveryTypeCorrect` | `Spec => []TypeOK` (recovery) | `BookInv`, below |
| `RoomsHeldOnce` | `~Overlapping => (Spec => []NoRoomTwice)` | `RoomsInv`, below |
| `ExactIsKept` | `Spec => ExactStandsStill` | `FigureStays`: a figure flagged exact reads only rows that are complete, and a complete set of rows gains none unless, for the rooms, an incident is opened; the committed cost is not in the statement |
| `ExactForEver` | a number of flights, passengers, hotels, connections or rotations once shown as exact stays so for ever | `FigureStays` |
| `OneFigureOnePlace` | `BrokenIsWeighed => (Spec => []FiguresAgree)` | `FigureInv`, below |
| `RoomsAccountedFor` | `~Overlapping => (Spec => []RoomsAddUp)` | `AccountInv` of the recovery services, below |
| `WaitIsBounded` | `Spec => []PlannerWaitBounded` | `WaitInv`, below |
| `OneChosen` | `Spec => []OneIsChosen` | `ChoiceInv`, below |
| `SoundPlans` | `Spec => []PlansAreSound` | `OneChosen`, and `SoundInv` with `ChoiceInv` and `WaitInv` for `PlansAreNarrow` |

`PromiseInv` is what makes "called at most once" inductive across crashes. A call
whose commit was lost leaves no row behind, so the rows alone cannot say it will not
be repeated; what says it is that the lost call leaves the incident in `executing`
with no task in hand, whence the only step is `blocked` (`ExecuteUnclaimed`), after
which nothing is done. Its parts: `HandInv` (what is in hand while executing is a
cleared task of the current plan), `CallInv` (a call without a row only in an
incident that will block), `DependsInv` (the dependencies of a task in hand were
called), `PlanInv`, `CrossPlanInv` and `SoleInv` (no other task of its action type
was called, in this plan or another). The finding `workflow_restart` and this
theorem are the two sides of one decision of the code: it gives up resuming, and is
never at risk of repeating.

`AccountInv` counts, for an entry, the workers that have it in a batch, those that are
handling it and whether Redis will hand it out again. These together with the successes
so far exceed what explains them by two at most, by one while there is no marker; and
without a marker, nobody being about to write one, no success is unexplained. That a
stale entry is handed to one worker only, and that a new one is not stale, is what keeps
the sum from growing.

`OneAtATime` says that requests of a group do not overlap; without it the last three
of the cascade are false: the later writer of two checks its move against the state it
read before the other closed the group. `SoleInv` carries over the time between the
listing and the opening: a flight listed without an incident has none and is listed once.
`CloseInv` is the reason a group may be closed from memory: until the request ends, it has
still to come to each incident of the group, has it in hand, or has seen the state it is
in (`Sees`), the run in hand knows its row (`Holds`), and the group is as it was read
(`Reads`).

A signature covers low and medium tasks, and releases nothing: the gate asks for a person
where risk is high and for no other reason that leaves the incident open (`RiskMeansHigh`;
`HeldInv`: what it held for another reason closed the incident), and what is high is not
covered where high risk is kept apart. `SignInv` says of what is left: all that a request
in flight or an approval covers had been cleared by the gate, and it carries this from the
reading to the commit, over the decisions and plan switches between them.

`WaitInv` keeps the books of the wait. While the primary has not been planned its reserve
is untouched; all other waiting came out of the pool, which pays for the time that passed
and not for the time that was allowed, so that only the call that empties it can have
gone over, by its grace, and none is attempted after it.

A person may approve an entitlement only if the gate held it for risk and nothing else, so
every demand `PolicyGate` made of it was met (`OnlyRiskIsApproved`). The demands name the
facts and the figure of the engine's answer (`CalculatedFigure`), and the evidence gate
leaves no fired rule a gap (`EvaluatedPack`). A refusal demands what no proposal has, or
else the facts it says are missing; these may be there and settle nothing, which is the
exception in the theorem (`RefusedUnsettled`) and the finding of `policy_refusal`. `RecordInv` says what a row of the tables was made from: a resolution
by a pack that could be loaded, an evaluation from its resolution's trip and pack, whose
rule is still a row - pruning asks the evaluations first. Packs of one hash are one pack to
the engine (`HashDecides`: `EngineReads`, `SelectReads`). The record also states whether
the source was checked, which the hash leaves out; two records of one hash may differ in it
and yet not in what may be called current law, since a pack that calls itself approved is
not loaded without its source (`HashStanding`).

`BookInv` is the books every service keeps: each row was written by its service for its
incident with the payload the service computes, what a request has read of the ledger is a
list in the order of the query, and the ledger holds no negative rooms. `RoomsInv` adds
that a request that does not overlap read the ledger as it is. What the greedy loop takes
from a property is bounded by what it read, so the holds stay within the inventory.
`FigureInv` adds where the ledger's rooms come from (an allocation of that group named the
property) and what the last snapshot was taken from. `AccountInv` adds that the ledger's
rooms are the sum of what the payloads took: an allocation adds to both. That the what-if's
baseline agrees (`BaselineIs`, `BaselineAgrees`, `GroupAdds`, `RowSums`) takes a theory of
the sums the model takes over finite sets, which `RecoveryProofs` begins with, by
well-founded induction on the subsets of a finite set.

`ChoiceInv` is what makes the choice of a plan exclusive although sessions write from rows
read at different moments. A transaction that has sent its choice has, for every other
chosen row that is committed, sent something of that row too; and of the open transactions of an
incident one at most has sent a choice, because the index makes the second wait for the
first. So when it commits, no row but its own is left chosen. It is not that a choice
stands: `plan_selection` shows that it may not. `SoundInv` carries `Narrow` along the
three places a plan can be: the rows, the rows a session read or is to add, and the answer
a call has in hand. What `Reflect` keeps of an answer is in order, once each, and waits
for what is kept (`NthIs`, `OrderedPlan`, `ReflectIsSound`); reordering keeps the tasks of
a plan (`ReorderIsPlain`), and a variant waits for nothing (`VariantIsSound`), which is
why its new order cannot break a dependency.

**Only model-checked:** the liveness properties `EverySettled`, `RunReturns`,
`EventuallyClosed`, `EventuallyDerived` and `PlanningEnds`, out of TLAPS's reach. Every
invariant and action property a passing run checks is stated by a theorem. The violated
properties of section 3 are false of the code: `NoRoomTwice` holds without overlap, and
`ApprovableIsFiguredOrUnsettled` says what is left of `RefusedIsNotApprovable`.

## 5. Not modelled, and what is left

Left out of the modules above: two runs of one incident at once; the race of two triggers
in `open_incident` (`engine.py:421` takes the highest reference and adds one); the
idempotency ledger of POST run (`api/incidents.py:618` records the key after the run);
publishing, with its two moments before and after a commit and its dedupe key
(`events/bus.py:386`, which reserves the key before the entry is there); trimming and the
expiry of markers on the bus; a crash between the two commands of a burial is in the
model, a dead-letter stream that holds an entry twice because of it is not told apart
(`events/bus.py:696`); a lookup of the marker that fails outside the guard (`bus.py:618`)
is `RegistryFails`. Components without a module are listed in `PROJECT.json` with the
reason.

Three disagreements between the code and what the repository says of it have no run of
their own; the passing properties about the same state except exactly them:

* **The rooms are shown as exact too early.** `src/backend/app/services/blast_radius.py:43`
  says of `is_complete` "True when every flight in the group contributed. False makes the
  value a floor." `group_hotel_totals` counts as declared the incidents that were opened
  (`hotel.py:576`), so the rooms are flagged exact while a declared flight has no incident
  and has contributed nothing; opening and allocating it moves a figure shown as exact.
  `ExactStandsStill` excepts the rooms in a step that opens a further incident of the group.
* **The committed cost is shown as exact too early.** It is summed over the allocations
  that ran, as the rooms are, and flagged by the completeness of the connection and crew
  assessments (`blast_radius.py:250`), so every allocation moves it, against the same line.
  `ExactStandsStill` says nothing of it.
* **A cycle among a proposal's tasks is not dropped.** `src/backend/app/agents/reflection.py:16`
  lists among what is dropped "Self-dependency or a cycle | Same, and it deadlocks the run
  loop". `reflect` drops a dependency on the task itself and on tasks that are not kept;
  tasks that wait for each other keep theirs (`reflection.py:147`) and become a plan an
  operator may choose, of which no task is ever ready. `PlansAreSound` does not exclude it;
  `workflow` has such a candidate and shows that the run returns and the incident closes
  with it chosen too: the loop finds nothing ready and blocks, it does not hang.

What the models show the code to do besides, where no line of the repository says otherwise
or the line is about another case:

* `BudgetSpansRuns` holds until a cascade drives the incident; each cascade request hands
  its members a fresh budget (`StartGroupRun`).
* A rejection is accepted for an evaluation the gate had cleared and then ignored
  (`api/assurance_router.py:210`, `engine.py:1465`).
* A group is closed without a member whose flight carries an incident of another
  trigger, and two overlapping requests of a group may write over a closed one
  (`group.py:495`).
* The plan review looks dependencies up by the wrong kind of key and sees none
  (`plan_assurance.py:165`); the gate still judges each task.
* The reason an operator gives for a signature is overwritten by the refusal of a task the
  signature does not cover (`plan_approval.py:266`).
* Two recorded evaluations of one hash may differ in whether the pack's source was checked;
  `tests/unit/policy/test_source_integrity.py:257` wants the two facts apart. `ReplaysAlike`
  is about the entitlement and the standing.
* `notify_passengers` and `prepare_notifications` are served by one adapter
  (`service_registry.py:643`), so a plan with both addresses the passengers twice.

Left of the plan, in order: `ConcurrentRuns`, two runs over one incident with cached state,
against the promise of `Authorisation`; publication and its commit; `SelectionStands` as a
theorem about requests that do not overlap.
