------------------------------ MODULE Cascade ------------------------------
(***************************************************************************)
(* A disruption group: the flights it declares, their incidents, and the   *)
(* state derived from them.  Requests open the group's incidents, advance  *)
(* them one member after the other, or run a single incident; every step   *)
(* of an incident commits, the group's state is written at the very end    *)
(* from what the request saw on its way and from the state it read when it *)
(* began.                                                                  *)
(*                                                                         *)
(* How one incident moves is the table of IncidentStates; module Workflow  *)
(* has the rest.                                                           *)
(***************************************************************************)
EXTENDS Naturals, Sequences, FiniteSets, IncidentStates

CONSTANTS
    Flight,         \* ids of the declared members, in the order they are listed
    Request,        \* requests that may be under way at the same time
    MaxSteps,       \* how many steps a run of one incident may take
    MaxForeign,     \* bound on the incidents opened by others on these flights
    MaxAborts       \* bound on the requests lost to a crash or an exception

ASSUME CascadeAssumption ==
    /\ Flight \subseteq Nat \ {0} /\ Flight # {} /\ IsFiniteSet(Flight)
    /\ MaxSteps \in Nat \ {0} /\ MaxForeign \in Nat /\ MaxAborts \in Nat

VARIABLES
    incidents,  \* the incidents of these flights in id order
    group,      \* incident_group.state
    kind,       \* what a request is: open, run (the group) or one (an incident)
    listed,     \* whether it has listed the members
    rows,       \* the listed members it has not come to yet
    read,       \* the group's state when the request read it
    outcomes,   \* the member states it has seen
    hand,       \* the incident it is running, or 0
    at,         \* WorkflowContext.state of that run
    taken,      \* steps that run has taken
    left,       \* how many more members it may advance
    foreign, aborts

request == <<kind, listed, rows, read, outcomes, hand, at, taken, left>>
bounds  == <<foreign, aborts>>
vars    == <<incidents, group, request, bounds>>

-----------------------------------------------------------------------------
(* The group's own table                                                   *)

GroupTransitions ==
    [ detected  |-> {"assessing", "planning", "executing", "resolved", "blocked", "failed"},
      assessing |-> {"planning", "executing", "resolved", "blocked", "failed"},
      planning  |-> {"executing", "resolved", "blocked", "failed"},
      executing |-> {"executing", "resolved", "blocked", "failed"},
      resolved  |-> {},
      blocked   |-> {},
      failed    |-> {} ]

GroupState == DOMAIN GroupTransitions

\* Mutant of Admitted: the table is not consulted.
AdmittedAlways(current, target) == TRUE

\* assert_group_transition lets the move pass.
Admitted(current, target) == target \in GroupTransitions[current]

GroupOrder == <<"detected", "assessing", "planning", "executing">>

\* Mutant of Backwards: an earlier stage is written like any other.
BackwardsNever(current, target) == FALSE

\* The derived stage is an earlier one than the group has reached.
Backwards(current, target) ==
    \E i, j \in DOMAIN GroupOrder :
        GroupOrder[i] = target /\ GroupOrder[j] = current /\ i < j

\* Mutant of Derive: one resolved member is enough.
DeriveSome(states) ==
    IF "resolved" \in states THEN "resolved"
    ELSE IF states # {} /\ states \subseteq Terminal THEN "blocked"
    ELSE "executing"

\* Mutant of Derive: only a full success closes the group.
DeriveOpen(states) == IF states = {"resolved"} THEN "resolved" ELSE "executing"

\* derive_group_state.  The rules ask which states occur, not how often.
Derive(states) ==
    IF states \subseteq {"detected"} THEN "detected"
    ELSE IF states = {"resolved"} THEN "resolved"
    ELSE IF states \subseteq Terminal THEN "blocked"
    ELSE IF states \cap {"executing", "resolved"} # {} THEN "executing"
    ELSE IF states \ Terminal \subseteq {"planning", "assuring", "awaiting_approval"}
         THEN "planning" ELSE "assessing"

-----------------------------------------------------------------------------
Incident == [flight : Flight, owned : BOOLEAN, state : IncidentState]

Row == [flight : Flight, incident : Nat]

\* The incidents of the group on flight f.
Owned(f) == {i \in DOMAIN incidents : incidents[i].owned /\ incidents[i].flight = f}

\* _active_incident: whoever opened it.
Active(f) == {i \in DOMAIN incidents : /\ incidents[i].flight = f
                                       /\ incidents[i].state \notin Terminal}

\* group_affected_flights: a row for each incident of the group on a member flight,
\* and one without an incident for a member that has none.
Members ==
    {[flight |-> f, incident |-> 0] : f \in {g \in Flight : Owned(g) = {}}}
    \cup {[flight |-> incidents[i].flight, incident |-> i] :
             i \in {j \in DOMAIN incidents : incidents[j].owned}}

TypeOK ==
    /\ incidents \in Seq(Incident)
    /\ group \in GroupState
    /\ kind \in [Request -> {"none", "open", "run", "one"}]
    /\ listed \in [Request -> BOOLEAN]
    /\ rows \in [Request -> SUBSET Row]
    /\ read \in [Request -> GroupState]
    /\ outcomes \in [Request -> SUBSET IncidentState]
    /\ hand \in [Request -> Nat]
    /\ at \in [Request -> IncidentState]
    /\ taken \in [Request -> 0..MaxSteps]
    /\ left \in [Request -> Nat]
    /\ foreign \in Nat /\ aborts \in Nat

Init ==
    /\ incidents = << >> /\ group = "detected"
    /\ kind = [r \in Request |-> "none"] /\ listed = [r \in Request |-> FALSE]
    /\ rows = [r \in Request |-> {}] /\ read = [r \in Request |-> "detected"]
    /\ outcomes = [r \in Request |-> {}] /\ hand = [r \in Request |-> 0]
    /\ at = [r \in Request |-> "detected"] /\ left = [r \in Request |-> 0]
    /\ taken = [r \in Request |-> 0]
    /\ foreign = 0 /\ aborts = 0

-----------------------------------------------------------------------------
(* Requests begin and end                                                  *)

\* POST /incident-groups/{ref}/open or /run: the group's row is read first.  A run
\* may be told how many members to advance at most.
Begin(r, k, n) ==
    /\ kind[r] = "none"
    /\ kind' = [kind EXCEPT ![r] = k]
    /\ read' = [read EXCEPT ![r] = group]
    /\ left' = [left EXCEPT ![r] = n]
    /\ UNCHANGED <<incidents, group, listed, rows, outcomes, hand, at, taken, bounds>>

BeginOpen(r) == Begin(r, "open", 0)

BeginRun(r) == \E n \in 1..Cardinality(Flight) : Begin(r, "run", n)

\* POST /incidents/{id}/run.
BeginOne(r) ==
    /\ kind[r] = "none"
    /\ \E i \in DOMAIN incidents :
          /\ incidents[i].state \notin Terminal
          /\ hand' = [hand EXCEPT ![r] = i]
          /\ at' = [at EXCEPT ![r] = incidents[i].state]
    /\ kind' = [kind EXCEPT ![r] = "one"]
    /\ UNCHANGED <<incidents, group, listed, rows, read, outcomes, taken, left, bounds>>

ListMembers(r) ==
    /\ kind[r] \in {"open", "run"}
    /\ ~listed[r]
    /\ listed' = [listed EXCEPT ![r] = TRUE]
    /\ rows' = [rows EXCEPT ![r] = Members]
    /\ UNCHANGED <<incidents, group, kind, read, outcomes, hand, at, taken, left, bounds>>

\* The session is closed; nothing of the request is kept.
End(r) ==
    /\ kind' = [kind EXCEPT ![r] = "none"]
    /\ listed' = [listed EXCEPT ![r] = FALSE]
    /\ rows' = [rows EXCEPT ![r] = {}]
    /\ read' = [read EXCEPT ![r] = "detected"]
    /\ outcomes' = [outcomes EXCEPT ![r] = {}]
    /\ hand' = [hand EXCEPT ![r] = 0]
    /\ at' = [at EXCEPT ![r] = "detected"]
    /\ taken' = [taken EXCEPT ![r] = 0]
    /\ left' = [left EXCEPT ![r] = 0]

\* A crash or an exception; what was committed on the way stays.
Abort(r) ==
    /\ kind[r] # "none"
    /\ aborts < MaxAborts
    /\ aborts' = aborts + 1
    /\ End(r)
    /\ UNCHANGED <<incidents, group, foreign>>

-----------------------------------------------------------------------------
(* The members, one after the other                                        *)

IsNext(r, m) == \A n \in rows[r] : m.flight <= n.flight

\* The request leaves row m behind, having seen these states.
Leave(r, m, states) ==
    /\ rows' = [rows EXCEPT ![r] = @ \ {m}]
    /\ outcomes' = [outcomes EXCEPT ![r] = @ \cup states]

Detected(f, owned) == [flight |-> f, owned |-> owned, state |-> "detected"]

\* Mutant of Carries: only an active incident keeps another from being opened.
CarriesNothing(m) == FALSE

\* The flight had an incident of this group when the members were listed.
Carries(m) == m.incident # 0

\* open_group's loop: reuse the group's incident, else the active one whoever opened
\* it, else open one.
OpenNext(r) ==
    /\ kind[r] = "open" /\ listed[r]
    /\ \E m \in rows[r] :
          /\ IsNext(r, m)
          /\ IF Carries(m)
             THEN /\ Leave(r, m, {incidents[m.incident].state})
                  /\ UNCHANGED incidents
             ELSE IF Active(m.flight) # {}
             THEN /\ Leave(r, m, {incidents[i].state : i \in Active(m.flight)})
                  /\ UNCHANGED incidents
             ELSE /\ Leave(r, m, {"detected"})
                  /\ incidents' = Append(incidents, Detected(m.flight, TRUE))
    /\ UNCHANGED <<group, kind, listed, read, hand, at, taken, left, bounds>>

\* Mutant of MayAdvance: the budget of the request is not looked at.
MayAdvanceAny(r) == TRUE

MayAdvance(r) == left[r] > 0

\* advance_group's loop passes over a member with nothing to run: it has no incident,
\* and then no state either, its incident is closed, or the budget is spent.
SkipNext(r) ==
    /\ kind[r] = "run" /\ listed[r] /\ hand[r] = 0
    /\ \E m \in rows[r] :
          /\ IsNext(r, m)
          /\ IF m.incident = 0 THEN Leave(r, m, {})
             ELSE /\ incidents[m.incident].state \in Terminal \/ ~MayAdvance(r)
                  /\ Leave(r, m, {incidents[m.incident].state})
    /\ UNCHANGED <<incidents, group, kind, listed, read, hand, at, taken, left, bounds>>

RunNext(r) ==
    /\ kind[r] = "run" /\ listed[r] /\ hand[r] = 0
    /\ MayAdvance(r)
    /\ \E m \in rows[r] :
          /\ IsNext(r, m)
          /\ m.incident # 0
          /\ incidents[m.incident].state \notin Terminal
          /\ Leave(r, m, {})
          /\ hand' = [hand EXCEPT ![r] = m.incident]
          /\ at' = [at EXCEPT ![r] = incidents[m.incident].state]
    /\ left' = [left EXCEPT ![r] = @ - 1]
    /\ UNCHANGED <<incidents, group, kind, listed, read, taken, bounds>>

\* One committed step of the run, from the state the run holds; past its budget it can
\* only block the incident.  The partial unique index refuses a second active incident
\* on a flight: that run ends in Abort.
MemberStep(r) ==
    /\ hand[r] # 0
    /\ \E target \in Transitions[at[r]] \ {"failed"} :
          /\ IF taken[r] < MaxSteps THEN taken' = [taken EXCEPT ![r] = @ + 1]
             ELSE target = "blocked" /\ taken' = taken
          /\ target \notin Terminal => Active(incidents[hand[r]].flight) \subseteq {hand[r]}
          /\ incidents' = [incidents EXCEPT ![hand[r]].state = target]
          /\ at' = [at EXCEPT ![r] = target]
    /\ UNCHANGED <<group, kind, listed, rows, read, outcomes, hand, left, bounds>>

\* The run is over or waits for a person.
MemberReturns(r) ==
    /\ hand[r] # 0
    /\ at[r] \in Terminal \cup {"awaiting_approval"}
    /\ IF kind[r] = "one"
       THEN End(r)
       ELSE /\ outcomes' = [outcomes EXCEPT ![r] = @ \cup {at[r]}]
            /\ hand' = [hand EXCEPT ![r] = 0]
            /\ at' = [at EXCEPT ![r] = "detected"]
            /\ taken' = [taken EXCEPT ![r] = 0]
            /\ UNCHANGED <<kind, listed, rows, read, left>>
    /\ UNCHANGED <<incidents, group, bounds>>

-----------------------------------------------------------------------------
(* The group's state                                                       *)

AtSync(r) == kind[r] \in {"open", "run"} /\ listed[r] /\ rows[r] = {} /\ hand[r] = 0

\* What _sync_state wants the group to be: never an earlier stage than it read.
Target(r) == IF Backwards(read[r], Derive(outcomes[r])) THEN read[r] ELSE Derive(outcomes[r])

\* Write the state if it differs from the one read; a move the table refuses answers
\* 409 and writes nothing.
Sync(r) ==
    /\ AtSync(r)
    /\ group' = IF Target(r) # read[r] /\ Admitted(read[r], Target(r))
                THEN Target(r) ELSE group
    /\ End(r)
    /\ UNCHANGED <<incidents, bounds>>

-----------------------------------------------------------------------------
\* Another cascade, or a trigger of its own, opens an incident on a member flight.
OpenForeign ==
    /\ foreign < MaxForeign
    /\ foreign' = foreign + 1
    /\ \E f \in Flight :
          /\ Active(f) = {}
          /\ incidents' = Append(incidents, Detected(f, FALSE))
    /\ UNCHANGED <<group, request, aborts>>

RequestStep(r) ==
    \/ ListMembers(r) \/ OpenNext(r) \/ SkipNext(r) \/ RunNext(r)
    \/ MemberStep(r) \/ MemberReturns(r) \/ Sync(r)

Next ==
    \/ \E r \in Request : \/ BeginOpen(r) \/ BeginRun(r) \/ BeginOne(r)
                          \/ RequestStep(r) \/ Abort(r)
    \/ OpenForeign

Spec == Init /\ [][Next]_vars

\* A request that has begun is carried on with.
FairSpec == Spec /\ \A r \in Request : WF_vars(RequestStep(r))

-----------------------------------------------------------------------------
(* Properties.  All but the last hold only while the requests of a group   *)
(* do not overlap.                                                         *)

\* However often the group is opened, in whatever state its members are, a flight has
\* one incident in it.
OneIncidentPerMember == \A f \in Flight : Cardinality(Owned(f)) <= 1

\* The group moves along its table: a stage is never taken back, a closed group stays.
GroupMovesLegally == [][group' # group => group' \in GroupTransitions[group]]_group

\* A group closes only over incidents that are all closed, and as resolved only if
\* every one of them is.
ClosedOverAll ==
    [][(group' # group /\ group' \in Terminal) =>
          \A f \in Flight : \A i \in Owned(f) :
              /\ incidents[i].state \in Terminal
              /\ group' = "resolved" => incidents[i].state = "resolved"]_vars

\* Somebody asks for runs of the group, over and over.
Driven == \A r \in Request : SF_vars(BeginRun(r))

AllClosed == \A f \in Flight : /\ Owned(f) # {}
                               /\ \A i \in Owned(f) : incidents[i].state \in Terminal

\* When every member has its incident and all are closed, the group closes.
EventuallyDerived == Driven => (AllClosed ~> group \in Terminal)

\* The end of a request fails only on a group that was closed when it began: what is
\* derived from an open group is always a move the table has.
RefusedOnlyWhenClosed ==
    \A r \in Request : AtSync(r) =>
        \/ read[r] \in Terminal
        \/ Target(r) \in {read[r]} \cup GroupTransitions[read[r]]
=============================================================================
