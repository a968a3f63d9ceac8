--------------------------- MODULE CascadeProofs ---------------------------
(***************************************************************************)
(* What a cascade keeps for any number of flights, steps, foreign          *)
(* incidents and lost requests.  Types and the derivation hold however     *)
(* many requests overlap; the rest holds while requests follow one         *)
(* another.                                                                *)
(***************************************************************************)
EXTENDS Cascade, SequenceTheorems, FiniteSetTheorems, TLAPS

\* The requests of a group do not overlap.
OneAtATime == \A r, s \in Request : r = s

\* What a request points to exists.
IndexInv ==
    \A r \in Request :
        /\ hand[r] \in 0..Len(incidents)
        /\ \A m \in rows[r] : m.incident \in 0..Len(incidents)

TypeInv == TypeOK /\ IndexInv

\* A flight listed without an incident has none, and is listed once.
ListInv ==
    \A r \in Request : \A m \in rows[r] :
        m.incident = 0 => /\ Owned(m.flight) = {}
                          /\ \A n \in rows[r] : n.flight = m.flight => n = m

\* No flight has two incidents of the group.
Sole == \A f \in Flight : \A i, j \in Owned(f) : i = j

SoleInv == ListInv /\ Sole

\* The group's state is the one the request read.
Reads(r) == kind[r] \in {"open", "run"} => read[r] = group

\* What a run holds in memory is what the incident's row says.
Holds(r) == hand[r] # 0 => at[r] = incidents[hand[r]].state

\* The request has still to come to the incident, has it in hand, or has seen the state
\* it is in.
Accounted(r, i) ==
    \/ \E m \in rows[r] : m.incident = i
    \/ hand[r] = i
    \/ incidents[i].state \in outcomes[r]

\* A request that has listed the members accounts for every incident of the group.
Sees(r) ==
    kind[r] \in {"open", "run"} /\ listed[r] =>
        \A i \in DOMAIN incidents : incidents[i].owned => Accounted(r, i)

\* A request that has not begun has nothing.
Idles(r) == kind[r] = "none" => ~listed[r] /\ hand[r] = 0

CloseInv == \A r \in Request : Reads(r) /\ Holds(r) /\ Sees(r) /\ Idles(r)

-----------------------------------------------------------------------------
(* The derivation                                                          *)

LEMMA GroupStates ==
    GroupState = {"detected", "assessing", "planning", "executing",
                  "resolved", "blocked", "failed"}
BY DEF GroupState, GroupTransitions

LEMMA IncidentStatesAre ==
    IncidentState = {"detected", "assessing", "planning", "assuring",
                     "awaiting_approval", "executing", "resolved", "blocked", "failed"}
BY DEF IncidentState, Transitions

\* derive_group_state answers one of six states, never "failed".
LEMMA Derived ==
    ASSUME NEW states
    PROVE  Derive(states) \in {"detected", "assessing", "planning", "executing",
                               "resolved", "blocked"}
BY DEF Derive

\* It answers a terminal state only over terminal states, and "resolved" only over
\* resolved ones.
LEMMA DerivedTerminal ==
    ASSUME NEW states, Derive(states) \in Terminal
    PROVE  /\ states \subseteq Terminal
           /\ Derive(states) = "resolved" => states \subseteq {"resolved"}
BY DEF Derive, Terminal

LEMMA StageBackwards ==
    ASSUME NEW current, NEW target
    PROVE  Backwards(current, target) <=>
              \/ current = "assessing" /\ target = "detected"
              \/ current = "planning" /\ target \in {"detected", "assessing"}
              \/ current = "executing" /\ target \in {"detected", "assessing", "planning"}
<1>1. DOMAIN GroupOrder = 1..4
  BY DEF GroupOrder
<1>2. /\ GroupOrder[1] = "detected" /\ GroupOrder[2] = "assessing"
      /\ GroupOrder[3] = "planning" /\ GroupOrder[4] = "executing"
  BY DEF GroupOrder
<1>3. 1..4 = {1, 2, 3, 4}
  OBVIOUS
<1> QED
  BY <1>1, <1>2, <1>3 DEF Backwards

\* What an open group is to become is where it is or where the table lets it go.
LEMMA OpenGroupMoves ==
    ASSUME NEW r, read[r] \in GroupState, read[r] \notin Terminal
    PROVE  Target(r) \in {read[r]} \cup GroupTransitions[read[r]]
<1> DEFINE to == Derive(outcomes[r])
<1>1. to \in {"detected", "assessing", "planning", "executing", "resolved", "blocked"}
  BY Derived
<1>2. read[r] \in {"detected", "assessing", "planning", "executing"}
  BY GroupStates DEF Terminal
<1>3. /\ GroupTransitions["detected"] =
            {"assessing", "planning", "executing", "resolved", "blocked", "failed"}
      /\ GroupTransitions["assessing"] =
            {"planning", "executing", "resolved", "blocked", "failed"}
      /\ GroupTransitions["planning"] = {"executing", "resolved", "blocked", "failed"}
      /\ GroupTransitions["executing"] = {"executing", "resolved", "blocked", "failed"}
  BY DEF GroupTransitions
<1>4. Target(r) = IF Backwards(read[r], to) THEN read[r] ELSE to
  BY DEF Target
<1> HIDE DEF to
<1>5. CASE Backwards(read[r], to)
  BY <1>4, <1>5
<1>6. CASE ~Backwards(read[r], to)
  BY <1>1, <1>2, <1>3, <1>4, <1>6, StageBackwards
<1> QED
  BY <1>5, <1>6

LEMMA TargetIsState ==
    ASSUME NEW r, read[r] \in GroupState
    PROVE  Target(r) \in GroupState
BY Derived, GroupStates DEF Target

-----------------------------------------------------------------------------
(* Sequences of incidents                                                  *)

\* The incidents after one was opened.
LEMMA Opened ==
    ASSUME incidents \in Seq(Incident), NEW i \in Incident,
           incidents' = Append(incidents, i)
    PROVE  /\ incidents' \in Seq(Incident)
           /\ Len(incidents') = Len(incidents) + 1
           /\ \A j \in 1..Len(incidents) : incidents'[j] = incidents[j]
           /\ incidents'[Len(incidents) + 1] = i
BY AppendProperties

\* The incidents after one moved: only its state is another.
LEMMA Moved ==
    ASSUME incidents \in Seq(Incident), NEW h \in 1..Len(incidents),
           NEW target \in IncidentState,
           incidents' = [incidents EXCEPT ![h].state = target]
    PROVE  /\ incidents' \in Seq(Incident)
           /\ Len(incidents') = Len(incidents)
           /\ \A j \in 1..Len(incidents) :
                 /\ incidents'[j].flight = incidents[j].flight
                 /\ incidents'[j].owned = incidents[j].owned
                 /\ incidents'[j].state = IF j = h THEN target ELSE incidents[j].state
<1> DEFINE e == [incidents[h] EXCEPT !.state = target]
<1>1. incidents[h] \in Incident
  BY ElementOfSeq
<1>2. /\ e \in Incident
      /\ e.flight = incidents[h].flight /\ e.owned = incidents[h].owned
      /\ e.state = target
  BY <1>1 DEF Incident
<1>3. incidents' = [incidents EXCEPT ![h] = e]
  OBVIOUS
<1> HIDE DEF e
<1> QED
  BY <1>2, <1>3, ExceptSeq

LEMMA DomainIs ==
    ASSUME incidents \in Seq(Incident)
    PROVE  /\ Len(incidents) \in Nat
           /\ DOMAIN incidents = 1..Len(incidents)
           /\ \A i \in 1..Len(incidents) : incidents[i] \in Incident
BY LenProperties, ElementOfSeq

-----------------------------------------------------------------------------
(* Types                                                                   *)

LEMMA TypeInit == Init => TypeInv
<1> SUFFICES ASSUME Init PROVE TypeInv
  OBVIOUS
<1>1. incidents \in Seq(Incident) /\ Len(incidents) = 0
  BY EmptySeq DEF Init
<1> QED
  BY <1>1, CascadeAssumption, GroupStates, IncidentStatesAre
  DEF Init, TypeInv, TypeOK, IndexInv

\* A session that ends leaves a well typed blank.
LEMMA EndType ==
    ASSUME TypeOK, NEW r \in Request, End(r)
    PROVE  /\ kind' \in [Request -> {"none", "open", "run", "one"}]
           /\ listed' \in [Request -> BOOLEAN]
           /\ rows' \in [Request -> SUBSET Row]
           /\ read' \in [Request -> GroupState]
           /\ outcomes' \in [Request -> SUBSET IncidentState]
           /\ hand' \in [Request -> Nat]
           /\ at' \in [Request -> IncidentState]
           /\ taken' \in [Request -> 0..MaxSteps]
           /\ left' \in [Request -> Nat]
           /\ IndexInv /\ incidents' = incidents => IndexInv'
<1>1. Len(incidents) \in Nat
  BY DomainIs DEF TypeOK
<1> QED
  BY <1>1, CascadeAssumption, GroupStates, IncidentStatesAre DEF TypeOK, End, IndexInv

LEMMA MembersAreRows ==
    ASSUME incidents \in Seq(Incident)
    PROVE  /\ Members \subseteq Row
           /\ \A m \in Members : m.incident \in 0..Len(incidents)
BY DomainIs DEF Members, Row, Incident

LEMMA TypeNext == TypeInv /\ [Next]_vars => TypeInv'
<1> SUFFICES ASSUME TypeInv, [Next]_vars PROVE TypeInv'
  OBVIOUS
<1> USE DEF TypeInv, bounds
<1>0. /\ Len(incidents) \in Nat
      /\ DOMAIN incidents = 1..Len(incidents)
      /\ \A i \in 1..Len(incidents) : incidents[i].state \in IncidentState
  BY DomainIs DEF TypeOK, Incident
<1>1. ASSUME NEW r \in Request, NEW k \in {"open", "run"}, NEW n \in Nat, Begin(r, k, n)
      PROVE  TypeInv'
  BY <1>0, <1>1 DEF Begin, TypeOK, IndexInv
<1>2. ASSUME NEW r \in Request, BeginOpen(r) PROVE TypeInv'
  BY <1>1, <1>2 DEF BeginOpen
<1>3. ASSUME NEW r \in Request, BeginRun(r) PROVE TypeInv'
  BY <1>1, <1>3 DEF BeginRun
<1>4. ASSUME NEW r \in Request, BeginOne(r) PROVE TypeInv'
  BY <1>0, <1>4 DEF BeginOne, TypeOK, IndexInv
<1>5. ASSUME NEW r \in Request, ListMembers(r) PROVE TypeInv'
  <2>1. Members \subseteq Row /\ \A m \in Members : m.incident \in 0..Len(incidents)
    BY MembersAreRows DEF TypeOK
  <2> QED
    BY <1>0, <1>5, <2>1 DEF ListMembers, TypeOK, IndexInv
<1>6. ASSUME NEW r \in Request, Abort(r) PROVE TypeInv'
  <2>1. End(r) /\ UNCHANGED <<incidents, group, foreign>> /\ aborts' = aborts + 1
    BY <1>6 DEF Abort
  <2> QED
    BY <2>1, EndType DEF TypeOK
<1>7. ASSUME NEW r \in Request, OpenNext(r) PROVE TypeInv'
  <2>1. PICK m \in rows[r] :
          /\ IF Carries(m)
             THEN /\ Leave(r, m, {incidents[m.incident].state})
                  /\ UNCHANGED incidents
             ELSE IF Active(m.flight) # {}
             THEN /\ Leave(r, m, {incidents[i].state : i \in Active(m.flight)})
                  /\ UNCHANGED incidents
             ELSE /\ Leave(r, m, {"detected"})
                  /\ incidents' = Append(incidents, Detected(m.flight, TRUE))
    BY <1>7 DEF OpenNext
  <2>2. m \in Row /\ m.incident \in 0..Len(incidents)
    BY DEF TypeOK, IndexInv
  <2>3. ASSUME NEW states \in SUBSET IncidentState, Leave(r, m, states),
               incidents' \in Seq(Incident), Len(incidents') \in Nat,
               Len(incidents) <= Len(incidents')
        PROVE  TypeInv'
    BY <1>0, <1>7, <2>3 DEF OpenNext, Leave, TypeOK, IndexInv
  <2>4. CASE Carries(m)
    <3>1. {incidents[m.incident].state} \in SUBSET IncidentState
      BY <1>0, <2>2, <2>4 DEF Carries
    <3> QED
      BY <1>0, <2>1, <2>3, <2>4, <3>1 DEF TypeOK
  <2>5. CASE ~Carries(m) /\ Active(m.flight) # {}
    <3>1. {incidents[i].state : i \in Active(m.flight)} \in SUBSET IncidentState
      BY <1>0 DEF Active
    <3> QED
      BY <1>0, <2>1, <2>3, <2>5, <3>1 DEF TypeOK
  <2>6. CASE ~Carries(m) /\ Active(m.flight) = {}
    <3>1. Detected(m.flight, TRUE) \in Incident
      BY <2>2, IncidentStatesAre DEF Detected, Incident, Row
    <3>2. incidents' \in Seq(Incident) /\ Len(incidents') = Len(incidents) + 1
      BY <2>1, <2>6, <3>1, Opened DEF TypeOK
    <3>3. {"detected"} \in SUBSET IncidentState
      BY IncidentStatesAre
    <3> QED
      BY <1>0, <2>1, <2>3, <2>6, <3>2, <3>3
  <2> QED
    BY <2>4, <2>5, <2>6
<1>8. ASSUME NEW r \in Request, SkipNext(r) PROVE TypeInv'
  <2>1. PICK m \in rows[r] :
          IF m.incident = 0 THEN Leave(r, m, {})
          ELSE Leave(r, m, {incidents[m.incident].state})
    BY <1>8 DEF SkipNext
  <2>2. m.incident \in 0..Len(incidents)
    BY DEF IndexInv
  <2>3. PICK states \in SUBSET IncidentState : Leave(r, m, states)
    BY <1>0, <2>1, <2>2
  <2> QED
    BY <1>0, <1>8, <2>3 DEF SkipNext, Leave, TypeOK, IndexInv
<1>9. ASSUME NEW r \in Request, RunNext(r) PROVE TypeInv'
  <2>1. PICK m \in rows[r] :
          /\ m.incident # 0
          /\ Leave(r, m, {})
          /\ hand' = [hand EXCEPT ![r] = m.incident]
          /\ at' = [at EXCEPT ![r] = incidents[m.incident].state]
    BY <1>9 DEF RunNext
  <2>2. m.incident \in 1..Len(incidents)
    BY <1>0, <2>1 DEF IndexInv
  <2>3. left[r] \in Nat /\ left[r] > 0
    BY <1>9 DEF RunNext, MayAdvance, TypeOK
  <2> QED
    BY <1>0, <1>9, <2>1, <2>2, <2>3 DEF RunNext, Leave, TypeOK, IndexInv
<1>10. ASSUME NEW r \in Request, MemberStep(r) PROVE TypeInv'
  <2>1. PICK target \in Transitions[at[r]] \ {"failed"} :
          /\ IF taken[r] < MaxSteps THEN taken' = [taken EXCEPT ![r] = @ + 1]
             ELSE target = "blocked" /\ taken' = taken
          /\ incidents' = [incidents EXCEPT ![hand[r]].state = target]
          /\ at' = [at EXCEPT ![r] = target]
    BY <1>10 DEF MemberStep
  <2>2. target \in IncidentState
    BY <2>1, IncidentStatesAre DEF TypeOK, Transitions
  <2>3. hand[r] \in 1..Len(incidents)
    BY <1>0, <1>10 DEF MemberStep, IndexInv
  <2>4. incidents' \in Seq(Incident) /\ Len(incidents') = Len(incidents)
    BY <2>1, <2>2, <2>3, Moved DEF TypeOK
  <2>5. taken' \in [Request -> 0..MaxSteps]
    BY <2>1, CascadeAssumption DEF TypeOK
  <2> QED
    BY <1>0, <1>10, <2>1, <2>2, <2>4, <2>5 DEF MemberStep, TypeOK, IndexInv
<1>11. ASSUME NEW r \in Request, MemberReturns(r) PROVE TypeInv'
  <2>1. CASE kind[r] = "one"
    <3>1. End(r) /\ UNCHANGED <<incidents, group, foreign, aborts>>
      BY <1>11, <2>1 DEF MemberReturns
    <3> QED
      BY <3>1, EndType DEF TypeOK
  <2>2. CASE kind[r] # "one"
    <3>1. /\ UNCHANGED <<incidents, group, kind, listed, rows, read, left, foreign, aborts>>
          /\ outcomes' = [outcomes EXCEPT ![r] = @ \cup {at[r]}]
          /\ hand' = [hand EXCEPT ![r] = 0]
          /\ at' = [at EXCEPT ![r] = "detected"]
          /\ taken' = [taken EXCEPT ![r] = 0]
      BY <1>11, <2>2 DEF MemberReturns
    <3>2. outcomes[r] \cup {at[r]} \in SUBSET IncidentState
      BY DEF TypeOK
    <3>3. "detected" \in IncidentState /\ 0 \in 0..MaxSteps
      BY CascadeAssumption, IncidentStatesAre
    <3>4. TypeOK'
      BY <3>1, <3>2, <3>3 DEF TypeOK
    <3>5. IndexInv'
      BY <1>0, <3>1 DEF TypeOK, IndexInv
    <3> QED
      BY <3>4, <3>5
  <2> QED
    BY <2>1, <2>2
<1>12. ASSUME NEW r \in Request, Sync(r) PROVE TypeInv'
  <2>1. End(r) /\ UNCHANGED <<incidents, foreign, aborts>>
    BY <1>12 DEF Sync
  <2>2. group' \in GroupState
    BY <1>12, TargetIsState DEF Sync, TypeOK
  <2> QED
    BY <2>1, <2>2, EndType DEF TypeOK
<1>13. CASE OpenForeign
  <2>1. PICK f \in Flight : incidents' = Append(incidents, Detected(f, FALSE))
    BY <1>13 DEF OpenForeign
  <2>2. Detected(f, FALSE) \in Incident
    BY IncidentStatesAre DEF Detected, Incident
  <2>3. incidents' \in Seq(Incident) /\ Len(incidents') = Len(incidents) + 1
    BY <2>1, <2>2, Opened DEF TypeOK
  <2> QED
    <3>1. UNCHANGED <<group, kind, listed, rows, read, outcomes, hand, at, taken, left, aborts>>
          /\ foreign' = foreign + 1
      BY <1>13 DEF OpenForeign, request
    <3>2. TypeOK'
      BY <2>3, <3>1 DEF TypeOK
    <3>3. IndexInv'
      BY <1>0, <2>3, <3>1 DEF IndexInv
    <3> QED
      BY <3>2, <3>3
<1>14. CASE UNCHANGED vars
  BY <1>14 DEF vars, request, TypeOK, IndexInv
<1> QED
  BY <1>2, <1>3, <1>4, <1>5, <1>6, <1>7, <1>8, <1>9, <1>10, <1>11, <1>12, <1>13, <1>14
  DEF Next, RequestStep

\* Every reachable state is well typed, and a request points only to incidents that
\* exist.
THEOREM CascadeTypeCorrect == Spec => []TypeOK
<1>1. TypeInv => TypeOK
  BY DEF TypeInv
<1> QED
  BY TypeInit, TypeNext, <1>1, PTL DEF Spec

\* The end of a request (_sync_state) is refused only on a group that was closed when
\* the request began: what is derived from an open group is a move of the table, for
\* any member states and any number of overlapping requests.
THEOREM OnlyClosedRefuses == Spec => []RefusedOnlyWhenClosed
<1>1. TypeOK => RefusedOnlyWhenClosed
  BY OpenGroupMoves DEF TypeOK, RefusedOnlyWhenClosed
<1> QED
  BY CascadeTypeCorrect, <1>1, PTL

-----------------------------------------------------------------------------
(* One incident per flight                                                 *)

\* What each action does to the group's incidents and to the rows listed.
LEMMA KeepsSole ==
    ASSUME SoleInv, \A f : Owned(f)' = Owned(f),
           \A r \in Request : rows'[r] \subseteq rows[r]
    PROVE  SoleInv'
<1>1. Sole'
  BY DEF SoleInv, Sole
<1>2. ListInv'
  <2> SUFFICES ASSUME NEW r \in Request, NEW m \in rows'[r], m.incident = 0
               PROVE  /\ Owned(m.flight)' = {}
                      /\ \A n \in rows'[r] : n.flight = m.flight => n = m
    BY DEF ListInv
  <2>1. m \in rows[r]
    OBVIOUS
  <2>2. /\ Owned(m.flight) = {}
        /\ \A n \in rows[r] : n.flight = m.flight => n = m
    BY <2>1 DEF SoleInv, ListInv
  <2> QED
    BY <2>2
<1> QED
  BY <1>1, <1>2 DEF SoleInv

LEMMA SameIncidentsSameOwned ==
    ASSUME incidents' = incidents
    PROVE  \A f : Owned(f)' = Owned(f)
BY DEF Owned

\* A move of an incident leaves the group's incidents on every flight alone.
LEMMA MoveKeepsOwned ==
    ASSUME TypeInv, NEW r \in Request, MemberStep(r)
    PROVE  /\ \A f : Owned(f)' = Owned(f)
           /\ hand[r] \in 1..Len(incidents)
           /\ Len(incidents') = Len(incidents)
           /\ at' = [at EXCEPT ![r] = incidents'[hand[r]].state]
           /\ \A j \in 1..Len(incidents) :
                 /\ incidents'[j].owned = incidents[j].owned
                 /\ j # hand[r] => incidents'[j].state = incidents[j].state
<1>0. incidents \in Seq(Incident) /\ DOMAIN incidents = 1..Len(incidents)
  BY DomainIs DEF TypeInv, TypeOK
<1>1. PICK target \in Transitions[at[r]] :
        /\ incidents' = [incidents EXCEPT ![hand[r]].state = target]
        /\ at' = [at EXCEPT ![r] = target]
  BY DEF MemberStep
<1>2. target \in IncidentState
  BY <1>1, IncidentStatesAre DEF TypeInv, TypeOK, Transitions
<1>3. hand[r] \in 1..Len(incidents)
  BY DomainIs DEF MemberStep, TypeInv, TypeOK, IndexInv
<1>4. /\ incidents' \in Seq(Incident)
      /\ Len(incidents') = Len(incidents)
      /\ \A j \in 1..Len(incidents) :
            /\ incidents'[j].flight = incidents[j].flight
            /\ incidents'[j].owned = incidents[j].owned
            /\ incidents'[j].state = IF j = hand[r] THEN target ELSE incidents[j].state
  BY <1>0, <1>1, <1>2, <1>3, Moved
<1>5. DOMAIN incidents' = 1..Len(incidents)
  BY <1>4, LenProperties
<1>6. \A f : Owned(f)' = Owned(f)
  BY <1>0, <1>4, <1>5 DEF Owned
<1> QED
  BY <1>1, <1>3, <1>4, <1>6

\* Opening adds one incident at the end.
LEMMA OpenAddsOwned ==
    ASSUME TypeInv, NEW f \in Flight, NEW o \in BOOLEAN,
           incidents' = Append(incidents, Detected(f, o))
    PROVE  /\ \A g : Owned(g)' = IF o /\ g = f THEN Owned(g) \cup {Len(incidents) + 1}
                                  ELSE Owned(g)
           /\ DOMAIN incidents' = 1..(Len(incidents) + 1)
           /\ \A j \in 1..Len(incidents) : incidents'[j] = incidents[j]
           /\ incidents'[Len(incidents) + 1] = Detected(f, o)
<1>0. /\ incidents \in Seq(Incident) /\ DOMAIN incidents = 1..Len(incidents)
      /\ Len(incidents) \in Nat
  BY DomainIs DEF TypeInv, TypeOK
<1>1. Detected(f, o) \in Incident
  BY IncidentStatesAre DEF Detected, Incident
<1>2. /\ incidents' \in Seq(Incident)
      /\ Len(incidents') = Len(incidents) + 1
      /\ \A j \in 1..Len(incidents) : incidents'[j] = incidents[j]
      /\ incidents'[Len(incidents) + 1] = Detected(f, o)
  BY <1>0, <1>1, Opened
<1>3. DOMAIN incidents' = 1..(Len(incidents) + 1)
  BY <1>2, LenProperties
<1>4. \A j : j \in 1..(Len(incidents) + 1) <=> j \in 1..Len(incidents) \/ j = Len(incidents) + 1
  BY <1>0
<1>5. ASSUME NEW g
      PROVE  Owned(g)' = IF o /\ g = f THEN Owned(g) \cup {Len(incidents) + 1} ELSE Owned(g)
  <2>1. Owned(g)' = {j \in 1..(Len(incidents) + 1) :
                       incidents'[j].owned /\ incidents'[j].flight = g}
    BY <1>3 DEF Owned
  <2>2. Owned(g) = {j \in 1..Len(incidents) : incidents[j].owned /\ incidents[j].flight = g}
    BY <1>0 DEF Owned
  <2>3. Detected(f, o).owned = o /\ Detected(f, o).flight = f
    BY DEF Detected
  <2>4. Len(incidents) + 1 \notin 1..Len(incidents)
    BY <1>0
  <2> QED
    BY <1>2, <1>4, <2>1, <2>2, <2>3, <2>4
<1> QED
  BY <1>2, <1>3, <1>5

LEMMA LeaveShrinks ==
    ASSUME TypeOK, NEW r \in Request, NEW m, NEW states, Leave(r, m, states)
    PROVE  \A q \in Request : rows'[q] \subseteq rows[q]
BY DEF Leave, TypeOK

LEMMA EndShrinks ==
    ASSUME TypeOK, NEW r \in Request, End(r)
    PROVE  \A q \in Request : rows'[q] \subseteq rows[q]
BY DEF End, TypeOK

LEMMA SoleInit == Init => SoleInv
<1> SUFFICES ASSUME Init PROVE SoleInv
  OBVIOUS
<1>1. \A f : Owned(f) = {}
  BY DEF Init, Owned
<1> QED
  BY <1>1 DEF Init, SoleInv, Sole, ListInv

LEMMA SoleNext == OneAtATime /\ TypeInv /\ SoleInv /\ [Next]_vars => SoleInv'
<1> SUFFICES ASSUME OneAtATime, TypeInv, SoleInv, [Next]_vars PROVE SoleInv'
  OBVIOUS
<1>0. TypeOK
  BY DEF TypeInv
<1>1. ASSUME NEW r \in Request, BeginOpen(r) \/ BeginRun(r) \/ BeginOne(r) PROVE SoleInv'
  <2>1. incidents' = incidents /\ rows' = rows
    BY <1>1 DEF BeginOpen, BeginRun, BeginOne, Begin
  <2> QED
    BY <2>1, KeepsSole, SameIncidentsSameOwned
<1>2. ASSUME NEW r \in Request, ListMembers(r) PROVE SoleInv'
  <2>1. incidents' = incidents /\ rows' = [rows EXCEPT ![r] = Members]
    BY <1>2 DEF ListMembers
  <2>2. \A f : Owned(f)' = Owned(f)
    BY <2>1, SameIncidentsSameOwned
  <2>3. Sole'
    BY <2>2 DEF SoleInv, Sole
  <2>4. DOMAIN incidents = 1..Len(incidents)
    BY <1>0, DomainIs DEF TypeOK
  <2>5. ASSUME NEW m \in Members, m.incident = 0
        PROVE  /\ Owned(m.flight) = {}
               /\ \A n \in Members : n.flight = m.flight => n = m
    <3>1. m.flight \in Flight /\ Owned(m.flight) = {} /\ m = [flight |-> m.flight, incident |-> 0]
      BY <2>4, <2>5 DEF Members
    <3>2. ASSUME NEW n \in Members, n.flight = m.flight PROVE n = m
      <4>1. CASE \E f \in Flight : n = [flight |-> f, incident |-> 0]
        BY <3>1, <3>2, <4>1
      <4>2. CASE \E i \in DOMAIN incidents :
                    /\ incidents[i].owned
                    /\ n = [flight |-> incidents[i].flight, incident |-> i]
        BY <3>1, <3>2, <4>2 DEF Owned
      <4> QED
        BY <4>1, <4>2 DEF Members
    <3> QED
      BY <3>1, <3>2
  <2>6. ListInv'
    <3> SUFFICES ASSUME NEW q \in Request, NEW m \in rows'[q], m.incident = 0
                 PROVE  /\ Owned(m.flight)' = {}
                        /\ \A n \in rows'[q] : n.flight = m.flight => n = m
      BY DEF ListInv
    <3>1. rows'[q] = Members \/ rows'[q] = rows[q]
      BY <1>0, <2>1 DEF TypeOK
    <3> QED
      BY <2>2, <2>5, <3>1 DEF SoleInv, ListInv
  <2> QED
    BY <2>3, <2>6 DEF SoleInv
<1>3. ASSUME NEW r \in Request, Abort(r) \/ Sync(r) PROVE SoleInv'
  <2>1. incidents' = incidents /\ End(r)
    BY <1>3 DEF Abort, Sync
  <2> QED
    BY <1>0, <2>1, KeepsSole, SameIncidentsSameOwned, EndShrinks
<1>4. ASSUME NEW r \in Request, OpenNext(r) PROVE SoleInv'
  <2>1. PICK m \in rows[r] :
          IF Carries(m)
             THEN /\ Leave(r, m, {incidents[m.incident].state})
                  /\ UNCHANGED incidents
             ELSE IF Active(m.flight) # {}
             THEN /\ Leave(r, m, {incidents[i].state : i \in Active(m.flight)})
                  /\ UNCHANGED incidents
             ELSE /\ Leave(r, m, {"detected"})
                  /\ incidents' = Append(incidents, Detected(m.flight, TRUE))
    BY <1>4 DEF OpenNext
  <2>2. CASE incidents' = incidents /\ \E states : Leave(r, m, states)
    BY <1>0, <2>2, KeepsSole, SameIncidentsSameOwned, LeaveShrinks
  <2>3. CASE /\ m.incident = 0
             /\ Leave(r, m, {"detected"})
             /\ incidents' = Append(incidents, Detected(m.flight, TRUE))
    <3>1. m.flight \in Flight
      BY <1>0 DEF TypeOK, Row
    <3>2. \A g : Owned(g)' = IF g = m.flight THEN Owned(g) \cup {Len(incidents) + 1} ELSE Owned(g)
      BY <2>3, <3>1, OpenAddsOwned
    <3>3. /\ Owned(m.flight) = {}
          /\ \A n \in rows[r] : n.flight = m.flight => n = m
      BY <2>3 DEF SoleInv, ListInv
    <3>4. Sole'
      BY <3>2, <3>3 DEF SoleInv, Sole
    <3>5. ListInv'
      <4> SUFFICES ASSUME NEW q \in Request, NEW n \in rows'[q], n.incident = 0
                   PROVE  /\ Owned(n.flight)' = {}
                          /\ \A k \in rows'[q] : k.flight = n.flight => k = n
        BY DEF ListInv
      <4>1. q = r
        BY DEF OneAtATime
      <4>2. rows'[r] = rows[r] \ {m}
        BY <1>0, <2>3 DEF Leave, TypeOK
      <4>3. n.flight # m.flight
        BY <3>3, <4>1, <4>2
      <4> QED
        BY <3>2, <4>1, <4>2, <4>3 DEF SoleInv, ListInv
    <3> QED
      BY <3>4, <3>5 DEF SoleInv
  <2> QED
    BY <2>1, <2>2, <2>3 DEF Carries
<1>5. ASSUME NEW r \in Request, SkipNext(r) \/ RunNext(r) PROVE SoleInv'
  <2>1. incidents' = incidents /\ \E m, states : Leave(r, m, states)
    BY <1>5 DEF SkipNext, RunNext
  <2> QED
    BY <1>0, <2>1, KeepsSole, SameIncidentsSameOwned, LeaveShrinks
<1>6. ASSUME NEW r \in Request, MemberStep(r) PROVE SoleInv'
  <2>1. rows' = rows
    BY <1>6 DEF MemberStep
  <2> QED
    BY <1>6, <2>1, KeepsSole, MoveKeepsOwned
<1>7. ASSUME NEW r \in Request, MemberReturns(r) PROVE SoleInv'
  <2>1. incidents' = incidents /\ (End(r) \/ rows' = rows)
    BY <1>7 DEF MemberReturns
  <2> QED
    BY <1>0, <2>1, KeepsSole, SameIncidentsSameOwned, EndShrinks
<1>8. CASE OpenForeign
  <2>1. PICK f \in Flight : incidents' = Append(incidents, Detected(f, FALSE))
    BY <1>8 DEF OpenForeign
  <2>2. \A g : Owned(g)' = Owned(g)
    BY <2>1, OpenAddsOwned
  <2>3. rows' = rows
    BY <1>8 DEF OpenForeign, request
  <2> QED
    BY <2>2, <2>3, KeepsSole
<1>9. CASE UNCHANGED vars
  <2>1. incidents' = incidents /\ rows' = rows
    BY <1>9 DEF vars, request
  <2> QED
    BY <2>1, KeepsSole, SameIncidentsSameOwned
<1> QED
  BY <1>1, <1>2, <1>3, <1>4, <1>5, <1>6, <1>7, <1>8, <1>9 DEF Next, RequestStep

\* However often a group is opened (open_group), in whatever state its members are and
\* however many requests were lost on the way, a flight has one incident in it, as long
\* as the requests do not overlap.
THEOREM NoDoubleOpening == OneAtATime /\ Spec => []OneIncidentPerMember
<1>1. TypeInv /\ SoleInv => OneIncidentPerMember
  <2> SUFFICES ASSUME TypeInv, SoleInv, NEW f \in Flight PROVE Cardinality(Owned(f)) <= 1
    BY DEF OneIncidentPerMember
  <2>1. CASE Owned(f) = {}
    BY <2>1, FS_EmptySet
  <2>2. CASE Owned(f) # {}
    <3>1. PICK i : Owned(f) = {i}
      BY <2>2 DEF SoleInv, Sole
    <3>2. Cardinality({i}) = 1
      BY FS_Singleton
    <3> QED
      BY <3>1, <3>2
  <2> QED
    BY <2>1, <2>2
<1>2. SUFFICES ASSUME OneAtATime PROVE Spec => []OneIncidentPerMember
  OBVIOUS
<1>3. TypeInv /\ SoleInv /\ [Next]_vars => SoleInv'
  BY <1>2, SoleNext
<1> QED
  BY TypeInit, TypeNext, SoleInit, <1>1, <1>3, PTL DEF Spec

-----------------------------------------------------------------------------
(* The group's state                                                       *)

LEMMA CloseInit == Init => CloseInv
BY DEF Init, CloseInv, Reads, Holds, Sees, Idles

LEMMA EndCloses ==
    ASSUME TypeOK, NEW r \in Request, End(r)
    PROVE  Reads(r)' /\ Holds(r)' /\ Sees(r)' /\ Idles(r)'
BY DEF TypeOK, End, Reads, Holds, Sees, Idles

\* A request that leaves a row behind after seeing the state of its incident still
\* accounts for every incident there was.
LEMMA LeaveAccounts ==
    ASSUME TypeOK, NEW r \in Request, NEW m \in rows[r], NEW states,
           Leave(r, m, states), hand'[r] = hand[r],
           NEW i, Accounted(r, i),
           incidents'[i].state = incidents[i].state,
           m.incident = i => incidents[i].state \in states
    PROVE  Accounted(r, i)'
<1>1. rows'[r] = rows[r] \ {m} /\ outcomes'[r] = outcomes[r] \cup states
  BY DEF Leave, TypeOK
<1> QED
  BY <1>1 DEF Accounted

LEMMA CloseNext == OneAtATime /\ TypeInv /\ CloseInv /\ [Next]_vars => CloseInv'
<1> SUFFICES ASSUME OneAtATime, TypeInv, CloseInv, [Next]_vars PROVE CloseInv'
  OBVIOUS
<1>0. /\ TypeOK /\ IndexInv
      /\ Len(incidents) \in Nat
      /\ DOMAIN incidents = 1..Len(incidents)
  BY DomainIs DEF TypeInv, TypeOK
<1>a. ASSUME NEW r \in Request, Reads(r)' /\ Holds(r)' /\ Sees(r)' /\ Idles(r)'
      PROVE  CloseInv'
  <2> SUFFICES ASSUME NEW q \in Request
               PROVE  Reads(q)' /\ Holds(q)' /\ Sees(q)' /\ Idles(q)'
    BY DEF CloseInv
  <2>1. q = r
    BY DEF OneAtATime
  <2> QED
    BY <1>a, <2>1
<1>b. \A r \in Request : Reads(r) /\ Holds(r) /\ Sees(r) /\ Idles(r)
  BY DEF CloseInv
<1>1. ASSUME NEW r \in Request, BeginOpen(r) \/ BeginRun(r) PROVE CloseInv'
  <2>1. /\ kind[r] = "none" /\ \E k \in {"open", "run"} : kind' = [kind EXCEPT ![r] = k]
        /\ read' = [read EXCEPT ![r] = group]
        /\ UNCHANGED <<incidents, group, listed, hand, at>>
    BY <1>1 DEF BeginOpen, BeginRun, Begin
  <2> QED
    BY <1>0, <1>a, <1>b, <2>1 DEF TypeOK, Reads, Holds, Sees, Idles
<1>2. ASSUME NEW r \in Request, BeginOne(r) PROVE CloseInv'
  BY <1>0, <1>2, <1>a, <1>b DEF BeginOne, TypeOK, Reads, Holds, Sees, Idles
<1>3. ASSUME NEW r \in Request, ListMembers(r) PROVE CloseInv'
  <2>1. /\ kind[r] \in {"open", "run"}
        /\ rows' = [rows EXCEPT ![r] = Members]
        /\ UNCHANGED <<incidents, group, kind, read, hand, at>>
    BY <1>3 DEF ListMembers
  <2>2. Sees(r)'
    <3> SUFFICES ASSUME NEW i \in DOMAIN incidents, incidents[i].owned
                 PROVE  Accounted(r, i)'
      BY <2>1 DEF Sees
    <3>1. [flight |-> incidents[i].flight, incident |-> i] \in Members
      BY DEF Members
    <3>2. rows'[r] = Members
      BY <1>0, <2>1 DEF TypeOK
    <3> QED
      BY <3>1, <3>2 DEF Accounted
  <2>3. Reads(r)' /\ Holds(r)' /\ Idles(r)'
    BY <1>b, <2>1 DEF Reads, Holds, Idles
  <2> QED
    BY <1>a, <2>2, <2>3
<1>4. ASSUME NEW r \in Request, Abort(r) \/ Sync(r) PROVE CloseInv'
  <2>1. End(r)
    BY <1>4 DEF Abort, Sync
  <2> QED
    BY <1>0, <1>a, <2>1, EndCloses
<1>5. ASSUME NEW r \in Request, OpenNext(r) PROVE CloseInv'
  <2>1. /\ kind[r] = "open" /\ listed[r]
        /\ UNCHANGED <<group, kind, listed, read, hand, at>>
    BY <1>5 DEF OpenNext
  <2>2. PICK m \in rows[r] :
          IF Carries(m)
             THEN /\ Leave(r, m, {incidents[m.incident].state})
                  /\ UNCHANGED incidents
             ELSE IF Active(m.flight) # {}
             THEN /\ Leave(r, m, {incidents[i].state : i \in Active(m.flight)})
                  /\ UNCHANGED incidents
             ELSE /\ Leave(r, m, {"detected"})
                  /\ incidents' = Append(incidents, Detected(m.flight, TRUE))
    BY <1>5 DEF OpenNext
  <2>3. Reads(r)' /\ Idles(r)'
    BY <1>b, <2>1 DEF Reads, Idles
  <2>4. CASE incidents' = incidents
    <3>1. PICK states : /\ Leave(r, m, states)
                        /\ m.incident # 0 => incidents[m.incident].state \in states
      <4>1. CASE Carries(m)
        BY <2>2, <4>1
      <4>2. CASE ~Carries(m)
        BY <2>2, <4>2 DEF Carries
      <4> QED
        BY <4>1, <4>2
    <3>2. Sees(r)'
      <4> SUFFICES ASSUME NEW i \in DOMAIN incidents, incidents[i].owned
                   PROVE  Accounted(r, i)'
        BY <2>4 DEF Sees
      <4>1. Accounted(r, i)
        BY <1>b, <2>1 DEF Sees
      <4>2. i # 0
        BY <1>0
      <4> QED
        BY <1>0, <2>1, <2>4, <3>1, <4>1, <4>2, LeaveAccounts
    <3>3. Holds(r)'
      BY <1>b, <2>1, <2>4 DEF Holds
    <3> QED
      BY <1>a, <2>3, <3>2, <3>3
  <2>5. CASE /\ m.incident = 0
             /\ Leave(r, m, {"detected"})
             /\ incidents' = Append(incidents, Detected(m.flight, TRUE))
    <3>1. m.flight \in Flight
      BY <1>0 DEF TypeOK, Row
    <3>2. /\ DOMAIN incidents' = 1..(Len(incidents) + 1)
          /\ \A j \in 1..Len(incidents) : incidents'[j] = incidents[j]
          /\ incidents'[Len(incidents) + 1] = Detected(m.flight, TRUE)
      BY <2>5, <3>1, OpenAddsOwned
    <3>3. Sees(r)'
      <4> SUFFICES ASSUME NEW i \in DOMAIN incidents', incidents'[i].owned
                   PROVE  Accounted(r, i)'
        BY DEF Sees
      <4>1. CASE i = Len(incidents) + 1
        <5>1. incidents'[i].state = "detected"
          BY <3>2, <4>1 DEF Detected
        <5>2. "detected" \in outcomes'[r]
          BY <1>0, <2>5 DEF Leave, TypeOK
        <5> QED
          BY <5>1, <5>2 DEF Accounted
      <4>2. CASE i \in 1..Len(incidents)
        <5>1. Accounted(r, i)
          BY <1>0, <1>b, <2>1, <3>2, <4>2 DEF Sees
        <5>2. i # 0 /\ incidents'[i] = incidents[i]
          BY <1>0, <3>2, <4>2
        <5> QED
          BY <1>0, <2>1, <2>5, <5>1, <5>2, LeaveAccounts
      <4> QED
        BY <1>0, <3>2, <4>1, <4>2
    <3>4. Holds(r)'
      BY <1>0, <1>b, <2>1, <3>2 DEF Holds, IndexInv
    <3> QED
      BY <1>a, <2>3, <3>3, <3>4
  <2> QED
    BY <2>2, <2>4, <2>5 DEF Carries
<1>6. ASSUME NEW r \in Request, SkipNext(r) PROVE CloseInv'
  <2>1. /\ kind[r] = "run" /\ listed[r]
        /\ UNCHANGED <<incidents, group, kind, listed, read, hand, at>>
    BY <1>6 DEF SkipNext
  <2>2. PICK m \in rows[r] : IF m.incident = 0 THEN Leave(r, m, {})
                             ELSE Leave(r, m, {incidents[m.incident].state})
    BY <1>6 DEF SkipNext
  <2>3. Sees(r)'
    <3> SUFFICES ASSUME NEW i \in DOMAIN incidents, incidents[i].owned
                 PROVE  Accounted(r, i)'
      BY <2>1 DEF Sees
    <3>1. Accounted(r, i) /\ i # 0
      BY <1>0, <1>b, <2>1 DEF Sees
    <3> QED
      BY <1>0, <2>1, <2>2, <3>1, LeaveAccounts
  <2>4. Reads(r)' /\ Holds(r)' /\ Idles(r)'
    BY <1>b, <2>1 DEF Reads, Holds, Idles
  <2> QED
    BY <1>a, <2>3, <2>4
<1>7. ASSUME NEW r \in Request, RunNext(r) PROVE CloseInv'
  <2>1. /\ kind[r] = "run" /\ listed[r] /\ hand[r] = 0
        /\ UNCHANGED <<incidents, group, kind, listed, read>>
    BY <1>7 DEF RunNext
  <2>2. PICK m \in rows[r] :
          /\ Leave(r, m, {})
          /\ hand' = [hand EXCEPT ![r] = m.incident]
          /\ at' = [at EXCEPT ![r] = incidents[m.incident].state]
    BY <1>7 DEF RunNext
  <2>3. /\ hand'[r] = m.incident /\ at'[r] = incidents[m.incident].state
        /\ rows'[r] = rows[r] \ {m} /\ outcomes'[r] = outcomes[r]
    BY <1>0, <2>2 DEF Leave, TypeOK
  <2>4. Sees(r)'
    <3> SUFFICES ASSUME NEW i \in DOMAIN incidents, incidents[i].owned
                 PROVE  Accounted(r, i)'
      BY <2>1 DEF Sees
    <3>1. Accounted(r, i) /\ i # 0
      BY <1>0, <1>b, <2>1 DEF Sees
    <3> QED
      BY <2>1, <2>3, <3>1 DEF Accounted
  <2>5. Reads(r)' /\ Holds(r)' /\ Idles(r)'
    BY <1>b, <2>1, <2>3 DEF Reads, Holds, Idles
  <2> QED
    BY <1>a, <2>4, <2>5
<1>8. ASSUME NEW r \in Request, MemberStep(r) PROVE CloseInv'
  <2>1. /\ hand[r] # 0
        /\ UNCHANGED <<group, kind, listed, rows, read, outcomes, hand>>
    BY <1>8 DEF MemberStep
  <2>2. /\ hand[r] \in 1..Len(incidents)
        /\ Len(incidents') = Len(incidents)
        /\ at' = [at EXCEPT ![r] = incidents'[hand[r]].state]
        /\ \A j \in 1..Len(incidents) :
              /\ incidents'[j].owned = incidents[j].owned
              /\ j # hand[r] => incidents'[j].state = incidents[j].state
    BY <1>8, MoveKeepsOwned
  <2>3. DOMAIN incidents' = 1..Len(incidents)
    <3>1. TypeOK'
      BY TypeNext DEF TypeInv
    <3> QED
      BY <2>2, <3>1, LenProperties DEF TypeOK
  <2>4. Sees(r)'
    BY <1>0, <1>b, <2>1, <2>2, <2>3 DEF Sees, Accounted
  <2>5. Reads(r)' /\ Holds(r)' /\ Idles(r)'
    BY <1>0, <1>b, <2>1, <2>2 DEF TypeOK, Reads, Holds, Idles
  <2> QED
    BY <1>a, <2>4, <2>5
<1>9. ASSUME NEW r \in Request, MemberReturns(r) PROVE CloseInv'
  <2>1. CASE kind[r] = "one"
    <3>1. End(r)
      BY <1>9, <2>1 DEF MemberReturns
    <3> QED
      BY <1>0, <1>a, <3>1, EndCloses
  <2>2. CASE kind[r] # "one"
    <3>1. /\ hand[r] # 0
          /\ UNCHANGED <<incidents, group, kind, listed, rows, read>>
          /\ outcomes'[r] = outcomes[r] \cup {at[r]} /\ hand'[r] = 0
      BY <1>0, <1>9, <2>2 DEF MemberReturns, TypeOK
    <3>2. Sees(r)'
      BY <1>b, <3>1 DEF Sees, Holds, Accounted
    <3>3. Reads(r)' /\ Holds(r)' /\ Idles(r)'
      BY <1>b, <3>1 DEF Reads, Holds, Idles
    <3> QED
      BY <1>a, <3>2, <3>3
  <2> QED
    BY <2>1, <2>2
<1>10. CASE OpenForeign
  <2>1. PICK f \in Flight : incidents' = Append(incidents, Detected(f, FALSE))
    BY <1>10 DEF OpenForeign
  <2>2. /\ DOMAIN incidents' = 1..(Len(incidents) + 1)
        /\ \A j \in 1..Len(incidents) : incidents'[j] = incidents[j]
        /\ incidents'[Len(incidents) + 1] = Detected(f, FALSE)
    BY <2>1, OpenAddsOwned
  <2>3. UNCHANGED <<group, kind, listed, rows, read, outcomes, hand, at>>
    BY <1>10 DEF OpenForeign, request
  <2> SUFFICES ASSUME NEW r \in Request
               PROVE  Reads(r)' /\ Holds(r)' /\ Sees(r)' /\ Idles(r)'
    BY DEF CloseInv
  <2>4. Sees(r)'
    <3> SUFFICES ASSUME kind[r] \in {"open", "run"}, listed[r],
                        NEW i \in DOMAIN incidents', incidents'[i].owned
                 PROVE  Accounted(r, i)'
      BY <2>3 DEF Sees
    <3>1. i \in 1..Len(incidents)
      BY <1>0, <2>2 DEF Detected
    <3> QED
      BY <1>0, <1>b, <2>2, <2>3, <3>1 DEF Sees, Accounted
  <2>5. Holds(r)'
    BY <1>0, <1>b, <2>2, <2>3 DEF Holds, IndexInv
  <2>6. Reads(r)' /\ Idles(r)'
    BY <1>b, <2>3 DEF Reads, Idles
  <2> QED
    BY <2>4, <2>5, <2>6
<1>11. CASE UNCHANGED vars
  BY <1>b, <1>11 DEF vars, request, CloseInv, Reads, Holds, Sees, Idles, Accounted
<1> QED
  BY <1>1, <1>2, <1>3, <1>4, <1>5, <1>6, <1>7, <1>8, <1>9, <1>10, <1>11
  DEF Next, RequestStep

\* Only the end of a request changes the group's state.
LEMMA OnlySyncMovesGroup ==
    ASSUME [Next]_vars, group' # group
    PROVE  \E r \in Request : Sync(r)
BY DEF Next, RequestStep, BeginOpen, BeginRun, Begin, BeginOne, ListMembers, OpenNext,
       SkipNext, RunNext, MemberStep, MemberReturns, Abort, OpenForeign, vars

\* What that end writes is derived, and the table has the move.
LEMMA SyncWrites ==
    ASSUME CloseInv, NEW r \in Request, Sync(r), group' # group
    PROVE  /\ group' \in GroupTransitions[group]
           /\ group' = Derive(outcomes[r])
<1>1. read[r] = group
  BY DEF CloseInv, Reads, Sync, AtSync
<1> QED
  BY <1>1 DEF Sync, Admitted, Target

\* _sync_state moves a group along its table: no stage is taken back and a closed group
\* stays closed, as long as the requests do not overlap.
THEOREM GroupIsLegal == OneAtATime /\ Spec => GroupMovesLegally
<1>1. CloseInv /\ [Next]_vars => [group' # group => group' \in GroupTransitions[group]]_group
  BY OnlySyncMovesGroup, SyncWrites
<1>2. SUFFICES ASSUME OneAtATime PROVE Spec => GroupMovesLegally
  OBVIOUS
<1>3. TypeInv /\ CloseInv /\ [Next]_vars => CloseInv'
  BY <1>2, CloseNext
<1> QED
  BY TypeInit, TypeNext, CloseInit, <1>1, <1>3, PTL DEF Spec, GroupMovesLegally

\* A group closes only over closed incidents, and as resolved only over resolved ones:
\* what the request collected on its way (advance_group, open_group) is what the rows
\* say when it writes, as long as the requests do not overlap.
THEOREM GroupClosesOverAll == OneAtATime /\ Spec => ClosedOverAll
<1>1. ASSUME TypeInv, CloseInv, [Next]_vars, group' # group, group' \in Terminal,
             NEW f \in Flight, NEW i \in Owned(f)
      PROVE  /\ incidents[i].state \in Terminal
             /\ group' = "resolved" => incidents[i].state = "resolved"
  <2>1. PICK r \in Request : Sync(r)
    BY <1>1, OnlySyncMovesGroup
  <2>2. group' = Derive(outcomes[r])
    BY <1>1, <2>1, SyncWrites
  <2>3. incidents[i].state \in outcomes[r]
    <3>1. /\ kind[r] \in {"open", "run"} /\ listed[r] /\ rows[r] = {} /\ hand[r] = 0
          /\ i \in DOMAIN incidents /\ incidents[i].owned
      BY <1>1, <2>1 DEF Sync, AtSync, Owned
    <3>2. Accounted(r, i) /\ i # 0
      BY <1>1, <3>1, DomainIs DEF TypeInv, TypeOK, CloseInv, Sees
    <3> QED
      BY <3>1, <3>2 DEF Accounted
  <2> QED
    BY <1>1, <2>2, <2>3, DerivedTerminal
<1>2. TypeInv /\ CloseInv /\ [Next]_vars =>
        [(group' # group /\ group' \in Terminal) =>
            \A f \in Flight : \A i \in Owned(f) :
                /\ incidents[i].state \in Terminal
                /\ group' = "resolved" => incidents[i].state = "resolved"]_vars
  BY <1>1
<1>3. SUFFICES ASSUME OneAtATime PROVE Spec => ClosedOverAll
  OBVIOUS
<1>4. TypeInv /\ CloseInv /\ [Next]_vars => CloseInv'
  BY <1>3, CloseNext
<1> QED
  BY TypeInit, TypeNext, CloseInit, <1>2, <1>4, PTL DEF Spec, ClosedOverAll

=============================================================================
