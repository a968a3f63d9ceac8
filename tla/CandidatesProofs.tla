-------------------------- MODULE CandidatesProofs ---------------------------
(***************************************************************************)
(* A run waits for the planner no longer than its allowances; one plan of  *)
(* an incident is chosen at most; and every plan that can be chosen has    *)
(* serviced actions once each, that wait for others of the plan (maybe for *)
(* each other): for any members, budgets, replies, delays, faults, retries *)
(* and number of sessions that read and choose plans at once.              *)
(***************************************************************************)
EXTENDS Candidates, WellFoundedInduction, FiniteSetTheorems, SequenceTheorems, TLAPS

\* What a finished turn of the primary may have cost.
PrimaryWaited ==
    IF Primary \in Member /\ state[Primary] = "planning" THEN 0 ELSE Backstop(PrimaryBudget)

\* Calls, of any phase and answer.
CallWith(phases, answers) ==
    [at : {"ready", "asked", "over"}, budget : Nat, spent : Nat, attempt : Nat,
     phase : phases, answer : answers]

IsCall(c) == c \in CallWith({c.phase}, {c.answer})

\* A call keeps within its backstop; one that is in flight has an attempt's time left.
CallInv ==
    /\ IsCall(call)
    /\ call.spent <= Backstop(call.budget)
    /\ call.at = "asked" => call.spent + MinAttempt <= call.budget

\* A run waits for it, and it has the allowance of the member in hand, which the run
\* was free to spend.
AllowedInv ==
    /\ Waiting => run.member # 0
    /\ call.at \in {"ready", "asked"} \/ call.spent > 0 =>
          /\ mode = "live" /\ run.member # 0
          /\ Attempts(run.member)
          /\ call.budget = Allowance(run.member)

\* What the run has waited so far was the primary's or came from the pool; only the
\* call that emptied the pool may have gone over, by its grace.
RunInv ==
    /\ state \in [Member -> {"planning", "assuring"}]
    /\ run \in [member : Member \cup {0}, pool : {-1} \cup 0 .. PoolBudget, waited : Nat]
    /\ run.member # 0 => run.member \in Planning
    /\ run.waited <= PrimaryWaited + (PoolBudget - Pool)
                        + (IF Pool = 0 THEN Grace(OrdinaryBudget) ELSE 0)

WaitInv == CallInv /\ AllowedInv /\ RunInv

-----------------------------------------------------------------------------
(* Arithmetic                                                              *)

LEMMA Numbers ==
    /\ {RequestTimeout, MinAttempt, RetryDelay, MaxRetries, MinSlice, MaxGrace} \subseteq Nat
    /\ {PrimaryBudget, OrdinaryBudget, PoolBudget} \subseteq Nat
    /\ MinAttempt > 0 /\ MinAttempt <= MinSlice /\ Member \subseteq Nat
BY CandidatesAssumption, ModelCallAssumption

\* A longer allowance has no shorter grace.
LEMMA GraceGrows ==
    ASSUME NEW a \in Nat, NEW b \in Nat, a <= b
    PROVE  /\ Grace(a) \in Nat /\ Grace(b) \in Nat /\ Grace(a) <= Grace(b)
           /\ Backstop(a) = a + Grace(a) /\ Backstop(b) = b + Grace(b)
<1>1. (a + 4) \div 5 \in Nat /\ (b + 4) \div 5 \in Nat /\ (a + 4) \div 5 <= (b + 4) \div 5
  OBVIOUS
<1>2. MaxGrace \in Nat
  BY Numbers
<1> QED
  BY <1>1, <1>2 DEF Grace, Backstop, Smaller

LEMMA NothingToWait == Grace(0) = 0 /\ Backstop(0) = 0
<1>1. (0 + 4) \div 5 = 0
  OBVIOUS
<1>2. MaxGrace \in Nat
  BY Numbers
<1> QED
  BY <1>1, <1>2 DEF Grace, Backstop, Smaller

\* Some incident is next, as long as one is waiting.
LEMMA LeastExists ==
    ASSUME NEW S \in SUBSET Nat, S # {}
    PROVE  \E n \in S : \A o \in S : n <= o
<1>1. PICK n \in S : \A o \in S : ~ (<<o, n>> \in OpToRel(<, Nat))
  BY NatLessThanWellFounded, WFMin
<1>2. \A o \in S : ~(o < n)
  BY <1>1 DEF OpToRel
<1>3. \A o \in S : n <= o
  BY <1>2
<1> QED
  BY <1>3

-----------------------------------------------------------------------------
(* The call                                                                *)

LEMMA AnyCall ==
    ASSUME NEW phases, NEW answers, NEW c \in CallWith(phases, answers)
    PROVE  IsCall(c)
BY DEF IsCall, CallWith

\* The steps of a call, whatever its phase and answer are.
LEMMA FailedCall ==
    ASSUME NEW c, IsCall(c), NEW phase
    PROVE  /\ IsCall(Failed(c, phase)) /\ Failed(c, phase).at = "over"
           /\ Failed(c, phase).budget = c.budget /\ Failed(c, phase).spent = c.spent
<1>1. /\ Failed(c, phase) \in CallWith({c.phase, phase}, {c.answer})
      /\ Failed(c, phase).at = "over"
      /\ Failed(c, phase).budget = c.budget /\ Failed(c, phase).spent = c.spent
  BY DEF IsCall, Failed, CallWith
<1> QED
  BY <1>1, AnyCall

LEMMA NewCall ==
    ASSUME NEW budget \in Nat
    PROVE  /\ IsCall(Opened(budget)) /\ Opened(budget).at = "ready"
           /\ Opened(budget).budget = budget /\ Opened(budget).spent = 0
<1>1. /\ Opened(budget) \in CallWith({"none"}, {<<>>}) /\ Opened(budget).at = "ready"
      /\ Opened(budget).budget = budget /\ Opened(budget).spent = 0
  BY DEF Opened, CallWith
<1> QED
  BY <1>1, AnyCall

LEMMA IdleCall ==
    /\ IsCall(NoCall) /\ NoCall.at = "over" /\ NoCall.phase = "idle"
    /\ NoCall.budget = 0 /\ NoCall.spent = 0
<1>1. Failed(Opened(0), "idle").phase = "idle"
  BY NewCall DEF Failed, IsCall, CallWith
<1> QED
  BY <1>1, NewCall, FailedCall DEF NoCall

\* A new call has spent nothing, whether or not it is asked at all.
LEMMA OpenedCall ==
    ASSUME NEW budget \in Nat, NEW key \in BOOLEAN, NEW prompt
    PROVE  LET c == Preflight(Opened(budget), key, prompt)
           IN  IsCall(c) /\ c.at # "asked" /\ c.budget = budget /\ c.spent = 0
<1>1. PICK phase : Preflight(Opened(budget), key, prompt)
                      \in {Opened(budget), Failed(Opened(budget), phase)}
  BY DEF Preflight
<1> QED
  BY <1>1, NewCall, FailedCall

\* An attempt is begun only while its least time is left.
LEMMA AskedCall ==
    ASSUME NEW c, IsCall(c)
    PROVE  /\ IsCall(Ask(c)) /\ Ask(c).budget = c.budget /\ Ask(c).spent = c.spent
           /\ Ask(c).at = "asked" => c.spent + MinAttempt <= c.budget
<1>1. MinAttempt \in Nat /\ c.budget \in Nat /\ c.spent \in Nat
  BY Numbers DEF IsCall, CallWith
<1>2. CASE Left(c) < MinAttempt
  BY <1>2, FailedCall DEF Ask
<1>3. CASE ~(Left(c) < MinAttempt)
  <2>1. Ask(c) = [c EXCEPT !.at = "asked", !.attempt = @ + 1]
    BY <1>3 DEF Ask
  <2>2. PICK n \in Nat : n = c.attempt + 1
    BY DEF IsCall, CallWith
  <2>3. Ask(c) = [c EXCEPT !.at = "asked", !.attempt = n]
    BY <2>1, <2>2
  <2>4. /\ Ask(c) \in CallWith({c.phase}, {c.answer})
        /\ Ask(c).budget = c.budget /\ Ask(c).spent = c.spent
    BY <2>3 DEF IsCall, CallWith
  <2>5. c.spent + MinAttempt <= c.budget
    BY <1>1, <1>3 DEF Left
  <2> QED
    BY <2>4, <2>5, AnyCall
<1> QED
  BY <1>2, <1>3

\* A wait is begun only where a further attempt fits behind it.
LEMMA WaitingCall ==
    ASSUME NEW c, IsCall(c), NEW phase
    PROVE  LET d == WaitOrGiveUp(c, phase)
           IN  /\ IsCall(d) /\ d.at # "asked" /\ d.budget = c.budget
               /\ d.spent = c.spent \/ d.spent <= c.budget
<1>1. /\ MinAttempt \in Nat /\ MaxRetries \in Nat /\ RetryDelay \in Nat
      /\ c.budget \in Nat /\ c.spent \in Nat /\ c.attempt \in Nat
  BY Numbers DEF IsCall, CallWith
<1>2. PICK delay : delay = RetryDelay * c.attempt
  OBVIOUS
<1>3. delay \in Nat
  BY <1>1, <1>2
<1>4. ASSUME NEW p, WaitOrGiveUp(c, phase) = Failed(c, p)
      PROVE  LET d == WaitOrGiveUp(c, phase)
             IN  /\ IsCall(d) /\ d.at # "asked" /\ d.budget = c.budget
                 /\ d.spent = c.spent \/ d.spent <= c.budget
  BY <1>4, FailedCall
<1>5. CASE c.attempt > MaxRetries
  BY <1>4, <1>5 DEF WaitOrGiveUp
<1>6. CASE c.attempt <= MaxRetries /\ Left(c) < delay + MinAttempt
  <2>1. ~(c.attempt > MaxRetries)
    BY <1>1, <1>6
  <2> QED
    BY <1>2, <1>4, <1>6, <2>1 DEF WaitOrGiveUp
<1>7. CASE ~(c.attempt > MaxRetries) /\ ~(Left(c) < delay + MinAttempt)
  <2>1. WaitOrGiveUp(c, phase) = [c EXCEPT !.at = "ready", !.spent = @ + delay]
    BY <1>2, <1>7 DEF WaitOrGiveUp
  <2>2. PICK n \in Nat : n = c.spent + delay
    BY <1>1, <1>3
  <2>3. WaitOrGiveUp(c, phase) = [c EXCEPT !.at = "ready", !.spent = n]
    BY <2>1, <2>2
  <2>4. /\ WaitOrGiveUp(c, phase) \in CallWith({c.phase}, {c.answer})
        /\ WaitOrGiveUp(c, phase).at = "ready" /\ WaitOrGiveUp(c, phase).budget = c.budget
        /\ WaitOrGiveUp(c, phase).spent = n
    BY <2>3 DEF IsCall, CallWith
  <2>5. c.spent + delay <= c.budget
    BY <1>1, <1>3, <1>7 DEF Left
  <2> QED
    BY <2>2, <2>4, <2>5, AnyCall
<1> QED
  BY <1>1, <1>5, <1>6, <1>7

\* An answer costs the time it took, and what it makes the call wait.
LEMMA AnsweredCall ==
    ASSUME NEW c, IsCall(c), NEW reply, NEW took \in Nat,
           c.spent + took <= Backstop(c.budget)
    PROVE  LET d == Answered(c, reply, took)
           IN  IsCall(d) /\ d.at # "asked" /\ d.budget = c.budget /\ d.spent <= Backstop(c.budget)
<1> DEFINE now == [c EXCEPT !.spent = @ + took]
<1>1. /\ now \in CallWith({c.phase}, {c.answer})
      /\ now.budget = c.budget /\ now.spent = c.spent + took
  BY DEF IsCall, CallWith
<1>2. IsCall(now) /\ c.budget \in Nat
  BY <1>1, AnyCall DEF IsCall, CallWith
<1>3. Answered(c, reply, took) =
        CASE PhaseOf(reply) = "none" ->
                [now EXCEPT !.at = "over", !.phase = "none", !.answer = reply.tasks]
          [] IsFinal(reply) -> Failed(now, PhaseOf(reply))
          [] OTHER -> WaitOrGiveUp(now, PhaseOf(reply))
  BY DEF Answered
<1> HIDE DEF now
<1>4. CASE PhaseOf(reply) = "none"
  <2>1. ~IsFinal(reply)
    BY <1>4 DEF IsFinal
  <2>2. Answered(c, reply, took)
           = [now EXCEPT !.at = "over", !.phase = "none", !.answer = reply.tasks]
    BY <1>3, <1>4, <2>1
  <2>3. /\ Answered(c, reply, took) \in CallWith({"none"}, {reply.tasks})
        /\ Answered(c, reply, took).at = "over"
        /\ Answered(c, reply, took).budget = now.budget
        /\ Answered(c, reply, took).spent = now.spent
    BY <1>1, <2>2 DEF CallWith
  <2> QED
    BY <1>1, <2>3, AnyCall
<1>5. CASE PhaseOf(reply) # "none" /\ IsFinal(reply)
  <2>1. Answered(c, reply, took) = Failed(now, PhaseOf(reply))
    BY <1>3, <1>5
  <2> QED
    BY <1>1, <1>2, <2>1, FailedCall
<1>6. CASE PhaseOf(reply) # "none" /\ ~IsFinal(reply)
  <2>1. Answered(c, reply, took) = WaitOrGiveUp(now, PhaseOf(reply))
    BY <1>3, <1>6
  <2>2. /\ IsCall(Answered(c, reply, took)) /\ Answered(c, reply, took).at # "asked"
        /\ Answered(c, reply, took).budget = c.budget
        /\ \/ Answered(c, reply, took).spent = c.spent + took
           \/ Answered(c, reply, took).spent <= c.budget
    BY <1>1, <1>2, <2>1, WaitingCall
  <2>3. c.budget <= Backstop(c.budget) /\ Backstop(c.budget) \in Nat
    BY <1>2, GraceGrows
  <2>4. Answered(c, reply, took).spent \in Nat
    BY <2>2 DEF IsCall, CallWith
  <2> QED
    BY <1>2, <2>2, <2>3, <2>4
<1> QED
  BY <1>4, <1>5, <1>6

-----------------------------------------------------------------------------
(* The run                                                                 *)

LEMMA RunTypes ==
    ASSUME WaitInv
    PROVE  /\ run.member \in Member \cup {0} /\ run.waited \in Nat
           /\ run.pool \in {-1} \cup 0 .. PoolBudget
           /\ Pool \in 0 .. PoolBudget /\ PrimaryWaited \in {0, Backstop(PrimaryBudget)}
           /\ call.budget \in Nat /\ call.spent \in Nat /\ Grace(OrdinaryBudget) \in Nat
<1>1. PoolBudget \in Nat /\ OrdinaryBudget \in Nat
  BY Numbers
<1>2. run \in [member : Member \cup {0}, pool : {-1} \cup 0 .. PoolBudget, waited : Nat]
  BY DEF WaitInv, RunInv
<1>3. /\ run.member \in Member \cup {0} /\ run.waited \in Nat
      /\ run.pool \in {-1} \cup 0 .. PoolBudget
  BY <1>2
<1>4. Pool \in 0 .. PoolBudget
  BY <1>1, <1>3 DEF Pool
<1>5. call.budget \in Nat /\ call.spent \in Nat
  BY DEF WaitInv, CallInv, IsCall, CallWith
<1>6. Grace(OrdinaryBudget) \in Nat
  BY <1>1, GraceGrows
<1> QED
  BY <1>3, <1>4, <1>5, <1>6 DEF PrimaryWaited

\* What the call in hand may cost: the primary its own reserve, another what the pool
\* has left and a grace.
LEMMA CallCosts ==
    ASSUME WaitInv, run.member # 0
    PROVE  \/ call.spent = 0
           \/ run.member = Primary /\ call.spent <= Backstop(PrimaryBudget)
           \/ /\ run.member # Primary /\ mode = "live" /\ Pool > 0
              /\ call.spent <= Pool + Grace(OrdinaryBudget)
<1>1. /\ Pool \in 0 .. PoolBudget /\ call.spent \in Nat /\ call.budget \in Nat
      /\ Grace(OrdinaryBudget) \in Nat
  BY RunTypes
<1>2. /\ PoolBudget \in Nat /\ OrdinaryBudget \in Nat /\ PrimaryBudget \in Nat
      /\ MinSlice \in Nat /\ MinSlice > 0
  BY Numbers
<1>3. CASE call.spent > 0
  <2>1. /\ mode = "live" /\ Attempts(run.member) /\ call.budget = Allowance(run.member)
        /\ call.spent <= Backstop(call.budget)
    BY <1>3 DEF WaitInv, AllowedInv, CallInv
  <2>2. CASE run.member = Primary
    BY <2>1, <2>2 DEF Allowance
  <2>3. CASE run.member # Primary
    <3>1. call.budget = Smaller(OrdinaryBudget, Pool)
      BY <2>1, <2>3 DEF Allowance
    <3>2. Pool > 0
      BY <1>1, <1>2, <2>1, <2>3 DEF Attempts, Pooled
    <3>3. call.budget <= OrdinaryBudget /\ call.budget <= Pool
      BY <1>1, <1>2, <3>1 DEF Smaller
    <3>4. /\ Grace(call.budget) <= Grace(OrdinaryBudget) /\ Grace(call.budget) \in Nat
          /\ Backstop(call.budget) = call.budget + Grace(call.budget)
      BY <1>1, <1>2, <3>3, GraceGrows
    <3>5. call.spent <= Pool + Grace(OrdinaryBudget)
      BY <1>1, <2>1, <3>3, <3>4
    <3> QED
      BY <2>1, <2>3, <3>2, <3>5
  <2> QED
    BY <2>2, <2>3
<1> QED
  BY <1>1, <1>3

\* A step of the call, of the member in hand and within its allowance.
LEMMA CallStep ==
    ASSUME WaitInv, UNCHANGED <<mode, state, run>>, IsCall(call'),
           call'.spent <= Backstop(call'.budget),
           call'.at = "asked" => call'.spent + MinAttempt <= call'.budget,
           call'.budget = Allowance(run.member),
           mode = "live", run.member # 0, Attempts(run.member)
    PROVE  WaitInv'
<1>1. CallInv'
  BY DEF CallInv
<1>2. Pool' = Pool /\ PrimaryWaited' = PrimaryWaited
  BY DEF Pool, PrimaryWaited
<1>3. RunInv'
  BY <1>2 DEF WaitInv, RunInv, Planning
<1>4. AllowedInv'
  <2>1. Attempts(run.member)' <=> Attempts(run.member)
    BY <1>2 DEF Attempts, Pooled
  <2>2. Allowance(run.member)' = Allowance(run.member)
    BY <1>2 DEF Allowance
  <2> QED
    BY <2>1, <2>2 DEF AllowedInv
<1> QED
  BY <1>1, <1>3, <1>4 DEF WaitInv

\* A step that leaves the run where it is, or ends it.
LEMMA NoRunStep ==
    ASSUME WaitInv, call' = NoCall, run' = NoRun, mode' = mode,
           state' \in [Member -> {"planning", "assuring"}]
    PROVE  WaitInv'
<1>1. CallInv' /\ AllowedInv'
  BY IdleCall, NothingToWait DEF CallInv, AllowedInv, Waiting
<1>2. /\ run' \in [member : Member \cup {0}, pool : {-1} \cup 0 .. PoolBudget, waited : Nat]
      /\ run'.member = 0 /\ run'.waited = 0 /\ run'.pool = -1
  BY DEF NoRun
<1>3. Pool' = PoolBudget /\ PoolBudget \in Nat
  BY <1>2, Numbers DEF Pool
<1>4. PrimaryBudget \in Nat /\ OrdinaryBudget \in Nat
  BY Numbers
<1>5. PrimaryWaited' \in Nat /\ Grace(OrdinaryBudget) \in Nat
  BY <1>4, GraceGrows DEF PrimaryWaited
<1>6. RunInv'
  BY <1>2, <1>3, <1>5 DEF RunInv
<1> QED
  BY <1>1, <1>6 DEF WaitInv

LEMMA StartStep == ASSUME WaitInv, StartRun PROVE WaitInv'
<1>1. PICK m \in Member : IsNext(m) /\ run' = [NoRun EXCEPT !.member = m]
  BY DEF StartRun
<1>2. UNCHANGED <<mode, state, call>> /\ run.member = 0
  BY DEF StartRun
<1>3. /\ run' \in [member : Member \cup {0}, pool : {-1} \cup 0 .. PoolBudget, waited : Nat]
      /\ run'.member = m /\ run'.waited = 0 /\ run'.pool = -1
  BY <1>1 DEF NoRun
<1>4. Pool' = PoolBudget /\ PoolBudget \in Nat
  BY <1>3, Numbers DEF Pool
<1>5. PrimaryBudget \in Nat /\ OrdinaryBudget \in Nat
  BY Numbers
<1>6. PrimaryWaited' \in Nat /\ Grace(OrdinaryBudget) \in Nat
  BY <1>5, GraceGrows DEF PrimaryWaited
<1>7. m \in Planning'
  BY <1>1, <1>2 DEF IsNext, Planning
<1>8. RunInv'
  BY <1>2, <1>3, <1>4, <1>6, <1>7 DEF RunInv, WaitInv
<1>9. CallInv' /\ AllowedInv'
  BY <1>2 DEF WaitInv, CallInv, AllowedInv, Waiting
<1> QED
  BY <1>8, <1>9 DEF WaitInv

\* What is left of the pool when a member is planned, and what the wait then is.
LEMMA ChargedRun ==
    ASSUME WaitInv, run.member # 0, NEW pool, pool = Charged(run.member, call),
           NEW left, left = IF pool = -1 THEN PoolBudget ELSE pool,
           NEW primary \in Nat, PrimaryWaited <= primary,
           run.member = Primary => primary = PrimaryWaited + Backstop(PrimaryBudget)
    PROVE  /\ pool \in {-1} \cup 0 .. PoolBudget
           /\ run.waited + call.spent \in Nat
           /\ run.waited + call.spent <= primary + (PoolBudget - left)
                                            + (IF left = 0 THEN Grace(OrdinaryBudget) ELSE 0)
<1>1. /\ run.waited \in Nat /\ run.pool \in {-1} \cup 0 .. PoolBudget
      /\ Pool \in 0 .. PoolBudget /\ call.spent \in Nat /\ Grace(OrdinaryBudget) \in Nat
  BY RunTypes
<1>2. PoolBudget \in Nat /\ PrimaryBudget \in Nat
  BY Numbers
<1>3. Backstop(PrimaryBudget) \in Nat
  BY Numbers, GraceGrows
<1>4. PrimaryWaited \in Nat
  BY <1>3, RunTypes
<1>5. run.waited <= PrimaryWaited + (PoolBudget - Pool)
                       + (IF Pool = 0 THEN Grace(OrdinaryBudget) ELSE 0)
  BY DEF WaitInv, RunInv
<1>6. Pool = IF run.pool = -1 THEN PoolBudget ELSE run.pool
  BY DEF Pool
<1>7. pool = IF Pooled(run.member) THEN Larger(0, Pool - call.spent) ELSE run.pool
  BY DEF Charged
<1>8. Pooled(run.member) => /\ left = Larger(0, Pool - call.spent)
                            /\ pool = left
                            /\ left = IF call.spent < Pool THEN Pool - call.spent ELSE 0
  BY <1>1, <1>2, <1>7 DEF Larger
<1>9. pool \in {-1} \cup 0 .. PoolBudget
  BY <1>1, <1>2, <1>7, <1>8
<1>10. CASE call.spent = 0
  <2>1. left = Pool
    BY <1>1, <1>2, <1>6, <1>7, <1>8, <1>10
  <2> QED
    BY <1>1, <1>2, <1>4, <1>5, <1>9, <1>10, <2>1
<1>11. CASE run.member = Primary /\ call.spent <= Backstop(PrimaryBudget)
  <2>1. left = Pool
    BY <1>6, <1>7, <1>11 DEF Pooled
  <2> QED
    BY <1>1, <1>2, <1>3, <1>4, <1>5, <1>9, <1>11, <2>1
<1>12. CASE /\ run.member # Primary /\ mode = "live" /\ Pool > 0
            /\ call.spent <= Pool + Grace(OrdinaryBudget)
  <2>1. left = IF call.spent < Pool THEN Pool - call.spent ELSE 0
    BY <1>8, <1>12 DEF Pooled
  <2>2. run.waited <= primary + (PoolBudget - Pool)
    BY <1>1, <1>2, <1>4, <1>5, <1>12
  <2> QED
    BY <1>1, <1>2, <1>4, <1>9, <1>12, <2>1, <2>2
<1> QED
  BY <1>10, <1>11, <1>12, CallCosts

\* A planned member leaves the planning ones, the primary with its reserve.
LEMMA PlannedStep ==
    ASSUME WaitInv, run.member # 0, NEW added, Planned(run.member, added)
    PROVE  WaitInv'
<1> DEFINE m == run.member
           others == Planning \ {m}
<1>1. /\ state \in [Member -> {"planning", "assuring"}] /\ m \in Planning /\ m \in Member
      /\ Member \subseteq Nat
  BY Numbers DEF WaitInv, RunInv, Planning
<1>2. /\ state' = [state EXCEPT ![m] = "assuring"] /\ call' = NoCall /\ mode' = mode
  BY DEF Planned
<1>3. state' \in [Member -> {"planning", "assuring"}] /\ Planning' = others
  BY <1>1, <1>2 DEF Planning
<1>4. PICK next : next = IF others = {} THEN 0
                         ELSE CHOOSE n \in others : \A o \in others : n <= o
  OBVIOUS
<1>5. run' = IF next = 0 THEN NoRun
             ELSE [member |-> next, pool |-> Charged(m, call),
                   waited |-> run.waited + call.spent]
  BY <1>4 DEF Planned
<1>6. CASE next = 0
  BY <1>5, <1>2, <1>3, <1>6, NoRunStep
<1>7. CASE next # 0
  <2>1. others # {} /\ others \in SUBSET Nat
    BY <1>1, <1>4, <1>7 DEF Planning
  <2>2. next \in others
    BY <1>4, <2>1, LeastExists
  <2>3. next \in Planning' /\ next \in Member
    BY <1>3, <2>2 DEF Planning
  <2>4. PICK pool : pool = Charged(m, call)
    OBVIOUS
  <2>5. run' = [member |-> next, pool |-> pool, waited |-> run.waited + call.spent]
    BY <1>5, <1>7, <2>4
  <2>6. Backstop(PrimaryBudget) \in Nat
    BY Numbers, GraceGrows
  <2>7. /\ PrimaryWaited' \in Nat /\ PrimaryWaited <= PrimaryWaited'
        /\ m = Primary => PrimaryWaited' = PrimaryWaited + Backstop(PrimaryBudget)
    <3>1. CASE m = Primary
      <4>1. state[Primary] = "planning" /\ Primary \in Member /\ state'[Primary] = "assuring"
        BY <1>1, <1>2, <3>1 DEF Planning
      <4> QED
        BY <2>6, <4>1 DEF PrimaryWaited
    <3>2. CASE m # Primary
      <4>1. Primary \in Member => state'[Primary] = state[Primary]
        BY <1>1, <1>2, <3>2
      <4> QED
        BY <2>6, <3>2, <4>1 DEF PrimaryWaited
    <3> QED
      BY <3>1, <3>2
  <2>8. PICK left : left = IF pool = -1 THEN PoolBudget ELSE pool
    OBVIOUS
  <2>9. /\ pool \in {-1} \cup 0 .. PoolBudget
        /\ run.waited + call.spent \in Nat
        /\ run.waited + call.spent <= PrimaryWaited' + (PoolBudget - left)
                                         + (IF left = 0 THEN Grace(OrdinaryBudget) ELSE 0)
    BY <2>4, <2>7, <2>8, ChargedRun
  <2>10. /\ run'.member = next /\ run'.pool = pool /\ run'.waited = run.waited + call.spent
         /\ run' \in [member : Member \cup {0}, pool : {-1} \cup 0 .. PoolBudget, waited : Nat]
    BY <2>3, <2>5, <2>9
  <2>11. Pool' = left
    BY <2>8, <2>10 DEF Pool
  <2>12. RunInv'
    BY <1>3, <2>3, <2>9, <2>10, <2>11 DEF RunInv
  <2>13. CallInv' /\ AllowedInv'
    BY <1>2, IdleCall, NothingToWait DEF CallInv, AllowedInv, Waiting
  <2> QED
    BY <2>12, <2>13 DEF WaitInv
<1> QED
  BY <1>6, <1>7

-----------------------------------------------------------------------------
(* The theorem                                                             *)

LEMMA ProposedStep ==
    ASSUME WaitInv, run.member # 0, NEW tasks, Propose(run.member, tasks)
    PROVE  WaitInv'
BY PlannedStep DEF Propose

LEMMA UnavailableStep ==
    ASSUME WaitInv, run.member # 0, Unavailable(run.member)
    PROVE  WaitInv'
BY PlannedStep DEF Unavailable

\* What the call and its provider do keeps the call within the member's allowance.
LEMMA CallSteps ==
    ASSUME WaitInv, OpenCall \/ AskProvider \/ HearProvider \/ StopWaiting \/ CallFaults
    PROVE  WaitInv'
<1>1. /\ IsCall(call) /\ call.budget \in Nat /\ call.spent \in Nat
      /\ call.spent <= Backstop(call.budget)
      /\ call.at = "asked" => call.spent + MinAttempt <= call.budget
  BY DEF WaitInv, CallInv, IsCall, CallWith
<1>2. UNCHANGED <<mode, state, run>>
  BY DEF OpenCall, AskProvider, HearProvider, StopWaiting, CallFaults
<1>3. call.at \in {"ready", "asked"} => /\ call.budget = Allowance(run.member)
                                        /\ mode = "live" /\ run.member # 0
                                        /\ Attempts(run.member)
  BY DEF WaitInv, AllowedInv
<1>4. Backstop(call.budget) \in Nat /\ call.budget <= Backstop(call.budget)
  BY <1>1, GraceGrows
<1>5. MinAttempt \in Nat /\ MinAttempt > 0 /\ RequestTimeout \in Nat
  BY Numbers
<1>6. CASE OpenCall
  <2>1. PICK key \in BOOLEAN, prompt \in Prompt :
           call' = Preflight(Opened(Allowance(run.member)), key, prompt)
    BY <1>6 DEF OpenCall
  <2>2. run.member # 0 /\ mode = "live" /\ Attempts(run.member)
    BY <1>6 DEF OpenCall
  <2>3. Allowance(run.member) \in Nat
    <3>1. Pool \in Nat /\ PrimaryBudget \in Nat /\ OrdinaryBudget \in Nat
      BY RunTypes, Numbers
    <3> QED
      BY <2>2, <3>1 DEF Allowance, Smaller
  <2>4. /\ IsCall(call') /\ call'.at # "asked" /\ call'.spent = 0
        /\ call'.budget = Allowance(run.member)
    BY <2>1, <2>3, OpenedCall
  <2>5. Backstop(Allowance(run.member)) \in Nat
    BY <2>3, GraceGrows
  <2> QED
    BY <1>2, <2>2, <2>4, <2>5, CallStep
<1>7. CASE AskProvider
  <2>1. call.at = "ready" /\ call' = Ask(call)
    BY <1>7 DEF AskProvider
  <2>2. /\ IsCall(call') /\ call'.budget = call.budget /\ call'.spent = call.spent
        /\ call'.at = "asked" => call.spent + MinAttempt <= call.budget
    BY <1>1, <2>1, AskedCall
  <2> QED
    BY <1>1, <1>2, <1>3, <2>1, <2>2, CallStep
<1>8. CASE HearProvider
  <2>1. PICK reply \in Reply, took \in {1, AttemptLimit(call) + 1} :
          call.spent + took <= Backstop(call.budget) /\ call' = Answered(call, reply, took)
    BY <1>8 DEF HearProvider
  <2>2. call.at = "asked"
    BY <1>8 DEF HearProvider
  <2>3. took \in Nat
    BY <1>1, <1>5, <2>1, <2>2 DEF AttemptLimit, Left, Smaller
  <2>4. /\ IsCall(call') /\ call'.at # "asked" /\ call'.budget = call.budget
        /\ call'.spent <= Backstop(call.budget)
    BY <1>1, <2>1, <2>3, AnsweredCall
  <2> QED
    BY <1>2, <1>3, <2>2, <2>4, CallStep
<1>9. CASE StopWaiting
  <2>1. /\ call.at = "asked"
        /\ call' = [Failed(call, "orchestrator_budget") EXCEPT !.spent = Backstop(call.budget)]
    BY <1>9 DEF StopWaiting
  <2>2. PICK c : c = Failed(call, "orchestrator_budget")
    OBVIOUS
  <2>3. IsCall(c) /\ c.at = "over" /\ c.budget = call.budget
    BY <1>1, <2>2, FailedCall
  <2>4. call' = [c EXCEPT !.spent = Backstop(call.budget)]
    BY <2>1, <2>2
  <2>5. /\ call' \in CallWith({c.phase}, {c.answer}) /\ call'.at = "over"
        /\ call'.budget = call.budget /\ call'.spent = Backstop(call.budget)
    BY <1>4, <2>3, <2>4 DEF IsCall, CallWith
  <2> QED
    BY <1>2, <1>3, <1>4, <2>1, <2>5, AnyCall, CallStep
<1>10. CASE CallFaults
  <2>1. call.at = "asked" /\ call' = [Failed(call, "fault") EXCEPT !.spent = @ + 1]
    BY <1>10 DEF CallFaults
  <2>2. PICK c : c = Failed(call, "fault")
    OBVIOUS
  <2>3. IsCall(c) /\ c.at = "over" /\ c.budget = call.budget /\ c.spent = call.spent
    BY <1>1, <2>2, FailedCall
  <2>4. PICK n \in Nat : n = call.spent + 1
    BY <1>1
  <2>5. call' = [c EXCEPT !.spent = n]
    BY <2>1, <2>2, <2>3, <2>4
  <2>6. /\ call' \in CallWith({c.phase}, {c.answer}) /\ call'.at = "over"
        /\ call'.budget = call.budget /\ call'.spent = n
    BY <2>3, <2>5 DEF IsCall, CallWith
  <2>7. n <= Backstop(call.budget)
    BY <1>1, <1>4, <1>5, <2>1, <2>4
  <2> QED
    BY <1>2, <1>3, <2>1, <2>6, <2>7, AnyCall, CallStep
<1> QED
  BY <1>6, <1>7, <1>8, <1>9, <1>10

LEMMA WaitStep == ASSUME WaitInv, [Next]_vars PROVE WaitInv'
<1>1. CASE PlanUnaided \/ PlanUnfunded \/ PlanReplayed \/ Conclude
  <2>1. run.member # 0
    BY <1>1 DEF PlanUnaided, PlanUnfunded, PlanReplayed, Conclude, WaitInv, AllowedInv
  <2>2. CASE PlanUnaided
    BY <2>1, <2>2, PlannedStep DEF PlanUnaided
  <2>3. CASE PlanUnfunded \/ PlanReplayed \/ Conclude
    BY <2>1, <2>3, ProposedStep, UnavailableStep DEF PlanUnfunded, PlanReplayed, Conclude
  <2> QED
    BY <1>1, <2>2, <2>3
<1>2. CASE LoseRun
  BY <1>2, NoRunStep DEF LoseRun, WaitInv, RunInv
<1>3. CASE (\E r \in Request : Serve(r)) \/ UNCHANGED vars
  <2>1. UNCHANGED <<mode, state, run, call>>
    BY <1>3 DEF Serve, ReadPlans, ReadChoice, MakeVariants, Identify, Choose, UpdateRow,
                EndDeadlock, CommitRequest, vars
  <2>2. /\ Pool' = Pool /\ PrimaryWaited' = PrimaryWaited /\ Planning' = Planning
        /\ Allowance(run.member)' = Allowance(run.member)
        /\ (Attempts(run.member)' <=> Attempts(run.member))
    BY <2>1 DEF Pool, PrimaryWaited, Planning, Allowance, Attempts, Pooled
  <2> QED
    BY <2>1, <2>2 DEF WaitInv, CallInv, AllowedInv, RunInv, Waiting
<1> QED
  BY <1>1, <1>2, <1>3, StartStep, CallSteps DEF Next, Advance

LEMMA WaitInit == ASSUME Init PROVE WaitInv
<1>1. CallInv /\ AllowedInv
  BY IdleCall, NothingToWait DEF Init, CallInv, AllowedInv, Waiting
<1>2. /\ run \in [member : Member \cup {0}, pool : {-1} \cup 0 .. PoolBudget, waited : Nat]
      /\ run.member = 0 /\ run.waited = 0 /\ run.pool = -1
      /\ state \in [Member -> {"planning", "assuring"}]
  BY DEF Init, NoRun
<1>3. Pool = PoolBudget /\ PoolBudget \in Nat
  BY <1>2, Numbers DEF Pool
<1>4. PrimaryWaited \in Nat /\ Grace(OrdinaryBudget) \in Nat
  BY Numbers, GraceGrows DEF PrimaryWaited
<1>5. RunInv
  BY <1>2, <1>3, <1>4 DEF RunInv
<1> QED
  BY <1>1, <1>5 DEF WaitInv

\* Whatever the providers answer, and however late, a run waits for its planner no
\* longer than the primary's reserve with its grace, the pool, and one further grace.
THEOREM WaitIsBounded == Spec => []PlannerWaitBounded
<1>1. WaitInv => PlannerWaitBounded
  <2> SUFFICES ASSUME WaitInv
               PROVE  run.waited + call.spent <=
                         Backstop(PrimaryBudget) + PoolBudget + Grace(OrdinaryBudget)
    BY DEF PlannerWaitBounded
  <2>1. /\ run.waited \in Nat /\ Pool \in 0 .. PoolBudget /\ call.spent \in Nat
        /\ Grace(OrdinaryBudget) \in Nat /\ PoolBudget \in Nat
    BY RunTypes, Numbers
  <2>2. Backstop(PrimaryBudget) \in Nat
    BY Numbers, GraceGrows
  <2>3. PrimaryWaited \in {0, Backstop(PrimaryBudget)}
    BY RunTypes
  <2>4. run.waited <= PrimaryWaited + (PoolBudget - Pool)
                         + (IF Pool = 0 THEN Grace(OrdinaryBudget) ELSE 0)
    BY DEF WaitInv, RunInv
  <2>5. CASE call.spent = 0
    BY <2>1, <2>2, <2>3, <2>4, <2>5
  <2>6. CASE run.member = Primary /\ call.spent <= Backstop(PrimaryBudget) /\ run.member # 0
    <3>1. PrimaryWaited = 0
      BY <2>6 DEF WaitInv, RunInv, Planning, PrimaryWaited
    <3> QED
      BY <2>1, <2>2, <2>4, <2>6, <3>1
  <2>7. CASE Pool > 0 /\ call.spent <= Pool + Grace(OrdinaryBudget)
    BY <2>1, <2>2, <2>3, <2>4, <2>7
  <2>8. run.member = 0 => call.spent = 0
    BY <2>1 DEF WaitInv, AllowedInv
  <2> QED
    BY <2>5, <2>6, <2>7, <2>8, CallCosts
<1> QED
  BY <1>1, WaitInit, WaitStep, PTL DEF Spec

-----------------------------------------------------------------------------
(* At most one plan is chosen                                              *)

\* A session with rows in it.
Active(q) == request[q].at \in {"read", "identified", "writing"}

\* An update leaves the tasks of its row alone and chooses no plan but the one asked for.
GoodChange(c, i, target) ==
    /\ "tasks" \notin DOMAIN c
    /\ "selection" \in DOMAIN c => /\ c["selection"] \in {"selected", "discarded"}
                                   /\ c["selection"] = "selected" => i = target

\* Rows of plans nobody has chosen or discarded yet.
Fresh(rows) == \A i \in DOMAIN rows : rows[i].selection = "candidate"

AreRows(rows) ==
    /\ \E S : rows \in Seq(S)
    /\ \A i \in DOMAIN rows : {"tasks", "selection"} \subseteq DOMAIN rows[i]

SessionOK(q) ==
    /\ DOMAIN request[q] = {"at", "member", "target", "seen", "todo", "wrote", "added"}
    /\ request[q].member \in Member /\ request[q].target \in Nat
    /\ \A i \in DOMAIN request[q].todo :
          i \in Nat /\ GoodChange(request[q].todo[i], i, request[q].target)
    /\ \A i \in DOMAIN request[q].wrote :
          GoodChange(request[q].wrote[i], i, request[q].target)
    /\ AreRows(request[q].added) /\ Fresh(request[q].added)
    /\ request[q].at = "read" => request[q].wrote = Untouched

\* A transaction that has sent its choice has sent for every other chosen row, too.
ChoiceSpoken(q) ==
    HasChosen(q) => \A j \in Chosen(request[q].member) :
                       j = request[q].target \/ Sent(q, j, "selection") # "none"

ChoiceInv ==
    /\ plans = [m \in Member |-> plans[m]]
    /\ request = [r \in Request |-> request[r]]
    /\ \A m \in Member : AreRows(plans[m])
    /\ \A m \in Member : \A i, j \in Chosen(m) : i = j
    /\ \A q \in Request : Active(q) => SessionOK(q)
    /\ \A q \in Request : Open(q) => ChoiceSpoken(q)
    /\ \A q, p \in Request :
          Open(q) /\ Open(p) /\ request[q].member = request[p].member
             /\ HasChosen(q) /\ HasChosen(p) => q = p

LEMMA SeqWider ==
    ASSUME NEW S, NEW T, NEW s \in Seq(S)
    PROVE  s \in Seq(S \cup T)
BY LenProperties

\* Rows put behind rows.
LEMMA Joined ==
    ASSUME NEW s, NEW t, \E S : s \in Seq(S), \E T : t \in Seq(T)
    PROVE  /\ \E S : s \o t \in Seq(S)
           /\ \A i \in DOMAIN (s \o t) :
                 \/ i \in DOMAIN s /\ (s \o t)[i] = s[i]
                 \/ i \notin DOMAIN s /\ \E j \in DOMAIN t : (s \o t)[i] = t[j]
<1>1. PICK S, T : s \in Seq(S) /\ t \in Seq(T)
  OBVIOUS
<1>2. s \in Seq(S \cup T) /\ t \in Seq(T \cup S) /\ T \cup S = S \cup T
  BY <1>1, SeqWider
<1>3. /\ s \o t \in Seq(S \cup T) /\ Len(s \o t) = Len(s) + Len(t)
      /\ \A i \in 1 .. Len(s) + Len(t) : (s \o t)[i] =
                     IF i <= Len(s) THEN s[i] ELSE t[i - Len(s)]
  BY <1>2, ConcatProperties
<1>4. /\ DOMAIN s = 1 .. Len(s) /\ DOMAIN t = 1 .. Len(t) /\ Len(s) \in Nat /\ Len(t) \in Nat
      /\ DOMAIN (s \o t) = 1 .. Len(s \o t)
  BY <1>1, <1>3, LenProperties
<1>5. ASSUME NEW i \in DOMAIN (s \o t), i \notin DOMAIN s
      PROVE  i - Len(s) \in DOMAIN t /\ (s \o t)[i] = t[i - Len(s)]
  BY <1>3, <1>4, <1>5
<1>6. ASSUME NEW i \in DOMAIN (s \o t), i \in DOMAIN s
      PROVE  (s \o t)[i] = s[i]
  BY <1>3, <1>4, <1>6
<1> QED BY <1>3, <1>5, <1>6

LEMMA RowsJoined ==
    ASSUME NEW s, NEW t, AreRows(s), AreRows(t)
    PROVE  AreRows(s \o t)
<1>1. /\ \E S : s \o t \in Seq(S)
      /\ \A i \in DOMAIN (s \o t) :
            \/ i \in DOMAIN s /\ (s \o t)[i] = s[i]
            \/ i \notin DOMAIN s /\ \E j \in DOMAIN t : (s \o t)[i] = t[j]
  BY Joined DEF AreRows
<1> QED BY <1>1 DEF AreRows

LEMMA MemberIsNat == Member \subseteq Nat /\ Contested \subseteq Member
BY CandidatesAssumption

\* Rows and updates as the steps make them.
LEMMA NewRow ==
    ASSUME NEW generator, NEW variant, NEW tasks
    PROVE  LET row == Row(generator, variant, tasks)
           IN  /\ DOMAIN row = {"generator", "variant", "tasks", "hashed", "selection"}
               /\ row.selection = "candidate" /\ row.tasks = tasks
BY DEF Row

LEMMA NewVariant ==
    ASSUME NEW base, NEW variant
    PROVE  /\ {"tasks", "selection"} \subseteq DOMAIN VariantRow(base, variant)
           /\ VariantRow(base, variant).selection = "candidate"
BY NewRow DEF VariantRow

\* A step that does not touch the rows or the requests of an incident.
LEMMA ChoiceStands ==
    ASSUME ChoiceInv, UNCHANGED <<plans, request>>
    PROVE  ChoiceInv'
<1>1. \A m : Chosen(m)' = Chosen(m)
  BY DEF Chosen
<1>2. \A q, i : Sent(q, i, "selection")' = Sent(q, i, "selection")
  BY DEF Sent, Wrote
<1>3. \A q : /\ (Active(q)' <=> Active(q)) /\ (Open(q)' <=> Open(q))
             /\ (HasChosen(q)' <=> HasChosen(q))
  BY <1>2 DEF Active, Open, HasChosen
<1>4. \A q : SessionOK(q) => SessionOK(q)'
  BY DEF SessionOK, AreRows, Fresh, GoodChange
<1>5. \A q : ChoiceSpoken(q) => ChoiceSpoken(q)'
  BY <1>1, <1>2, <1>3 DEF ChoiceSpoken
<1>6. \A m \in Member : AreRows(plans'[m])
  BY DEF ChoiceInv
<1> QED BY <1>1, <1>3, <1>4, <1>5, <1>6 DEF ChoiceInv, AreRows

\* A step of one request that leaves the committed rows as they are.
LEMMA RequestStep ==
    ASSUME ChoiceInv, plans' = plans, NEW r \in Request, NEW to,
           request' = [request EXCEPT ![r] = to],
           Active(r)' => SessionOK(r)',
           Open(r)' => ChoiceSpoken(r)',
           Open(r)' /\ HasChosen(r)' =>
              \A q \in Request \ {r} : Open(q) /\ request[q].member = request'[r].member
                                          => ~HasChosen(q)
    PROVE  ChoiceInv'
<1>1. /\ request' = [q \in Request |-> request'[q]]
      /\ \A q \in Request \ {r} : request'[q] = request[q]
  BY DEF ChoiceInv
<1>2. \A m : Chosen(m)' = Chosen(m)
  BY DEF Chosen
<1>3. ASSUME NEW q \in Request \ {r}
      PROVE  /\ (Active(q)' <=> Active(q)) /\ (Open(q)' <=> Open(q))
             /\ (HasChosen(q)' <=> HasChosen(q))
             /\ (SessionOK(q) => SessionOK(q)')
             /\ (ChoiceSpoken(q) => ChoiceSpoken(q)')
  <2>1. request'[q] = request[q]
    BY <1>1
  <2>2. (Active(q)' <=> Active(q)) /\ (Open(q)' <=> Open(q))
    BY <2>1 DEF Active, Open
  <2>3. \A i : Sent(q, i, "selection")' = Sent(q, i, "selection")
    BY <2>1 DEF Sent, Wrote
  <2>4. HasChosen(q)' <=> HasChosen(q)
    BY <2>1, <2>3 DEF HasChosen
  <2>5. SessionOK(q) => SessionOK(q)'
    BY <2>1 DEF SessionOK, AreRows, Fresh, GoodChange
  <2>6. ChoiceSpoken(q) => ChoiceSpoken(q)'
    BY <1>2, <2>1, <2>3, <2>4 DEF ChoiceSpoken
  <2> QED BY <2>2, <2>4, <2>5, <2>6
<1>4. \A q \in Request : Active(q)' => SessionOK(q)'
  BY <1>3 DEF ChoiceInv
<1>5. \A q \in Request : Open(q)' => ChoiceSpoken(q)'
  BY <1>3 DEF ChoiceInv
<1>6. \A q, p \in Request :
         Open(q)' /\ Open(p)' /\ request'[q].member = request'[p].member
            /\ HasChosen(q)' /\ HasChosen(p)' => q = p
  BY <1>1, <1>3 DEF ChoiceInv
<1> QED BY <1>1, <1>2, <1>4, <1>5, <1>6 DEF ChoiceInv, AreRows

\* A request that is answered, or has sent nothing, spoke of no choice.
LEMMA QuietRequest ==
    ASSUME ChoiceInv, plans' = plans, NEW r \in Request, NEW to,
           request' = [request EXCEPT ![r] = to],
           Active(r)' => SessionOK(r)',
           Open(r)' => to.wrote = Untouched
    PROVE  ChoiceInv'
<1>1. request'[r] = to
  BY DEF ChoiceInv
<1>2. Open(r)' => ~HasChosen(r)'
  <2>1. to.wrote = Untouched => DOMAIN to.wrote = {}
    BY DEF Untouched
  <2> QED BY <1>1, <2>1 DEF HasChosen
<1>3. Open(r)' => ChoiceSpoken(r)'
  BY <1>2 DEF ChoiceSpoken
<1> QED BY <1>2, <1>3, RequestStep

LEMMA AnswerKeepsChoice ==
    ASSUME ChoiceInv, plans' = plans, NEW r \in Request, NEW answer, Answers(r, answer)
    PROVE  ChoiceInv'
<1>1. request' = [request EXCEPT ![r] = [at |-> "done", answer |-> answer]]
  BY DEF Answers
<1>2. request'[r].at = "done"
  BY <1>1 DEF ChoiceInv
<1>3. ~Active(r)' /\ ~Open(r)'
  BY <1>2 DEF Active, Open
<1> QED BY <1>1, <1>3, QuietRequest

LEMMA OpenKeepsChoice ==
    ASSUME ChoiceInv, plans' = plans, NEW r \in Request, NEW m \in Member, NEW target \in Nat,
           NEW seen, Opens(r, m, target, seen)
    PROVE  ChoiceInv'
<1> DEFINE to == [at |-> "read", member |-> m, target |-> target, seen |-> seen,
                  todo |-> Untouched, wrote |-> Untouched, added |-> <<>>]
<1>1. request' = [request EXCEPT ![r] = to] /\ request'[r] = to
  BY DEF Opens, ChoiceInv
<1>2. DOMAIN Untouched = {}
  BY DEF Untouched
<1>3. SessionOK(r)'
  <2>1. AreRows(<<>>) /\ Fresh(<<>>)
    BY DEF AreRows, Fresh
  <2>2. /\ DOMAIN request'[r] = {"at", "member", "target", "seen", "todo", "wrote", "added"}
        /\ request'[r].member \in Member /\ request'[r].target \in Nat
        /\ \A i \in DOMAIN request'[r].todo :
              i \in Nat /\ GoodChange(request'[r].todo[i], i, request'[r].target)
        /\ \A i \in DOMAIN request'[r].wrote :
              GoodChange(request'[r].wrote[i], i, request'[r].target)
        /\ AreRows(request'[r].added) /\ Fresh(request'[r].added)
        /\ request'[r].wrote = Untouched
    BY <1>1, <1>2, <2>1
  <2> QED BY <2>2 DEF SessionOK, AreRows, Fresh, GoodChange
<1> QED BY <1>1, <1>3, QuietRequest

-----------------------------------------------------------------------------
(* Some positions, in order                                                *)

UpTo(S, i) == {j \in S : j <= i}

LEMMA GreatestExists ==
    ASSUME NEW N \in Nat, NEW S \in SUBSET (1 .. N), S # {}
    PROVE  \E n \in S : \A o \in S : o <= n
<1> DEFINE T == {N - j : j \in S}
<1>1. T \in SUBSET Nat /\ T # {}
  <2>1. \A j \in S : N - j \in Nat
    <3>1. \A j \in 1 .. N : N - j \in Nat
      OBVIOUS
    <3> QED BY <3>1
  <2> QED BY <2>1
<1>2. PICK t \in T : \A o \in T : t <= o
  BY <1>1, LeastExists
<1>3. PICK n \in S : t = N - n
  BY <1>2
<1>4. \A o \in S : N - n <= N - o
  BY <1>2, <1>3
<1>5. \A o \in 1 .. N : N - n <= N - o => o <= n
  <2>1. n \in 1 .. N
    BY <1>3
  <2> QED BY <2>1
<1> QED BY <1>3, <1>4, <1>5

LEMMA FewPositions ==
    ASSUME NEW N \in Nat, NEW S \in SUBSET (1 .. N)
    PROVE  /\ IsFiniteSet(S) /\ Cardinality(S) \in Nat
           /\ \A T \in SUBSET S : /\ IsFiniteSet(T) /\ Cardinality(T) \in 0 .. Cardinality(S)
                                  /\ Cardinality(T) = 0 <=> T = {}
<1>1. IsFiniteSet(1 .. N)
  BY FS_Interval
<1>2. IsFiniteSet(S)
  BY <1>1, FS_Subset
<1>3. \A T \in SUBSET S : IsFiniteSet(T) /\ Cardinality(T) <= Cardinality(S)
  BY <1>2, FS_Subset
<1>4. \A T \in SUBSET S : Cardinality(T) \in Nat
  BY <1>3, FS_CardinalityType
<1>5. \A T \in SUBSET S : Cardinality(T) = 0 <=> T = {}
  BY <1>3, FS_EmptySet
<1> QED BY <1>2, <1>3, <1>4, <1>5

\* Later positions have more before them.
LEMMA CountGrows ==
    ASSUME NEW N \in Nat, NEW S \in SUBSET (1 .. N), NEW i \in S, NEW k \in S, i < k
    PROVE  Cardinality(UpTo(S, i)) < Cardinality(UpTo(S, k))
<1>1. UpTo(S, i) \cup {k} \in SUBSET S /\ UpTo(S, k) \in SUBSET S /\ UpTo(S, i) \in SUBSET S
  BY DEF UpTo
<1>2. UpTo(S, i) \cup {k} \in SUBSET UpTo(S, k) /\ k \notin UpTo(S, i)
  <2>1. i \in Int /\ k \in Int /\ \A j \in S : j \in Int
    OBVIOUS
  <2>2. k <= k /\ ~(k <= i) /\ \A j \in S : j <= i => j <= k
    BY <2>1
  <2> QED BY <2>2 DEF UpTo
<1>3. /\ IsFiniteSet(UpTo(S, i)) /\ IsFiniteSet(UpTo(S, k))
      /\ Cardinality(UpTo(S, i)) \in Nat /\ Cardinality(UpTo(S, k)) \in Nat
  BY <1>1, FewPositions
<1>4. Cardinality(UpTo(S, i) \cup {k}) = Cardinality(UpTo(S, i)) + 1
  BY <1>2, <1>3, FS_AddElement
<1>5. Cardinality(UpTo(S, i) \cup {k}) <= Cardinality(UpTo(S, k))
  BY <1>2, <1>3, FS_Subset
<1> QED BY <1>3, <1>4, <1>5

\* Every position has its number, and every number its position.
LEMMA NthIs ==
    ASSUME NEW N \in Nat, NEW S \in SUBSET (1 .. N)
    PROVE  /\ \A n \in 1 .. Cardinality(S) : /\ Nth(S, n) \in S
                                             /\ Cardinality(UpTo(S, Nth(S, n))) = n
           /\ \A i \in S : /\ Cardinality(UpTo(S, i)) \in 1 .. Cardinality(S)
                           /\ Nth(S, Cardinality(UpTo(S, i))) = i
<1>0. /\ IsFiniteSet(S) /\ Cardinality(S) \in Nat
      /\ \A T \in SUBSET S : /\ IsFiniteSet(T) /\ Cardinality(T) \in 0 .. Cardinality(S)
                             /\ Cardinality(T) = 0 <=> T = {}
  BY FewPositions
<1>1. \A i : UpTo(S, i) \in SUBSET S
  BY DEF UpTo
<1>2. ASSUME NEW i \in S
      PROVE  Cardinality(UpTo(S, i)) \in 1 .. Cardinality(S)
  <2>1. i \in UpTo(S, i)
    BY DEF UpTo
  <2>2. Cardinality(UpTo(S, i)) # 0
    BY <1>0, <1>1, <2>1
  <2> QED BY <1>0, <1>1, <2>2
<1>3. ASSUME NEW n \in 1 .. Cardinality(S)
      PROVE  \E i \in S : Cardinality(UpTo(S, i)) = n
  <2> DEFINE T == {i \in S : n <= Cardinality(UpTo(S, i))}
  <2>1. S # {}
    BY <1>0, FS_EmptySet
  <2>2. PICK last \in S : \A o \in S : o <= last
    BY <2>1, GreatestExists
  <2>3. UpTo(S, last) = S
    BY <2>2 DEF UpTo
  <2>4. T # {} /\ T \in SUBSET Nat
    <3>1. n <= Cardinality(S) /\ S \subseteq Nat
      BY <1>0
    <3>2. last \in T
      BY <2>3, <3>1
    <3> QED BY <3>1, <3>2
  <2>5. PICK i \in T : \A o \in T : i <= o
    BY <2>4, LeastExists
  <2>6. CASE Cardinality(UpTo(S, i)) = n
    BY <2>6
  <2>7. CASE Cardinality(UpTo(S, i)) # n
    <3> DEFINE before == {j \in S : j < i}
    <3>0. i \in S /\ \A j \in S : /\ j < i <=> (j <= i /\ j # i)
                                    /\ j <= j
      <4>1. i \in S /\ i \in Int /\ \A j \in S : j \in Int
        BY <2>5
      <4> QED BY <4>1
    <3>1. before = UpTo(S, i) \ {i} /\ i \in UpTo(S, i) /\ before \in SUBSET S
      <4>a. \A j : j \in before <=> (j \in S /\ j < i)
        OBVIOUS
      <4>b. \A j : j \in UpTo(S, i) <=> (j \in S /\ j <= i)
        BY DEF UpTo
      <4>c. \A j \in S : j < i <=> (j <= i /\ j # i)
        BY <3>0
      <4> HIDE DEF before
      <4>1. \A j : j \in before <=> j \in UpTo(S, i) \ {i}
        BY <4>a, <4>b, <4>c
      <4>2. i \in UpTo(S, i)
        BY <3>0 DEF UpTo
      <4>3. before \in SUBSET S
        BY <4>a
      <4> QED BY <4>1, <4>2, <4>3
    <3>2. Cardinality(before) = Cardinality(UpTo(S, i)) - 1
      BY <3>1, <1>0, <1>1, FS_RemoveElement
    <3>3. n <= Cardinality(before)
      <4>1. Cardinality(UpTo(S, i)) \in Nat
        BY <1>0, <1>1
      <4> QED BY <2>7, <3>2, <4>1
    <3>4. before # {}
      BY <3>1, <3>3, <1>0
    <3>5. PICK k \in before : \A o \in before : o <= k
      <4>1. before \in SUBSET (1 .. N)
        BY <3>1
      <4> HIDE DEF before
      <4> QED BY <3>4, <4>1, GreatestExists
    <3>6. UpTo(S, k) = before
      <4>1. i \in Int /\ k \in S /\ k \in Int /\ k < i /\ \A j \in S : j \in Int
        BY <3>0, <3>5
      <4>2. \A j \in S : j <= k => j < i
        BY <4>1
      <4>3. \A j \in S : j < i => j <= k
        BY <3>5
      <4> QED BY <4>2, <4>3 DEF UpTo
    <3>7. k \in T
      BY <3>3, <3>5, <3>6
    <3>8. i <= k /\ k < i /\ i \in Int /\ k \in Int
      BY <2>5, <3>0, <3>5, <3>7
    <3> QED BY <3>8
  <2> QED BY <2>6, <2>7
<1>4. \A n \in 1 .. Cardinality(S) : Nth(S, n) \in S /\ Cardinality(UpTo(S, Nth(S, n))) = n
  BY <1>3 DEF Nth, UpTo
<1>5. ASSUME NEW i \in S
      PROVE  Nth(S, Cardinality(UpTo(S, i))) = i
  <2> DEFINE k == Nth(S, Cardinality(UpTo(S, i)))
  <2>1. k \in S /\ Cardinality(UpTo(S, k)) = Cardinality(UpTo(S, i))
    BY <1>2, <1>4
  <2>2. Cardinality(UpTo(S, i)) \in Nat
    BY <1>0, <1>1
  <2> HIDE DEF k
  <2>3. ~(i < k) /\ ~(k < i)
    <3>1. i < k => Cardinality(UpTo(S, i)) < Cardinality(UpTo(S, k))
      BY <2>1, CountGrows
    <3>2. k < i => Cardinality(UpTo(S, k)) < Cardinality(UpTo(S, i))
      BY <2>1, CountGrows
    <3> QED BY <2>1, <2>2, <3>1, <3>2
  <2>4. i \in Nat /\ k \in Nat
    BY <2>1
  <2>5. i = k
    BY <2>3, <2>4
  <2> QED BY <2>5 DEF k
<1> QED BY <1>2, <1>4, <1>5

\* What stands at some positions of a sequence: all of it, nothing else, no position twice.
LEMMA InOrderIs ==
    ASSUME NEW s, NEW N \in Nat, DOMAIN s = 1 .. N, NEW S \in SUBSET (1 .. N)
    PROVE  /\ DOMAIN InOrder(s, S) = 1 .. Cardinality(S) /\ Cardinality(S) \in Nat
           /\ \A T : (\A i \in S : s[i] \in T) => InOrder(s, S) \in Seq(T)
           /\ \A n \in DOMAIN InOrder(s, S) :
                 Nth(S, n) \in S /\ InOrder(s, S)[n] = s[Nth(S, n)]
           /\ \A i \in S : \E n \in DOMAIN InOrder(s, S) : Nth(S, n) = i
           /\ \A n, k \in DOMAIN InOrder(s, S) : Nth(S, n) = Nth(S, k) => n = k
           /\ InOrder(s, S) = <<>> <=> S = {}
<1>1. /\ \A n \in 1 .. Cardinality(S) : /\ Nth(S, n) \in S
                                        /\ Cardinality(UpTo(S, Nth(S, n))) = n
      /\ \A i \in S : /\ Cardinality(UpTo(S, i)) \in 1 .. Cardinality(S)
                      /\ Nth(S, Cardinality(UpTo(S, i))) = i
  BY NthIs
<1>2. Cardinality(S) \in Nat /\ (Cardinality(S) = 0 <=> S = {})
  BY FewPositions
<1>3. InOrder(s, S) = [n \in 1 .. Cardinality(S) |-> s[Nth(S, n)]]
  BY DEF InOrder
<1>4. ASSUME NEW T, \A i \in S : s[i] \in T
      PROVE  InOrder(s, S) \in Seq(T)
  <2>1. \A n \in 1 .. Cardinality(S) : s[Nth(S, n)] \in T
    BY <1>1, <1>4
  <2>2. [n \in 1 .. Cardinality(S) |-> s[Nth(S, n)]] \in Seq(T)
    BY <1>2, <2>1, IsASeq
  <2> QED BY <1>3, <2>2
<1>5. InOrder(s, S) = <<>> <=> S = {}
  <2> DEFINE T == {s[i] : i \in S}
  <2>0. InOrder(s, S) \in Seq(T)
    BY <1>4
  <2> HIDE DEF T
  <2>1. InOrder(s, S) = <<>> <=> Len(InOrder(s, S)) = 0
    BY <2>0, EmptySeq
  <2>2. Len(InOrder(s, S)) = Cardinality(S)
    BY <1>2, <1>3, <2>0, LenProperties
  <2> QED BY <1>2, <2>1, <2>2
<1> QED BY <1>1, <1>2, <1>3, <1>4, <1>5

-----------------------------------------------------------------------------
(* The choice, step by step                                                *)

LEMMA ReadPlansKeepsChoice ==
    ASSUME ChoiceInv, NEW r \in Request, NEW m \in Contested, ReadPlans(r, m)
    PROVE  ChoiceInv'
BY MemberIsNat, OpenKeepsChoice DEF ReadPlans

LEMMA ReadChoiceKeepsChoice ==
    ASSUME ChoiceInv, NEW r \in Request, NEW m \in Contested, NEW p \in 1 .. MaxPlans,
           ReadChoice(r, m, p)
    PROVE  ChoiceInv'
<1>1. plans' = plans /\ m \in Member
  BY MemberIsNat DEF ReadChoice
<1>2. \/ Opens(r, m, p, plans[m])
      \/ Answers(r, "ok")
      \/ Answers(r, "conflict")
  BY DEF ReadChoice
<1> QED BY <1>1, <1>2, OpenKeepsChoice, AnswerKeepsChoice

\* The variants made are rows nobody has chosen.
LEMMA VariantsAreRows ==
    ASSUME NEW base, NEW declared, NEW N \in Nat, DOMAIN declared = 1 .. N, NEW made, DOMAIN made = DOMAIN declared,
           \A i \in DOMAIN declared : made[i] = VariantRow(base, declared[i]),
           NEW S \in SUBSET (DOMAIN declared)
    PROVE  AreRows(InOrder(made, S)) /\ Fresh(InOrder(made, S))
<1>1. DOMAIN made = 1 .. N /\ S \in SUBSET (1 .. N)
  OBVIOUS
<1> DEFINE T == {made[i] : i \in S}
<1>2. \A i \in S : made[i] \in T
  OBVIOUS
<1> HIDE DEF T
<1>3. /\ InOrder(made, S) \in Seq(T)
      /\ \A n \in DOMAIN InOrder(made, S) : Nth(S, n) \in S /\ InOrder(made, S)[n] = made[Nth(S, n)]
  BY <1>1, <1>2, InOrderIs
<1>4. \A n \in DOMAIN InOrder(made, S) : \E i \in S :
         InOrder(made, S)[n] = VariantRow(base, declared[i])
  BY <1>3
<1>5. \A n \in DOMAIN InOrder(made, S) :
         /\ {"tasks", "selection"} \subseteq DOMAIN InOrder(made, S)[n]
         /\ InOrder(made, S)[n].selection = "candidate"
  BY <1>4, NewVariant
<1>6. AreRows(InOrder(made, S)) /\ Fresh(InOrder(made, S))
  BY <1>3, <1>5 DEF AreRows, Fresh
<1> QED BY <1>6

LEMMA DeclaredVariants ==
    ASSUME NEW tasks
    PROVE  \E N \in Nat : DOMAIN Declared(tasks) = 1 .. N
<1>1. DOMAIN <<"baseline">> = 1 .. 1 /\ DOMAIN <<"baseline", "notify-first">> = 1 .. 2
  OBVIOUS
<1>2. 1 \in Nat /\ 2 \in Nat
  OBVIOUS
<1> QED BY <1>1, <1>2, Zenon DEF Declared

LEMMA MakeVariantsKeepsChoice ==
    ASSUME ChoiceInv, NEW r \in Request, MakeVariants(r)
    PROVE  ChoiceInv'
<1> DEFINE base == Base(request[r].seen)
           known == {request[r].seen[i].variant : i \in DOMAIN request[r].seen}
                       \cup (IF base.variant = "none" THEN {"baseline"} ELSE {})
           declared == Declared(base.tasks)
           made == [i \in DOMAIN declared |-> VariantRow(base, declared[i])]
           stamps == IF base.variant = "none" \/ ~base.hashed THEN {1} ELSE {}
           todo == [i \in stamps |-> [variant |-> "baseline", hashed |-> TRUE]]
           unknown == {i \in DOMAIN made : declared[i] \notin known}
           added == InOrder(made, unknown)
           to == [request[r] EXCEPT !.at = "writing", !.todo = todo, !.added = added]
<1>1. request[r].at = "read" /\ plans' = plans /\ request' = [request EXCEPT ![r] = to]
  BY DEF MakeVariants
<1>2. SessionOK(r) /\ request[r].wrote = Untouched
  BY <1>1 DEF ChoiceInv, Active, SessionOK
<1>3. AreRows(added) /\ Fresh(added)
  <2>0. PICK N \in Nat : DOMAIN declared = 1 .. N
    BY DeclaredVariants
  <2>1. /\ DOMAIN made = DOMAIN declared
        /\ \A i \in DOMAIN declared : made[i] = VariantRow(base, declared[i])
    OBVIOUS
  <2>2. unknown \in SUBSET (DOMAIN declared)
    BY <2>1
  <2> HIDE DEF declared, known, base, made, unknown
  <2> QED BY <2>0, <2>1, <2>2, VariantsAreRows
<1>4. \A i \in DOMAIN todo : i \in Nat /\ GoodChange(todo[i], i, request[r].target)
  <2>1. \A i \in DOMAIN todo : i = 1 /\ todo[i] = [variant |-> "baseline", hashed |-> TRUE]
    OBVIOUS
  <2> QED BY <2>1 DEF GoodChange
<1> HIDE DEF todo, added
<1>5. /\ DOMAIN to = DOMAIN request[r] /\ to.at = "writing"
      /\ to.member = request[r].member /\ to.target = request[r].target
      /\ to.wrote = request[r].wrote /\ to.todo = todo /\ to.added = added
  BY <1>2 DEF SessionOK
<1>6. request'[r] = to
  BY <1>1 DEF ChoiceInv
<1> HIDE DEF to
<1>7. SessionOK(r)'
  BY <1>2, <1>3, <1>4, <1>5, <1>6 DEF SessionOK, AreRows, Fresh, GoodChange
<1> QED BY <1>1, <1>2, <1>5, <1>7, QuietRequest

LEMMA IdentifyKeepsChoice ==
    ASSUME ChoiceInv, NEW r \in Request, Identify(r)
    PROVE  ChoiceInv'
<1> DEFINE p == request[r].target
           stamps == IF request[r].seen[p].hashed THEN {} ELSE {p}
           todo == [i \in stamps |-> [hashed |-> TRUE]]
           to == [request[r] EXCEPT !.at = "identified", !.todo = todo]
<1>1. /\ request[r].at = "read" /\ p # 0
      /\ plans' = plans /\ request' = [request EXCEPT ![r] = to]
  BY DEF Identify
<1>2. SessionOK(r) /\ request[r].wrote = Untouched
  BY <1>1 DEF ChoiceInv, Active, SessionOK
<1>4. \A i \in DOMAIN todo : i \in Nat /\ GoodChange(todo[i], i, request[r].target)
  <2>1. \A i \in DOMAIN todo : i = p /\ todo[i] = [hashed |-> TRUE]
    OBVIOUS
  <2>2. p \in Nat
    BY <1>2 DEF SessionOK
  <2> QED BY <2>1, <2>2 DEF GoodChange
<1> HIDE DEF todo
<1>5. /\ DOMAIN to = DOMAIN request[r] /\ to.at = "identified"
      /\ to.member = request[r].member /\ to.target = request[r].target
      /\ to.wrote = request[r].wrote /\ to.todo = todo /\ to.added = request[r].added
  BY <1>2 DEF SessionOK
<1>6. request'[r] = to
  BY <1>1 DEF ChoiceInv
<1> HIDE DEF to
<1>7. SessionOK(r)'
  BY <1>2, <1>4, <1>5, <1>6 DEF SessionOK, AreRows, Fresh, GoodChange
<1> QED BY <1>1, <1>2, <1>5, <1>7, QuietRequest

\* What a session has sent, and whom it has thereby chosen, is as before.
LEMMA SameSent ==
    ASSUME NEW r, request'[r].wrote = request[r].wrote
    PROVE  /\ \A i : Sent(r, i, "selection")' = Sent(r, i, "selection")
           /\ HasChosen(r)' <=> HasChosen(r)
<1>1. \A i : Sent(r, i, "selection")' = Sent(r, i, "selection")
  BY DEF Sent, Wrote
<1> QED BY <1>1 DEF HasChosen

LEMMA ChooseKeepsChoice ==
    ASSUME ChoiceInv, NEW r \in Request, Choose(r)
    PROVE  ChoiceInv'
<1> DEFINE rows == Reread(r)
           target == request[r].target
           others == {i \in DOMAIN rows \ {target} : rows[i].selection = "candidate"}
           todo == [i \in {target} \cup others |->
                       [selection |-> IF i = target THEN "selected" ELSE "discarded"]]
           to == [request[r] EXCEPT !.at = "writing", !.todo = todo]
<1>1. /\ request[r].at = "identified"
      /\ plans' = plans /\ request' = [request EXCEPT ![r] = to]
  BY DEF Choose
<1>2. SessionOK(r) /\ Open(r) /\ ChoiceSpoken(r)
  BY <1>1 DEF ChoiceInv, Active, Open
<1>3. target \in Nat /\ DOMAIN rows \subseteq Nat
  <2>1. DOMAIN rows = DOMAIN plans[request[r].member]
    BY DEF Reread
  <2>2. AreRows(plans[request[r].member])
    BY <1>2 DEF SessionOK, ChoiceInv
  <2>3. DOMAIN plans[request[r].member] \subseteq Nat
    BY <2>2, LenProperties DEF AreRows
  <2>4. target \in Nat
    BY <1>2 DEF SessionOK
  <2> QED BY <2>1, <2>3, <2>4
<1>4. \A i \in DOMAIN todo : i \in Nat /\ GoodChange(todo[i], i, request[r].target)
  <2>1. \A i \in DOMAIN todo :
           /\ i \in {target} \cup DOMAIN rows
           /\ todo[i] = [selection |-> IF i = target THEN "selected" ELSE "discarded"]
    OBVIOUS
  <2> HIDE DEF rows, todo
  <2> QED BY <1>3, <2>1 DEF GoodChange
<1> HIDE DEF todo
<1>5. /\ DOMAIN to = DOMAIN request[r] /\ to.at = "writing"
      /\ to.member = request[r].member /\ to.target = request[r].target
      /\ to.wrote = request[r].wrote /\ to.todo = todo /\ to.added = request[r].added
  BY <1>2 DEF SessionOK
<1>6. request'[r] = to
  BY <1>1 DEF ChoiceInv
<1> HIDE DEF to
<1>7. SessionOK(r)'
  BY <1>2, <1>4, <1>5, <1>6 DEF SessionOK, AreRows, Fresh, GoodChange
<1>8. /\ \A i : Sent(r, i, "selection")' = Sent(r, i, "selection")
      /\ HasChosen(r)' <=> HasChosen(r)
  BY <1>5, <1>6, SameSent
<1>9. ChoiceSpoken(r)'
  BY <1>1, <1>2, <1>5, <1>6, <1>8 DEF ChoiceSpoken, Chosen
<1>10. HasChosen(r)' => \A q \in Request \ {r} :
          Open(q) /\ request[q].member = request'[r].member => ~HasChosen(q)
  BY <1>2, <1>5, <1>6, <1>8 DEF ChoiceInv
<1> QED BY <1>1, <1>7, <1>9, <1>10, RequestStep

LEMMA GoodUpdate ==
    ASSUME NEW a, NEW b, NEW i, NEW target, GoodChange(a, i, target), GoodChange(b, i, target)
    PROVE  GoodChange(Changed(a, b), i, target)
<1>1. /\ DOMAIN Changed(a, b) = DOMAIN a \cup DOMAIN b
      /\ \A c \in DOMAIN a \cup DOMAIN b :
            Changed(a, b)[c] = IF c \in DOMAIN b THEN b[c] ELSE a[c]
  BY DEF Changed
<1> QED BY <1>1 DEF GoodChange

LEMMA NothingSent == DOMAIN Untouched = {} /\ \A i, t : GoodChange(Untouched, i, t)
<1>1. DOMAIN Untouched = {}
  BY DEF Untouched
<1> QED BY <1>1 DEF GoodChange

LEMMA WroteIsGood ==
    ASSUME NEW r, SessionOK(r), NEW i
    PROVE  /\ GoodChange(Wrote(r, i), i, request[r].target)
           /\ Sent(r, i, "selection") # "none" =>
                 /\ i \in DOMAIN request[r].wrote
                 /\ Sent(r, i, "selection") = Wrote(r, i)["selection"]
           /\ "selection" \in DOMAIN Wrote(r, i) =>
                 /\ i \in DOMAIN request[r].wrote
                 /\ Sent(r, i, "selection") = Wrote(r, i)["selection"]
                 /\ Sent(r, i, "selection") \in {"selected", "discarded"}
                 /\ Sent(r, i, "selection") = "selected" => i = request[r].target
<1>1. GoodChange(Wrote(r, i), i, request[r].target)
  BY NothingSent DEF SessionOK, Wrote
<1>2. "selection" \in DOMAIN Wrote(r, i) => i \in DOMAIN request[r].wrote
  BY NothingSent DEF Wrote
<1> QED BY <1>1, <1>2 DEF Sent, GoodChange

\* What is due is one of the updates to be sent.
LEMMA DueIs ==
    ASSUME NEW r, SessionOK(r), DOMAIN request[r].todo # {}
    PROVE  Due(r) \in DOMAIN request[r].todo
<1>1. DOMAIN request[r].todo \in SUBSET Nat
  BY DEF SessionOK
<1> QED BY <1>1, LeastExists DEF Due

\* An update that the transaction may send, of the row that is due.
LEMMA SentKeepsChoice ==
    ASSUME ChoiceInv, plans' = plans, NEW r \in Request, NEW i, i = Due(r),
           Updating(r), WaitsFor(r) = {},
           Selecting(request[r].todo[i]) => ~IndexRefuses(r, i),
           request' = [request EXCEPT ![r] = Flushed(r, i)]
    PROVE  ChoiceInv'
<1> DEFINE change == request[r].todo[i]
           target == request[r].target
           todo == [j \in DOMAIN request[r].todo \ {i} |-> request[r].todo[j]]
           wrote == [j \in DOMAIN request[r].wrote \cup {i} |->
                        IF j = i THEN Changed(Wrote(r, i), change) ELSE request[r].wrote[j]]
           to == [request[r] EXCEPT !.todo = todo, !.wrote = wrote]
<1>1. SessionOK(r) /\ Open(r) /\ ChoiceSpoken(r) /\ DOMAIN request[r].todo # {}
  BY DEF ChoiceInv, Active, Open, Updating
<1>2. i \in DOMAIN request[r].todo
  BY <1>1, DueIs
<1>3. GoodChange(change, i, target)
  BY <1>1, <1>2 DEF SessionOK
<1>4. GoodChange(Changed(Wrote(r, i), change), i, target)
  BY <1>1, <1>3, WroteIsGood, GoodUpdate
<1>5. /\ \A j \in DOMAIN todo : j \in Nat /\ GoodChange(todo[j], j, target)
      /\ \A j \in DOMAIN wrote : GoodChange(wrote[j], j, target)
  <2>1. /\ DOMAIN todo = DOMAIN request[r].todo \ {i}
        /\ \A j \in DOMAIN todo : todo[j] = request[r].todo[j]
    OBVIOUS
  <2>2. /\ DOMAIN wrote = DOMAIN request[r].wrote \cup {i}
        /\ wrote[i] = Changed(Wrote(r, i), change)
        /\ \A j \in DOMAIN wrote \ {i} : wrote[j] = request[r].wrote[j]
    OBVIOUS
  <2> HIDE DEF todo, wrote
  <2> QED BY <1>1, <1>4, <2>1, <2>2 DEF SessionOK
<1>6. /\ DOMAIN wrote = DOMAIN request[r].wrote \cup {i}
      /\ wrote[i] = Changed(Wrote(r, i), change)
      /\ \A j \in DOMAIN request[r].wrote : j # i => wrote[j] = request[r].wrote[j]
  OBVIOUS
<1> HIDE DEF todo, wrote
<1>7. /\ DOMAIN to = DOMAIN request[r] /\ to.at = request[r].at
      /\ to.member = request[r].member /\ to.target = request[r].target
      /\ to.wrote = wrote /\ to.todo = todo /\ to.added = request[r].added
  BY <1>1 DEF SessionOK
<1>8. request'[r] = to /\ request' = [request EXCEPT ![r] = to]
  BY DEF ChoiceInv, Flushed, todo, wrote
<1> HIDE DEF to
<1>9. SessionOK(r)'
  <2>1. to.at # "read"
    BY <1>1, <1>7 DEF Open
  <2>2. /\ DOMAIN request'[r] = {"at", "member", "target", "seen", "todo", "wrote", "added"}
        /\ request'[r].member \in Member /\ request'[r].target \in Nat
        /\ \A j \in DOMAIN request'[r].todo :
              j \in Nat /\ GoodChange(request'[r].todo[j], j, request'[r].target)
        /\ \A j \in DOMAIN request'[r].wrote :
              GoodChange(request'[r].wrote[j], j, request'[r].target)
        /\ AreRows(request'[r].added) /\ Fresh(request'[r].added)
        /\ request'[r].at # "read"
    BY <1>1, <1>5, <1>7, <1>8, <2>1 DEF SessionOK
  <2> QED BY <2>2 DEF SessionOK, AreRows, Fresh, GoodChange
<1>10. \A j : j # i => Sent(r, j, "selection")' = Sent(r, j, "selection")
  BY <1>6, <1>7, <1>8 DEF Sent, Wrote
<1>11. Sent(r, i, "selection")' = IF "selection" \in DOMAIN change THEN change["selection"]
                                  ELSE Sent(r, i, "selection")
  <2>1. Wrote(r, i)' = Changed(Wrote(r, i), change)
    BY <1>6, <1>7, <1>8 DEF Wrote
  <2>2. DOMAIN Changed(Wrote(r, i), change) = DOMAIN Wrote(r, i) \cup DOMAIN change
    BY DEF Changed
  <2>3. "selection" \in DOMAIN Wrote(r, i) \cup DOMAIN change =>
           Changed(Wrote(r, i), change)["selection"] =
              IF "selection" \in DOMAIN change THEN change["selection"]
              ELSE Wrote(r, i)["selection"]
    BY DEF Changed
  <2> QED BY <2>1, <2>2, <2>3 DEF Sent
<1>12. CASE Selecting(change)
  <2>1. i = target
    BY <1>3, <1>12 DEF Selecting, GoodChange
  <2>2. \A j \in Chosen(request[r].member) \ {i} : Sent(r, j, "selection") # "none"
    BY <1>12 DEF IndexRefuses
  <2>3. ChoiceSpoken(r)'
    BY <1>7, <1>8, <1>10, <2>1, <2>2 DEF ChoiceSpoken, Chosen
  <2>4. \A q \in Request \ {r} : Open(q) /\ request[q].member = request'[r].member
                                      => ~HasChosen(q)
    BY <1>7, <1>8, <1>12 DEF WaitsFor
  <2> QED BY <1>9, <2>3, <2>4, RequestStep
<1>13. CASE ~Selecting(change)
  <2>1. "selection" \in DOMAIN change => change["selection"] = "discarded"
    BY <1>3, <1>13 DEF Selecting, GoodChange
  <2>2. HasChosen(r)' => HasChosen(r)
    <3> SUFFICES ASSUME NEW j \in DOMAIN wrote, Sent(r, j, "selection")' = "selected"
                 PROVE  HasChosen(r)
      BY <1>7, <1>8 DEF HasChosen
    <3>1. Sent(r, j, "selection") = "selected"
      BY <1>10, <1>11, <2>1
    <3> QED BY <1>1, <3>1, WroteIsGood DEF HasChosen
  <2>3. \A j : Sent(r, j, "selection") # "none" => Sent(r, j, "selection")' # "none"
    BY <1>10, <1>11, <2>1
  <2>4. ChoiceSpoken(r)'
    BY <1>1, <1>7, <1>8, <2>2, <2>3 DEF ChoiceSpoken, Chosen
  <2>5. HasChosen(r)' =>
           \A q \in Request \ {r} : Open(q) /\ request[q].member = request'[r].member
                                        => ~HasChosen(q)
    BY <1>1, <1>7, <1>8, <2>2 DEF ChoiceInv
  <2> QED BY <1>9, <2>4, <2>5, RequestStep
<1> QED BY <1>12, <1>13

LEMMA UpdateKeepsChoice ==
    ASSUME ChoiceInv, NEW r \in Request, UpdateRow(r)
    PROVE  ChoiceInv'
<1> DEFINE i == Due(r)
<1>1. /\ plans' = plans /\ Updating(r) /\ WaitsFor(r) = {}
      /\ \/ Answers(r, "conflict")
         \/ /\ Selecting(request[r].todo[i]) => ~IndexRefuses(r, i)
            /\ request' = [request EXCEPT ![r] = Flushed(r, i)]
  BY DEF UpdateRow
<1>2. CASE Answers(r, "conflict")
  BY <1>1, <1>2, AnswerKeepsChoice
<1>3. CASE /\ Selecting(request[r].todo[i]) => ~IndexRefuses(r, i)
           /\ request' = [request EXCEPT ![r] = Flushed(r, i)]
  BY <1>1, <1>3, SentKeepsChoice
<1> QED BY <1>1, <1>2, <1>3

LEMMA EndKeepsChoice ==
    ASSUME ChoiceInv, NEW r \in Request, EndDeadlock(r)
    PROVE  ChoiceInv'
BY AnswerKeepsChoice DEF EndDeadlock

\* The rows of an incident as a transaction leaves them.
Committed(r, rows) ==
    [i \in DOMAIN rows |-> Changed(rows[i], Wrote(r, i))] \o request[r].added

LEMMA CommittedRows ==
    ASSUME NEW r, SessionOK(r), NEW rows, AreRows(rows)
    PROVE  /\ AreRows(Committed(r, rows))
           /\ \A i \in DOMAIN Committed(r, rows) :
              Committed(r, rows)[i].selection = "selected" =>
                 \/ /\ i \in DOMAIN rows /\ rows[i].selection = "selected"
                    /\ Sent(r, i, "selection") = "none"
                 \/ HasChosen(r) /\ i = request[r].target
<1> DEFINE now == Committed(r, rows)
           left == [i \in DOMAIN rows |-> Changed(rows[i], Wrote(r, i))]
<1>1. /\ DOMAIN left = DOMAIN rows
      /\ \A i \in DOMAIN rows : left[i] = Changed(rows[i], Wrote(r, i))
  OBVIOUS
<1>2. \A i \in DOMAIN rows :
         /\ DOMAIN left[i] = DOMAIN rows[i] \cup DOMAIN Wrote(r, i)
         /\ left[i].selection = IF "selection" \in DOMAIN Wrote(r, i)
                                THEN Wrote(r, i)["selection"] ELSE rows[i].selection
  BY <1>1 DEF AreRows, Changed
<1>3. AreRows(left)
  <2>1. PICK N \in Nat : DOMAIN rows = 1 .. N
    BY LenProperties DEF AreRows
  <2> DEFINE T == {left[i] : i \in 1 .. N}
  <2>2. \A i \in 1 .. N : left[i] \in T
    OBVIOUS
  <2> HIDE DEF T, left
  <2>3. [i \in 1 .. N |-> left[i]] \in Seq(T)
    BY <2>2, IsASeq
  <2>4. left = [i \in 1 .. N |-> left[i]]
    BY <2>1 DEF left
  <2>5. left \in Seq(T)
    BY <2>3, <2>4
  <2>6. \A i \in DOMAIN left : {"tasks", "selection"} \subseteq DOMAIN left[i]
    BY <1>1, <1>2 DEF AreRows
  <2> QED BY <2>5, <2>6 DEF AreRows
<1> HIDE DEF left
<1>4. AreRows(request[r].added) /\ Fresh(request[r].added) /\ now = left \o request[r].added
  BY DEF SessionOK, left, Committed
<1> HIDE DEF now
<1>5. AreRows(now)
  BY <1>3, <1>4, RowsJoined
<1>6. \A i \in DOMAIN now :
         \/ i \in DOMAIN left /\ now[i] = left[i]
         \/ \E j \in DOMAIN request[r].added : now[i] = request[r].added[j]
  <2>1. (\E S : left \in Seq(S)) /\ (\E S : request[r].added \in Seq(S))
    BY <1>3, <1>4 DEF AreRows
  <2>2. \A i \in DOMAIN (left \o request[r].added) :
           \/ i \in DOMAIN left /\ (left \o request[r].added)[i] = left[i]
           \/ /\ i \notin DOMAIN left
              /\ \E j \in DOMAIN request[r].added :
                    (left \o request[r].added)[i] = request[r].added[j]
    BY <2>1, Joined
  <2> QED BY <1>4, <2>2
<1>7. ASSUME NEW i \in DOMAIN now, now[i].selection = "selected"
      PROVE  \/ /\ i \in DOMAIN rows /\ rows[i].selection = "selected"
                /\ Sent(r, i, "selection") = "none"
             \/ HasChosen(r) /\ i = request[r].target
  <2>1. i \in DOMAIN rows /\ left[i].selection = "selected"
    <3>1. \A j \in DOMAIN request[r].added : request[r].added[j].selection # "selected"
      BY <1>4 DEF Fresh
    <3> QED BY <1>1, <1>6, <1>7, <3>1
  <2>2. CASE "selection" \in DOMAIN Wrote(r, i)
    <3>1. Sent(r, i, "selection") = "selected"
      BY <1>2, <2>1, <2>2, WroteIsGood
    <3> QED BY <2>2, <3>1, WroteIsGood DEF HasChosen
  <2>3. CASE "selection" \notin DOMAIN Wrote(r, i)
    BY <1>2, <2>1, <2>3 DEF Sent
  <2> QED BY <2>2, <2>3
<1> QED BY <1>5, <1>7 DEF now

LEMMA CommitKeepsChoice ==
    ASSUME ChoiceInv, NEW r \in Request, CommitRequest(r)
    PROVE  ChoiceInv'
<1> DEFINE m == request[r].member
           now == Committed(r, plans[m])
<1>1. /\ request[r].at = "writing" /\ plans' = [plans EXCEPT ![m] = now]
      /\ request' = [request EXCEPT ![r] = [at |-> "done", answer |-> "ok"]]
  BY DEF CommitRequest, Answers, Committed
<1>2. SessionOK(r) /\ Open(r) /\ Active(r) /\ ChoiceSpoken(r) /\ m \in Member
  BY <1>1 DEF ChoiceInv, Active, Open, SessionOK
<1>3. AreRows(plans[m])
  BY <1>2 DEF ChoiceInv
<1>4. /\ AreRows(now)
      /\ \A i \in DOMAIN now : now[i].selection = "selected" =>
            \/ /\ i \in DOMAIN plans[m] /\ plans[m][i].selection = "selected"
               /\ Sent(r, i, "selection") = "none"
            \/ HasChosen(r) /\ i = request[r].target
  BY <1>2, <1>3, CommittedRows
<1> HIDE DEF now
<1>5. PICK home \in Member : home = m
  BY <1>2
<1>6. /\ plans' = [n \in Member |-> plans'[n]]
      /\ plans'[home] = now /\ \A n \in Member \ {home} : plans'[n] = plans[n]
  BY <1>1, <1>5 DEF ChoiceInv
<1>7. \A i \in Chosen(home)' :
         \/ i \in Chosen(home) /\ Sent(r, i, "selection") = "none"
         \/ HasChosen(r) /\ i = request[r].target
  BY <1>4, <1>5, <1>6 DEF Chosen
<1>8. \A n \in Member \ {home} : Chosen(n)' = Chosen(n)
  BY <1>6 DEF Chosen
<1>9. /\ request' = [q \in Request |-> request'[q]]
      /\ \A q \in Request \ {r} : request'[q] = request[q]
      /\ request'[r].at = "done"
  BY <1>1 DEF ChoiceInv
<1>10. ~Active(r)' /\ ~Open(r)'
  BY <1>9 DEF Active, Open
<1>11. ASSUME NEW q \in Request \ {r}
       PROVE  /\ (Active(q)' <=> Active(q)) /\ (Open(q)' <=> Open(q))
              /\ (HasChosen(q)' <=> HasChosen(q))
              /\ \A i : Sent(q, i, "selection")' = Sent(q, i, "selection")
              /\ (SessionOK(q) => SessionOK(q)')
  <2>1. request'[q] = request[q]
    BY <1>9
  <2>2. (Active(q)' <=> Active(q)) /\ (Open(q)' <=> Open(q))
    BY <2>1 DEF Active, Open
  <2>3. \A i : Sent(q, i, "selection")' = Sent(q, i, "selection")
    BY <2>1 DEF Sent, Wrote
  <2>4. HasChosen(q)' <=> HasChosen(q)
    BY <2>1, <2>3 DEF HasChosen
  <2>5. SessionOK(q) => SessionOK(q)'
    BY <2>1 DEF SessionOK, AreRows, Fresh, GoodChange
  <2> QED BY <2>2, <2>3, <2>4, <2>5
<1>12. \A n \in Member : AreRows(plans'[n])
  BY <1>4, <1>5, <1>6 DEF ChoiceInv
<1>13. \A n \in Member : \A i, j \in Chosen(n)' : i = j
  <2>1. \A i, j \in Chosen(home)' : i = j
    <3>1. CASE HasChosen(r)
      <4>1. \A i \in Chosen(home)' : i = request[r].target
        BY <1>2, <1>5, <1>7, <3>1 DEF ChoiceSpoken
      <4> QED BY <4>1
    <3>2. CASE ~HasChosen(r)
      BY <1>7, <3>2 DEF ChoiceInv
    <3> QED BY <3>1, <3>2
  <2> QED BY <1>8, <2>1 DEF ChoiceInv
<1>14. ASSUME NEW q \in Request, Open(q)'
       PROVE  ChoiceSpoken(q)'
  <2>1. q # r /\ Open(q) /\ request'[q] = request[q] /\ ChoiceSpoken(q)
    BY <1>9, <1>10, <1>11, <1>14 DEF ChoiceInv
  <2>2. SessionOK(q)
    BY <2>1 DEF ChoiceInv, Active, Open
  <2>n. PICK n \in Member : n = request[q].member
    BY <2>2 DEF SessionOK
  <2>3. HasChosen(q) => Chosen(n)' \subseteq Chosen(n)
    <3>1. CASE n = home
      <4>1. HasChosen(q) => ~HasChosen(r)
        BY <1>2, <1>5, <2>1, <2>n, <3>1 DEF ChoiceInv
      <4> QED BY <1>7, <3>1, <4>1
    <3>2. CASE n # home
      BY <1>8, <3>2
    <3> QED BY <3>1, <3>2
  <2>4. HasChosen(q)' => \A j \in Chosen(n)' :
                           j = request'[q].target \/ Sent(q, j, "selection")' # "none"
    BY <1>11, <2>1, <2>n, <2>3 DEF ChoiceSpoken
  <2>5. Chosen(request[q].member)' = Chosen(n)'
    BY <2>1, <2>n DEF Chosen
  <2> QED BY <2>4, <2>5 DEF ChoiceSpoken
<1>15. \A q, p \in Request :
          Open(q)' /\ Open(p)' /\ request'[q].member = request'[p].member
             /\ HasChosen(q)' /\ HasChosen(p)' => q = p
  BY <1>9, <1>10, <1>11 DEF ChoiceInv
<1>16. \A q \in Request : Active(q)' => SessionOK(q)'
  BY <1>10, <1>11 DEF ChoiceInv
<1> QED BY <1>6, <1>9, <1>12, <1>13, <1>14, <1>15, <1>16 DEF ChoiceInv, AreRows

\* The plans of an incident that is past planning begin with nothing chosen.
LEMMA PlannedKeepsChoice ==
    ASSUME ChoiceInv, NEW m, NEW added, AreRows(added), Fresh(added), Planned(m, added)
    PROVE  ChoiceInv'
<1> DEFINE now == <<PlaybookRow>> \o added
<1>1. plans' = [plans EXCEPT ![m] = now] /\ request' = request
  BY DEF Planned
<1>2. AreRows(<<PlaybookRow>>) /\ Fresh(<<PlaybookRow>>)
  <2>1. {"tasks", "selection"} \subseteq DOMAIN PlaybookRow /\ PlaybookRow.selection = "candidate"
    BY NewRow DEF PlaybookRow
  <2>2. /\ <<PlaybookRow>> \in Seq({PlaybookRow})
        /\ \A i \in DOMAIN <<PlaybookRow>> : <<PlaybookRow>>[i] = PlaybookRow
    OBVIOUS
  <2> QED BY <2>1, <2>2 DEF AreRows, Fresh
<1>3. AreRows(now)
  BY <1>2, RowsJoined
<1>4. Fresh(now)
  <2>1. \A i \in DOMAIN now :
           \/ i \in DOMAIN <<PlaybookRow>> /\ now[i] = <<PlaybookRow>>[i]
           \/ \E j \in DOMAIN added : now[i] = added[j]
    BY <1>2, Joined DEF AreRows
  <2> QED BY <1>2, <2>1 DEF Fresh
<1> HIDE DEF now
<1>5. /\ plans' = [n \in Member |-> plans'[n]]
      /\ \A n \in Member : plans'[n] = plans[n] \/ plans'[n] = now
  BY <1>1 DEF ChoiceInv
<1>6. \A n \in Member : Chosen(n)' \subseteq Chosen(n)
  BY <1>4, <1>5 DEF Chosen, Fresh
<1>7. \A q, i : Sent(q, i, "selection")' = Sent(q, i, "selection")
  BY <1>1 DEF Sent, Wrote
<1>8. \A q : /\ (Active(q)' <=> Active(q)) /\ (Open(q)' <=> Open(q))
             /\ (HasChosen(q)' <=> HasChosen(q))
  BY <1>1, <1>7 DEF Active, Open, HasChosen
<1>9. \A q : SessionOK(q) => SessionOK(q)'
  BY <1>1 DEF SessionOK, AreRows, Fresh, GoodChange
<1>10. ASSUME NEW q \in Request, Open(q)'
       PROVE  ChoiceSpoken(q)'
  <2>1. Open(q) /\ ChoiceSpoken(q) /\ request[q].member \in Member
    BY <1>8, <1>10 DEF ChoiceInv, Active, Open, SessionOK
  <2> QED BY <1>1, <1>6, <1>7, <1>8, <2>1 DEF ChoiceSpoken
<1>11. \A n \in Member : AreRows(plans'[n])
  BY <1>3, <1>5 DEF ChoiceInv
<1>12. /\ request' = [q \in Request |-> request'[q]]
       /\ \A n \in Member : \A i, j \in Chosen(n)' : i = j
       /\ \A q \in Request : Active(q)' => SessionOK(q)'
  BY <1>1, <1>6, <1>8, <1>9 DEF ChoiceInv
<1>13. \A q, p \in Request :
          Open(q)' /\ Open(p)' /\ request'[q].member = request'[p].member
             /\ HasChosen(q)' /\ HasChosen(p)' => q = p
  BY <1>1, <1>8 DEF ChoiceInv
<1> QED BY <1>5, <1>10, <1>11, <1>12, <1>13 DEF ChoiceInv, AreRows

LEMMA UnavailableKeepsChoice ==
    ASSUME ChoiceInv, NEW m, Unavailable(m)
    PROVE  ChoiceInv'
<1>1. AreRows(<<>>) /\ Fresh(<<>>)
  BY DEF AreRows, Fresh
<1> QED BY <1>1, PlannedKeepsChoice DEF Unavailable

LEMMA ProposedKeepsChoice ==
    ASSUME ChoiceInv, NEW m, NEW tasks, Propose(m, tasks)
    PROVE  ChoiceInv'
<1> DEFINE kept == Reflect(tasks, Available, Target)
           added == IF Rejected(kept) THEN <<>> ELSE <<PlannerRow(kept)>>
<1>1. Planned(m, added)
  BY DEF Propose
<1> HIDE DEF kept
<1>2. AreRows(<<>>) /\ Fresh(<<>>)
  BY DEF AreRows, Fresh
<1>3. AreRows(<<PlannerRow(kept)>>) /\ Fresh(<<PlannerRow(kept)>>)
  <2>1. /\ {"tasks", "selection"} \subseteq DOMAIN PlannerRow(kept)
        /\ PlannerRow(kept).selection = "candidate"
    BY NewRow DEF PlannerRow
  <2>2. /\ <<PlannerRow(kept)>> \in Seq({PlannerRow(kept)})
        /\ \A i \in DOMAIN <<PlannerRow(kept)>> : <<PlannerRow(kept)>>[i] = PlannerRow(kept)
    OBVIOUS
  <2> QED BY <2>1, <2>2 DEF AreRows, Fresh
<1> QED BY <1>1, <1>2, <1>3, PlannedKeepsChoice

LEMMA ChoiceStep == ASSUME ChoiceInv, [Next]_vars PROVE ChoiceInv'
<1>1. CASE \E r \in Request : Serve(r)
  <2>1. PICK r \in Request : Serve(r)
    BY <1>1
  <2> QED
    BY <2>1, ReadPlansKeepsChoice, ReadChoiceKeepsChoice, MakeVariantsKeepsChoice,
       IdentifyKeepsChoice, ChooseKeepsChoice, UpdateKeepsChoice, EndKeepsChoice,
       CommitKeepsChoice DEF Serve
<1>2. CASE PlanUnaided \/ PlanUnfunded \/ PlanReplayed \/ Conclude
  <2>1. CASE PlanUnaided
    BY <2>1, UnavailableKeepsChoice DEF PlanUnaided, Unavailable
  <2>2. CASE PlanUnfunded
    BY <2>2, UnavailableKeepsChoice DEF PlanUnfunded
  <2>3. CASE PlanReplayed
    BY <2>3, UnavailableKeepsChoice, ProposedKeepsChoice DEF PlanReplayed
  <2>4. CASE Conclude
    BY <2>4, UnavailableKeepsChoice, ProposedKeepsChoice DEF Conclude
  <2> QED BY <1>2, <2>1, <2>2, <2>3, <2>4
<1>3. CASE \/ StartRun \/ OpenCall \/ AskProvider \/ HearProvider \/ StopWaiting \/ CallFaults
           \/ LoseRun \/ UNCHANGED vars
  <2>1. UNCHANGED <<plans, request>>
    BY <1>3 DEF StartRun, OpenCall, AskProvider, HearProvider, StopWaiting, CallFaults,
                LoseRun, vars
  <2> QED BY <2>1, ChoiceStands
<1> QED BY <1>1, <1>2, <1>3 DEF Next, Advance

LEMMA ChoiceInit == ASSUME Init PROVE ChoiceInv
<1>1. /\ plans = [m \in Member |-> <<>>] /\ request = [r \in Request |-> [at |-> "new"]]
  BY DEF Init
<1>2. /\ plans = [m \in Member |-> plans[m]] /\ request = [r \in Request |-> request[r]]
      /\ \A m \in Member : plans[m] = <<>>
      /\ \A r \in Request : request[r].at = "new"
  BY <1>1
<1>3. \A m \in Member : AreRows(plans[m]) /\ Chosen(m) = {}
  <2>1. AreRows(<<>>)
    BY DEF AreRows
  <2>2. \A m \in Member : AreRows(plans[m])
    BY <1>2, <2>1
  <2>3. \A m \in Member : Chosen(m) = {}
    BY <1>2 DEF Chosen
  <2> QED BY <2>2, <2>3
<1>4. \A r \in Request : ~Active(r) /\ ~Open(r)
  BY <1>2 DEF Active, Open
<1> QED BY <1>2, <1>3, <1>4 DEF ChoiceInv

\* Whoever chooses at the same time, and in whatever order their updates reach the
\* database, at most one plan of an incident is chosen.
THEOREM OneChosen == Spec => []OneIsChosen
<1>1. ChoiceInv => OneIsChosen
  <2> SUFFICES ASSUME ChoiceInv, NEW m \in Member
               PROVE  Cardinality(Chosen(m)) <= 1
    BY DEF OneIsChosen
  <2>1. CASE Chosen(m) = {}
    <3>1. Cardinality(Chosen(m)) = 0
      BY <2>1, FS_EmptySet
    <3> QED BY <3>1
  <2>2. CASE Chosen(m) # {}
    <3>1. PICK i : i \in Chosen(m)
      BY <2>2
    <3>2. Chosen(m) = {i}
      BY <3>1 DEF ChoiceInv
    <3>3. Cardinality(Chosen(m)) = 1
      BY <3>2, FS_Singleton
    <3> QED BY <3>3
  <2> QED BY <2>1, <2>2
<1> QED
  BY <1>1, ChoiceInit, ChoiceStep, PTL DEF Spec

-----------------------------------------------------------------------------
(* Every plan is narrowed                                                  *)

Sound(tasks) == tasks \in Seq(Task) /\ Narrow(tasks)

\* What a plan must be for a variant of it to be sound: a variant waits for nothing.
Plain(tasks) ==
    /\ tasks \in Seq(Task) /\ tasks # <<>>
    /\ \A i, j \in DOMAIN tasks : tasks[i].action = tasks[j].action => i = j
    /\ \A i \in DOMAIN tasks : tasks[i].action \in Available /\ tasks[i].targets \subseteq Target

GoodRows(rows) == \A i \in DOMAIN rows : Sound(rows[i].tasks)

\* A session varies the first of the plans it read.
SessionSound(q) ==
    /\ 1 \in DOMAIN request[q].seen /\ GoodRows(request[q].seen)
    /\ GoodRows(request[q].added)

SoundInv ==
    /\ \A m \in Member : GoodRows(plans[m])
    /\ \A q \in Request : Active(q) => SessionSound(q)
    /\ call.answer \in Seq(Task)

\* Tasks taken in order from among others, each action once.
LEMMA OrderedPlan ==
    ASSUME NEW s, NEW N \in Nat, DOMAIN s = 1 .. N, NEW S \in SUBSET (1 .. N), S # {},
           \A i \in S : /\ s[i] \in Task /\ s[i].action \in Available
                        /\ s[i].targets \subseteq Target
                        /\ s[i].depends \subseteq {s[j].action : j \in S} \ {s[i].action},
           \A i, j \in S : s[i].action = s[j].action => i = j
    PROVE  Sound(InOrder(s, S))
<1> DEFINE t == InOrder(s, S)
<1>1. /\ t \in Seq(Task) /\ t # <<>>
      /\ \A n \in DOMAIN t : Nth(S, n) \in S /\ t[n] = s[Nth(S, n)]
      /\ \A i \in S : \E n \in DOMAIN t : Nth(S, n) = i
      /\ \A n, k \in DOMAIN t : Nth(S, n) = Nth(S, k) => n = k
  BY InOrderIs
<1> HIDE DEF t
<1>2. ASSUME NEW n \in DOMAIN t, NEW k \in DOMAIN t, t[n].action = t[k].action
      PROVE  n = k
  <2>1. /\ Nth(S, n) \in S /\ Nth(S, k) \in S
        /\ s[Nth(S, n)].action = s[Nth(S, k)].action
    BY <1>1, <1>2
  <2>2. Nth(S, n) = Nth(S, k)
    BY <2>1
  <2> QED BY <1>1, <2>2
<1>3. {s[j].action : j \in S} \subseteq Actions(t)
  BY <1>1 DEF Actions
<1>4. \A n \in DOMAIN t : /\ t[n].action \in Available /\ t[n].targets \subseteq Target
                          /\ t[n].depends \subseteq Actions(t) \ {t[n].action}
  BY <1>1, <1>3
<1>5. Sound(t)
  BY <1>1, <1>2, <1>4 DEF Sound, Narrow
<1> QED BY <1>5 DEF t

\* Whatever was proposed, what is left of it is a narrowed plan.
LEMMA ReflectIsSound ==
    ASSUME NEW tasks \in Seq(Task)
    PROVE  LET kept == Reflect(tasks, Available, Target)
           IN  Rejected(kept) \/ Sound(kept)
<1> DEFINE N == Len(tasks)
           kept == {i \in DOMAIN tasks : IsKept(tasks, i, Available, Target)}
           names == {tasks[i].action : i \in kept}
           narrowed == [i \in DOMAIN tasks |-> Narrowed(tasks[i], names, Target)]
<1>1. N \in Nat /\ DOMAIN tasks = 1 .. N /\ \A i \in 1 .. N : tasks[i] \in Task
  BY LenProperties, ElementOfSeq
<1>2. DOMAIN narrowed = 1 .. N /\ kept \in SUBSET (1 .. N)
  BY <1>1
<1>3. ASSUME NEW i \in kept
      PROVE  /\ narrowed[i] \in Task
             /\ narrowed[i].action = tasks[i].action /\ narrowed[i].action \in Available
             /\ narrowed[i].targets \subseteq Target
             /\ narrowed[i].depends \subseteq names \ {narrowed[i].action}
  <2>1. tasks[i] \in Task /\ narrowed[i] = Narrowed(tasks[i], names, Target)
    BY <1>1
  <2>2. tasks[i].action \in Available
    BY DEF IsKept, Passes
  <2>3. Target \subseteq STRING
    BY PlansAssumption
  <2> HIDE DEF names, narrowed, kept
  <2> QED BY <2>1, <2>2, <2>3 DEF Narrowed, Task
<1>4. ASSUME NEW i \in kept, NEW j \in kept, tasks[i].action = tasks[j].action
      PROVE  i = j
  <2>1. i \in 1 .. N /\ j \in 1 .. N
    BY <1>2
  <2>2. /\ Passes(tasks[i], Available, Target) /\ Passes(tasks[j], Available, Target)
        /\ \A k \in 1 .. (i - 1) :
              Passes(tasks[k], Available, Target) => tasks[k].action # tasks[i].action
        /\ \A k \in 1 .. (j - 1) :
              Passes(tasks[k], Available, Target) => tasks[k].action # tasks[j].action
    BY DEF IsKept
  <2>3. j \notin 1 .. (i - 1) /\ i \notin 1 .. (j - 1)
    BY <1>4, <2>2
  <2> QED BY <1>1, <2>1, <2>3
<1>5. \A i, j \in kept : narrowed[i].action = narrowed[j].action => i = j
  BY <1>3, <1>4
<1>6. names = {narrowed[j].action : j \in kept}
  <2>1. \A x : x \in names <=> \E i \in kept : x = tasks[i].action
    OBVIOUS
  <2> HIDE DEF narrowed, kept, names
  <2> QED BY <1>3, <2>1
<1>7. Reflect(tasks, Available, Target) = InOrder(narrowed, kept)
  BY DEF Reflect
<1> HIDE DEF narrowed, kept, names, N
<1>8. CASE kept = {}
  <2>1. InOrder(narrowed, kept) = <<>>
    BY <1>1, <1>2, <1>8, InOrderIs
  <2> QED BY <1>7, <2>1 DEF Rejected
<1>9. CASE kept # {}
  <2>1. \A i \in kept : /\ narrowed[i] \in Task /\ narrowed[i].action \in Available
                        /\ narrowed[i].targets \subseteq Target
                        /\ narrowed[i].depends \subseteq
                              {narrowed[j].action : j \in kept} \ {narrowed[i].action}
    BY <1>3, <1>6
  <2>2. Sound(InOrder(narrowed, kept))
    BY <1>1, <1>2, <1>5, <1>9, <2>1, OrderedPlan
  <2> QED BY <1>7, <2>2
<1> QED BY <1>8, <1>9

LEMMA SoundIsPlain == ASSUME NEW tasks, Sound(tasks) PROVE Plain(tasks)
BY DEF Sound, Narrow, Plain

LEMMA ReorderIsPlain ==
    ASSUME NEW tasks, Plain(tasks)
    PROVE  Plain(Reorder(tasks))
<1> DEFINE N == Len(tasks)
           first == {i \in DOMAIN tasks : tasks[i].action = "notify_passengers"}
           rest == DOMAIN tasks \ first
           a == InOrder(tasks, first)
           b == InOrder(tasks, rest)
<1>1. N \in Nat /\ DOMAIN tasks = 1 .. N /\ \A i \in 1 .. N : tasks[i] \in Task
  BY LenProperties, ElementOfSeq DEF Plain
<1>2. /\ first \in SUBSET (1 .. N) /\ rest \in SUBSET (1 .. N) /\ first \cup rest = 1 .. N
      /\ \A i \in first : tasks[i].action = "notify_passengers"
      /\ \A i \in rest : tasks[i].action # "notify_passengers"
  BY <1>1
<1>3. Reorder(tasks) = a \o b
  BY DEF Reorder
<1> HIDE DEF first, rest, N
<1>4. /\ a \in Seq(Task)
      /\ \A n \in DOMAIN a : Nth(first, n) \in first /\ a[n] = tasks[Nth(first, n)]
      /\ \A n, k \in DOMAIN a : Nth(first, n) = Nth(first, k) => n = k
      /\ a = <<>> <=> first = {}
  BY <1>1, <1>2, InOrderIs
<1>5. /\ b \in Seq(Task)
      /\ \A n \in DOMAIN b : Nth(rest, n) \in rest /\ b[n] = tasks[Nth(rest, n)]
      /\ \A n, k \in DOMAIN b : Nth(rest, n) = Nth(rest, k) => n = k
      /\ b = <<>> <=> rest = {}
  BY <1>1, <1>2, InOrderIs
<1> HIDE DEF a, b
<1>6. /\ a \o b \in Seq(Task) /\ Len(a \o b) = Len(a) + Len(b)
      /\ \A i \in 1 .. Len(a) + Len(b) : (a \o b)[i] =
                     IF i <= Len(a) THEN a[i] ELSE b[i - Len(a)]
  BY <1>4, <1>5, ConcatProperties
<1>7. /\ Len(a) \in Nat /\ DOMAIN a = 1 .. Len(a) /\ Len(b) \in Nat /\ DOMAIN b = 1 .. Len(b)
      /\ DOMAIN (a \o b) = 1 .. Len(a) + Len(b)
  BY <1>4, <1>5, <1>6, LenProperties
<1>8. \A i \in DOMAIN (a \o b) :
         \/ i \in DOMAIN a /\ (a \o b)[i] = a[i]
         \/ /\ i \notin DOMAIN a /\ i - Len(a) \in DOMAIN b
            /\ (a \o b)[i] = b[i - Len(a)]
  BY <1>6, <1>7
<1>9. \A i \in DOMAIN (a \o b) : \E j \in 1 .. N : (a \o b)[i] = tasks[j]
  BY <1>2, <1>4, <1>5, <1>8
<1>10. a \o b # <<>>
  <2>1. 1 .. N # {}
    <3>1. tasks # <<>>
      BY DEF Plain
    <3>2. Len(tasks) # 0
      BY <3>1, EmptySeq DEF Plain
    <3> QED BY <1>1, <3>2 DEF N
  <2>2. a # <<>> \/ b # <<>>
    BY <1>2, <1>4, <1>5, <2>1
  <2>3. Len(a) # 0 \/ Len(b) # 0
    BY <1>4, <1>5, <2>2, EmptySeq
  <2>4. Len(a \o b) # 0
    BY <1>6, <1>7, <2>3
  <2>5. Len(<<>>) = 0
    BY EmptySeq
  <2> QED BY <2>4, <2>5
<1>11. \A i, j \in 1 .. N : tasks[i].action = tasks[j].action => i = j
  BY <1>1 DEF Plain
<1>12. ASSUME NEW i \in DOMAIN (a \o b), NEW j \in DOMAIN (a \o b),
              (a \o b)[i].action = (a \o b)[j].action
       PROVE  i = j
  <2>1. CASE i \in DOMAIN a /\ j \in DOMAIN a
    BY <1>2, <1>4, <1>8, <1>11, <1>12, <2>1
  <2>2. CASE i \notin DOMAIN a /\ j \notin DOMAIN a
    <3>1. i - Len(a) = j - Len(a)
      BY <1>2, <1>5, <1>8, <1>11, <1>12, <2>2
    <3>2. i \in Int /\ j \in Int
      BY <1>7
    <3> QED BY <1>7, <3>1, <3>2
  <2>3. CASE i \in DOMAIN a /\ j \notin DOMAIN a
    BY <1>2, <1>4, <1>5, <1>8, <1>12, <2>3
  <2>4. CASE i \notin DOMAIN a /\ j \in DOMAIN a
    BY <1>2, <1>4, <1>5, <1>8, <1>12, <2>4
  <2> QED BY <2>1, <2>2, <2>3, <2>4
<1>13. \A i \in DOMAIN (a \o b) : /\ (a \o b)[i].action \in Available
                                 /\ (a \o b)[i].targets \subseteq Target
  BY <1>1, <1>9 DEF Plain
<1> QED BY <1>3, <1>6, <1>10, <1>12, <1>13 DEF Plain

LEMMA VariantIsSound ==
    ASSUME NEW base, NEW variant, Sound(base.tasks)
    PROVE  Sound(VariantRow(base, variant).tasks)
<1> DEFINE ordered == IF variant = "notify-first" THEN Reorder(base.tasks) ELSE base.tasks
           tasks == [i \in DOMAIN ordered |-> [ordered[i] EXCEPT !.depends = {}]]
<1>1. Plain(ordered)
  BY SoundIsPlain, ReorderIsPlain
<1>2. VariantRow(base, variant).tasks = tasks
  <2> DEFINE row == Row(base.generator, variant, tasks)
  <2>1. /\ DOMAIN row = {"generator", "variant", "tasks", "hashed", "selection"}
        /\ row.tasks = tasks
    BY NewRow
  <2>2. VariantRow(base, variant) = [row EXCEPT !.hashed = TRUE]
    BY DEF VariantRow
  <2> HIDE DEF row, tasks
  <2> QED BY <2>1, <2>2
<1> HIDE DEF ordered
<1>3. /\ Len(ordered) \in Nat /\ DOMAIN ordered = 1 .. Len(ordered)
      /\ \A i \in DOMAIN ordered : ordered[i] \in Task
  BY <1>1, LenProperties, ElementOfSeq DEF Plain
<1>4. /\ DOMAIN tasks = DOMAIN ordered
      /\ \A i \in DOMAIN ordered : tasks[i] = [ordered[i] EXCEPT !.depends = {}]
  OBVIOUS
<1>5. \A i \in DOMAIN ordered : /\ tasks[i] \in Task /\ tasks[i].action = ordered[i].action
                                /\ tasks[i].targets = ordered[i].targets
                                /\ tasks[i].depends = {}
  BY <1>3, <1>4 DEF Task
<1> HIDE DEF tasks
<1>6. tasks \in Seq(Task)
  <2>1. [i \in 1 .. Len(ordered) |-> tasks[i]] \in Seq(Task)
    BY <1>3, <1>5, IsASeq
  <2>2. tasks = [i \in 1 .. Len(ordered) |-> tasks[i]]
    BY <1>3 DEF tasks
  <2> QED BY <2>1, <2>2
<1>7. tasks # <<>>
  <2>1. ordered # <<>>
    BY <1>1 DEF Plain
  <2>2. Len(ordered) # 0
    BY <1>1, <2>1, EmptySeq DEF Plain
  <2>3. 1 \in DOMAIN tasks
    BY <1>3, <1>4, <2>2
  <2> QED BY <2>3
<1>8. Narrow(tasks)
  BY <1>1, <1>4, <1>5, <1>7 DEF Narrow, Plain
<1> QED BY <1>2, <1>6, <1>8 DEF Sound

\* A step of one request that leaves the committed rows as they are.
LEMMA SessionStep ==
    ASSUME ChoiceInv, SoundInv, plans' = plans, call' = call, NEW r \in Request, NEW to,
           request' = [request EXCEPT ![r] = to],
           Active(r)' => SessionSound(r)'
    PROVE  SoundInv'
<1>1. \A q \in Request \ {r} : request'[q] = request[q]
  BY DEF ChoiceInv
<1>2. ASSUME NEW q \in Request, Active(q)'
      PROVE  SessionSound(q)'
  <2>1. CASE q = r
    BY <1>2, <2>1
  <2>2. CASE q # r
    BY <1>1, <1>2, <2>2 DEF SoundInv, SessionSound, Active, GoodRows
  <2> QED BY <2>1, <2>2
<1>3. (\A m \in Member : GoodRows(plans'[m])) /\ call'.answer \in Seq(Task)
  BY DEF SoundInv
<1> QED BY <1>2, <1>3 DEF SoundInv, GoodRows

LEMMA AnswerKeepsSound ==
    ASSUME ChoiceInv, SoundInv, plans' = plans, call' = call, NEW r \in Request, NEW answer,
           Answers(r, answer)
    PROVE  SoundInv'
<1>1. request' = [request EXCEPT ![r] = [at |-> "done", answer |-> answer]]
  BY DEF Answers
<1>2. request'[r].at = "done"
  BY <1>1 DEF ChoiceInv
<1>3. ~Active(r)'
  BY <1>2 DEF Active
<1> QED BY <1>1, <1>3, SessionStep

LEMMA OpenKeepsSound ==
    ASSUME ChoiceInv, SoundInv, plans' = plans, call' = call, NEW r \in Request,
           NEW m \in Member, NEW target, plans[m] # <<>>, Opens(r, m, target, plans[m])
    PROVE  SoundInv'
<1> DEFINE to == [at |-> "read", member |-> m, target |-> target, seen |-> plans[m],
                  todo |-> Untouched, wrote |-> Untouched, added |-> <<>>]
<1>1. request' = [request EXCEPT ![r] = to] /\ request'[r] = to
  BY DEF Opens, ChoiceInv
<1>2. to.seen = plans[m] /\ to.added = <<>>
  OBVIOUS
<1> HIDE DEF to
<1>3. 1 \in DOMAIN plans[m] /\ GoodRows(plans[m])
  <2>1. PICK S : plans[m] \in Seq(S)
    BY DEF ChoiceInv, AreRows
  <2>2. Len(plans[m]) \in Nat \ {0} /\ DOMAIN plans[m] = 1 .. Len(plans[m])
    BY <2>1, EmptySeq, LenProperties
  <2> QED BY <2>2 DEF SoundInv
<1>4. GoodRows(<<>>)
  BY DEF GoodRows
<1>5. SessionSound(r)'
  BY <1>1, <1>2, <1>3, <1>4 DEF SessionSound, GoodRows
<1> QED BY <1>1, <1>5, SessionStep

\* A session that goes on with what it read, and inserts what it was to insert.
LEMMA GoesOnSound ==
    ASSUME ChoiceInv, SoundInv, plans' = plans, call' = call, NEW r \in Request, Active(r),
           NEW to, request' = [request EXCEPT ![r] = to],
           to.seen = request[r].seen, to.added = request[r].added
    PROVE  SoundInv'
<1>1. request'[r] = to
  BY DEF ChoiceInv
<1>2. SessionSound(r)'
  BY <1>1 DEF SoundInv, SessionSound, GoodRows
<1> QED BY <1>2, SessionStep

LEMMA VariantsAreSound ==
    ASSUME NEW base, NEW declared, NEW N \in Nat, DOMAIN declared = 1 .. N, NEW made,
           DOMAIN made = DOMAIN declared,
           \A i \in DOMAIN declared : made[i] = VariantRow(base, declared[i]),
           NEW S \in SUBSET (DOMAIN declared), Sound(base.tasks)
    PROVE  GoodRows(InOrder(made, S))
<1>1. DOMAIN made = 1 .. N /\ S \in SUBSET (1 .. N)
  OBVIOUS
<1>2. \A n \in DOMAIN InOrder(made, S) : Nth(S, n) \in S /\ InOrder(made, S)[n] = made[Nth(S, n)]
  BY <1>1, InOrderIs
<1>3. \A n \in DOMAIN InOrder(made, S) :
         InOrder(made, S)[n] = VariantRow(base, declared[Nth(S, n)])
  BY <1>2
<1> QED BY <1>3, VariantIsSound DEF GoodRows

LEMMA MakeVariantsKeepsSound ==
    ASSUME ChoiceInv, SoundInv, NEW r \in Request, MakeVariants(r)
    PROVE  SoundInv'
<1> DEFINE base == Base(request[r].seen)
           known == {request[r].seen[i].variant : i \in DOMAIN request[r].seen}
                       \cup (IF base.variant = "none" THEN {"baseline"} ELSE {})
           declared == Declared(base.tasks)
           made == [i \in DOMAIN declared |-> VariantRow(base, declared[i])]
           stamps == IF base.variant = "none" \/ ~base.hashed THEN {1} ELSE {}
           todo == [i \in stamps |-> [variant |-> "baseline", hashed |-> TRUE]]
           unknown == {i \in DOMAIN made : declared[i] \notin known}
           added == InOrder(made, unknown)
           to == [request[r] EXCEPT !.at = "writing", !.todo = todo, !.added = added]
<1>1. /\ request[r].at = "read" /\ plans' = plans /\ call' = call
      /\ request' = [request EXCEPT ![r] = to]
  BY DEF MakeVariants
<1>2. SessionOK(r) /\ SessionSound(r)
  BY <1>1 DEF ChoiceInv, SoundInv, Active
<1>3. Sound(base.tasks)
  BY <1>2 DEF SessionSound, GoodRows, Base
<1>4. GoodRows(added)
  <2>0. PICK N \in Nat : DOMAIN declared = 1 .. N
    BY DeclaredVariants
  <2>1. /\ DOMAIN made = DOMAIN declared
        /\ \A i \in DOMAIN declared : made[i] = VariantRow(base, declared[i])
    OBVIOUS
  <2>2. unknown \in SUBSET (DOMAIN declared)
    BY <2>1
  <2> HIDE DEF declared, known, base, made, unknown
  <2> QED BY <1>3, <2>0, <2>1, <2>2, VariantsAreSound
<1> HIDE DEF todo, added
<1>5. to.seen = request[r].seen /\ to.added = added
  BY <1>2 DEF SessionOK
<1>6. request'[r] = to
  BY <1>1 DEF ChoiceInv
<1> HIDE DEF to
<1>7. SessionSound(r)'
  BY <1>2, <1>4, <1>5, <1>6 DEF SessionSound, GoodRows
<1> QED BY <1>1, <1>7, SessionStep

LEMMA CommitKeepsSound ==
    ASSUME ChoiceInv, SoundInv, NEW r \in Request, CommitRequest(r)
    PROVE  SoundInv'
<1> DEFINE m == request[r].member
           left == [i \in DOMAIN plans[m] |-> Changed(plans[m][i], Wrote(r, i))]
           now == left \o request[r].added
<1>1. /\ request[r].at = "writing" /\ plans' = [plans EXCEPT ![m] = now] /\ call' = call
      /\ Answers(r, "ok")
  BY DEF CommitRequest
<1>2. SessionOK(r) /\ SessionSound(r) /\ m \in Member
  BY <1>1 DEF ChoiceInv, SoundInv, Active, SessionOK
<1>3. AreRows(plans[m]) /\ GoodRows(plans[m])
  BY <1>2 DEF ChoiceInv, SoundInv
<1>4. \A i \in DOMAIN left : Sound(left[i].tasks)
  <2>1. \A i \in DOMAIN plans[m] : Changed(plans[m][i], Wrote(r, i)).tasks = plans[m][i].tasks
    <3> SUFFICES ASSUME NEW i \in DOMAIN plans[m]
                 PROVE  Changed(plans[m][i], Wrote(r, i)).tasks = plans[m][i].tasks
      OBVIOUS
    <3>1. "tasks" \notin DOMAIN Wrote(r, i) /\ "tasks" \in DOMAIN plans[m][i]
      BY <1>2, <1>3, WroteIsGood DEF GoodChange, AreRows
    <3> QED BY <3>1 DEF Changed
  <2> QED BY <1>3, <2>1 DEF GoodRows
<1>5. GoodRows(now)
  <2>1. (\E S : left \in Seq(S)) /\ (\E S : request[r].added \in Seq(S))
    <3>1. PICK N \in Nat : DOMAIN plans[m] = 1 .. N
      BY <1>3, LenProperties DEF AreRows
    <3> DEFINE T == {left[i] : i \in 1 .. N}
    <3>2. \A i \in 1 .. N : left[i] \in T
      OBVIOUS
    <3>3. left = [i \in 1 .. N |-> left[i]]
      BY <3>1
    <3> HIDE DEF T, left
    <3>4. [i \in 1 .. N |-> left[i]] \in Seq(T)
      BY <3>2, IsASeq
    <3>5. \E S : request[r].added \in Seq(S)
      BY <1>2 DEF SessionOK, AreRows
    <3> QED BY <3>3, <3>4, <3>5
  <2> HIDE DEF left
  <2>2. \A i \in DOMAIN (left \o request[r].added) :
           \/ i \in DOMAIN left /\ (left \o request[r].added)[i] = left[i]
           \/ /\ i \notin DOMAIN left
              /\ \E j \in DOMAIN request[r].added :
                    (left \o request[r].added)[i] = request[r].added[j]
    BY <2>1, Joined
  <2>3. \A j \in DOMAIN request[r].added : Sound(request[r].added[j].tasks)
    BY <1>2 DEF SessionSound, GoodRows
  <2> QED BY <1>4, <2>2, <2>3 DEF GoodRows
<1> HIDE DEF now, left
<1>6. \A n \in Member : GoodRows(plans'[n])
  BY <1>1, <1>5 DEF ChoiceInv, SoundInv
<1>7. request' = [request EXCEPT ![r] = [at |-> "done", answer |-> "ok"]]
  BY <1>1 DEF Answers
<1>8. request'[r].at = "done" /\ \A q \in Request \ {r} : request'[q] = request[q]
  BY <1>7 DEF ChoiceInv
<1>9. ASSUME NEW q \in Request, Active(q)'
      PROVE  SessionSound(q)'
  <2>1. q # r /\ request'[q] = request[q]
    BY <1>8, <1>9 DEF Active
  <2> QED BY <1>9, <2>1 DEF SoundInv, SessionSound, Active, GoodRows
<1> QED BY <1>1, <1>6, <1>9 DEF SoundInv, GoodRows

LEMMA ServeKeepsSound ==
    ASSUME ChoiceInv, SoundInv, NEW r \in Request, Serve(r)
    PROVE  SoundInv'
<1>1. ASSUME NEW m \in Contested, ReadPlans(r, m)
      PROVE  SoundInv'
  BY <1>1, MemberIsNat, OpenKeepsSound DEF ReadPlans
<1>2. ASSUME NEW m \in Contested, NEW p \in 1 .. MaxPlans, ReadChoice(r, m, p)
      PROVE  SoundInv'
  <2>1. plans' = plans /\ call' = call /\ m \in Member /\ p \in DOMAIN plans[m]
    BY <1>2, MemberIsNat DEF ReadChoice
  <2>2. Opens(r, m, p, plans[m]) \/ Answers(r, "ok") \/ Answers(r, "conflict")
    BY <1>2 DEF ReadChoice
  <2>3. plans[m] # <<>>
    BY <2>1
  <2> QED BY <2>1, <2>2, <2>3, OpenKeepsSound, AnswerKeepsSound
<1>3. ASSUME Identify(r)
      PROVE  SoundInv'
  <2> DEFINE stamps == IF request[r].seen[request[r].target].hashed THEN {}
                       ELSE {request[r].target}
             todo == [i \in stamps |-> [hashed |-> TRUE]]
             to == [request[r] EXCEPT !.at = "identified", !.todo = todo]
  <2>1. /\ Active(r) /\ plans' = plans /\ call' = call
        /\ request' = [request EXCEPT ![r] = to]
    BY <1>3 DEF Identify, Active
  <2>2. SessionOK(r)
    BY <2>1 DEF ChoiceInv
  <2> HIDE DEF todo
  <2>3. to.seen = request[r].seen /\ to.added = request[r].added
    BY <2>2 DEF SessionOK
  <2> HIDE DEF to
  <2> QED BY <2>1, <2>3, GoesOnSound
<1>4. ASSUME Choose(r)
      PROVE  SoundInv'
  <2> DEFINE rows == Reread(r)
             target == request[r].target
             others == {i \in DOMAIN rows \ {target} : rows[i].selection = "candidate"}
             todo == [i \in {target} \cup others |->
                         [selection |-> IF i = target THEN "selected" ELSE "discarded"]]
             to == [request[r] EXCEPT !.at = "writing", !.todo = todo]
  <2>1. /\ Active(r) /\ plans' = plans /\ call' = call
        /\ request' = [request EXCEPT ![r] = to]
    BY <1>4 DEF Choose, Active
  <2>2. SessionOK(r)
    BY <2>1 DEF ChoiceInv
  <2> HIDE DEF todo
  <2>3. to.seen = request[r].seen /\ to.added = request[r].added
    BY <2>2 DEF SessionOK
  <2> HIDE DEF to
  <2> QED BY <2>1, <2>3, GoesOnSound
<1>5. ASSUME UpdateRow(r)
      PROVE  SoundInv'
  <2> DEFINE to == Flushed(r, Due(r))
  <2>1. /\ Active(r) /\ plans' = plans /\ call' = call
        /\ Answers(r, "conflict") \/ request' = [request EXCEPT ![r] = to]
    BY <1>5 DEF UpdateRow, Updating, Open, Active
  <2>2. SessionOK(r)
    BY <2>1 DEF ChoiceInv
  <2>3. to.seen = request[r].seen /\ to.added = request[r].added
    BY <2>2 DEF SessionOK, Flushed
  <2> HIDE DEF to
  <2> QED BY <2>1, <2>3, GoesOnSound, AnswerKeepsSound
<1>6. ASSUME EndDeadlock(r)
      PROVE  SoundInv'
  BY <1>6, AnswerKeepsSound DEF EndDeadlock
<1> QED
  BY <1>1, <1>2, <1>3, <1>4, <1>5, <1>6, MakeVariantsKeepsSound, CommitKeepsSound DEF Serve

\* A call holds an answer only of a reply that has the shape asked for.
LEMMA AnswerKept ==
    ASSUME NEW c, IsCall(c)
    PROVE  /\ \A phase : Failed(c, phase).answer = c.answer
           /\ \A key, prompt : Preflight(c, key, prompt).answer = c.answer
           /\ Ask(c).answer = c.answer
           /\ \A phase : WaitOrGiveUp(c, phase).answer = c.answer
<1>1. DOMAIN c = {"at", "budget", "spent", "attempt", "phase", "answer"}
  BY DEF IsCall, CallWith
<1>2. \A phase : Failed(c, phase).answer = c.answer
  BY <1>1 DEF Failed
<1>3. \A key, prompt : Preflight(c, key, prompt).answer = c.answer
  <2>1. \A key, prompt : Preflight(c, key, prompt) = c \/ \E phase : Preflight(c, key, prompt) = Failed(c, phase)
    BY DEF Preflight
  <2> QED BY <1>2, <2>1
<1>4. Ask(c).answer = c.answer
  <2>1. [c EXCEPT !.at = "asked", !.attempt = @ + 1].answer = c.answer
    BY <1>1
  <2> QED BY <1>2, <2>1 DEF Ask
<1>5. ASSUME NEW phase
      PROVE  WaitOrGiveUp(c, phase).answer = c.answer
  <2> DEFINE delay == RetryDelay * c.attempt
             later == [c EXCEPT !.at = "ready", !.spent = @ + delay]
  <2>1. later.answer = c.answer
    BY <1>1
  <2>2. \/ WaitOrGiveUp(c, phase) = later
        \/ \E p : WaitOrGiveUp(c, phase) = Failed(c, p)
    <3> HIDE DEF later
    <3> QED BY DEF WaitOrGiveUp, later
  <2> QED BY <1>2, <2>1, <2>2
<1> QED BY <1>2, <1>3, <1>4, <1>5

LEMMA AnsweredIsPlan ==
    ASSUME NEW c, IsCall(c), c.answer \in Seq(Task), NEW reply \in Reply, NEW took \in Nat
    PROVE  Answered(c, reply, took).answer \in Seq(Task)
<1> DEFINE now == [c EXCEPT !.spent = @ + took]
           ended == [now EXCEPT !.at = "over", !.phase = "none", !.answer = reply.tasks]
<1>1. /\ DOMAIN c = {"at", "budget", "spent", "attempt", "phase", "answer"}
      /\ IsCall(now) /\ now.answer = c.answer
      /\ DOMAIN now = {"at", "budget", "spent", "attempt", "phase", "answer"}
  BY DEF IsCall, CallWith
<1>2. PhaseOf(reply) = "none" => reply.tasks \in Seq(Task)
  BY PlansAssumption
<1>3. CASE PhaseOf(reply) = "none"
  <2>0. ~IsFinal(reply)
    BY <1>3 DEF IsFinal
  <2>1. Answered(c, reply, took) = ended
    BY <1>3, <2>0 DEF Answered
  <2> HIDE DEF now
  <2>2. ended.answer = reply.tasks
    BY <1>1
  <2> QED BY <1>2, <1>3, <2>1, <2>2
<1>4. CASE PhaseOf(reply) # "none"
  <2>1. \/ Answered(c, reply, took) = Failed(now, PhaseOf(reply))
        \/ Answered(c, reply, took) = WaitOrGiveUp(now, PhaseOf(reply))
    BY <1>4 DEF Answered
  <2> HIDE DEF now
  <2> QED BY <1>1, <2>1, AnswerKept
<1> QED BY <1>3, <1>4

\* A step that only the call takes part in.
LEMMA CallKeepsSound ==
    ASSUME SoundInv, UNCHANGED <<plans, request>>, call'.answer \in Seq(Task)
    PROVE  SoundInv'
BY DEF SoundInv, SessionSound, Active, GoodRows

LEMMA NoCallAnswer == NoCall.answer = <<>> /\ <<>> \in Seq(Task)
BY EmptySeq DEF NoCall, Failed, Opened

LEMMA PlannedKeepsSound ==
    ASSUME ChoiceInv, SoundInv, NEW m, NEW added, \E S : added \in Seq(S), GoodRows(added),
           Planned(m, added)
    PROVE  SoundInv'
<1> DEFINE now == <<PlaybookRow>> \o added
<1>1. plans' = [plans EXCEPT ![m] = now] /\ request' = request /\ call' = NoCall
  BY DEF Planned
<1>2. Sound(PlaybookRow.tasks)
  BY NewRow, PlansAssumption DEF PlaybookRow, Sound
<1>3. GoodRows(now)
  <2>1. <<PlaybookRow>> \in Seq({PlaybookRow}) /\ \A i \in DOMAIN <<PlaybookRow>> : <<PlaybookRow>>[i] = PlaybookRow
    OBVIOUS
  <2>2. \A i \in DOMAIN now :
           \/ i \in DOMAIN <<PlaybookRow>> /\ now[i] = <<PlaybookRow>>[i]
           \/ i \notin DOMAIN <<PlaybookRow>> /\ \E j \in DOMAIN added : now[i] = added[j]
    BY <2>1, Joined
  <2> HIDE DEF now
  <2> QED BY <1>2, <2>1, <2>2 DEF GoodRows
<1> HIDE DEF now
<1>4. \A n \in Member : GoodRows(plans'[n])
  BY <1>1, <1>3 DEF ChoiceInv, SoundInv
<1>5. call'.answer \in Seq(Task)
  BY <1>1, NoCallAnswer
<1> QED BY <1>1, <1>4, <1>5 DEF SoundInv, SessionSound, Active, GoodRows

LEMMA UnavailableKeepsSound ==
    ASSUME ChoiceInv, SoundInv, NEW m, Unavailable(m)
    PROVE  SoundInv'
<1>1. GoodRows(<<>>) /\ <<>> \in Seq(Task)
  BY NoCallAnswer DEF GoodRows
<1> QED BY <1>1, PlannedKeepsSound DEF Unavailable

LEMMA ProposedKeepsSound ==
    ASSUME ChoiceInv, SoundInv, NEW m, NEW tasks \in Seq(Task), Propose(m, tasks)
    PROVE  SoundInv'
<1> DEFINE kept == Reflect(tasks, Available, Target)
           added == IF Rejected(kept) THEN <<>> ELSE <<PlannerRow(kept)>>
<1>1. Planned(m, added) /\ (Rejected(kept) \/ Sound(kept))
  BY ReflectIsSound DEF Propose
<1> HIDE DEF kept
<1>2. CASE Rejected(kept)
  <2>1. GoodRows(<<>>) /\ <<>> \in Seq(Task)
    BY NoCallAnswer DEF GoodRows
  <2> QED BY <1>1, <1>2, <2>1, PlannedKeepsSound
<1>3. CASE Sound(kept)
  <2>1. /\ <<PlannerRow(kept)>> \in Seq({PlannerRow(kept)})
        /\ \A i \in DOMAIN <<PlannerRow(kept)>> : <<PlannerRow(kept)>>[i] = PlannerRow(kept)
    OBVIOUS
  <2>2. PlannerRow(kept).tasks = kept
    BY NewRow DEF PlannerRow
  <2>3. GoodRows(<<PlannerRow(kept)>>)
    BY <1>3, <2>1, <2>2 DEF GoodRows
  <2>4. GoodRows(<<>>) /\ <<>> \in Seq(Task)
    BY NoCallAnswer DEF GoodRows
  <2> QED BY <1>1, <2>1, <2>3, <2>4, PlannedKeepsSound
<1> QED BY <1>1, <1>2, <1>3

LEMMA SoundStep == ASSUME WaitInv, ChoiceInv, SoundInv, [Next]_vars PROVE SoundInv'
<1>0. IsCall(call) /\ call.answer \in Seq(Task)
  BY DEF WaitInv, CallInv, SoundInv
<1>1. CASE \E r \in Request : Serve(r)
  BY <1>1, ServeKeepsSound
<1>2. CASE PlanUnaided
  BY <1>2, UnavailableKeepsSound DEF PlanUnaided, Unavailable
<1>3. CASE PlanUnfunded
  BY <1>3, UnavailableKeepsSound DEF PlanUnfunded
<1>4. CASE PlanReplayed
  BY <1>4, UnavailableKeepsSound, ProposedKeepsSound, PlansAssumption DEF PlanReplayed
<1>5. CASE Conclude
  BY <1>0, <1>5, UnavailableKeepsSound, ProposedKeepsSound DEF Conclude
<1>6. CASE OpenCall
  <2>1. PICK key \in BOOLEAN, prompt \in Prompt :
           call' = Preflight(Opened(Allowance(run.member)), key, prompt)
    BY <1>6 DEF OpenCall
  <2>2. Allowance(run.member) \in Nat
    <3>1. Pool \in Nat /\ PrimaryBudget \in Nat /\ OrdinaryBudget \in Nat
      BY RunTypes, Numbers
    <3>2. mode = "live"
      BY <1>6 DEF OpenCall
    <3> QED
      BY <3>1, <3>2 DEF Allowance, Smaller
  <2>3. IsCall(Opened(Allowance(run.member))) /\ Opened(Allowance(run.member)).answer = <<>>
    BY <2>2, NewCall DEF Opened
  <2> DEFINE c == Opened(Allowance(run.member))
  <2>4. call'.answer = c.answer
    <3> HIDE DEF c
    <3>1. call' = Preflight(c, key, prompt) /\ IsCall(c)
      BY <2>1, <2>3 DEF c
    <3> QED BY <3>1, AnswerKept
  <2>5. call'.answer \in Seq(Task)
    BY <2>3, <2>4, NoCallAnswer
  <2> QED BY <1>6, <2>5, CallKeepsSound DEF OpenCall
<1>7. CASE AskProvider
  <2>1. call'.answer \in Seq(Task)
    BY <1>0, <1>7, AnswerKept DEF AskProvider
  <2> QED BY <1>7, <2>1, CallKeepsSound DEF AskProvider
<1>8. CASE HearProvider
  <2>1. PICK reply \in Reply, took \in {1, AttemptLimit(call) + 1} :
           call' = Answered(call, reply, took)
    BY <1>8 DEF HearProvider
  <2>2. AttemptLimit(call) + 1 \in Nat
    <3>1. /\ call.budget \in Nat /\ call.spent \in Nat /\ call.at = "asked"
          /\ call.spent + MinAttempt <= call.budget
      BY <1>8 DEF HearProvider, WaitInv, CallInv, IsCall, CallWith
    <3>2. MinAttempt \in Nat /\ RequestTimeout \in Nat
      BY Numbers
    <3> QED BY <3>1, <3>2 DEF AttemptLimit, Left, Smaller
  <2>3. call'.answer \in Seq(Task)
    BY <1>0, <2>1, <2>2, AnsweredIsPlan
  <2> QED BY <1>8, <2>3, CallKeepsSound DEF HearProvider
<1>9. CASE StopWaiting \/ CallFaults
  <2>1. /\ \A p : Failed(call, p).answer = call.answer
        /\ \A p : DOMAIN Failed(call, p) = DOMAIN call
        /\ DOMAIN call = {"at", "budget", "spent", "attempt", "phase", "answer"}
    BY <1>0, AnswerKept DEF Failed, IsCall, CallWith
  <2>2. \E p, t : call' = [Failed(call, p) EXCEPT !.spent = t]
    BY <1>9 DEF StopWaiting, CallFaults
  <2>3. call'.answer \in Seq(Task)
    BY <1>0, <2>1, <2>2
  <2> QED BY <1>9, <2>3, CallKeepsSound DEF StopWaiting, CallFaults
<1>10. CASE StartRun \/ LoseRun \/ UNCHANGED vars
  <2>1. UNCHANGED <<plans, request>> /\ call' \in {call, NoCall}
    BY <1>10 DEF StartRun, LoseRun, vars
  <2>2. call'.answer \in Seq(Task)
    BY <1>0, <2>1, NoCallAnswer
  <2> QED BY <2>1, <2>2, CallKeepsSound
<1> QED
  BY <1>1, <1>2, <1>3, <1>4, <1>5, <1>6, <1>7, <1>8, <1>9, <1>10 DEF Next, Advance

LEMMA SoundInit == ASSUME Init PROVE SoundInv
<1>1. /\ plans = [m \in Member |-> <<>>] /\ request = [r \in Request |-> [at |-> "new"]]
      /\ call = NoCall
  BY DEF Init
<1>2. \A m \in Member : GoodRows(plans[m])
  BY <1>1 DEF GoodRows
<1>3. \A r \in Request : ~Active(r)
  BY <1>1 DEF Active
<1> QED BY <1>1, <1>2, <1>3, NoCallAnswer DEF SoundInv

\* Whatever a model proposed, and whoever reads the plans, adds variants to them or
\* chooses among them meanwhile, one plan of an incident is chosen at most, and of each the
\* actions are distinct and have a service, the targets are the orchestrator's, and a task
\* waits for others of the plan only (reflection.reflect); tasks may wait for each other.
THEOREM SoundPlans == Spec => []PlansAreSound
<1>1. SoundInv => PlansAreNarrow
  BY DEF SoundInv, PlansAreNarrow, GoodRows, Sound
<1> QED
  BY <1>1, OneChosen, WaitInit, WaitStep, ChoiceInit, ChoiceStep, SoundInit, SoundStep, PTL
     DEF Spec, PlansAreSound
=============================================================================
