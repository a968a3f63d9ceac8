--------------------------- MODULE EventBusProofs ---------------------------
(***************************************************************************)
(* The bus drops no entry, hands each out a bounded number of times and    *)
(* explains every further success of its handlers, for any number of       *)
(* workers, entries, faults and restarts of Redis.                         *)
(***************************************************************************)
EXTENDS EventBus, FiniteSetTheorems, TLAPS

\* Everything a worker holds was appended before, and nothing it may acknowledge next
\* is unaccounted for: the handlers' success is marked, the burial is on record, or a
\* restart of Redis has taken the entry from the stream.
HeldInv ==
    /\ pending \subseteq 1..last
    /\ \A w \in Worker :
          /\ exhausted[w] \subseteq 1..last
          /\ retryable[w] \subseteq 1..last
          /\ batch[w] \subseteq 1..last
          /\ cur[w] \in 0..last

AckInv ==
    \A w \in Worker :
        /\ pc[w] = "ack" => \/ cur[w] \in seen \cup Unhandled
                            \/ cur[w] <= base
        /\ pc[w] = "buryAck" => cur[w] \in dead \/ cur[w] <= base
        /\ pc[w] \in {"handle", "mark"} => cur[w] \in Entry

DropInv == TypeOK /\ HeldInv /\ AckInv /\ NothingDropped

-----------------------------------------------------------------------------
(* Frames                                                                  *)

\* The pass that goes on is at the start of some part of its work.
LEMMA OnwardGoes ==
    ASSUME NEW w \in Worker, Onward(w)
    PROVE  \E l \in {"bury", "claim", "entry", "read", "ensure"} :
              pc' = [pc EXCEPT ![w] = l]
BY DEF Onward, Goto

\* The first stale entries are stale.
LEMMA StaleStale == Stale \subseteq idle
BY DEF Stale, FirstOf

-----------------------------------------------------------------------------
(* Types                                                                   *)

LEMMA ExcuseType ==
    ASSUME TypeOK, NEW S, Excuse(S)
    PROVE  excused' \in [Entry -> Nat]
<1>1. \A i \in Entry : excused[i] + (IF i \in S THEN 1 ELSE 0) \in Nat
  BY DEF TypeOK
<1> QED
  BY <1>1 DEF Excuse

LEMMA AbandonType ==
    ASSUME WorkerType, NEW w \in Worker, NEW l \in Label, Abandon(w, l),
           ready' \in [Worker -> BOOLEAN]
    PROVE  WorkerType'
BY DEF WorkerType, Abandon, Goto

\* A worker that is processing has an entry to process.
LEMMA CurEntry ==
    ASSUME WorkerType, AckInv, NEW w \in Worker, pc[w] \in {"handle", "mark"}
    PROVE  cur[w] \in Entry
BY DEF AckInv

\* Every step of a worker keeps every variable in its range.
LEMMA TypeWorker ==
    ASSUME DropInv, NEW w \in Worker, WorkerStep(w)
    PROVE  TypeOK'
<1>0. /\ TypeOK /\ RedisType /\ WorkerType /\ AckInv
      /\ done \in [Entry -> Nat] /\ excused \in [Entry -> Nat]
      /\ faults \in Nat /\ restarts \in Nat
  BY DEF DropInv, TypeOK
<1>1. Onward(w) => pc' \in [Worker -> Label]
  BY <1>0, OnwardGoes DEF Label, WorkerType
<1>2. CASE EnsureGroup(w)
  <2>0. base \in base..last
    BY <1>0, BusAssumption DEF RedisType
  <2>1. RedisType'
    BY <1>0, <1>2, <2>0 DEF EnsureGroup, GroupStart, RedisType
  <2>2. WorkerType'
    BY <1>0, <1>2 DEF EnsureGroup, Goto, Label, WorkerType
  <2> QED
    BY <1>0, <1>2, <2>1, <2>2 DEF EnsureGroup, TypeOK, ghost
<1>3. CASE FindStale(w)
  <2>1. Stale \subseteq Entry
    BY <1>0, StaleStale DEF RedisType
  <2>2. /\ exhausted' \in [Worker -> SUBSET Entry]
        /\ retryable' \in [Worker -> SUBSET Entry]
        /\ reclaiming' \in [Worker -> BOOLEAN]
    BY <1>0, <1>3, <2>1 DEF FindStale, WorkerType
  <2>3. WorkerType'
    BY <1>0, <1>1, <1>3, <2>2 DEF FindStale, WorkerType
  <2> QED
    BY <1>0, <1>3, <2>3 DEF FindStale, TypeOK, RedisType, redis, ghost
<1>4. CASE Bury(w)
  <2>1. PICK i \in exhausted[w] : dead' = dead \cup {i} /\ cur' = [cur EXCEPT ![w] = i]
    BY <1>4 DEF Bury
  <2>2. i \in Entry
    BY <1>0 DEF WorkerType
  <2>3. RedisType' /\ WorkerType'
    BY <1>0, <1>4, <2>1, <2>2 DEF Bury, Goto, Label, RedisType, WorkerType
  <2> QED
    BY <1>0, <1>4, <2>3 DEF Bury, TypeOK, ghost
<1>5. CASE BuryAck(w)
  <2>1. RedisType'
    BY <1>0, <1>5 DEF BuryAck, Acknowledge, RedisType
  <2>2. exhausted' \in [Worker -> SUBSET Entry] /\ cur' \in [Worker -> Entry \cup {0}]
    BY <1>0, <1>5 DEF BuryAck, WorkerType
  <2>3. WorkerType'
    BY <1>0, <1>1, <1>5, <2>2 DEF BuryAck, WorkerType
  <2> QED
    BY <1>0, <1>5, <2>1, <2>3 DEF BuryAck, TypeOK, ghost
<1>6. CASE Claim(w)
  <2>1. \A i \in Entry : attempts[i] + (IF i \in retryable[w] \cap idle THEN 1 ELSE 0) \in Nat
    BY <1>0 DEF RedisType
  <2>2. attempts' \in [Entry -> Nat] /\ idle' \subseteq pending'
    BY <1>0, <1>6, <2>1 DEF Claim, RedisType
  <2>3. RedisType'
    BY <1>0, <1>6, <2>2 DEF Claim, RedisType
  <2>4. /\ batch' \in [Worker -> SUBSET Entry]
        /\ retryable' \in [Worker -> SUBSET Entry]
    BY <1>0, <1>6 DEF Claim, WorkerType
  <2>5. WorkerType'
    BY <1>0, <1>1, <1>6, <2>4 DEF Claim, WorkerType
  <2> QED
    BY <1>0, <1>6, <2>3, <2>5 DEF Claim, TypeOK, ghost
<1>7. CASE Read(w)
  <2>1. PICK upto : /\ upto = IF cursor + Count <= last THEN cursor + Count ELSE last
                    /\ cursor' = upto
                    /\ pending' = pending \cup ((cursor + 1)..upto)
                    /\ attempts' = [i \in Entry |-> IF i \in (cursor + 1)..upto THEN 1
                                                    ELSE attempts[i]]
                    /\ batch' = [batch EXCEPT ![w] = (cursor + 1)..upto]
    BY <1>7 DEF Read
  <2>2. upto \in cursor..last /\ (cursor + 1)..upto \subseteq Entry /\ cursor' \in base..last
    BY <1>0, <2>1, BusAssumption DEF RedisType, Entry
  <2>3. attempts' \in [Entry -> Nat]
    BY <1>0, <2>1 DEF RedisType
  <2>4. RedisType'
    BY <1>0, <1>7, <2>1, <2>2, <2>3 DEF Read, RedisType
  <2>5. batch' \in [Worker -> SUBSET Entry] /\ reclaiming' \in [Worker -> BOOLEAN]
    BY <1>0, <1>7, <2>1, <2>2 DEF Read, WorkerType
  <2>6. WorkerType'
    BY <1>0, <1>1, <1>7, <2>5 DEF Read, WorkerType
  <2> QED
    BY <1>0, <1>7, <2>4, <2>6 DEF Read, TypeOK, ghost
<1>8. CASE NoGroup(w)
  <2>1. WorkerType'
    BY <1>0, <1>8, AbandonType DEF NoGroup, Label, WorkerType
  <2> QED
    BY <1>0, <1>8, <2>1 DEF NoGroup, TypeOK, RedisType, redis, ghost
<1>9. CASE TakeUp(w)
  <2>1. PICK i \in batch[w] :
          /\ batch' = [batch EXCEPT ![w] = @ \ {i}]
          /\ IF i \in Undecodable
             THEN /\ exhausted' = [exhausted EXCEPT ![w] = {i}]
                  /\ Goto(w, "bury")
                  /\ UNCHANGED cur
             ELSE /\ cur' = [cur EXCEPT ![w] = i]
                  /\ Goto(w, IF i \in Unhandled \/ Suppressed(i) THEN "ack" ELSE "handle")
                  /\ UNCHANGED exhausted
    BY <1>9 DEF TakeUp
  <2>2. i \in Entry
    BY <1>0 DEF WorkerType
  <2>3. batch' \in [Worker -> SUBSET Entry] /\ UNCHANGED <<ready, retryable, reclaiming>>
    BY <1>0, <1>9, <2>1 DEF WorkerType, TakeUp
  <2>4. CASE i \in Undecodable
    BY <1>0, <1>9, <2>1, <2>2, <2>3, <2>4
       DEF TakeUp, Goto, Label, WorkerType, TypeOK, RedisType, redis, ghost
  <2>5. CASE i \notin Undecodable
    BY <1>0, <1>9, <2>1, <2>2, <2>3, <2>5
       DEF TakeUp, Goto, Label, WorkerType, TypeOK, RedisType, redis, ghost
  <2> QED
    BY <2>4, <2>5
<1>10. CASE Handle(w)
  <2>1. cur[w] \in Entry
    BY <1>0, <1>10, CurEntry DEF Handle
  <2>2. done' \in [Entry -> Nat]
    BY <1>0, <1>10, <2>1 DEF Handle
  <2>3. WorkerType'
    BY <1>0, <1>10 DEF Handle, Goto, Label, WorkerType
  <2> QED
    BY <1>0, <1>10, <2>2, <2>3 DEF Handle, TypeOK, RedisType, redis
<1>11. CASE HandlerFails(w)
  <2>1. WorkerType'
    BY <1>0, <1>1, <1>11 DEF HandlerFails, WorkerType
  <2> QED
    BY <1>0, <1>11, <2>1 DEF HandlerFails, TypeOK, RedisType, redis, ghost
<1>12. CASE Mark(w)
  <2>1. cur[w] \in Entry
    BY <1>0, <1>12, CurEntry DEF Mark
  <2>2. RedisType' /\ WorkerType'
    BY <1>0, <1>12, <2>1 DEF Mark, Goto, Label, RedisType, WorkerType
  <2> QED
    BY <1>0, <1>12, <2>2 DEF Mark, TypeOK, ghost
<1>13. CASE Ack(w)
  <2>1. WorkerType'
    BY <1>0, <1>1, <1>13 DEF Ack, WorkerType
  <2>2. RedisType'
    BY <1>0, <1>13 DEF Ack, Acknowledge, RedisType
  <2> QED
    BY <1>0, <1>13, <2>1, <2>2 DEF Ack, TypeOK, ghost
<1> QED
  BY <1>2, <1>3, <1>4, <1>5, <1>6, <1>7, <1>8, <1>9, <1>10, <1>11, <1>12, <1>13
     DEF WorkerStep

LEMMA TypeStep == ASSUME DropInv, [Next]_vars PROVE TypeOK'
<1>0. /\ TypeOK /\ RedisType /\ WorkerType
      /\ done \in [Entry -> Nat] /\ excused \in [Entry -> Nat]
      /\ faults \in Nat /\ restarts \in Nat
  BY DEF DropInv, TypeOK
<1>1. CASE Publish
  <2>1. RedisType'
    BY <1>0, <1>1, BusAssumption DEF Publish, RedisType
  <2> QED
    BY <1>0, <1>1, <2>1 DEF Publish, TypeOK, WorkerType, worker, ghost
<1>2. CASE \E w \in Worker : Start(w)
  <2>1. WorkerType'
    BY <1>0, <1>2 DEF Start, Goto, Label, WorkerType
  <2> QED
    BY <1>0, <1>2, <2>1 DEF Start, TypeOK, RedisType, redis, ghost
<1>3. CASE \E w \in Worker : WorkerStep(w)
  BY <1>3, TypeWorker
<1>4. CASE \E w \in Worker : Crash(w) \/ RegistryFails(w)
  <2>1. PICK w \in Worker : Crash(w) \/ RegistryFails(w)
    BY <1>4
  <2>2. /\ Abandon(w, "off") /\ ready' = [ready EXCEPT ![w] = FALSE]
        /\ Excuse(Unmarked(w)) /\ faults' = faults + 1
        /\ UNCHANGED <<redis, done, restarts>>
    BY <2>1 DEF Crash, RegistryFails, Quit, Fault
  <2>3. excused' \in [Entry -> Nat]
    BY <1>0, <2>2, ExcuseType
  <2>4. ready' \in [Worker -> BOOLEAN]
    BY <1>0, <2>2 DEF WorkerType
  <2>5. WorkerType'
    BY <1>0, <2>2, <2>4, AbandonType DEF Label
  <2> QED
    BY <1>0, <2>2, <2>3, <2>5 DEF TypeOK, RedisType, redis
<1>5. CASE \E w \in Worker : CommandFails(w)
  <2>1. WorkerType'
    BY <1>0, <1>5, AbandonType DEF CommandFails, Label, WorkerType
  <2> QED
    BY <1>0, <1>5, <2>1 DEF CommandFails, Fault, TypeOK, RedisType, redis
<1>6. CASE \E i \in Entry : GrowStale(i)
  <2>1. excused' \in [Entry -> Nat]
    BY <1>0, <1>6, ExcuseType DEF GrowStale
  <2> QED
    BY <1>0, <1>6, <2>1 DEF GrowStale, TypeOK, RedisType, WorkerType, worker
<1>7. CASE RestartRedis
  <2>1. excused' \in [Entry -> Nat]
    BY <1>0, <1>7, ExcuseType DEF RestartRedis
  <2>2. last \in 0..MaxEntry /\ last \in last..last /\ last \in last..MaxEntry
    BY <1>0, BusAssumption DEF RedisType
  <2>3. RedisType'
    BY <1>7, <2>2 DEF RestartRedis, RedisType
  <2> QED
    BY <1>0, <1>7, <2>1, <2>3 DEF RestartRedis, Fault, TypeOK, WorkerType, worker
<1>8. CASE UNCHANGED vars
  BY <1>0, <1>8 DEF TypeOK, RedisType, WorkerType, vars, redis, worker, ghost
<1> QED
  BY <1>1, <1>2, <1>3, <1>4, <1>5, <1>6, <1>7, <1>8 DEF Next

-----------------------------------------------------------------------------
(* What is held and what is acknowledged                                   *)

\* A worker acknowledges nothing that is unaccounted for, and holds nothing that was
\* not appended.
LEMMA HeldStep == ASSUME DropInv, [Next]_vars PROVE HeldInv'
<1>0. RedisType /\ WorkerType /\ HeldInv /\ last \in Nat
  BY BusAssumption DEF DropInv, TypeOK, RedisType
<1> USE DEF HeldInv, WorkerType
<1>1. CASE Publish
  <2>1. 1..last \subseteq 1..last' /\ 0..last \subseteq 0..last'
    BY <1>0, <1>1 DEF Publish
  <2> QED
    BY <1>0, <1>1, <2>1 DEF Publish, worker
<1>2. ASSUME NEW w \in Worker, FindStale(w) PROVE HeldInv'
  <2>1. Stale \subseteq 1..last
    BY <1>0, StaleStale DEF RedisType
  <2> QED
    BY <1>0, <1>2, <2>1 DEF FindStale, redis
<1>3. ASSUME NEW w \in Worker, Bury(w) \/ TakeUp(w) PROVE HeldInv'
  <2>1. CASE Bury(w)
    BY <1>0, <2>1 DEF Bury
  <2>2. CASE TakeUp(w)
    BY <1>0, <2>2 DEF TakeUp, redis
  <2> QED
    BY <1>3, <2>1, <2>2
<1>4. ASSUME NEW w \in Worker, BuryAck(w) \/ Ack(w) \/ HandlerFails(w) PROVE HeldInv'
  <2>1. /\ pending' \subseteq pending /\ UNCHANGED <<last, retryable, batch>>
        /\ cur' = [cur EXCEPT ![w] = 0]
        /\ exhausted' = exhausted \/ exhausted' = [exhausted EXCEPT ![w] = @ \ {cur[w]}]
    BY <1>4 DEF BuryAck, Ack, HandlerFails, Acknowledge, redis
  <2>2. \A v \in Worker : exhausted'[v] \subseteq exhausted[v] /\ cur'[v] \in {0, cur[v]}
    BY <1>0, <2>1
  <2> QED
    BY <1>0, <2>1, <2>2
<1>5. ASSUME NEW w \in Worker, Claim(w) PROVE HeldInv'
  BY <1>0, <1>5 DEF Claim
<1>6. ASSUME NEW w \in Worker, Read(w) PROVE HeldInv'
  <2>1. PICK upto : /\ upto = IF cursor + Count <= last THEN cursor + Count ELSE last
                    /\ pending' = pending \cup ((cursor + 1)..upto)
                    /\ batch' = [batch EXCEPT ![w] = (cursor + 1)..upto]
    BY <1>6 DEF Read
  <2>2. (cursor + 1)..upto \subseteq 1..last
    BY <1>0, <2>1, BusAssumption DEF RedisType
  <2> QED
    BY <1>0, <1>6, <2>1, <2>2 DEF Read
<1>7. ASSUME NEW w \in Worker,
             EnsureGroup(w) \/ Handle(w) \/ Mark(w) \/ Start(w)
      PROVE  HeldInv'
  BY <1>0, <1>7 DEF EnsureGroup, Handle, Mark, Start, redis
<1>8. ASSUME NEW w \in Worker, NoGroup(w) \/ Crash(w) \/ CommandFails(w) \/ RegistryFails(w)
      PROVE  HeldInv'
  <2>1. PICK l : Abandon(w, l)
    BY <1>8 DEF NoGroup, Crash, CommandFails, RegistryFails, Quit
  <2>2. UNCHANGED redis
    BY <1>8 DEF NoGroup, Crash, CommandFails, RegistryFails
  <2> QED
    BY <1>0, <2>1, <2>2 DEF Abandon, redis
<1>9. CASE (\E i \in Entry : GrowStale(i)) \/ RestartRedis \/ UNCHANGED vars
  BY <1>0, <1>9 DEF GrowStale, RestartRedis, vars, redis, worker
<1> QED
  BY <1>1, <1>2, <1>3, <1>4, <1>5, <1>6, <1>7, <1>8, <1>9 DEF Next, WorkerStep

LEMMA AckStep == ASSUME DropInv, [Next]_vars PROVE AckInv'
<1>0. RedisType /\ WorkerType /\ HeldInv /\ AckInv /\ last \in Nat /\ base \in Nat
  BY BusAssumption DEF DropInv, TypeOK, RedisType
<1> USE DEF AckInv
<1>1. ASSUME NEW w \in Worker,
             FindStale(w) \/ BuryAck(w) \/ Claim(w) \/ Read(w) \/ HandlerFails(w) \/ Ack(w)
      PROVE  AckInv'
  <2>1. PICK l \in {"bury", "claim", "entry", "read", "ensure"} :
           pc' = [pc EXCEPT ![w] = l]
    BY <1>1, OnwardGoes DEF FindStale, BuryAck, Claim, Read, HandlerFails, Ack
  <2>2. \A v \in Worker \ {w} : cur'[v] = cur[v] /\ pc'[v] = pc[v]
    BY <1>0, <1>1, <2>1
       DEF FindStale, BuryAck, Claim, Read, HandlerFails, Ack, WorkerType
  <2>3. UNCHANGED <<seen, dead, base>>
    BY <1>1 DEF FindStale, BuryAck, Claim, Read, HandlerFails, Ack, redis
  <2>4. pc'[w] = l
    BY <1>0, <2>1 DEF WorkerType
  <2> QED
    BY <1>0, <2>2, <2>3, <2>4
<1>2. ASSUME NEW w \in Worker, NoGroup(w) \/ Crash(w) \/ CommandFails(w) \/ RegistryFails(w)
      PROVE  AckInv'
  <2>1. PICK l \in {"ensure", "off"} : Abandon(w, l)
    BY <1>2 DEF NoGroup, Crash, CommandFails, RegistryFails, Quit
  <2>2. UNCHANGED redis
    BY <1>2 DEF NoGroup, Crash, CommandFails, RegistryFails
  <2> QED
    BY <1>0, <2>1, <2>2 DEF Abandon, Goto, redis, WorkerType
<1>3. ASSUME NEW w \in Worker, EnsureGroup(w) \/ Start(w) PROVE AckInv'
  BY <1>0, <1>3 DEF EnsureGroup, Start, Goto, redis, WorkerType
<1>4. ASSUME NEW w \in Worker, Bury(w) PROVE AckInv'
  BY <1>0, <1>4 DEF Bury, Goto, WorkerType
<1>5. ASSUME NEW w \in Worker, TakeUp(w) PROVE AckInv'
  <2>1. PICK i \in batch[w] :
          IF i \in Undecodable
          THEN Goto(w, "bury") /\ UNCHANGED cur
          ELSE /\ cur' = [cur EXCEPT ![w] = i]
               /\ Goto(w, IF i \in Unhandled \/ Suppressed(i) THEN "ack" ELSE "handle")
    BY <1>5 DEF TakeUp
  <2>2. i \in Entry /\ UNCHANGED redis
    BY <1>0, <1>5 DEF TakeUp, WorkerType
  <2>3. CASE i \in Undecodable
    BY <1>0, <2>1, <2>2, <2>3 DEF Goto, redis, WorkerType
  <2>4. CASE i \notin Undecodable
    BY <1>0, <2>1, <2>2, <2>4 DEF Goto, Suppressed, redis, WorkerType
  <2> QED
    BY <2>3, <2>4
<1>6. ASSUME NEW w \in Worker, Handle(w) PROVE AckInv'
  BY <1>0, <1>6 DEF Handle, Goto, redis, WorkerType
<1>7. ASSUME NEW w \in Worker, Mark(w) PROVE AckInv'
  BY <1>0, <1>7 DEF Mark, Goto, WorkerType
<1>8. CASE RestartRedis
  <2>1. \A w \in Worker : cur[w] <= base' /\ UNCHANGED worker
    BY <1>0, <1>8 DEF RestartRedis, HeldInv
  <2> QED
    BY <1>0, <1>8, <2>1 DEF worker, WorkerType
<1>9. CASE Publish \/ (\E i \in Entry : GrowStale(i)) \/ UNCHANGED vars
  BY <1>0, <1>9 DEF Publish, GrowStale, vars, redis, worker
<1> QED
  BY <1>1, <1>2, <1>3, <1>4, <1>5, <1>6, <1>7, <1>8, <1>9 DEF Next, WorkerStep

-----------------------------------------------------------------------------
(* The theorem                                                             *)

LEMMA DropStep == ASSUME DropInv, [Next]_vars PROVE NothingDropped'
<1>0. RedisType /\ NothingDropped /\ AckInv /\ base \in Nat /\ cursor \in Nat /\ last \in Nat
  BY BusAssumption DEF DropInv, TypeOK, RedisType
<1> USE DEF NothingDropped
<1>1. ASSUME NEW w \in Worker, Read(w) PROVE NothingDropped'
  <2>1. PICK upto : /\ upto = IF cursor + Count <= last THEN cursor + Count ELSE last
                    /\ cursor' = upto
                    /\ pending' = pending \cup ((cursor + 1)..upto)
    BY <1>1 DEF Read
  <2>2. upto \in Nat /\ UNCHANGED <<base, seen, dead>>
    BY <1>0, <1>1, <2>1, BusAssumption DEF Read
  <2> QED
    BY <1>0, <2>1, <2>2
<1>2. ASSUME NEW w \in Worker, Ack(w) \/ BuryAck(w) PROVE NothingDropped'
  <2>1. /\ pending' = pending \ {cur[w]}
        /\ UNCHANGED <<base, cursor, seen, dead>>
        /\ cur[w] \in seen \cup Unhandled \cup dead \/ cur[w] <= base
    BY <1>0, <1>2 DEF Ack, BuryAck, Acknowledge, AckInv
  <2> QED
    BY <1>0, <2>1
<1>3. ASSUME NEW w \in Worker, EnsureGroup(w) PROVE NothingDropped'
  <2>1. cursor' \in {cursor, base} /\ UNCHANGED <<base, pending, seen, dead>>
    BY <1>3 DEF EnsureGroup, GroupStart
  <2> QED
    BY <1>0, <2>1
<1>4. CASE RestartRedis
  BY <1>0, <1>4 DEF RestartRedis
<1>5. ASSUME /\ UNCHANGED <<base, cursor>> /\ pending \subseteq pending'
             /\ seen \subseteq seen' /\ dead \subseteq dead'
      PROVE  NothingDropped'
  BY <1>0, <1>5
<1>6. ASSUME NEW w \in Worker,
             \/ FindStale(w) \/ Bury(w) \/ Claim(w) \/ NoGroup(w) \/ TakeUp(w)
             \/ Handle(w) \/ HandlerFails(w) \/ Mark(w) \/ Start(w)
             \/ Crash(w) \/ CommandFails(w) \/ RegistryFails(w)
      PROVE  NothingDropped'
  BY <1>5, <1>6 DEF FindStale, Bury, Claim, NoGroup, TakeUp, Handle, HandlerFails, Mark,
                    Start, Crash, CommandFails, RegistryFails, redis
<1>7. CASE Publish \/ (\E i \in Entry : GrowStale(i)) \/ UNCHANGED vars
  BY <1>5, <1>7 DEF Publish, GrowStale, vars, redis
<1> QED
  BY <1>1, <1>2, <1>3, <1>4, <1>6, <1>7 DEF Next, WorkerStep

LEMMA DropInit == Init => DropInv
<1> SUFFICES ASSUME Init PROVE DropInv
  OBVIOUS
<1>1. RedisType
  <2>1. attempts \in [Entry -> Nat]
    BY DEF Init
  <2>2. 0 \in 0..MaxEntry /\ 0 \in 0..0
    BY BusAssumption
  <2> QED
    BY <2>1, <2>2 DEF Init, RedisType
<1>2. WorkerType
  BY DEF Init, WorkerType, Label
<1>3. TypeOK
  BY <1>1, <1>2 DEF Init, TypeOK
<1>4. HeldInv /\ AckInv
  BY DEF Init, HeldInv, AckInv
<1>5. NothingDropped
  BY DEF Init, NothingDropped
<1> QED
  BY <1>3, <1>4, <1>5 DEF DropInv

LEMMA DropInductive == DropInv /\ [Next]_vars => DropInv'
BY TypeStep, HeldStep, AckStep, DropStep DEF DropInv

\* Nothing the group was given is lost: not by a handler that fails, a worker that
\* crashes anywhere in a pass, a command that fails, two workers after the same stale
\* entry, or a restart of Redis, which loses only what was published before it.
THEOREM BusDropsNothing == Spec => []NothingDropped
<1>1. DropInv => NothingDropped
  BY DEF DropInv
<1> QED
  BY <1>1, DropInductive, DropInit, PTL DEF Spec

\* The variables of the bus keep their types in every behaviour.
THEOREM BusTypeCorrect == Spec => []TypeOK
<1>1. DropInv => TypeOK
  BY DEF DropInv
<1> QED
  BY <1>1, DropInductive, DropInit, PTL DEF Spec

-----------------------------------------------------------------------------
(* How often an entry is handed out                                        *)

\* The workers that found an entry to claim and have not claimed it yet.
Lookers(i) == {w \in Worker : i \in retryable[w]}

\* Each of them may still add a delivery; a worker about to read new entries has
\* nothing left to claim.
LookInv ==
    /\ \A i \in Entry :
          attempts[i] + Cardinality(Lookers(i)) < MaxAttempts + Cardinality(Worker)
    /\ \A w \in Worker : pc[w] = "read" => retryable[w] = {}

LEMMA SmallerSet ==
    ASSUME NEW S \in SUBSET Worker, NEW T \in SUBSET S
    PROVE  /\ Cardinality(T) \in Nat /\ Cardinality(S) \in Nat
           /\ Cardinality(T) <= Cardinality(S) /\ Cardinality(S) <= Cardinality(Worker)
<1>1. IsFiniteSet(Worker)
  BY BusAssumption
<1>2. IsFiniteSet(S) /\ Cardinality(S) <= Cardinality(Worker)
  BY <1>1, FS_Subset
<1>3. IsFiniteSet(T) /\ Cardinality(T) <= Cardinality(S)
  BY <1>2, FS_Subset
<1> QED
  BY <1>2, <1>3, FS_CardinalityType

\* One worker fewer is one fewer.
LEMMA OneLess ==
    ASSUME NEW S \in SUBSET Worker, NEW w \in S
    PROVE  /\ Cardinality(S \ {w}) \in Nat /\ Cardinality(S) \in Nat
           /\ Cardinality(S \ {w}) = Cardinality(S) - 1
<1>1. IsFiniteSet(S)
  BY BusAssumption, FS_Subset
<1> QED
  BY <1>1, FS_RemoveElement, SmallerSet, S \ {w} \in SUBSET S

\* One worker more is one more.
LEMMA OneMore ==
    ASSUME NEW S \in SUBSET Worker, NEW w \in Worker
    PROVE  /\ Cardinality(S \cup {w}) \in Nat /\ Cardinality(S) \in Nat
           /\ Cardinality(S \cup {w}) <= Cardinality(S) + 1
<1>1. IsFiniteSet(S)
  BY BusAssumption, FS_Subset
<1>2. Cardinality(S) \in Nat
  BY <1>1, FS_CardinalityType
<1>3. Cardinality(S \cup {w}) = IF w \in S THEN Cardinality(S) ELSE Cardinality(S) + 1
  BY <1>1, FS_AddElement
<1> QED
  BY <1>2, <1>3

\* Nobody looks any more, and nothing was handed out.
LEMMA FewerLookers ==
    ASSUME TypeOK, LookInv, NEW i \in Entry, attempts'[i] = attempts[i],
           Lookers(i)' \subseteq Lookers(i)
    PROVE  attempts'[i] + Cardinality(Lookers(i)') < MaxAttempts + Cardinality(Worker)
<1>1. /\ Cardinality(Lookers(i)') \in Nat /\ Cardinality(Lookers(i)) \in Nat
      /\ Cardinality(Lookers(i)') <= Cardinality(Lookers(i))
      /\ Cardinality(Worker) \in Nat
  BY SmallerSet DEF Lookers
<1>2. attempts[i] \in Nat /\ MaxAttempts \in Nat
  BY BusAssumption DEF TypeOK, RedisType
<1>3. attempts[i] + Cardinality(Lookers(i)) < MaxAttempts + Cardinality(Worker)
  BY DEF LookInv
<1> QED
  BY <1>1, <1>2, <1>3

LEMMA LookInit == Init => LookInv
<1> SUFFICES ASSUME Init PROVE LookInv
  OBVIOUS
<1>1. \A i \in Entry : Lookers(i) = {}
  BY DEF Init, Lookers
<1>2. Cardinality({}) = 0 /\ Cardinality(Worker) \in Nat /\ MaxAttempts \in Nat \ {0}
  BY BusAssumption, FS_EmptySet, FS_CardinalityType
<1>3. ASSUME NEW i \in Entry
      PROVE  attempts[i] + Cardinality(Lookers(i)) < MaxAttempts + Cardinality(Worker)
  <2>1. attempts[i] = 0 /\ Cardinality(Lookers(i)) = 0
    BY <1>1, <1>2 DEF Init
  <2> QED
    BY <1>2, <2>1
<1>4. \A w \in Worker : pc[w] # "read"
  BY DEF Init
<1> QED
  BY <1>3, <1>4 DEF LookInv

LEMMA LookStep == ASSUME DropInv, LookInv, [Next]_vars PROVE LookInv'
<1>0. /\ TypeOK /\ RedisType /\ WorkerType
      /\ Cardinality(Worker) \in Nat /\ MaxAttempts \in Nat \ {0}
  BY BusAssumption, FS_CardinalityType DEF DropInv, TypeOK
<1>1. ASSUME attempts' = attempts,
             \A v \in Worker : retryable'[v] \subseteq retryable[v],
             \A v \in Worker : pc'[v] = "read" => retryable'[v] = {}
      PROVE  LookInv'
  <2>1. \A i \in Entry : Lookers(i)' \subseteq Lookers(i)
    BY <1>1 DEF Lookers
  <2>2. ASSUME NEW i \in Entry
        PROVE  attempts'[i] + Cardinality(Lookers(i)') < MaxAttempts + Cardinality(Worker)
    BY <1>0, <1>1, <2>1, FewerLookers
  <2> QED
    BY <1>1, <2>2 DEF LookInv
<1>2. ASSUME NEW w \in Worker, Onward(w),
             \A v \in Worker \ {w} : retryable'[v] = retryable[v]
      PROVE  \A v \in Worker : pc'[v] = "read" => retryable'[v] = {}
  <2>1. pc'[w] = "read" => retryable'[w] = {}
    BY <1>0, <1>2 DEF Onward, Goto, WorkerType
  <2>2. \A v \in Worker \ {w} : pc'[v] = pc[v]
    BY <1>0, <1>2 DEF Onward, Goto, WorkerType
  <2> QED
    BY <1>2, <2>1, <2>2 DEF LookInv
<1>3. ASSUME NEW w \in Worker, FindStale(w) PROVE LookInv'
  <2>1. /\ retryable' = [retryable EXCEPT ![w] = {i \in Stale : ~Exhausted(i)}]
        /\ Onward(w) /\ attempts' = attempts
    BY <1>3 DEF FindStale, redis
  <2>2. ASSUME NEW i \in Entry
        PROVE  attempts'[i] + Cardinality(Lookers(i)') < MaxAttempts + Cardinality(Worker)
    <3>1. CASE i \in Stale /\ ~Exhausted(i)
      <4>1. attempts[i] < MaxAttempts /\ attempts[i] \in Nat
        BY <1>0, <3>1 DEF Exhausted, RedisType
      <4>2. Cardinality(Lookers(i)') \in Nat /\ Cardinality(Lookers(i)') <= Cardinality(Worker)
        BY SmallerSet DEF Lookers
      <4> QED
        BY <1>0, <2>1, <4>1, <4>2
    <3>2. CASE ~(i \in Stale /\ ~Exhausted(i))
      <4>1. Lookers(i)' \subseteq Lookers(i)
        BY <1>0, <2>1, <3>2 DEF Lookers, WorkerType
      <4> QED
        BY <1>0, <2>1, <4>1, FewerLookers
    <3> QED
      BY <3>1, <3>2
  <2>3. \A v \in Worker : pc'[v] = "read" => retryable'[v] = {}
    BY <1>0, <1>2, <2>1 DEF WorkerType
  <2> QED
    BY <2>2, <2>3 DEF LookInv
<1>4. ASSUME NEW w \in Worker, Claim(w) PROVE LookInv'
  <2>1. PICK claimed :
          /\ claimed = retryable[w] \cap idle
          /\ attempts' = [i \in Entry |-> attempts[i] + IF i \in claimed THEN 1 ELSE 0]
          /\ retryable' = [retryable EXCEPT ![w] = {}]
          /\ Onward(w)
    BY <1>4 DEF Claim
  <2>2. \A i \in Entry : Lookers(i)' = Lookers(i) \ {w}
    BY <1>0, <2>1 DEF Lookers, WorkerType
  <2>3. ASSUME NEW i \in Entry
        PROVE  attempts'[i] + Cardinality(Lookers(i)') < MaxAttempts + Cardinality(Worker)
    <3>1. attempts[i] \in Nat
          /\ attempts[i] + Cardinality(Lookers(i)) < MaxAttempts + Cardinality(Worker)
      BY <1>0 DEF RedisType, LookInv
    <3>2. CASE i \in claimed
      <4>1. w \in Lookers(i) /\ Lookers(i) \in SUBSET Worker
        BY <2>1, <3>2 DEF Lookers
      <4>2. /\ Cardinality(Lookers(i) \ {w}) \in Nat /\ Cardinality(Lookers(i)) \in Nat
            /\ Cardinality(Lookers(i) \ {w}) = Cardinality(Lookers(i)) - 1
        BY <4>1, OneLess
      <4>3. attempts'[i] = attempts[i] + 1
        BY <2>1, <3>2
      <4> QED
        BY <1>0, <2>2, <3>1, <4>2, <4>3
    <3>3. CASE i \notin claimed
      <4>1. attempts'[i] = attempts[i]
        BY <2>1, <3>1, <3>3
      <4> QED
        BY <1>0, <2>2, <4>1, FewerLookers
    <3> QED
      BY <3>2, <3>3
  <2>4. \A v \in Worker : pc'[v] = "read" => retryable'[v] = {}
    BY <1>0, <1>2, <2>1 DEF WorkerType
  <2> QED
    BY <2>3, <2>4 DEF LookInv
<1>5. ASSUME NEW w \in Worker, Read(w) PROVE LookInv'
  <2>1. PICK fresh :
          /\ attempts' = [i \in Entry |-> IF i \in fresh THEN 1 ELSE attempts[i]]
          /\ Onward(w) /\ retryable' = retryable
    BY <1>5 DEF Read
  <2>2. \A i \in Entry : Lookers(i)' = Lookers(i)
    BY <2>1 DEF Lookers
  <2>3. ASSUME NEW i \in Entry
        PROVE  attempts'[i] + Cardinality(Lookers(i)') < MaxAttempts + Cardinality(Worker)
    <3>1. CASE i \in fresh
      <4>1. retryable[w] = {} /\ attempts'[i] = 1
        BY <1>5, <2>1, <3>1 DEF Read, LookInv
      <4>2. Lookers(i) \in SUBSET (Worker \ {w})
        BY <4>1 DEF Lookers
      <4>3. /\ Cardinality(Worker \ {w}) \in Nat
            /\ Cardinality(Worker \ {w}) = Cardinality(Worker) - 1
        BY OneLess
      <4>4. Cardinality(Lookers(i)) \in Nat
            /\ Cardinality(Lookers(i)) <= Cardinality(Worker \ {w})
        BY <4>2, SmallerSet
      <4> QED
        BY <1>0, <2>2, <4>1, <4>3, <4>4
    <3>2. CASE i \notin fresh
      <4>1. attempts'[i] = attempts[i]
        BY <2>1, <3>2
      <4> QED
        BY <1>0, <2>2, <4>1, FewerLookers
    <3> QED
      BY <3>1, <3>2
  <2>4. \A v \in Worker : pc'[v] = "read" => retryable'[v] = {}
    BY <1>2, <2>1
  <2> QED
    BY <2>3, <2>4 DEF LookInv
<1>6. ASSUME NEW w \in Worker, BuryAck(w) \/ HandlerFails(w) \/ Ack(w) PROVE LookInv'
  <2>1. Onward(w) /\ attempts' = attempts /\ retryable' = retryable
    BY <1>6 DEF BuryAck, HandlerFails, Ack, redis
  <2>2. \A v \in Worker : pc'[v] = "read" => retryable'[v] = {}
    BY <1>2, <2>1
  <2> QED
    BY <1>1, <2>1, <2>2
<1>7. ASSUME NEW w \in Worker, NoGroup(w) \/ Crash(w) \/ CommandFails(w) \/ RegistryFails(w)
      PROVE  LookInv'
  <2>1. PICK l \in {"ensure", "off"} : Abandon(w, l)
    BY <1>7 DEF NoGroup, Crash, CommandFails, RegistryFails, Quit
  <2>2. attempts' = attempts
    BY <1>7 DEF NoGroup, Crash, CommandFails, RegistryFails, redis
  <2>3. retryable' = [retryable EXCEPT ![w] = {}] /\ pc' = [pc EXCEPT ![w] = l]
    BY <2>1 DEF Abandon, Goto
  <2>4. \A v \in Worker : \/ retryable'[v] = {}
                          \/ retryable'[v] = retryable[v] /\ pc'[v] = pc[v]
    BY <1>0, <2>3 DEF WorkerType
  <2>5. \A v \in Worker : retryable'[v] \subseteq retryable[v]
    BY <2>4
  <2>6. \A v \in Worker : pc'[v] = "read" => retryable'[v] = {}
    BY <2>4 DEF LookInv
  <2> QED
    BY <1>1, <2>2, <2>5, <2>6
<1>8. ASSUME NEW w \in Worker,
             EnsureGroup(w) \/ Start(w) \/ Bury(w) \/ TakeUp(w) \/ Handle(w) \/ Mark(w)
      PROVE  LookInv'
  <2>1. attempts' = attempts /\ retryable' = retryable
    BY <1>8 DEF EnsureGroup, Start, Bury, TakeUp, Handle, Mark, redis
  <2>2. PICK l \in {"ensure", "pending", "bury", "buryAck", "ack", "handle", "mark"} :
          pc' = [pc EXCEPT ![w] = l]
    <3>1. CASE TakeUp(w)
      BY <3>1 DEF TakeUp, Goto
    <3>2. CASE EnsureGroup(w) \/ Start(w) \/ Bury(w) \/ Handle(w) \/ Mark(w)
      BY <3>2 DEF EnsureGroup, Start, Bury, Handle, Mark, Goto
    <3> QED
      BY <1>8, <3>1, <3>2
  <2>3. \A v \in Worker : pc'[v] = "read" => retryable'[v] = {}
    BY <1>0, <2>1, <2>2 DEF LookInv, WorkerType
  <2> QED
    BY <1>1, <2>1, <2>3
<1>9. CASE RestartRedis
  <2>1. attempts' = [i \in Entry |-> 0] /\ UNCHANGED <<pc, retryable>>
    BY <1>9 DEF RestartRedis, worker
  <2>2. ASSUME NEW i \in Entry
        PROVE  attempts'[i] + Cardinality(Lookers(i)') < MaxAttempts + Cardinality(Worker)
    <3>1. Cardinality(Lookers(i)') \in Nat /\ Cardinality(Lookers(i)') <= Cardinality(Worker)
      BY SmallerSet DEF Lookers
    <3> QED
      BY <1>0, <2>1, <3>1
  <2> QED
    BY <2>1, <2>2 DEF LookInv
<1>10. CASE Publish \/ (\E i \in Entry : GrowStale(i)) \/ UNCHANGED vars
  <2>1. UNCHANGED <<attempts, pc, retryable>>
    BY <1>10 DEF Publish, GrowStale, vars, redis, worker
  <2>2. \A v \in Worker : pc'[v] = "read" => retryable'[v] = {}
    BY <2>1 DEF LookInv
  <2> QED
    BY <1>1, <2>1, <2>2
<1> QED
  BY <1>3, <1>4, <1>5, <1>6, <1>7, <1>8, <1>9, <1>10 DEF Next, WorkerStep

\* An entry whose handlers keep failing, or whose workers keep dying, is delivered
\* fewer times than the cap and the workers together: each worker can add one delivery
\* after the cap, on a look it had before.
THEOREM DeliveriesBounded == Spec => []AttemptsBounded
<1>1. TypeOK /\ LookInv => AttemptsBounded
  <2> SUFFICES ASSUME TypeOK, LookInv, NEW i \in Entry
               PROVE  attempts[i] < MaxAttempts + Cardinality(Worker)
    BY DEF AttemptsBounded
  <2>1. Cardinality(Lookers(i)) \in Nat /\ Cardinality(Worker) \in Nat
    BY SmallerSet DEF Lookers
  <2>2. attempts[i] \in Nat /\ MaxAttempts \in Nat
    BY BusAssumption DEF TypeOK, RedisType
  <2>3. attempts[i] + Cardinality(Lookers(i)) < MaxAttempts + Cardinality(Worker)
    BY DEF LookInv
  <2> QED
    BY <2>1, <2>2, <2>3
<1>2. DropInv => TypeOK
  BY DEF DropInv
<1> QED
  BY <1>1, <1>2, DropInit, DropInductive, LookInit, LookStep, PTL DEF Spec

-----------------------------------------------------------------------------
(* How often its handlers succeed                                          *)

InBatch(i) == {w \in Worker : i \in batch[w]}
InHand(i)  == {w \in Worker : pc[w] = "handle" /\ cur[w] = i}
AtMark(i)  == \E w \in Worker : pc[w] = "mark" /\ cur[w] = i

\* Redis will hand the entry out once more: it is stale, or not delivered yet.
Coming(i) == IF i \in idle \/ i > cursor THEN 1 ELSE 0

\* The successes of an entry, and the deliveries that may still lead to one, against
\* what explains more than one.
Held(i) == Cardinality(InBatch(i)) + Cardinality(InHand(i)) + Coming(i)

Account(i) ==
    /\ done[i] + Cardinality(InHand(i)) <= 1 + excused[i]
    /\ done[i] + Held(i) <= 2 + excused[i]
    /\ i \notin seen => done[i] + Held(i) <= 1 + excused[i]
    /\ (i \notin seen /\ i > base /\ ~AtMark(i)) => done[i] <= excused[i]

\* What Redis has pending was delivered since it last started, what it has marked was
\* appended, and a group to be created starts where the cursor is.
StreamInv ==
    /\ pending \subseteq (base + 1)..cursor
    /\ seen \subseteq 1..last
    /\ ~group => cursor = base

AccountInv == StreamInv /\ \A i \in Entry : Account(i)

\* Every count of an account is a number.
LEMMA CountsAreNumbers ==
    ASSUME TypeOK, NEW i \in Entry
    PROVE  /\ Cardinality(InBatch(i)) \in Nat /\ Cardinality(InHand(i)) \in Nat
           /\ Coming(i) \in {0, 1} /\ done[i] \in Nat /\ excused[i] \in Nat
<1>1. Cardinality(InBatch(i)) \in Nat /\ Cardinality(InHand(i)) \in Nat
  BY SmallerSet DEF InBatch, InHand
<1> QED
  BY <1>1 DEF TypeOK, Coming

\* A step that hands nothing out and counts no success keeps an account: a handled
\* entry is still to be marked, or marked, or its success is explained.
LEMMA Settling ==
    ASSUME TypeOK, TypeOK', NEW i \in Entry, Account(i),
           InBatch(i)' \subseteq InBatch(i), InHand(i)' \subseteq InHand(i),
           Coming(i)' <= Coming(i), done'[i] = done[i], excused[i] <= excused'[i],
           i \in seen => i \in seen', base <= base',
           AtMark(i) => AtMark(i)' \/ i \in seen' \/ excused[i] < excused'[i]
    PROVE  Account(i)'
<1>1. /\ Cardinality(InBatch(i)) \in Nat /\ Cardinality(InHand(i)) \in Nat
      /\ Coming(i) \in {0, 1} /\ done[i] \in Nat /\ excused[i] \in Nat
  BY CountsAreNumbers
<1>2. /\ Cardinality(InBatch(i)') \in Nat /\ Cardinality(InHand(i)') \in Nat
      /\ Cardinality(InBatch(i)') <= Cardinality(InBatch(i))
      /\ Cardinality(InHand(i)') <= Cardinality(InHand(i))
  BY SmallerSet DEF InBatch, InHand
<1>3. Coming(i)' \in {0, 1} /\ excused'[i] \in Nat
  BY DEF Coming, TypeOK
<1>4. Held(i) \in Nat /\ Held(i)' \in Nat /\ Held(i)' <= Held(i)
  BY <1>1, <1>2, <1>3 DEF Held
<1>5. /\ done'[i] + Cardinality(InHand(i)') <= 1 + excused'[i]
      /\ done'[i] + Held(i)' <= 2 + excused'[i]
      /\ i \notin seen' => done'[i] + Held(i)' <= 1 + excused'[i]
  BY <1>1, <1>2, <1>3, <1>4 DEF Account
<1>6. ASSUME i \notin seen', i > base', ~AtMark(i)' PROVE done'[i] <= excused'[i]
  <2>1. CASE AtMark(i)
    <3>1. excused[i] < excused'[i] /\ done[i] <= 1 + excused[i]
      BY <1>1, <1>6, <2>1 DEF Account
    <3> QED
      BY <1>1, <1>3, <3>1
  <2>2. CASE ~AtMark(i)
    <3>1. i > base /\ i \notin seen
      BY <1>6, BusAssumption DEF TypeOK, RedisType, Entry
    <3> QED
      BY <1>1, <1>3, <2>2, <3>1 DEF Account
  <2> QED
    BY <2>1, <2>2
<1> QED
  BY <1>5, <1>6 DEF Account

\* The same, when one worker makes the step.
LEMMA SettlingWorker ==
    ASSUME TypeOK, TypeOK', NEW i \in Entry, Account(i), NEW w \in Worker,
           \A v \in Worker \ {w} :
              batch'[v] = batch[v] /\ pc'[v] = pc[v] /\ cur'[v] = cur[v],
           i \in batch'[w] => i \in batch[w],
           pc'[w] = "handle" /\ cur'[w] = i => pc[w] = "handle" /\ cur[w] = i,
           pc[w] = "mark" /\ cur[w] = i => i \in seen' \/ excused[i] < excused'[i],
           Coming(i)' <= Coming(i), done'[i] = done[i], excused[i] <= excused'[i],
           i \in seen => i \in seen', base <= base'
    PROVE  Account(i)'
<1>1. InBatch(i)' \subseteq InBatch(i)
  BY DEF InBatch
<1>2. InHand(i)' \subseteq InHand(i)
  BY DEF InHand
<1>3. AtMark(i) => AtMark(i)' \/ i \in seen' \/ excused[i] < excused'[i]
  BY DEF AtMark
<1> QED
  BY <1>1, <1>2, <1>3, Settling

\* An entry handed out again is one that was coming.
LEMMA HandedOut ==
    ASSUME TypeOK, NEW i \in Entry, Account(i), NEW w \in Worker,
           InBatch(i)' \subseteq InBatch(i) \cup {w}, InHand(i)' \subseteq InHand(i),
           Coming(i) = 1, Coming(i)' = 0, AtMark(i) => AtMark(i)',
           UNCHANGED <<done, excused, seen, base>>
    PROVE  Account(i)'
<1>1. /\ Cardinality(InBatch(i)) \in Nat /\ Cardinality(InHand(i)) \in Nat
      /\ done[i] \in Nat /\ excused[i] \in Nat
  BY CountsAreNumbers
<1>2. /\ Cardinality(InBatch(i) \cup {w}) \in Nat
      /\ Cardinality(InBatch(i) \cup {w}) <= Cardinality(InBatch(i)) + 1
  BY OneMore DEF InBatch
<1>3. InBatch(i) \cup {w} \in SUBSET Worker /\ InHand(i) \in SUBSET Worker
  BY DEF InBatch, InHand
<1>4. /\ Cardinality(InBatch(i)') \in Nat
      /\ Cardinality(InBatch(i)') <= Cardinality(InBatch(i) \cup {w})
  BY <1>3, SmallerSet
<1>5. Cardinality(InHand(i)') \in Nat /\ Cardinality(InHand(i)') <= Cardinality(InHand(i))
  BY <1>3, SmallerSet
<1>6. Held(i) \in Nat /\ Held(i)' \in Nat /\ Held(i)' <= Held(i)
  BY <1>1, <1>2, <1>4, <1>5 DEF Held
<1> QED
  BY <1>1, <1>5, <1>6 DEF Account

\* An entry a worker has taken up was not marked; a success moves it from the hand to
\* the count.
LEMMA TakenUp ==
    ASSUME TypeOK, NEW i \in Entry, Account(i), NEW w \in Worker, i \notin seen,
           w \in InBatch(i), InBatch(i)' = InBatch(i) \ {w},
           InHand(i)' \subseteq InHand(i) \cup {w}, Coming(i)' = Coming(i),
           AtMark(i) => AtMark(i)', UNCHANGED <<done, excused, seen, base>>
    PROVE  Account(i)'
<1>1. /\ Cardinality(InBatch(i)) \in Nat /\ Cardinality(InHand(i)) \in Nat
      /\ Coming(i) \in {0, 1} /\ done[i] \in Nat /\ excused[i] \in Nat
  BY CountsAreNumbers
<1>2. /\ Cardinality(InHand(i) \cup {w}) \in Nat
      /\ Cardinality(InHand(i) \cup {w}) <= Cardinality(InHand(i)) + 1
  BY OneMore DEF InHand
<1>3. InHand(i) \cup {w} \in SUBSET Worker /\ InBatch(i) \in SUBSET Worker
  BY DEF InBatch, InHand
<1>4. /\ Cardinality(InHand(i)') \in Nat
      /\ Cardinality(InHand(i)') <= Cardinality(InHand(i) \cup {w})
  BY <1>3, SmallerSet
<1>5. /\ Cardinality(InBatch(i)') \in Nat
      /\ Cardinality(InBatch(i)') = Cardinality(InBatch(i)) - 1
  BY <1>3, OneLess
<1>6. Held(i) \in Nat /\ Held(i)' \in Nat /\ Held(i)' <= Held(i)
      /\ Cardinality(InHand(i)') <= Held(i)'
  BY <1>1, <1>2, <1>4, <1>5 DEF Held
<1> QED
  BY <1>1, <1>4, <1>6 DEF Account

LEMMA Succeeded ==
    ASSUME TypeOK, NEW i \in Entry, Account(i), NEW w \in InHand(i),
           InHand(i)' = InHand(i) \ {w}, InBatch(i)' = InBatch(i), Coming(i)' = Coming(i),
           AtMark(i)', done'[i] = done[i] + 1, UNCHANGED <<excused, seen, base>>
    PROVE  Account(i)'
<1>1. /\ Cardinality(InBatch(i)) \in Nat /\ Cardinality(InHand(i)) \in Nat
      /\ Coming(i) \in {0, 1} /\ done[i] \in Nat /\ excused[i] \in Nat
  BY CountsAreNumbers
<1>2. InHand(i) \in SUBSET Worker
  BY DEF InHand
<1>3. /\ Cardinality(InHand(i)') \in Nat
      /\ Cardinality(InHand(i)') = Cardinality(InHand(i)) - 1
  BY <1>2, OneLess
<1>4. Held(i) \in Nat /\ Held(i)' = Held(i) - 1
  BY <1>1, <1>3 DEF Held
<1> QED
  BY <1>1, <1>3, <1>4 DEF Account

-----------------------------------------------------------------------------
(* The stream                                                              *)

LEMMA StreamStep == ASSUME DropInv, StreamInv, [Next]_vars PROVE StreamInv'
<1>0. /\ RedisType /\ WorkerType /\ HeldInv /\ AckInv
      /\ base \in Nat /\ cursor \in Nat /\ last \in Nat /\ base <= cursor /\ cursor <= last
  BY BusAssumption DEF DropInv, TypeOK, RedisType
<1> USE DEF StreamInv
<1>1. ASSUME UNCHANGED <<base, cursor, group, last>>, pending' \subseteq pending, seen' = seen
      PROVE  StreamInv'
  BY <1>0, <1>1
<1>2. CASE Publish
  <2>1. 1..last \subseteq 1..last' /\ UNCHANGED <<base, cursor, group, pending, seen>>
    BY <1>0, <1>2 DEF Publish
  <2> QED
    BY <1>0, <2>1
<1>3. ASSUME NEW w \in Worker, EnsureGroup(w) PROVE StreamInv'
  <2>1. \/ UNCHANGED <<group, cursor>>
        \/ ~group /\ group' = TRUE /\ cursor' = base
    BY <1>3 DEF EnsureGroup, GroupStart
  <2>2. UNCHANGED <<base, last, pending, seen>>
    BY <1>3 DEF EnsureGroup
  <2> QED
    BY <1>0, <2>1, <2>2
<1>4. ASSUME NEW w \in Worker, Read(w) PROVE StreamInv'
  <2>1. PICK upto : /\ upto = IF cursor + Count <= last THEN cursor + Count ELSE last
                    /\ cursor' = upto
                    /\ pending' = pending \cup ((cursor + 1)..upto)
    BY <1>4 DEF Read
  <2>2. upto \in Nat /\ cursor <= upto
    BY <1>0, <2>1, BusAssumption
  <2>3. /\ (base + 1)..cursor \subseteq (base + 1)..upto
        /\ (cursor + 1)..upto \subseteq (base + 1)..upto
    BY <1>0, <2>2
  <2>4. group /\ UNCHANGED <<base, last, group, seen>>
    BY <1>4 DEF Read
  <2> QED
    BY <1>0, <2>1, <2>3, <2>4
<1>5. ASSUME NEW w \in Worker, Mark(w) PROVE StreamInv'
  <2>1. cur[w] \in 1..last
    BY <1>0, <1>5 DEF Mark, HeldInv, AckInv, Entry
  <2> QED
    BY <1>0, <1>5, <2>1 DEF Mark
<1>6. ASSUME NEW w \in Worker, BuryAck(w) \/ Ack(w) PROVE StreamInv'
  BY <1>1, <1>6 DEF BuryAck, Ack, Acknowledge
<1>7. ASSUME NEW w \in Worker,
             \/ FindStale(w) \/ Bury(w) \/ Claim(w) \/ NoGroup(w) \/ TakeUp(w)
             \/ Handle(w) \/ HandlerFails(w) \/ Start(w)
             \/ Crash(w) \/ CommandFails(w) \/ RegistryFails(w)
      PROVE  StreamInv'
  BY <1>1, <1>7 DEF FindStale, Bury, Claim, NoGroup, TakeUp, Handle, HandlerFails, Start,
                    Crash, CommandFails, RegistryFails, redis
<1>8. CASE RestartRedis
  BY <1>8 DEF RestartRedis
<1>9. CASE (\E i \in Entry : GrowStale(i)) \/ UNCHANGED vars
  BY <1>1, <1>9 DEF GrowStale, vars, redis
<1> QED
  BY <1>2, <1>3, <1>4, <1>5, <1>6, <1>7, <1>8, <1>9 DEF Next, WorkerStep

-----------------------------------------------------------------------------
(* The accounts, step by step                                              *)

\* A pass that goes on hands nothing to a handler.
LEMMA OnwardElsewhere ==
    ASSUME WorkerType, NEW w \in Worker, Onward(w)
    PROVE  /\ pc'[w] \notin {"handle", "mark"}
           /\ \A v \in Worker \ {w} : pc'[v] = pc[v]
BY OnwardGoes DEF WorkerType

LEMMA ClaimAccount ==
    ASSUME DropInv, TypeOK', AccountInv, NEW w \in Worker, Claim(w), NEW i \in Entry
    PROVE  Account(i)'
<1>0. /\ TypeOK /\ RedisType /\ WorkerType /\ Account(i) /\ StreamInv
      /\ pc[w] = "claim" /\ Onward(w)
      /\ UNCHANGED <<base, cursor, seen, cur, done, excused>>
  BY DEF DropInv, TypeOK, AccountInv, Claim, ghost
<1>1. PICK claimed : /\ claimed = retryable[w] \cap idle
                     /\ idle' = idle \ claimed
                     /\ batch' = [batch EXCEPT ![w] = claimed]
  BY DEF Claim
<1>2. pc'[w] \notin {"handle", "mark"} /\ \A v \in Worker \ {w} : pc'[v] = pc[v]
  BY <1>0, OnwardElsewhere
<1>3. batch'[w] = claimed /\ \A v \in Worker \ {w} : batch'[v] = batch[v]
  BY <1>0, <1>1 DEF WorkerType
<1>4. CASE i \in claimed
  <2>0. i \in idle /\ idle \subseteq pending /\ pending \subseteq (base + 1)..cursor
    BY <1>0, <1>1, <1>4 DEF StreamInv, RedisType
  <2>1. i <= cursor
    BY <1>0, <2>0, BusAssumption DEF RedisType
  <2>2. Coming(i) = 1 /\ Coming(i)' = 0
    BY <1>0, <1>1, <1>4, <2>1, BusAssumption DEF Coming, RedisType, Entry
  <2>3. InBatch(i)' \subseteq InBatch(i) \cup {w} /\ InHand(i)' \subseteq InHand(i)
    BY <1>0, <1>2, <1>3 DEF InBatch, InHand
  <2>4. AtMark(i) => AtMark(i)'
    BY <1>0, <1>2 DEF AtMark
  <2> QED
    BY <1>0, <2>2, <2>3, <2>4, HandedOut
<1>5. CASE i \notin claimed
  <2>1. Coming(i)' <= Coming(i)
    BY <1>0, <1>1 DEF Coming
  <2>2. excused[i] \in Nat /\ base \in Nat
    BY <1>0, BusAssumption DEF TypeOK, RedisType
  <2> QED
    BY <1>0, <1>2, <1>3, <1>5, <2>1, <2>2, SettlingWorker
<1> QED
  BY <1>4, <1>5

LEMMA ReadAccount ==
    ASSUME DropInv, TypeOK', AccountInv, NEW w \in Worker, Read(w), NEW i \in Entry
    PROVE  Account(i)'
<1>0. /\ TypeOK /\ RedisType /\ WorkerType /\ Account(i) /\ StreamInv
      /\ pc[w] = "read" /\ Onward(w)
      /\ UNCHANGED <<base, idle, seen, cur, done, excused>>
      /\ i \in Nat /\ cursor \in Nat /\ base \in Nat /\ last \in Nat /\ cursor <= last
  <2>1. TypeOK /\ RedisType /\ WorkerType /\ Account(i) /\ StreamInv
    BY DEF DropInv, TypeOK, AccountInv
  <2>2. pc[w] = "read" /\ Onward(w) /\ UNCHANGED <<base, idle, seen, cur, done, excused>>
    BY DEF Read, ghost
  <2>3. i \in Nat /\ cursor \in Nat /\ base \in Nat /\ last \in Nat /\ cursor <= last
    BY <2>1, BusAssumption DEF RedisType, Entry
  <2> QED
    BY <2>1, <2>2, <2>3
<1>1. PICK upto : /\ upto = IF cursor + Count <= last THEN cursor + Count ELSE last
                  /\ cursor' = upto
                  /\ batch' = [batch EXCEPT ![w] = (cursor + 1)..upto]
  BY DEF Read
<1>2. pc'[w] \notin {"handle", "mark"} /\ \A v \in Worker \ {w} : pc'[v] = pc[v]
  BY <1>0, OnwardElsewhere
<1>3. batch'[w] = (cursor + 1)..upto /\ \A v \in Worker \ {w} : batch'[v] = batch[v]
  BY <1>0, <1>1 DEF WorkerType
<1>4. upto \in Nat /\ cursor <= upto
  BY <1>0, <1>1, BusAssumption
<1>5. CASE i \in (cursor + 1)..upto
  <2>1. i > cursor /\ i <= cursor' /\ i \notin idle
    BY <1>0, <1>1, <1>4, <1>5 DEF StreamInv, RedisType
  <2>2. Coming(i) = 1 /\ Coming(i)' = 0
    BY <1>0, <1>1, <1>4, <2>1 DEF Coming
  <2>3. InBatch(i)' \subseteq InBatch(i) \cup {w} /\ InHand(i)' \subseteq InHand(i)
    BY <1>0, <1>2, <1>3 DEF InBatch, InHand
  <2>4. AtMark(i) => AtMark(i)'
    BY <1>0, <1>2 DEF AtMark
  <2> QED
    BY <1>0, <2>2, <2>3, <2>4, HandedOut
<1>6. CASE i \notin (cursor + 1)..upto
  <2>1. Coming(i)' <= Coming(i)
    BY <1>0, <1>1, <1>4 DEF Coming
  <2>2. excused[i] <= excused'[i] /\ done'[i] = done[i] /\ base <= base'
    BY <1>0 DEF TypeOK
  <2>3. /\ i \notin batch'[w] /\ pc'[w] # "handle" /\ pc[w] # "mark"
        /\ \A v \in Worker \ {w} :
              batch'[v] = batch[v] /\ pc'[v] = pc[v] /\ cur'[v] = cur[v]
    BY <1>0, <1>2, <1>3, <1>6
  <2>4. TypeOK /\ Account(i) /\ (i \in seen => i \in seen')
    BY <1>0
  <2> QED
    BY <2>1, <2>2, <2>3, <2>4, SettlingWorker
<1> QED
  BY <1>5, <1>6

LEMMA TakeUpAccount ==
    ASSUME DropInv, TypeOK', AccountInv, NEW w \in Worker, TakeUp(w), NEW i \in Entry
    PROVE  Account(i)'
<1>0. /\ TypeOK /\ WorkerType /\ Account(i) /\ pc[w] = "entry"
      /\ UNCHANGED <<base, cursor, idle, seen, done, excused>>
      /\ excused[i] \in Nat /\ base \in Nat /\ Coming(i)' = Coming(i) /\ Coming(i) \in {0, 1}
  BY BusAssumption DEF DropInv, TypeOK, RedisType, AccountInv, TakeUp, redis, ghost, Coming
<1>1. PICK k \in batch[w] :
        /\ batch' = [batch EXCEPT ![w] = @ \ {k}]
        /\ IF k \in Undecodable
           THEN Goto(w, "bury") /\ UNCHANGED cur
           ELSE /\ cur' = [cur EXCEPT ![w] = k]
                /\ Goto(w, IF k \in Unhandled \/ Suppressed(k) THEN "ack" ELSE "handle")
  BY DEF TakeUp
<1>2. batch'[w] = batch[w] \ {k} /\ \A v \in Worker \ {w} : batch'[v] = batch[v]
  BY <1>0, <1>1 DEF WorkerType
<1>3. /\ \A v \in Worker \ {w} : pc'[v] = pc[v] /\ cur'[v] = cur[v]
      /\ \/ pc'[w] \in {"bury", "ack"}
         \/ pc'[w] = "handle" /\ cur'[w] = k /\ k \notin seen
  <2>1. CASE k \in Undecodable
    BY <1>0, <1>1, <2>1 DEF Goto, WorkerType
  <2>2. CASE k \notin Undecodable
    BY <1>0, <1>1, <2>2 DEF Goto, WorkerType, Suppressed
  <2> QED
    BY <2>1, <2>2
<1>4. CASE pc'[w] = "handle" /\ i = k
  <2>1. w \in InBatch(i) /\ InBatch(i)' = InBatch(i) \ {w}
    BY <1>1, <1>2, <1>4 DEF InBatch
  <2>2. InHand(i)' \subseteq InHand(i) \cup {w}
    BY <1>3 DEF InHand
  <2>3. AtMark(i) => AtMark(i)'
    BY <1>0, <1>3 DEF AtMark
  <2> QED
    BY <1>0, <1>3, <1>4, <2>1, <2>2, <2>3, TakenUp
<1>5. CASE ~(pc'[w] = "handle" /\ i = k)
  <2>1. pc'[w] = "handle" /\ cur'[w] = i => pc[w] = "handle" /\ cur[w] = i
    BY <1>3, <1>5
  <2> QED
    BY <1>0, <1>2, <1>3, <2>1, SettlingWorker
<1> QED
  BY <1>4, <1>5

LEMMA HandleAccount ==
    ASSUME DropInv, TypeOK', AccountInv, NEW w \in Worker, Handle(w), NEW i \in Entry
    PROVE  Account(i)'
<1>0. /\ TypeOK /\ WorkerType /\ Account(i) /\ pc[w] = "handle"
      /\ UNCHANGED <<base, cursor, idle, seen, batch, cur, excused>>
      /\ excused[i] \in Nat /\ base \in Nat /\ Coming(i)' = Coming(i) /\ Coming(i) \in {0, 1}
  BY BusAssumption DEF DropInv, TypeOK, RedisType, AccountInv, Handle, redis, Coming
<1>1. pc'[w] = "mark" /\ \A v \in Worker \ {w} : pc'[v] = pc[v]
  BY <1>0 DEF Handle, Goto, WorkerType
<1>2. done' = [done EXCEPT ![cur[w]] = @ + 1] /\ done \in [Entry -> Nat]
  BY <1>0 DEF Handle, TypeOK
<1>3. CASE cur[w] = i
  <2>1. w \in InHand(i) /\ InHand(i)' = InHand(i) \ {w} /\ InBatch(i)' = InBatch(i)
    BY <1>0, <1>1, <1>3 DEF InHand, InBatch
  <2>2. AtMark(i)' /\ done'[i] = done[i] + 1
    BY <1>0, <1>1, <1>2, <1>3 DEF AtMark
  <2> QED
    BY <1>0, <2>1, <2>2, Succeeded
<1>4. CASE cur[w] # i
  <2>1. done'[i] = done[i]
    BY <1>2, <1>4
  <2> QED
    BY <1>0, <1>1, <1>4, <2>1, SettlingWorker
<1> QED
  BY <1>3, <1>4

\* A worker that puts its entry down, to acknowledge it, to retry it or for good.
LEMMA WorkerAccount ==
    ASSUME DropInv, TypeOK', AccountInv, NEW w \in Worker, NEW i \in Entry,
           \/ FindStale(w) \/ BuryAck(w) \/ HandlerFails(w) \/ Ack(w)
           \/ EnsureGroup(w) \/ Start(w) \/ Bury(w) \/ Mark(w)
    PROVE  Account(i)'
<1>0. /\ TypeOK /\ RedisType /\ WorkerType /\ Account(i) /\ StreamInv
      /\ excused[i] \in Nat /\ base \in Nat
  BY BusAssumption DEF DropInv, TypeOK, RedisType, AccountInv
<1>1. UNCHANGED <<base, done, excused, batch>> /\ seen \subseteq seen' /\ idle' \subseteq idle
  BY DEF FindStale, BuryAck, HandlerFails, Ack, EnsureGroup, Start, Bury, Mark,
         Acknowledge, redis, ghost
<1>2. cursor' = cursor
  BY DEF FindStale, BuryAck, HandlerFails, Ack, EnsureGroup, Start, Bury, Mark,
         redis, StreamInv, AccountInv, GroupStart
<1>3. Coming(i)' <= Coming(i)
  BY <1>1, <1>2 DEF Coming
<1>4. /\ \A v \in Worker \ {w} : pc'[v] = pc[v] /\ cur'[v] = cur[v]
      /\ pc'[w] \notin {"handle", "mark"}
  <2>1. CASE FindStale(w) \/ BuryAck(w) \/ HandlerFails(w) \/ Ack(w)
    <3>1. Onward(w)
      BY <2>1 DEF FindStale, BuryAck, HandlerFails, Ack
    <3>2. \A v \in Worker \ {w} : cur'[v] = cur[v]
      BY <1>0, <2>1 DEF FindStale, BuryAck, HandlerFails, Ack, WorkerType
    <3> QED
      BY <1>0, <3>1, <3>2, OnwardElsewhere
  <2>2. CASE EnsureGroup(w) \/ Start(w) \/ Mark(w)
    BY <1>0, <2>2 DEF EnsureGroup, Start, Mark, Goto, WorkerType
  <2>3. CASE Bury(w)
    BY <1>0, <2>3 DEF Bury, Goto, WorkerType
  <2> QED
    BY <2>1, <2>2, <2>3
<1>5. pc[w] = "mark" /\ cur[w] = i => i \in seen'
  BY DEF FindStale, BuryAck, HandlerFails, Ack, EnsureGroup, Start, Bury, Mark
<1>6. excused[i] <= excused'[i] /\ base <= base' /\ done'[i] = done[i]
  BY <1>0, <1>1
<1> QED
  BY <1>0, <1>1, <1>3, <1>4, <1>5, <1>6, SettlingWorker

\* A worker that gives its pass up drops what it held; what it had handled and not
\* marked is excused.
LEMMA AbandonAccount ==
    ASSUME DropInv, TypeOK', AccountInv, NEW w \in Worker, NEW i \in Entry,
           NoGroup(w) \/ Crash(w) \/ CommandFails(w) \/ RegistryFails(w)
    PROVE  Account(i)'
<1>0. TypeOK /\ WorkerType /\ Account(i) /\ excused[i] \in Nat /\ base \in Nat
  BY BusAssumption DEF DropInv, TypeOK, RedisType, AccountInv
<1>1. PICK l \in {"ensure", "off"} : Abandon(w, l)
  BY DEF NoGroup, Crash, CommandFails, RegistryFails, Quit
<1>2. UNCHANGED redis /\ done' = done
  BY DEF NoGroup, Crash, CommandFails, RegistryFails, ghost
<1>3. \A v \in Worker \ {w} : batch'[v] = batch[v] /\ pc'[v] = pc[v] /\ cur'[v] = cur[v]
  BY <1>0, <1>1 DEF Abandon, Goto, WorkerType
<1>4. batch'[w] = {} /\ pc'[w] # "handle"
  BY <1>0, <1>1 DEF Abandon, Goto, WorkerType
<1>5. /\ excused[i] <= excused'[i]
      /\ pc[w] = "mark" /\ cur[w] = i => excused[i] < excused'[i]
  <2>1. CASE NoGroup(w) \/ CommandFails(w)
    BY <1>0, <2>1 DEF NoGroup, CommandFails, ghost
  <2>2. CASE Crash(w) \/ RegistryFails(w)
    <3>1. excused'[i] = excused[i] + IF i \in Unmarked(w) THEN 1 ELSE 0
      BY <2>2 DEF Crash, RegistryFails, Excuse
    <3> QED
      BY <1>0, <3>1 DEF Unmarked
  <2> QED
    BY <2>1, <2>2
<1>6. Coming(i)' <= Coming(i) /\ base <= base' /\ (i \in seen => i \in seen') /\ done'[i] = done[i]
  BY <1>0, <1>2 DEF Coming, redis
<1> QED
  BY <1>0, <1>3, <1>4, <1>5, <1>6, SettlingWorker

\* An entry that nobody works on is one whose successes are already explained.
LEMMA NobodyHolds ==
    ASSUME NEW i \in Entry, ~AtWork(i)
    PROVE  /\ InBatch(i) = {} /\ InHand(i) = {} /\ ~AtMark(i)
           /\ Cardinality(InBatch(i)) = 0 /\ Cardinality(InHand(i)) = 0
<1>1. InBatch(i) = {} /\ InHand(i) = {} /\ ~AtMark(i)
  BY DEF AtWork, InBatch, InHand, AtMark
<1> QED
  BY <1>1, FS_EmptySet

LEMMA StaleAccount ==
    ASSUME DropInv, TypeOK', AccountInv, NEW k \in Entry, GrowStale(k), NEW i \in Entry
    PROVE  Account(i)'
<1>0. /\ TypeOK /\ RedisType /\ Account(i) /\ StreamInv
      /\ UNCHANGED <<base, cursor, seen, batch, pc, cur, done>>
      /\ idle' = idle \cup {k} /\ k \in pending
  BY DEF DropInv, TypeOK, AccountInv, GrowStale, worker
<1>1. excused'[i] = excused[i] + IF i \in {j \in {k} : AtWork(j)} THEN 1 ELSE 0
  BY DEF GrowStale, Excuse
<1>2. /\ InBatch(i)' = InBatch(i) /\ InHand(i)' = InHand(i) /\ (AtMark(i)' <=> AtMark(i))
  BY <1>0 DEF InBatch, InHand, AtMark
<1>3. /\ Cardinality(InBatch(i)) \in Nat /\ Cardinality(InHand(i)) \in Nat
      /\ Coming(i) \in {0, 1} /\ Coming(i)' \in {0, 1} /\ done[i] \in Nat /\ excused[i] \in Nat
  <2>1. Coming(i)' \in {0, 1}
    BY DEF Coming
  <2> QED
    BY <1>0, <2>1, CountsAreNumbers
<1>4. Held(i) \in Nat /\ Held(i)' \in Nat /\ Held(i)' <= Held(i) + 1
  BY <1>2, <1>3 DEF Held
<1>5. CASE i = k /\ AtWork(i)
  <2>1. excused'[i] = excused[i] + 1
    BY <1>1, <1>5
  <2> QED
    BY <1>0, <1>2, <1>3, <1>4, <2>1 DEF Account
<1>6. CASE i = k /\ ~AtWork(i)
  <2>1. excused'[i] = excused[i]
    BY <1>1, <1>3, <1>6
  <2>2. Cardinality(InBatch(i)) = 0 /\ Cardinality(InHand(i)) = 0 /\ ~AtMark(i)
    BY <1>6, NobodyHolds
  <2>3. Held(i)' <= 1
    BY <1>2, <1>3, <2>2 DEF Held
  <2>4. i > base
    BY <1>0, <1>6, BusAssumption DEF StreamInv, RedisType, Entry
  <2>5. i \notin seen => done[i] <= excused[i]
    BY <1>0, <2>2, <2>4 DEF Account
  <2> QED
    BY <1>0, <1>2, <1>3, <1>4, <2>1, <2>2, <2>3, <2>5 DEF Account
<1>7. CASE i # k
  <2>1. excused'[i] = excused[i]
    BY <1>1, <1>3, <1>7
  <2>2. Coming(i)' = Coming(i)
    BY <1>0, <1>7 DEF Coming
  <2>3. Held(i)' = Held(i)
    BY <1>2, <2>2 DEF Held
  <2> QED
    BY <1>0, <1>2, <2>1, <2>3 DEF Account
<1> QED
  BY <1>5, <1>6, <1>7

LEMMA RestartAccount ==
    ASSUME DropInv, TypeOK', AccountInv, RestartRedis, NEW i \in Entry
    PROVE  Account(i)'
<1>0. /\ TypeOK /\ RedisType /\ HeldInv /\ Account(i) /\ StreamInv
      /\ i \in Nat /\ base \in Nat /\ last \in Nat /\ cursor \in Nat
      /\ base <= last /\ cursor <= last
  <2>1. TypeOK /\ RedisType /\ HeldInv /\ Account(i) /\ StreamInv
    BY DEF DropInv, TypeOK, AccountInv
  <2> QED
    BY <2>1, BusAssumption DEF RedisType, Entry
<1>1. /\ base' = last /\ cursor' = last /\ idle' = {} /\ seen' = {}
      /\ UNCHANGED <<batch, pc, cur, done>>
  BY DEF RestartRedis, worker
<1>2. excused'[i] = excused[i] + IF AtWork(i) THEN 1 ELSE 0
  BY DEF RestartRedis, Excuse
<1>3. /\ InBatch(i)' = InBatch(i) /\ InHand(i)' = InHand(i) /\ (AtMark(i)' <=> AtMark(i))
  BY <1>1 DEF InBatch, InHand, AtMark
<1>4. /\ Cardinality(InBatch(i)) \in Nat /\ Cardinality(InHand(i)) \in Nat
      /\ Coming(i) \in {0, 1} /\ done[i] \in Nat /\ excused[i] \in Nat
  BY <1>0, CountsAreNumbers
<1>5. CASE i > last
  <2>1. Coming(i)' <= Coming(i)
    BY <1>0, <1>1, <1>5 DEF Coming
  <2>2. i \notin seen
    BY <1>0, <1>5 DEF StreamInv
  <2>3. excused[i] <= excused'[i]
    BY <1>2, <1>4
  <2> QED
    BY <1>0, <1>1, <1>3, <2>1, <2>2, <2>3, Settling
<1>6. CASE ~(i > last)
  <2>1. Coming(i)' = 0
    BY <1>1, <1>6 DEF Coming
  <2>2. Held(i)' = Cardinality(InBatch(i)) + Cardinality(InHand(i))
    BY <1>3, <1>4, <2>1 DEF Held
  <2>3. CASE AtWork(i)
    <3>1. excused'[i] = excused[i] + 1
      BY <1>2, <2>3
    <3>2. Held(i) \in Nat /\ Held(i)' \in Nat /\ Held(i)' <= Held(i)
      BY <1>4, <2>2 DEF Held
    <3>3. done[i] + Held(i) <= 2 + excused[i]
          /\ done[i] + Cardinality(InHand(i)) <= 1 + excused[i]
      BY <1>0 DEF Account
    <3>4. ~(i > base')
      BY <1>1, <1>6
    <3>5. done'[i] = done[i] /\ Cardinality(InHand(i)') = Cardinality(InHand(i))
      BY <1>1, <1>3
    <3> QED
      BY <1>4, <3>1, <3>2, <3>3, <3>4, <3>5 DEF Account
  <2>4. CASE ~AtWork(i)
    <3>1. excused'[i] = excused[i]
      BY <1>2, <1>4, <2>4
    <3>2. Cardinality(InBatch(i)) = 0 /\ Cardinality(InHand(i)) = 0
      BY <2>4, NobodyHolds
    <3>3. Held(i)' = 0 /\ Cardinality(InHand(i)') = 0
      BY <1>3, <2>2, <3>2
    <3>4. done[i] <= 1 + excused[i]
      BY <1>0, <1>4, <3>2 DEF Account
    <3>5. ~(i > base') /\ done'[i] = done[i]
      BY <1>1, <1>6
    <3> QED
      BY <1>4, <3>1, <3>3, <3>4, <3>5 DEF Account
  <2> QED
    BY <2>3, <2>4
<1> QED
  BY <1>5, <1>6

-----------------------------------------------------------------------------
(* The theorem                                                             *)

LEMMA AccountStep == ASSUME DropInv, AccountInv, [Next]_vars PROVE AccountInv'
<1>0. TypeOK /\ TypeOK' /\ StreamInv'
  BY TypeStep, StreamStep DEF DropInv, AccountInv
<1> SUFFICES ASSUME NEW i \in Entry PROVE Account(i)'
  BY <1>0 DEF AccountInv
<1>1. CASE \E w \in Worker : Start(w) \/ WorkerStep(w)
  BY <1>0, <1>1, WorkerAccount, AbandonAccount, ClaimAccount, ReadAccount, TakeUpAccount,
     HandleAccount DEF WorkerStep
<1>2. CASE \E w \in Worker : Crash(w) \/ CommandFails(w) \/ RegistryFails(w)
  BY <1>0, <1>2, AbandonAccount
<1>3. CASE \E k \in Entry : GrowStale(k)
  BY <1>0, <1>3, StaleAccount
<1>4. CASE RestartRedis
  BY <1>0, <1>4, RestartAccount
<1>5. CASE Publish \/ UNCHANGED vars
  <2>1. UNCHANGED <<base, cursor, idle, seen, batch, pc, cur, done, excused>>
    BY <1>5 DEF Publish, vars, redis, worker, ghost
  <2>2. Account(i)
    BY DEF AccountInv
  <2>3. /\ Coming(i)' = Coming(i) /\ InBatch(i)' = InBatch(i) /\ InHand(i)' = InHand(i)
        /\ (AtMark(i)' <=> AtMark(i))
    BY <2>1 DEF Coming, InBatch, InHand, AtMark
  <2>4. Held(i)' = Held(i)
    BY <2>3 DEF Held
  <2> QED
    BY <2>1, <2>2, <2>3, <2>4 DEF Account
<1> QED
  BY <1>1, <1>2, <1>3, <1>4, <1>5 DEF Next

LEMMA AccountInit == Init => AccountInv
<1> SUFFICES ASSUME Init PROVE AccountInv
  OBVIOUS
<1>1. StreamInv
  BY DEF Init, StreamInv
<1>2. ASSUME NEW i \in Entry PROVE Account(i)
  <2>1. /\ InBatch(i) = {} /\ InHand(i) = {} /\ done[i] = 0 /\ excused[i] = 0
        /\ Coming(i) \in {0, 1}
    BY DEF Init, InBatch, InHand, Coming
  <2>2. Cardinality({}) = 0
    BY FS_EmptySet
  <2>3. Held(i) \in {0, 1} /\ Cardinality(InHand(i)) = 0
    BY <2>1, <2>2 DEF Held
  <2> QED
    BY <2>1, <2>3 DEF Account
<1> QED
  BY <1>1, <1>2 DEF AccountInv

\* The handlers of an entry succeed once, and once more for each worker that stopped
\* before its marker, each time the entry went stale in a worker's hands, and each
\* restart of Redis that took the markers: never without one of these.
THEOREM RepeatsExplained == Spec => []EffectsExplained
<1>1. DropInv /\ AccountInv => EffectsExplained
  <2> SUFFICES ASSUME DropInv, AccountInv, NEW i \in Entry
               PROVE  done[i] <= 1 + excused[i]
    BY DEF EffectsExplained
  <2>1. Account(i) /\ TypeOK
    BY DEF AccountInv, DropInv
  <2>2. Cardinality(InHand(i)) \in Nat /\ done[i] \in Nat /\ excused[i] \in Nat
    BY <2>1, CountsAreNumbers
  <2> QED
    BY <2>1, <2>2 DEF Account
<1> QED
  BY <1>1, DropInit, DropInductive, AccountInit, AccountStep, PTL DEF Spec
=============================================================================
