------------------------------ MODULE EventBus ------------------------------
(***************************************************************************)
(* The Redis Streams bus with one consumer group and the workers that      *)
(* consume it.  An action is one Redis command or one run of an entry's    *)
(* handlers; between any two of them other workers run, a worker may       *)
(* crash, a command may fail, an entry may go stale, Redis may restart.    *)
(*                                                                         *)
(* Redis keeps nothing across a restart (--appendonly no --save "").       *)
(* Its commands are external; what they do is modelled from how the bus    *)
(* uses them.  Entries are numbered in stream order and each carries an    *)
(* event of its own; trimming and the expiry of markers are left out.      *)
(***************************************************************************)
EXTENDS Naturals, Sequences, FiniteSets

CONSTANTS
    Worker,         \* processes running RedisEventBus.run
    MaxEntry,       \* bound on the entries published
    Undecodable,    \* entries whose payload does not validate
    Unhandled,      \* entries no handler is subscribed to
    Count,          \* entries a pass reads or reclaims at most
    MaxAttempts,    \* max_delivery_attempts
    MaxFaults,      \* bound on crashes, failed commands and restarts of Redis
    MaxRestarts     \* bound on the restarts among them

Entry == 1..MaxEntry

ASSUME BusAssumption ==
    /\ MaxEntry \in Nat /\ MaxFaults \in Nat /\ MaxRestarts \in Nat
    /\ Count \in Nat \ {0} /\ MaxAttempts \in Nat \ {0}
    /\ Undecodable \subseteq Entry /\ Unhandled \subseteq Entry
    /\ Undecodable \cap Unhandled = {}
    /\ IsFiniteSet(Worker)

VARIABLES
    \* in Redis
    base,       \* entries up to here were wiped by a restart
    last,       \* entries appended so far
    group,      \* whether the consumer group exists
    cursor,     \* the last entry the group delivered
    pending,    \* the group's pending entries
    attempts,   \* times_delivered of each
    idle,       \* the pending entries that are past the reclaim threshold
    seen,       \* the group's duplicate-suppression markers
    dead,       \* the dead-letter stream
    \* in each worker
    pc,         \* what it does next
    ready,      \* _groups_ready: it remembers having created the group
    exhausted,  \* entries a pass found past the attempt cap
    retryable,  \* entries a pass found to claim
    batch,      \* entries delivered to this pass and not yet processed
    reclaiming, \* whether the pass is still at old entries, new ones coming after
    cur,        \* the entry being processed
    \* kept for the properties
    done,       \* how often the handlers of an entry all succeeded
    excused,    \* how often something explains another run of them
    faults, restarts

redis  == <<base, last, group, cursor, pending, attempts, idle, seen, dead>>
worker == <<pc, ready, exhausted, retryable, batch, reclaiming, cur>>
ghost  == <<done, excused, faults, restarts>>
vars   == <<redis, worker, ghost>>

Label == {"off", "ensure", "pending", "bury", "buryAck", "claim", "read",
          "entry", "handle", "mark", "ack"}

Stream == (base + 1)..last

RedisType ==
    /\ base \in 0..MaxEntry /\ last \in base..MaxEntry /\ cursor \in base..last
    /\ group \in BOOLEAN
    /\ pending \subseteq Entry /\ idle \subseteq pending
    /\ attempts \in [Entry -> Nat]
    /\ seen \subseteq Entry /\ dead \subseteq Entry

WorkerType ==
    /\ pc \in [Worker -> Label]
    /\ ready \in [Worker -> BOOLEAN]
    /\ exhausted \in [Worker -> SUBSET Entry]
    /\ retryable \in [Worker -> SUBSET Entry]
    /\ batch \in [Worker -> SUBSET Entry]
    /\ reclaiming \in [Worker -> BOOLEAN]
    /\ cur \in [Worker -> Entry \cup {0}]

TypeOK ==
    /\ RedisType
    /\ WorkerType
    /\ done \in [Entry -> Nat] /\ excused \in [Entry -> Nat]
    /\ faults \in Nat /\ restarts \in Nat

Init ==
    /\ base = 0 /\ last = 0 /\ cursor = 0 /\ group = FALSE
    /\ pending = {} /\ idle = {} /\ seen = {} /\ dead = {}
    /\ attempts = [i \in Entry |-> 0]
    /\ pc = [w \in Worker |-> "off"]
    /\ ready = [w \in Worker |-> FALSE]
    /\ exhausted = [w \in Worker |-> {}]
    /\ retryable = [w \in Worker |-> {}]
    /\ batch = [w \in Worker |-> {}]
    /\ reclaiming = [w \in Worker |-> FALSE]
    /\ cur = [w \in Worker |-> 0]
    /\ done = [i \in Entry |-> 0] /\ excused = [i \in Entry |-> 0]
    /\ faults = 0 /\ restarts = 0

-----------------------------------------------------------------------------
(* Helpers                                                                 *)

IsLeast(i, S) == i \in S /\ \A j \in S : i <= j

\* The first n members of S.
FirstOf(S, n) == {i \in S : Cardinality({j \in S : j < i}) < n}

Goto(w, label) == pc' = [pc EXCEPT ![w] = label]

\* The pass goes on with what it has left, in the order the code takes it up.
Onward(w) ==
    Goto(w, IF exhausted'[w] # {} THEN "bury"
            ELSE IF retryable'[w] # {} THEN "claim"
            ELSE IF batch'[w] # {} THEN "entry"
            ELSE IF reclaiming'[w] THEN "read" ELSE "ensure")

\* The pass is given up: what it had not acknowledged stays pending.
Abandon(w, label) ==
    /\ Goto(w, label)
    /\ exhausted' = [exhausted EXCEPT ![w] = {}]
    /\ retryable' = [retryable EXCEPT ![w] = {}]
    /\ batch' = [batch EXCEPT ![w] = {}]
    /\ reclaiming' = [reclaiming EXCEPT ![w] = FALSE]
    /\ cur' = [cur EXCEPT ![w] = 0]

\* run returns, or the process is gone.
Quit(w) == Abandon(w, "off") /\ ready' = [ready EXCEPT ![w] = FALSE]

Excuse(S) == excused' = [i \in Entry |-> excused[i] + IF i \in S THEN 1 ELSE 0]

\* Handled, and not yet marked as handled.
Unmarked(w) == IF pc[w] = "mark" THEN {cur[w]} ELSE {}

-----------------------------------------------------------------------------
(* Producers                                                               *)

\* publish, without a dedupe key, as every producer in the repository calls it.
Publish ==
    /\ last < MaxEntry
    /\ last' = last + 1
    /\ UNCHANGED <<base, group, cursor, pending, attempts, idle, seen, dead, worker, ghost>>

-----------------------------------------------------------------------------
(* A pass: consume_once                                                    *)

Start(w) ==
    /\ pc[w] = "off"
    /\ Goto(w, "ensure")
    /\ UNCHANGED <<redis, ready, exhausted, retryable, batch, reclaiming, cur, ghost>>

\* Mutant of GroupStart: the default of Redis, which skips the backlog.
GroupStartTail == last

\* Mutant of GroupStart: one past the end.
GroupStartPast == last + 1

\* Where a new group starts reading: the beginning of the stream.
GroupStart == base

\* ensure_group: sent once per process; BUSYGROUP is success.
EnsureGroup(w) ==
    /\ pc[w] = "ensure"
    /\ Goto(w, "pending")
    /\ ready' = [ready EXCEPT ![w] = TRUE]
    /\ IF ready[w] \/ group
       THEN UNCHANGED <<group, cursor>>
       ELSE group' = TRUE /\ cursor' = GroupStart
    /\ UNCHANGED <<base, last, pending, attempts, idle, seen, dead,
                   exhausted, retryable, batch, reclaiming, cur, ghost>>

\* Mutant of Exhausted: one delivery too many.
ExhaustedLate(i) == attempts[i] > MaxAttempts

Exhausted(i) == attempts[i] >= MaxAttempts

\* Mutant of Stale: nothing abandoned is ever found.
StaleNone == {}

\* What XPENDING reports to a pass.
Stale == FirstOf(idle, Count)

FindStale(w) ==
    /\ pc[w] = "pending"
    /\ group
    /\ exhausted' = [exhausted EXCEPT ![w] = {i \in Stale : Exhausted(i)}]
    /\ retryable' = [retryable EXCEPT ![w] = {i \in Stale : ~Exhausted(i)}]
    /\ reclaiming' = [reclaiming EXCEPT ![w] = TRUE]
    /\ UNCHANGED batch
    /\ Onward(w)
    /\ UNCHANGED <<redis, ready, cur, ghost>>

\* _dead_letter: append to the dead-letter stream, then acknowledge.
Bury(w) ==
    /\ pc[w] = "bury"
    /\ \E i \in exhausted[w] :
          /\ IsLeast(i, exhausted[w])
          /\ dead' = dead \cup {i}
          /\ cur' = [cur EXCEPT ![w] = i]
    /\ Goto(w, "buryAck")
    /\ UNCHANGED <<base, last, group, cursor, pending, attempts, idle, seen,
                   ready, exhausted, retryable, batch, reclaiming, ghost>>

\* XACK; without the group it does nothing.
Acknowledge(i) ==
    /\ pending' = pending \ {i}
    /\ idle' = idle \ {i}

BuryAck(w) ==
    /\ pc[w] = "buryAck"
    /\ Acknowledge(cur[w])
    /\ exhausted' = [exhausted EXCEPT ![w] = @ \ {cur[w]}]
    /\ cur' = [cur EXCEPT ![w] = 0]
    /\ UNCHANGED <<retryable, batch, reclaiming>>
    /\ Onward(w)
    /\ UNCHANGED <<base, last, group, cursor, attempts, seen, dead, ready, ghost>>

\* XCLAIM checks the threshold again, so one stale entry goes to one worker.
Claim(w) ==
    /\ pc[w] = "claim"
    /\ group
    /\ LET claimed == retryable[w] \cap idle
       IN  /\ attempts' = [i \in Entry |-> attempts[i] + IF i \in claimed THEN 1 ELSE 0]
           /\ idle' = idle \ claimed
           /\ batch' = [batch EXCEPT ![w] = claimed]
    /\ retryable' = [retryable EXCEPT ![w] = {}]
    /\ UNCHANGED <<exhausted, reclaiming>>
    /\ Onward(w)
    /\ UNCHANGED <<base, last, group, cursor, pending, seen, dead, ready, cur, ghost>>

\* XREADGROUP ">": the next entries, or none within the block time.
Read(w) ==
    /\ pc[w] = "read"
    /\ group
    /\ LET upto  == IF cursor + Count <= last THEN cursor + Count ELSE last
           fresh == (cursor + 1)..upto
       IN  /\ cursor' = upto
           /\ pending' = pending \cup fresh
           /\ attempts' = [i \in Entry |-> IF i \in fresh THEN 1 ELSE attempts[i]]
           /\ batch' = [batch EXCEPT ![w] = fresh]
    /\ reclaiming' = [reclaiming EXCEPT ![w] = FALSE]
    /\ UNCHANGED <<exhausted, retryable>>
    /\ Onward(w)
    /\ UNCHANGED <<base, last, group, idle, seen, dead, ready, cur, ghost>>

\* NOGROUP is an error of the transport: back off and start over.
NoGroup(w) ==
    /\ pc[w] \in {"pending", "claim", "read"}
    /\ ~group
    /\ Abandon(w, "ensure")
    /\ UNCHANGED <<redis, ready, ghost>>

-----------------------------------------------------------------------------
(* One delivery: _process                                                  *)

\* Mutant of Suppressed: the marker is not looked up.
SuppressedNever(i) == FALSE

Suppressed(i) == i \in seen

\* Decode, find the handlers, look up the marker.
TakeUp(w) ==
    /\ pc[w] = "entry"
    /\ \E i \in batch[w] :
          /\ IsLeast(i, batch[w])
          /\ batch' = [batch EXCEPT ![w] = @ \ {i}]
          /\ IF i \in Undecodable
             THEN /\ exhausted' = [exhausted EXCEPT ![w] = {i}]
                  /\ Goto(w, "bury")
                  /\ UNCHANGED cur
             ELSE /\ cur' = [cur EXCEPT ![w] = i]
                  /\ Goto(w, IF i \in Unhandled \/ Suppressed(i) THEN "ack" ELSE "handle")
                  /\ UNCHANGED exhausted
    /\ UNCHANGED <<redis, ready, retryable, reclaiming, ghost>>

Handle(w) ==
    /\ pc[w] = "handle"
    /\ done' = [done EXCEPT ![cur[w]] = @ + 1]
    /\ Goto(w, "mark")
    /\ UNCHANGED <<redis, ready, exhausted, retryable, batch, reclaiming, cur,
                   excused, faults, restarts>>

\* A handler raises: not acknowledged, the pass goes on.
HandlerFails(w) ==
    /\ pc[w] = "handle"
    /\ cur' = [cur EXCEPT ![w] = 0]
    /\ UNCHANGED <<exhausted, retryable, batch, reclaiming>>
    /\ Onward(w)
    /\ UNCHANGED <<redis, ready, ghost>>

Mark(w) ==
    /\ pc[w] = "mark"
    /\ seen' = seen \cup {cur[w]}
    /\ Goto(w, "ack")
    /\ UNCHANGED <<base, last, group, cursor, pending, attempts, idle, dead,
                   ready, exhausted, retryable, batch, reclaiming, cur, ghost>>

Ack(w) ==
    /\ pc[w] = "ack"
    /\ Acknowledge(cur[w])
    /\ cur' = [cur EXCEPT ![w] = 0]
    /\ UNCHANGED <<exhausted, retryable, batch, reclaiming>>
    /\ Onward(w)
    /\ UNCHANGED <<base, last, group, cursor, attempts, seen, dead, ready, ghost>>

-----------------------------------------------------------------------------
(* Time and faults                                                         *)

\* A worker still has the entry to process, or has not marked it yet.
AtWork(i) == \E w \in Worker : \/ i \in batch[w]
                               \/ cur[w] = i /\ pc[w] \in {"handle", "mark"}

\* An entry stays unacknowledged past the threshold, its worker alive or not.
GrowStale(i) ==
    /\ i \in pending \ idle
    /\ idle' = idle \cup {i}
    /\ Excuse({j \in {i} : AtWork(j)})
    /\ UNCHANGED <<base, last, group, cursor, pending, attempts, seen, dead, worker,
                   done, faults, restarts>>

Fault == faults < MaxFaults /\ faults' = faults + 1

Crash(w) ==
    /\ pc[w] # "off"
    /\ Fault
    /\ Excuse(Unmarked(w))
    /\ Quit(w)
    /\ UNCHANGED <<redis, done, restarts>>

\* A command fails under _guard: ProviderUnavailable, which run survives.
CommandFails(w) ==
    /\ pc[w] \in {"ensure", "pending", "bury", "buryAck", "claim", "read", "ack"}
    /\ Fault
    /\ Abandon(w, "ensure")
    /\ UNCHANGED <<redis, ready, done, excused, restarts>>

\* A command of the registry fails: no guard turns it into what run survives.
RegistryFails(w) ==
    /\ \/ pc[w] = "mark"
       \/ pc[w] = "entry" /\ \E i \in batch[w] \ (Undecodable \cup Unhandled) :
                                IsLeast(i, batch[w])
    /\ Fault
    /\ Excuse(Unmarked(w))
    /\ Quit(w)
    /\ UNCHANGED <<redis, done, restarts>>

\* Redis comes back empty, markers and all; the workers know nothing of it.
RestartRedis ==
    /\ Fault
    /\ restarts < MaxRestarts
    /\ restarts' = restarts + 1
    /\ base' = last /\ cursor' = last /\ group' = FALSE
    /\ pending' = {} /\ idle' = {} /\ seen' = {} /\ dead' = {}
    /\ attempts' = [i \in Entry |-> 0]
    /\ Excuse({i \in Entry : AtWork(i)})
    /\ UNCHANGED <<last, worker, done>>

-----------------------------------------------------------------------------
WorkerStep(w) ==
    \/ EnsureGroup(w) \/ FindStale(w) \/ Bury(w) \/ BuryAck(w) \/ Claim(w) \/ Read(w)
    \/ NoGroup(w) \/ TakeUp(w) \/ Handle(w) \/ HandlerFails(w) \/ Mark(w) \/ Ack(w)

Next ==
    \/ Publish
    \/ \E w \in Worker : \/ Start(w) \/ WorkerStep(w)
                         \/ Crash(w) \/ CommandFails(w) \/ RegistryFails(w)
    \/ \E i \in Entry : GrowStale(i)
    \/ RestartRedis

Spec == Init /\ [][Next]_vars

\* A worker that runs keeps stepping, and time passes.
FairSpec ==
    /\ Spec
    /\ \A w \in Worker : WF_vars(WorkerStep(w))
    /\ \A i \in Entry : WF_vars(GrowStale(i))

-----------------------------------------------------------------------------
(* Properties                                                              *)

\* No entry vanishes: what the group was given it still has pending, or its handlers
\* all succeeded, or it is in the dead-letter stream, or nobody subscribed to it;
\* through failing handlers, lost commands, crashes and claims that race.
NothingDropped ==
    \A i \in (base + 1)..cursor :
        i \in pending \/ i \in seen \/ i \in dead \/ i \in Unhandled

\* The handlers of an entry succeed a second time only when something explains it: a
\* worker stopped between its handlers and the marker, or the entry went stale, or
\* Redis lost the markers, while a worker still had it to process.
EffectsExplained == \A i \in Entry : done[i] <= 1 + excused[i]

\* A poison entry is not redelivered for ever: beyond the cap there is at most one
\* delivery for each other worker that had looked before the cap was reached.
AttemptsBounded ==
    \A i \in Entry : attempts[i] < MaxAttempts + Cardinality(Worker)

\* Somebody starts a worker whenever none runs.
Staffed == WF_vars(\E w \in Worker : (\A v \in Worker : pc[v] = "off") /\ Start(w))

Settled(i) == i \in seen \/ i \in dead \/ (i \in Unhandled /\ i \notin pending)

\* Every entry is settled in the end: handled, buried or of no interest to the group;
\* if Redis restarts, provided the group is created again and for what is published
\* from then on.
EverySettled ==
    (Staffed /\ []<>group) =>
        \A i \in Entry : (i \in Stream) ~> (i \notin Stream \/ (i <= cursor /\ Settled(i)))

\* "A worker should survive a Redis restart": while somebody runs workers, a group
\* that is gone is there again sooner or later.
WorkersRecover == Staffed => (~group ~> group)
=============================================================================
