--------------------------- MODULE EventConsumer ---------------------------
(***************************************************************************)
(* workers/event_consumer.py with events/idempotency.py: worker processes  *)
(* that read a Redis stream through one consumer group, claim each event   *)
(* in a Redis key, run process_event up to MAX_RETRIES times, dead-letter  *)
(* what keeps failing, and recover after a crash.                          *)
(*                                                                         *)
(* Every process reads under the same CONSUMER_NAME ("worker-1"), so the   *)
(* group has a single pending list: pel.  A message is a position of the   *)
(* stream.  A Redis call is one atomic step; an exception no handler       *)
(* catches ends the process, which is Crash at that label.                 *)
(***************************************************************************)
EXTENDS Naturals, Sequences, FiniteSets

CONSTANTS Events,          \* event ids
          Workers,         \* operating-system processes running consume_events
          Hanging,         \* events on which process_event may never return
          MAX_RETRIES,     \* workers/config.py
          MaxReplays,      \* bound: manual replays of a dead-lettered event
          MaxCrashes,      \* bound: crashes of worker processes
          MaxRedisErrors   \* bound: failed Redis calls the code survives

ASSUME RetriesAssumption == MAX_RETRIES \in Nat \ {0}
ASSUME HangingAssumption == Hanging \subseteq Events
ASSUME BoundsAssumption == /\ MaxReplays \in Nat
                           /\ MaxCrashes \in Nat
                           /\ MaxRedisErrors \in Nat

VARIABLES
  log,          \* the stream: one event id per entry, never trimmed
  delivered,    \* the group's last delivered entry
  pel,          \* entries delivered and not acknowledged
  stale,        \* those of pel idle for PENDING_RECLAIM_IDLE_MS or longer
  claims,       \* processed_event:<id> of each event
  dead,         \* events on the dead-letter stream
  pc,           \* where each worker is
  todo,         \* the entries a worker has read and not finished
  recovering,   \* is the worker in recover_pending_messages?
  attempt,      \* the attempt counter of handle_message
  completed,    \* history: normal returns of process_event per event
  crashes, redisErrors  \* how much of the bounds is used up

broker == <<log, delivered, pel, stale>>
local  == <<todo, recovering, attempt>>
budget == <<crashes, redisErrors>>
vars   == <<broker, claims, dead, pc, local, completed, budget>>

Claims == {"none", "processing", "done"}
Labels == {"down", "recover", "loop", "check", "takeover", "claim", "skip",
           "process", "hung", "mark", "ack", "release", "bury", "buryAck"}

-----------------------------------------------------------------------------

\* The lowest stream position in S: batches arrive in stream order.
First(S) == CHOOSE m \in S : \A n \in S : m <= n

Current(w)      == First(todo[w])
CurrentEvent(w) == log[Current(w)]

Published == {log[m] : m \in 1..Len(log)}
Copies(e) == {m \in 1..Len(log) : log[m] = e}
Settled(e) == completed[e] > 0 \/ e \in dead

\* A live worker that got past the claim and is not done with the message.
Handling(w) == pc[w] \in {"process", "mark", "ack", "release", "bury", "buryAck"}

Goto(w, label) == pc' = [pc EXCEPT ![w] = label]

\* Leave handle_message: on to the rest of the batch, back to the recovery
\* read, or back to the main loop.
FinishMessage(w) ==
  LET rest == todo[w] \ {Current(w)} IN
  /\ todo' = [todo EXCEPT ![w] = rest]
  /\ Goto(w, IF rest # {} THEN "check" ELSE IF recovering[w] THEN "recover" ELSE "loop")
  /\ UNCHANGED <<recovering, attempt>>

\* xack of the message in hand.
Acknowledge(w) ==
  /\ pel' = pel \ {Current(w)}
  /\ stale' = stale \ {Current(w)}
  /\ UNCHANGED <<log, delivered>>

RedisError == /\ redisErrors < MaxRedisErrors
              /\ redisErrors' = redisErrors + 1
              /\ UNCHANGED crashes

-----------------------------------------------------------------------------

TypeOK ==
  /\ log \in Seq(Events)
  /\ delivered \in 0..Len(log)
  /\ pel \subseteq 1..delivered
  /\ stale \subseteq pel
  /\ claims \in [Events -> Claims]
  /\ dead \subseteq Events
  /\ pc \in [Workers -> Labels]
  /\ todo \in [Workers -> SUBSET (1..delivered)]
  /\ recovering \in [Workers -> BOOLEAN]
  /\ attempt \in [Workers -> 1..MAX_RETRIES]
  /\ completed \in [Events -> Nat]
  /\ crashes \in Nat
  /\ redisErrors \in Nat

Init ==
  /\ log = <<>>
  /\ delivered = 0
  /\ pel = {}
  /\ stale = {}
  /\ claims = [e \in Events |-> "none"]
  /\ dead = {}
  /\ pc = [w \in Workers |-> "down"]
  /\ todo = [w \in Workers |-> {}]
  /\ recovering = [w \in Workers |-> FALSE]
  /\ attempt = [w \in Workers |-> 1]
  /\ completed = [e \in Events |-> 0]
  /\ crashes = 0
  /\ redisErrors = 0

-----------------------------------------------------------------------------
(* The environment: publishers, an operator, the passing of time. *)

AppendToStream(e) ==
  /\ log' = Append(log, e)
  /\ UNCHANGED <<delivered, pel, stale, claims, dead, pc, local, completed, budget>>

\* publish_event gives every event a fresh id.
Publish(e) == e \notin Published /\ AppendToStream(e)

\* An operator puts a dead-lettered event back on the stream.
Replay(e) == /\ e \in dead
             /\ Cardinality(Copies(e)) <= MaxReplays
             /\ AppendToStream(e)

\* A pending message reaches PENDING_RECLAIM_IDLE_MS.  The message a live
\* worker is on does not: no event outlasts WORKER_MAX_EVENT_SECONDS.
Age(m) ==
  /\ m \in pel \ stale
  /\ \A w \in Workers : pc[w] \notin {"down", "recover", "loop", "hung"} => Current(w) # m
  /\ stale' = stale \cup {m}
  /\ UNCHANGED <<log, delivered, pel, claims, dead, pc, local, completed, budget>>

\* A claim reaches CLAIM_TTL_SECONDS or DONE_TTL_SECONDS; both are longer
\* than a live worker may be busy with the event.
ExpireClaim(e) ==
  /\ claims[e] # "none"
  /\ \A w \in Workers : Handling(w) => CurrentEvent(w) # e
  /\ claims' = [claims EXCEPT ![e] = "none"]
  /\ UNCHANGED <<broker, dead, pc, local, completed, budget>>

-----------------------------------------------------------------------------
(* A worker: consume_events, recover_pending_messages, reclaim_stale_messages. *)

\* Planted bug: go straight to the main loop, as before recovery existed.
StartWithoutRecovery(w) ==
  /\ pc[w] = "down"
  /\ Goto(w, "loop")
  /\ UNCHANGED <<broker, claims, dead, local, completed, budget>>

Start(w) ==
  /\ pc[w] = "down"
  /\ Goto(w, "recover")
  /\ recovering' = [recovering EXCEPT ![w] = TRUE]
  /\ UNCHANGED <<broker, claims, dead, todo, attempt, completed, budget>>

\* XREADGROUP from "0": everything pending under our name, its idle time reset.
RecoverPending(w) ==
  /\ pc[w] = "recover"
  /\ pel # {}
  /\ todo' = [todo EXCEPT ![w] = pel]
  /\ stale' = {}
  /\ Goto(w, "check")
  /\ UNCHANGED <<log, delivered, pel, claims, dead, recovering, attempt, completed, budget>>

RecoveryDone(w) ==
  /\ pc[w] = "recover"
  /\ pel = {}
  /\ Goto(w, "loop")
  /\ recovering' = [recovering EXCEPT ![w] = FALSE]
  /\ UNCHANGED <<broker, claims, dead, todo, attempt, completed, budget>>

\* Planted bug: take stale entries over and never handle them.
ReclaimAndForget(w) ==
  /\ pc[w] = "loop"
  /\ stale' = {}
  /\ UNCHANGED <<log, delivered, pel, claims, dead, pc, local, completed, budget>>

\* XAUTOCLAIM of everything idle too long, our own entries included.
ReclaimStale(w) ==
  /\ pc[w] = "loop"
  /\ stale # {}
  /\ todo' = [todo EXCEPT ![w] = stale]
  /\ stale' = {}
  /\ Goto(w, "check")
  /\ UNCHANGED <<log, delivered, pel, claims, dead, recovering, attempt, completed, budget>>

\* XREADGROUP from ">": the next entry nobody was given.
ReadNew(w) ==
  /\ pc[w] = "loop"
  /\ delivered < Len(log)
  /\ delivered' = delivered + 1
  /\ pel' = pel \cup {delivered + 1}
  /\ todo' = [todo EXCEPT ![w] = {delivered + 1}]
  /\ Goto(w, "claim")
  /\ UNCHANGED <<log, stale, claims, dead, recovering, attempt, completed, budget>>

-----------------------------------------------------------------------------
(* A worker: handle_message. *)

\* Planted bug: any claim counts as done, not only DONE.
CheckClaimed(w) ==
  /\ pc[w] = "check"
  /\ Goto(w, IF claims[CurrentEvent(w)] # "none" THEN "skip" ELSE "takeover")
  /\ UNCHANGED <<broker, claims, dead, local, completed, budget>>

\* is_event_done: a recovered message whose event is done is only acked.
CheckDone(w) ==
  /\ pc[w] = "check"
  /\ Goto(w, IF claims[CurrentEvent(w)] = "done" THEN "skip" ELSE "takeover")
  /\ UNCHANGED <<broker, claims, dead, local, completed, budget>>

BeginAttempts(w) == /\ attempt' = [attempt EXCEPT ![w] = 1]
                    /\ Goto(w, "process")
                    /\ UNCHANGED <<todo, recovering>>

TakeOverClaim(w) ==
  /\ pc[w] = "takeover"
  /\ claims' = [claims EXCEPT ![CurrentEvent(w)] = "processing"]
  /\ BeginAttempts(w)
  /\ UNCHANGED <<broker, dead, completed, budget>>

\* SET NX: only a free key is claimed, any other event is skipped.
TryClaim(w) ==
  /\ pc[w] = "claim"
  /\ IF claims[CurrentEvent(w)] = "none"
       THEN /\ claims' = [claims EXCEPT ![CurrentEvent(w)] = "processing"]
            /\ BeginAttempts(w)
       ELSE /\ Goto(w, "skip")
            /\ UNCHANGED <<claims, local>>
  /\ UNCHANGED <<broker, dead, completed, budget>>

AckSkipped(w) ==
  /\ pc[w] = "skip"
  /\ Acknowledge(w)
  /\ FinishMessage(w)
  /\ UNCHANGED <<claims, dead, completed, budget>>

\* process_event returns: its effects are committed.
ProcessReturns(w) ==
  /\ pc[w] = "process"
  /\ completed' = [completed EXCEPT ![CurrentEvent(w)] = @ + 1]
  /\ Goto(w, "mark")
  /\ UNCHANGED <<broker, claims, dead, local, budget>>

\* Planted bug: attempts that start over when used up.
RetryForever(w) ==
  /\ attempt' = [attempt EXCEPT ![w] = IF @ < MAX_RETRIES THEN @ + 1 ELSE 1]
  /\ Goto(w, "process")
  /\ UNCHANGED <<todo, recovering>>

\* The except branch: try again, or give up after the last attempt.
FailAttempt(w) ==
  /\ IF attempt[w] < MAX_RETRIES
       THEN attempt' = [attempt EXCEPT ![w] = @ + 1] /\ Goto(w, "process")
       ELSE attempt' = attempt /\ Goto(w, "release")
  /\ UNCHANGED <<todo, recovering>>

ProcessRaises(w) ==
  /\ pc[w] = "process"
  /\ FailAttempt(w)
  /\ UNCHANGED <<broker, claims, dead, completed, budget>>

ProcessHangs(w) ==
  /\ pc[w] = "process"
  /\ CurrentEvent(w) \in Hanging
  /\ Goto(w, "hung")
  /\ UNCHANGED <<broker, claims, dead, local, completed, budget>>

\* mark_event_done swallows its own failure, leaving the claim as it was.
MarkDone(w) ==
  /\ pc[w] = "mark"
  /\ Goto(w, "ack")
  /\ \/ claims' = [claims EXCEPT ![CurrentEvent(w)] = "done"] /\ UNCHANGED budget
     \/ RedisError /\ UNCHANGED claims
  /\ UNCHANGED <<broker, dead, local, completed>>

\* Planted bug: no break out of the attempts after a success.
AckWithoutBreak(w) ==
  /\ pc[w] = "ack"
  /\ Acknowledge(w)
  /\ FailAttempt(w)
  /\ UNCHANGED <<claims, dead, completed, budget>>

AckProcessed(w) ==
  /\ pc[w] = "ack"
  /\ Acknowledge(w)
  /\ FinishMessage(w)
  /\ UNCHANGED <<claims, dead, completed, budget>>

\* xack raises, with or without having been applied: the attempt has failed.
AckRaises(w) ==
  /\ pc[w] = "ack"
  /\ RedisError
  /\ UNCHANGED broker \/ Acknowledge(w)
  /\ FailAttempt(w)
  /\ UNCHANGED <<claims, dead, completed>>

\* Planted bug: give up on an event without releasing its claim.
KeepClaim(w) ==
  /\ pc[w] = "release"
  /\ Goto(w, "bury")
  /\ UNCHANGED <<broker, claims, dead, local, completed, budget>>

ReleaseClaim(w) ==
  /\ pc[w] = "release"
  /\ claims' = [claims EXCEPT ![CurrentEvent(w)] = "none"]
  /\ Goto(w, "bury")
  /\ UNCHANGED <<broker, dead, local, completed, budget>>

\* Planted bug: a failed write to the dead-letter stream is swallowed.
SwallowDeadLetter(w) ==
  /\ pc[w] = "bury"
  /\ Goto(w, "buryAck")
  /\ UNCHANGED <<broker, claims, dead, local, completed, budget>>

SendToDeadLetter(w) ==
  /\ pc[w] = "bury"
  /\ dead' = dead \cup {CurrentEvent(w)}
  /\ Goto(w, "buryAck")
  /\ UNCHANGED <<broker, claims, local, completed, budget>>

AckDead(w) ==
  /\ pc[w] = "buryAck"
  /\ Acknowledge(w)
  /\ FinishMessage(w)
  /\ UNCHANGED <<claims, dead, completed, budget>>

-----------------------------------------------------------------------------
(* The process dies: the container stops, or an exception leaves consume_events. *)

Die(w) == /\ Goto(w, "down")
          /\ todo' = [todo EXCEPT ![w] = {}]
          /\ recovering' = [recovering EXCEPT ![w] = FALSE]
          /\ UNCHANGED <<broker, claims, dead, attempt, completed, redisErrors>>

Crash(w) == /\ pc[w] \notin {"down", "hung"}
            /\ crashes < MaxCrashes
            /\ crashes' = crashes + 1
            /\ Die(w)

\* The heartbeat stops, the container turns unhealthy, autoheal restarts it.
KillHung(w) == /\ pc[w] = "hung"
               /\ Die(w)
               /\ UNCHANGED crashes

HandleMessage(w) ==
  \/ CheckDone(w) \/ TakeOverClaim(w) \/ TryClaim(w) \/ AckSkipped(w)
  \/ ProcessReturns(w) \/ ProcessRaises(w) \/ ProcessHangs(w)
  \/ MarkDone(w) \/ AckProcessed(w) \/ AckRaises(w)
  \/ ReleaseClaim(w) \/ SendToDeadLetter(w) \/ AckDead(w)

ConsumeEvents(w) ==
  RecoverPending(w) \/ RecoveryDone(w) \/ ReclaimStale(w) \/ ReadNew(w)

Worker(w) == ConsumeEvents(w) \/ HandleMessage(w)

Next ==
  \/ \E e \in Events : Publish(e) \/ Replay(e) \/ ExpireClaim(e)
  \/ \E m \in pel : Age(m)
  \/ \E w \in Workers : Start(w) \/ Worker(w) \/ Crash(w) \/ KillHung(w)

Spec == Init /\ [][Next]_vars

\* A worker that can take a step takes it; "restart: unless-stopped" starts a
\* dead one again and autoheal ends a hung one.
Fairness == \A w \in Workers : /\ WF_vars(Worker(w))
                               /\ WF_vars(Start(w))
                               /\ WF_vars(KillHung(w))

FairSpec == Spec /\ Fairness

-----------------------------------------------------------------------------
(* Properties.  Those of the first group are the deployment's, one worker     *)
(* container (docker-compose.yml); README.md says what a second one breaks.   *)

\* One worker process.
OneWorker == \A u, v \in Workers : u = v

\* However the worker crashes and recovers, only the entry it read last can be
\* pending: unfinished work comes before new work, and XAUTOCLAIM never finds
\* an entry the recovery read did not.
OneAtATime == pel \subseteq {delivered}

\* No event is lost: an entry that was delivered and acknowledged has an event
\* that was processed to the end or is on the dead-letter stream.
NoEventLost == \A m \in (1..delivered) \ pel : Settled(log[m])

\* A claim makes a worker skip only an event that was processed: the claim an
\* unfinished attempt left behind (a crash, a dead-lettering) never does.
SkipsOnlyProcessed ==
  \A w \in Workers : pc[w] = "skip" => completed[CurrentEvent(w)] > 0

\* Each extra time an event is processed has a cause: a manual replay, a crash,
\* or a Redis error.  Without those it is processed once.
DuplicatesHaveACause ==
  \A e \in Published : completed[e] <= Cardinality(Copies(e)) + crashes + redisErrors

\* Nothing that was processed ends up on the dead-letter stream, unless a
\* manual replay, a crash or a Redis error came between.
ProcessedNotBuried ==
  \A e \in dead : completed[e] = 0 \/ Cardinality(Copies(e)) > 1 \/ crashes + redisErrors > 0

Open == pel \cup (delivered + 1)..Len(log)
Processed == {e \in Events : completed[e] > 0}

Delivery == INSTANCE EventDelivery WITH open <- Open, processed <- Processed

\* The worker implements the delivery promise of EventDelivery.
ImplementsDelivery == Delivery!Spec

\* Every published event is eventually processed or dead-lettered.
EveryEventSettled == \A e \in Events : (e \in Published) ~> Settled(e)

\* With any number of workers, each entry is handled by one at a time
\* (README.md: "two consumer instances processing the same stream can't
\* double-handle one event").
OneHandlerPerEvent ==
  \A u, v \in Workers :
    u # v /\ Handling(u) /\ Handling(v) => CurrentEvent(u) # CurrentEvent(v)
=============================================================================
