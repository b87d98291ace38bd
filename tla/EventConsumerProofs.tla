------------------------ MODULE EventConsumerProofs ------------------------
(***************************************************************************)
(* What holds of EventConsumer for every set of events, any number of      *)
(* crashes, replays and Redis errors: type correctness with any number of  *)
(* workers, and with the deployed single worker no lost event, one pending *)
(* entry at a time, and skips of processed events only.                    *)
(***************************************************************************)
EXTENDS EventConsumer, FiniteSetTheorems, WellFoundedInduction, TLAPS

\* Every non-empty set of stream positions has a first one.
LEMMA FirstExists ==
  ASSUME NEW S \in SUBSET Nat, S # {}
  PROVE  /\ First(S) \in S
         /\ \A n \in S : First(S) <= n
<1> DEFINE R == OpToRel(<, Nat)
<1>1. \E x \in S : \A y \in S : ~ (<<y, x>> \in R)
  <2>1. IsWellFoundedOn(R, Nat)
    BY NatLessThanWellFounded
  <2>2. QED
    BY <2>1, WFMin
<1>2. \A x, y \in Nat : <<y, x>> \in R <=> y < x
  BY DEF OpToRel
<1> HIDE DEF R
<1>3. PICK x \in S : \A y \in S : ~ (<<y, x>> \in R)
  BY <1>1
<1>4. \A y \in S : ~ (y < x)
  BY <1>2, <1>3, Zenon
<1>5. \A y \in S : x <= y
  BY <1>4, SMT
<1>6. QED
  BY <1>5 DEF First

-----------------------------------------------------------------------------
(* Type correctness, for any number of workers. *)

AtRest == {"down", "recover", "loop"}

\* A worker in handle_message has a message in hand.
Busy == \A w \in Workers : pc[w] \notin AtRest => todo[w] # {}

TInv == TypeOK /\ Busy

LEMMA CurrentType ==
  ASSUME TInv, NEW w \in Workers, pc[w] \notin AtRest
  PROVE  /\ Current(w) \in todo[w]
         /\ Current(w) \in 1..delivered
         /\ CurrentEvent(w) \in Events
<1>1. todo[w] \in SUBSET Nat /\ todo[w] # {} /\ todo[w] \subseteq 1..delivered
  BY DEF TInv, TypeOK, Busy
<1>2. Current(w) \in todo[w]
  BY <1>1, FirstExists DEF Current
<1>3. QED
  BY <1>1, <1>2 DEF TInv, TypeOK, CurrentEvent

LEMMA BeginAttemptsType ==
  ASSUME TInv, NEW w \in Workers, BeginAttempts(w)
  PROVE  attempt' \in [Workers -> 1..MAX_RETRIES] /\ pc' \in [Workers -> Labels]
<1>1. 1 \in 1..MAX_RETRIES
  BY RetriesAssumption
<1>2. QED
  BY <1>1 DEF TInv, TypeOK, BeginAttempts, Goto, Labels

LEMMA FailAttemptType ==
  ASSUME TInv, NEW w \in Workers, FailAttempt(w)
  PROVE  attempt' \in [Workers -> 1..MAX_RETRIES] /\ pc' \in [Workers -> Labels]
<1>1. pc' \in [Workers -> Labels]
  BY DEF TInv, TypeOK, FailAttempt, Goto, Labels
<1>2. CASE attempt[w] < MAX_RETRIES
  <2>1. attempt[w] + 1 \in 1..MAX_RETRIES
    BY <1>2, RetriesAssumption DEF TInv, TypeOK
  <2>2. attempt' = [attempt EXCEPT ![w] = attempt[w] + 1]
    BY <1>2 DEF FailAttempt
  <2>3. QED
    BY <1>1, <2>1, <2>2 DEF TInv, TypeOK
<1>3. CASE ~ (attempt[w] < MAX_RETRIES)
  BY <1>1, <1>3 DEF TInv, TypeOK, FailAttempt
<1>4. QED
  BY <1>2, <1>3

\* The type and the hands of the workers after a worker's step.
LEMMA TypeStep ==
  ASSUME TInv, [Next]_vars
  PROVE  TInv'
<1> USE RetriesAssumption DEF TInv, TypeOK, Busy, AtRest, Labels, Claims, Goto,
        broker, local, budget, vars
<1>1. ASSUME NEW e \in Events, AppendToStream(e)
      PROVE  TInv'
  BY <1>1 DEF AppendToStream
<1>2. ASSUME NEW e \in Events, ExpireClaim(e)
      PROVE  TInv'
  BY <1>2 DEF ExpireClaim
<1>3. ASSUME NEW m \in pel, Age(m)
      PROVE  TInv'
  BY <1>3 DEF Age
<1>4. ASSUME NEW w \in Workers, Start(w)
      PROVE  TInv'
  BY <1>4 DEF Start
<1>5. ASSUME NEW w \in Workers, RecoverPending(w)
      PROVE  TInv'
  BY <1>5 DEF RecoverPending
<1>6. ASSUME NEW w \in Workers, RecoveryDone(w)
      PROVE  TInv'
  BY <1>6 DEF RecoveryDone
<1>7. ASSUME NEW w \in Workers, ReclaimStale(w)
      PROVE  TInv'
  BY <1>7 DEF ReclaimStale
<1>8. ASSUME NEW w \in Workers, ReadNew(w)
      PROVE  TInv'
  <2>1. delivered' \in 0..Len(log) /\ delivered' = delivered + 1 /\ delivered \in Nat
    BY <1>8 DEF ReadNew
  <2>2. todo' \in [Workers -> SUBSET (1..delivered')]
    BY <1>8, <2>1 DEF ReadNew
  <2>3. pel' \subseteq 1..delivered' /\ todo'[w] # {}
    BY <1>8, <2>1 DEF ReadNew
  <2>4. QED
    BY <1>8, <2>1, <2>2, <2>3 DEF ReadNew
<1>9. ASSUME NEW w \in Workers, CheckDone(w)
      PROVE  TInv'
  BY <1>9 DEF CheckDone
<1>10. ASSUME NEW w \in Workers, TakeOverClaim(w)
      PROVE  TInv'
  <2>1. claims' \in [Events -> Claims]
    BY <1>10 DEF TakeOverClaim
  <2>2. attempt' \in [Workers -> 1..MAX_RETRIES] /\ pc' \in [Workers -> Labels]
    BY <1>10 DEF TakeOverClaim, BeginAttempts
  <2>3. QED
    BY <1>10, <2>1, <2>2 DEF TakeOverClaim, BeginAttempts
<1>11. ASSUME NEW w \in Workers, TryClaim(w)
      PROVE  TInv'
  <2>1. claims' \in [Events -> Claims]
    BY <1>11 DEF TryClaim
  <2>2. attempt' \in [Workers -> 1..MAX_RETRIES] /\ pc' \in [Workers -> Labels]
    <3>1. CASE claims[CurrentEvent(w)] = "none"
      BY <1>11, <3>1, BeginAttemptsType DEF TryClaim
    <3>2. CASE claims[CurrentEvent(w)] # "none"
      BY <1>11, <3>2 DEF TryClaim
    <3>3. QED
      BY <3>1, <3>2
  <2>3. QED
    BY <1>11, <2>1, <2>2 DEF TryClaim, BeginAttempts
<1>12. ASSUME NEW w \in Workers, AckSkipped(w)
      PROVE  TInv'
  BY <1>12 DEF AckSkipped, Acknowledge, FinishMessage
<1>13. ASSUME NEW w \in Workers, ProcessReturns(w)
      PROVE  TInv'
  <2>1. CurrentEvent(w) \in Events
    BY <1>13, CurrentType DEF ProcessReturns
  <2>2. completed' = [completed EXCEPT ![CurrentEvent(w)] = completed[CurrentEvent(w)] + 1]
    BY <1>13 DEF ProcessReturns
  <2>3. completed' \in [Events -> Nat]
    BY <2>1, <2>2
  <2>4. QED
    BY <1>13, <2>3 DEF ProcessReturns
<1>14. ASSUME NEW w \in Workers, ProcessRaises(w)
      PROVE  TInv'
  <2>1. attempt' \in [Workers -> 1..MAX_RETRIES] /\ pc' \in [Workers -> Labels]
    BY <1>14, FailAttemptType DEF ProcessRaises
  <2>2. QED
    BY <1>14, <2>1 DEF ProcessRaises, FailAttempt
<1>15. ASSUME NEW w \in Workers, ProcessHangs(w)
      PROVE  TInv'
  BY <1>15 DEF ProcessHangs
<1>16. ASSUME NEW w \in Workers, MarkDone(w)
      PROVE  TInv'
  <2>1. claims' \in [Events -> Claims] /\ crashes' \in Nat /\ redisErrors' \in Nat
    <3>1. CASE RedisError /\ UNCHANGED claims
      BY <3>1 DEF RedisError
    <3>2. CASE claims' = [claims EXCEPT ![CurrentEvent(w)] = "done"] /\ UNCHANGED budget
      BY <3>2
    <3>3. QED
      BY <1>16, <3>1, <3>2 DEF MarkDone
  <2>2. QED
    BY <1>16, <2>1 DEF MarkDone
<1>17. ASSUME NEW w \in Workers, AckProcessed(w)
      PROVE  TInv'
  BY <1>17 DEF AckProcessed, Acknowledge, FinishMessage
<1>18. ASSUME NEW w \in Workers, AckRaises(w)
      PROVE  TInv'
  <2>1. attempt' \in [Workers -> 1..MAX_RETRIES] /\ pc' \in [Workers -> Labels]
    BY <1>18, FailAttemptType DEF AckRaises
  <2>2. pel' \subseteq 1..delivered /\ stale' \subseteq pel' /\ UNCHANGED <<log, delivered>>
    BY <1>18 DEF AckRaises, Acknowledge
  <2>3. redisErrors' \in Nat /\ crashes' \in Nat
    BY <1>18 DEF AckRaises, RedisError
  <2>4. QED
    BY <1>18, <2>1, <2>2, <2>3 DEF AckRaises, FailAttempt
<1>19. ASSUME NEW w \in Workers, ReleaseClaim(w)
      PROVE  TInv'
  BY <1>19 DEF ReleaseClaim
<1>20. ASSUME NEW w \in Workers, SendToDeadLetter(w)
      PROVE  TInv'
  BY <1>20, CurrentType DEF SendToDeadLetter
<1>21. ASSUME NEW w \in Workers, AckDead(w)
      PROVE  TInv'
  BY <1>21 DEF AckDead, Acknowledge, FinishMessage
<1>22. ASSUME NEW w \in Workers, Crash(w)
      PROVE  TInv'
  BY <1>22 DEF Crash, Die
<1>23. ASSUME NEW w \in Workers, KillHung(w)
      PROVE  TInv'
  BY <1>23 DEF KillHung, Die
<1>24. CASE UNCHANGED vars
  BY <1>24
<1>25. QED
  BY <1>1, <1>2, <1>3, <1>4, <1>5, <1>6, <1>7, <1>8, <1>9, <1>10, <1>11, <1>12, <1>13,
     <1>14, <1>15, <1>16, <1>17, <1>18, <1>19, <1>20, <1>21, <1>22, <1>23, <1>24 DEF Next,
     Publish,
     Replay, Worker, ConsumeEvents, HandleMessage

\* Type correctness, whatever the number of workers and whatever fails.
THEOREM TypeCorrect == Spec => []TypeOK
<1>1. Init => TInv
  BY RetriesAssumption DEF Init, TInv, TypeOK, Busy, AtRest, Labels, Claims
<1>2. TInv => TypeOK
  BY DEF TInv
<1>3. QED
  BY <1>1, <1>2, TypeStep, PTL DEF Spec

-----------------------------------------------------------------------------
(* The deployed single worker: the inductive invariant. *)

\* A worker in handle_message has exactly the entry it read last in hand.
InHand == \A w \in Workers :
            todo[w] = IF pc[w] \in AtRest THEN {} ELSE {delivered}

\* New work is read only when nothing is pending.
LoopIsClean == \A w \in Workers : pc[w] = "loop" => pel = {}

\* What a label says of the event in hand.
Progress ==
  \A w \in Workers :
    /\ pc[w] \notin AtRest => delivered \in pel \/ completed[log[delivered]] > 0
    /\ pc[w] \in {"skip", "mark", "ack"} => completed[log[delivered]] > 0
    /\ pc[w] \in {"bury", "buryAck"} => claims[log[delivered]] = "none"
    /\ pc[w] = "buryAck" => log[delivered] \in dead

\* A claim on an event that was never processed belongs to the pending entry,
\* and its worker is past the claim, or died after it.
ClaimOwned ==
  \A e \in Events : claims[e] # "none" /\ completed[e] = 0 =>
    /\ claims[e] = "processing"
    /\ delivered \in pel
    /\ log[delivered] = e
    /\ \A w \in Workers : pc[w] # "claim"

Rest == OneAtATime /\ InHand /\ LoopIsClean /\ Progress /\ ClaimOwned /\ NoEventLost

IInv == TInv /\ Rest

\* The message in hand is the last one delivered.
LEMMA LastInHand ==
  ASSUME IInv, NEW w \in Workers, pc[w] \notin AtRest
  PROVE  /\ todo[w] = {delivered}
         /\ Current(w) = delivered
         /\ CurrentEvent(w) = log[delivered]
         /\ delivered \in 1..Len(log)
         /\ log[delivered] \in Events
<1>1. todo[w] = {delivered}
  BY DEF IInv, Rest, InHand
<1>2. Current(w) = delivered
  BY <1>1, CurrentType DEF IInv
<1>3. delivered \in 1..Len(log)
  <2>1. delivered \in 1..delivered /\ delivered \in 0..Len(log)
    BY <1>1 DEF IInv, TInv, TypeOK
  <2>2. QED
    BY <2>1
<1>4. QED
  BY <1>1, <1>2, <1>3 DEF IInv, TInv, TypeOK, CurrentEvent

\* Acknowledging and leaving the message in hand: nothing is pending, nothing
\* in hand.
LEMMA FinishLast ==
  ASSUME OneWorker, IInv, NEW w \in Workers, pc[w] \notin AtRest,
         Acknowledge(w), FinishMessage(w)
  PROVE  /\ \A v \in Workers : todo'[v] = {} /\ pc'[v] \in {"recover", "loop"}
         /\ pel' = {}
         /\ UNCHANGED <<log, delivered>>
<1>1. todo[w] = {delivered} /\ Current(w) = delivered
  BY LastInHand
<1>2. pel' = {} /\ UNCHANGED <<log, delivered>>
  BY <1>1 DEF Acknowledge, IInv, Rest, OneAtATime
<1>3. todo' = [todo EXCEPT ![w] = {}]
  BY <1>1 DEF FinishMessage
<1>4. pc' = [pc EXCEPT ![w] = "recover"] \/ pc' = [pc EXCEPT ![w] = "loop"]
  BY <1>1 DEF FinishMessage, Goto
<1>5. \A v \in Workers : v = w
  BY DEF OneWorker
<1>6. QED
  BY <1>2, <1>3, <1>4, <1>5 DEF IInv, TInv, TypeOK

\* Doing so keeps the invariant when the event is settled and its claim, if
\* any is left, is that of a processed event.
LEMMA FinishKeeps ==
  ASSUME OneWorker, IInv, NEW w \in Workers, pc[w] \notin AtRest,
         Acknowledge(w), FinishMessage(w), UNCHANGED <<claims, dead, completed>>,
         Settled(log[delivered]),
         claims[log[delivered]] = "none" \/ completed[log[delivered]] > 0
  PROVE  Rest'
<1>1. /\ \A v \in Workers : todo'[v] = {} /\ pc'[v] \in {"recover", "loop"}
      /\ pel' = {}
      /\ UNCHANGED <<log, delivered>>
  BY FinishLast
<1>2. OneAtATime' /\ InHand' /\ LoopIsClean' /\ Progress'
  BY <1>1 DEF OneAtATime, InHand, LoopIsClean, Progress, AtRest
<1>3. \A e \in Events : claims[e] # "none" => completed[e] # 0
  BY DEF IInv, Rest, ClaimOwned, TInv, TypeOK
<1>4. ClaimOwned'
  BY <1>1, <1>3 DEF ClaimOwned
<1>5. NoEventLost'
  <2>1. \A m \in 1..delivered : Settled(log[m])
    BY DEF IInv, Rest, NoEventLost, OneAtATime
  <2>2. QED
    BY <1>1, <2>1 DEF NoEventLost, Settled
<1>6. QED
  BY <1>2, <1>4, <1>5 DEF Rest

\* A failed attempt leads to the next one or to giving up.
LEMMA FailAttemptTo ==
  ASSUME OneWorker, TInv, NEW w \in Workers, FailAttempt(w)
  PROVE  /\ \A v \in Workers : v = w /\ pc'[v] \in {"process", "release"}
         /\ UNCHANGED todo
<1>1. pc' = [pc EXCEPT ![w] = "process"] \/ pc' = [pc EXCEPT ![w] = "release"]
  BY DEF FailAttempt, Goto
<1>2. QED
  BY <1>1 DEF FailAttempt, OneWorker, TInv, TypeOK

LEMMA InvStep ==
  ASSUME OneWorker, IInv, [Next]_vars
  PROVE  IInv'
<1> USE DEF OneAtATime, InHand, LoopIsClean, Progress, ClaimOwned, NoEventLost,
        Settled, Rest, AtRest, Goto, broker, local, budget, vars
<1>1. TInv /\ TInv' /\ TypeOK /\ TypeOK'
  BY TypeStep DEF IInv, TInv
<1>2. OneAtATime /\ InHand /\ LoopIsClean /\ Progress /\ ClaimOwned /\ NoEventLost
  BY DEF IInv
<1>3. ASSUME NEW e \in Events, AppendToStream(e)
      PROVE  Rest'
  <2>1. /\ \A m \in 1..Len(log) : log'[m] = log[m]
        /\ UNCHANGED <<delivered, pel, claims, dead, completed, pc, todo>>
    BY <1>1, <1>3 DEF AppendToStream, TypeOK
  <2>2. \A w \in Workers : pc[w] \notin AtRest => log'[delivered] = log[delivered]
    BY <2>1, LastInHand
  <2>3. \A m \in 1..delivered : log'[m] = log[m]
    <3>1. \A m \in 1..delivered : m \in 1..Len(log)
      BY <1>1 DEF TypeOK
    <3>2. QED
      BY <2>1, <3>1
  <2>4. OneAtATime' /\ InHand' /\ LoopIsClean' /\ Progress'
    BY <1>2, <2>1, <2>2
  <2>5. ClaimOwned'
    <3>1. delivered \in pel => delivered \in 1..delivered
      BY <1>1 DEF TypeOK
    <3>2. QED
      BY <1>2, <2>1, <2>3, <3>1
  <2>6. NoEventLost'
    BY <1>2, <2>1, <2>3
  <2>7. QED
    BY <2>4, <2>5, <2>6
<1>4. ASSUME NEW e \in Events, ExpireClaim(e)
      PROVE  Rest'
  BY <1>1, <1>2, <1>4 DEF ExpireClaim, TypeOK, Claims
<1>5. ASSUME NEW m \in pel, Age(m)
      PROVE  Rest'
  BY <1>1, <1>2, <1>5 DEF Age, TypeOK
<1>6. ASSUME NEW w \in Workers, Start(w)
      PROVE  Rest'
  BY <1>1, <1>2, <1>6 DEF Start, TypeOK, Claims, OneWorker
<1>7. ASSUME NEW w \in Workers, RecoverPending(w)
      PROVE  Rest'
  <2>1. pel = {delivered}
    BY <1>2, <1>7 DEF RecoverPending
  <2>2. \A v \in Workers : v = w /\ pc'[v] = "check" /\ todo'[v] = {delivered}
    BY <1>1, <1>7, <2>1 DEF RecoverPending, OneWorker, TypeOK
  <2>3. UNCHANGED <<log, delivered, pel, claims, dead, completed>>
    BY <1>7 DEF RecoverPending
  <2>4. QED
    BY <1>1, <1>2, <2>1, <2>2, <2>3 DEF TypeOK
<1>8. ASSUME NEW w \in Workers, RecoveryDone(w)
      PROVE  Rest'
  BY <1>1, <1>2, <1>8 DEF RecoveryDone, TypeOK, Claims, OneWorker
<1>9. ASSUME NEW w \in Workers, ReclaimStale(w)
      PROVE  Rest'
  BY <1>1, <1>2, <1>9 DEF ReclaimStale, TypeOK, Claims, OneWorker
<1>10. ASSUME NEW w \in Workers, ReadNew(w)
      PROVE  Rest'
  BY <1>1, <1>2, <1>10 DEF ReadNew, TypeOK, Claims, OneWorker
<1>11. ASSUME NEW w \in Workers, CheckDone(w)
      PROVE  Rest'
  BY <1>1, <1>2, <1>11, LastInHand DEF CheckDone, TypeOK, Claims, OneWorker
<1>12. ASSUME NEW w \in Workers, TakeOverClaim(w)
      PROVE  Rest'
  <2>1. OneAtATime'
    BY <1>1, <1>2, <1>12, LastInHand DEF TakeOverClaim, TypeOK, Claims, OneWorker, BeginAttempts
  <2>2. InHand'
    BY <1>1, <1>2, <1>12, LastInHand DEF TakeOverClaim, TypeOK, Claims, OneWorker, BeginAttempts
  <2>3. LoopIsClean'
    BY <1>1, <1>2, <1>12, LastInHand DEF TakeOverClaim, TypeOK, Claims, OneWorker, BeginAttempts
  <2>4. Progress'
    BY <1>1, <1>2, <1>12, LastInHand DEF TakeOverClaim, TypeOK, Claims, OneWorker, BeginAttempts
  <2>5. ClaimOwned'
    BY <1>1, <1>2, <1>12, LastInHand DEF TakeOverClaim, TypeOK, Claims, OneWorker, BeginAttempts
  <2>6. NoEventLost'
    BY <1>1, <1>2, <1>12, LastInHand DEF TakeOverClaim, TypeOK, Claims, OneWorker, BeginAttempts
  <2>7. QED
    BY <2>1, <2>2, <2>3, <2>4, <2>5, <2>6
<1>13. ASSUME NEW w \in Workers, TryClaim(w)
      PROVE  Rest'
  <2>1. CASE claims[CurrentEvent(w)] = "none"
    <3>1. \A v \in Workers : v = w /\ pc'[v] = "process"
      BY <1>1, <1>13, <2>1 DEF TryClaim, BeginAttempts, OneWorker, TypeOK
    <3>2. claims' = [claims EXCEPT ![log[delivered]] = "processing"]
      BY <1>13, <2>1, LastInHand DEF TryClaim
    <3>3. UNCHANGED <<log, delivered, pel, dead, completed, todo>>
      BY <1>13, <2>1 DEF TryClaim, BeginAttempts
    <3>4. pc[w] = "claim" /\ log[delivered] \in Events
      BY <1>13, LastInHand DEF TryClaim
    <3>5. OneAtATime'
      BY <1>1, <1>2, <3>1, <3>2, <3>3, <3>4 DEF TypeOK, Claims
    <3>6. InHand'
      BY <1>1, <1>2, <3>1, <3>2, <3>3, <3>4 DEF TypeOK, Claims
    <3>7. LoopIsClean'
      BY <1>1, <1>2, <3>1, <3>2, <3>3, <3>4 DEF TypeOK, Claims
    <3>8. Progress'
      BY <1>1, <1>2, <3>1, <3>2, <3>3, <3>4 DEF TypeOK, Claims
    <3>9. ClaimOwned'
      <4> SUFFICES ASSUME NEW e \in Events, claims'[e] # "none", completed'[e] = 0
                   PROVE  /\ claims'[e] = "processing" /\ delivered' \in pel'
                          /\ log'[delivered'] = e
                          /\ \A v \in Workers : pc'[v] # "claim"
        OBVIOUS
      <4>1. e # log[delivered] => claims[e] = "none"
        BY <1>2, <3>3, <3>4
      <4>2. e # log[delivered] => claims'[e] = claims[e]
        BY <1>1, <3>2 DEF TypeOK
      <4>3. e = log[delivered]
        BY <4>1, <4>2
      <4>4. claims'[e] = "processing"
        BY <1>1, <3>2, <4>3 DEF TypeOK
      <4>5. delivered \in pel
        <5>1. delivered \in pel \/ completed[log[delivered]] > 0
          BY <1>2, <3>4
        <5>2. completed[log[delivered]] = 0
          BY <3>3, <4>3
        <5>3. QED
          BY <5>1, <5>2
      <4>6. QED
        BY <3>1, <3>3, <4>3, <4>4, <4>5
    <3>10. NoEventLost'
      BY <1>1, <1>2, <3>1, <3>2, <3>3, <3>4 DEF TypeOK, Claims
    <3>11. QED
      BY <3>5, <3>6, <3>7, <3>8, <3>9, <3>10
  <2>2. CASE claims[CurrentEvent(w)] # "none"
    <3>1. \A v \in Workers : v = w /\ pc'[v] = "skip"
      BY <1>1, <1>13, <2>2 DEF TryClaim, OneWorker, TypeOK
    <3>2. UNCHANGED <<log, delivered, pel, claims, dead, completed, todo>>
      BY <1>13, <2>2 DEF TryClaim
    <3>3. completed[log[delivered]] > 0
      <4>1. pc[w] = "claim" /\ log[delivered] \in Events /\ claims[log[delivered]] # "none"
        BY <1>13, <2>2, LastInHand DEF TryClaim
      <4>2. completed[log[delivered]] # 0
        BY <1>2, <4>1
      <4>3. QED
        BY <1>1, <4>1, <4>2 DEF TypeOK
    <3>4. pc[w] = "claim"
      BY <1>13 DEF TryClaim
    <3>5. QED
      BY <1>1, <1>2, <3>1, <3>2, <3>3, <3>4 DEF TypeOK
  <2>3. QED
    BY <2>1, <2>2
<1>14. ASSUME NEW w \in Workers, AckSkipped(w)
      PROVE  Rest'
  BY <1>1, <1>2, <1>14, FinishKeeps DEF AckSkipped, TypeOK, Claims, OneWorker
<1>15. ASSUME NEW w \in Workers, ProcessReturns(w)
      PROVE  Rest'
  BY <1>1, <1>2, <1>15, LastInHand DEF ProcessReturns, TypeOK, Claims, OneWorker
<1>16. ASSUME NEW w \in Workers, ProcessRaises(w)
      PROVE  Rest'
  <2>1. \A v \in Workers : v = w /\ pc'[v] \in {"process", "release"}
    BY <1>1, <1>16, FailAttemptTo DEF ProcessRaises
  <2>2. UNCHANGED <<log, delivered, pel, claims, dead, completed, todo>>
    BY <1>1, <1>16, FailAttemptTo DEF ProcessRaises
  <2>3. pc[w] = "process"
    BY <1>16 DEF ProcessRaises
  <2>4. QED
    BY <1>1, <1>2, <2>1, <2>2, <2>3 DEF TypeOK
<1>17. ASSUME NEW w \in Workers, ProcessHangs(w)
      PROVE  Rest'
  BY <1>1, <1>2, <1>17, LastInHand DEF ProcessHangs, TypeOK, Claims, OneWorker
<1>18. ASSUME NEW w \in Workers, MarkDone(w)
      PROVE  Rest'
  BY <1>1, <1>2, <1>18, LastInHand DEF MarkDone, TypeOK, Claims, OneWorker, RedisError
<1>19. ASSUME NEW w \in Workers, AckProcessed(w)
      PROVE  Rest'
  BY <1>1, <1>2, <1>19, FinishKeeps DEF AckProcessed, TypeOK, Claims, OneWorker
<1>20. ASSUME NEW w \in Workers, AckRaises(w)
      PROVE  Rest'
  <2>1. \A v \in Workers : v = w /\ pc'[v] \in {"process", "release"}
    BY <1>1, <1>20, FailAttemptTo DEF AckRaises
  <2>2. UNCHANGED <<log, delivered, claims, dead, completed, todo>>
    BY <1>1, <1>20, FailAttemptTo DEF AckRaises, Acknowledge
  <2>3. pc[w] = "ack" /\ delivered \in 1..Len(log) /\ log[delivered] \in Events
    BY <1>20, LastInHand DEF AckRaises
  <2>4. pel' = pel \/ pel' = {}
    BY <1>2, <1>20, LastInHand DEF AckRaises, Acknowledge
  <2>5. completed[log[delivered]] > 0
    BY <1>2, <2>3
  <2>6. OneAtATime' /\ InHand' /\ LoopIsClean' /\ Progress'
    BY <1>1, <1>2, <2>1, <2>2, <2>3, <2>4, <2>5 DEF TypeOK
  <2>7. ClaimOwned'
    BY <1>1, <1>2, <2>1, <2>2, <2>3, <2>4, <2>5 DEF TypeOK
  <2>8. NoEventLost'
    <3>1. \A m \in 1..delivered : m # delivered => Settled(log[m])
      BY <1>2
    <3>2. QED
      BY <2>2, <2>5, <3>1
  <2>9. QED
    BY <2>6, <2>7, <2>8
<1>21. ASSUME NEW w \in Workers, ReleaseClaim(w)
      PROVE  Rest'
  BY <1>1, <1>2, <1>21, LastInHand DEF ReleaseClaim, TypeOK, Claims, OneWorker
<1>22. ASSUME NEW w \in Workers, SendToDeadLetter(w)
      PROVE  Rest'
  BY <1>1, <1>2, <1>22, LastInHand DEF SendToDeadLetter, TypeOK, Claims, OneWorker
<1>23. ASSUME NEW w \in Workers, AckDead(w)
      PROVE  Rest'
  BY <1>1, <1>2, <1>23, FinishKeeps DEF AckDead, TypeOK, Claims, OneWorker
<1>24. ASSUME NEW w \in Workers, Crash(w)
      PROVE  Rest'
  BY <1>1, <1>2, <1>24 DEF Crash, TypeOK, Claims, OneWorker, Die
<1>25. ASSUME NEW w \in Workers, KillHung(w)
      PROVE  Rest'
  BY <1>1, <1>2, <1>25 DEF KillHung, TypeOK, Claims, OneWorker, Die
<1>26. ASSUME UNCHANGED vars
      PROVE  Rest'
  <2>1. UNCHANGED <<log, delivered, pel, claims, dead, completed, pc, todo>>
    BY <1>26
  <2>2. OneAtATime' /\ InHand' /\ LoopIsClean' /\ Progress'
    BY <1>2, <2>1
  <2>3. ClaimOwned' /\ NoEventLost'
    BY <1>2, <2>1
  <2>4. QED
    BY <2>2, <2>3
<1>27. QED
  BY <1>1, <1>2, <1>3, <1>4, <1>5, <1>6, <1>7, <1>8, <1>9, <1>10, <1>11, <1>12, <1>13,
     <1>14, <1>15, <1>16, <1>17, <1>18, <1>19, <1>20, <1>21, <1>22, <1>23, <1>24, <1>25,
     <1>26 DEF Next, Publish, Replay,
     Worker, ConsumeEvents, HandleMessage, IInv

LEMMA InvInit == Init => IInv
BY RetriesAssumption DEF Init, IInv, TInv, Rest, TypeOK, Busy, OneAtATime, InHand, LoopIsClean,
   Progress, ClaimOwned, NoEventLost, AtRest, Labels, Claims

LEMMA InvAlways == ASSUME OneWorker PROVE Spec => []IInv
<1>1. IInv /\ [Next]_vars => IInv'
  BY InvStep
<1>2. QED
  BY <1>1, InvInit, PTL DEF Spec

\* However the one worker crashes and recovers, at most the entry read last is
\* pending: no new work before unfinished work, nothing for XAUTOCLAIM to find.
THEOREM OnlyLastPending == ASSUME OneWorker PROVE Spec => []OneAtATime
<1>1. IInv => OneAtATime
  BY DEF IInv, Rest
<1>2. QED
  BY <1>1, InvAlways, PTL

\* With one worker no event is lost: an acknowledged entry has an event that
\* was processed or dead-lettered.
THEOREM NothingLost == ASSUME OneWorker PROVE Spec => []NoEventLost
<1>1. IInv => NoEventLost
  BY DEF IInv, Rest
<1>2. QED
  BY <1>1, InvAlways, PTL

\* With one worker a claim makes it skip an event only if that was processed:
\* a replay from the dead-letter stream is never skipped in its place.
THEOREM ReplaysAreNotSkipped == ASSUME OneWorker PROVE Spec => []SkipsOnlyProcessed
<1>1. IInv => SkipsOnlyProcessed
  <2>1. ASSUME IInv, NEW w \in Workers, pc[w] = "skip"
        PROVE  completed[CurrentEvent(w)] > 0
    BY <2>1, LastInHand DEF IInv, Rest, Progress, AtRest
  <2>2. QED
    BY <2>1 DEF SkipsOnlyProcessed
<1>2. QED
  BY <1>1, InvAlways, PTL

-----------------------------------------------------------------------------
(* The single worker implements EventDelivery. *)

\* A step that leaves the log, the open entries and the outcomes alone.
Stutter == UNCHANGED <<log, Open, Processed, dead>>

\* Acknowledging the message in hand closes it, if it was still pending.
LEMMA AcknowledgeCloses ==
  ASSUME IInv, NEW w \in Workers, pc[w] \notin AtRest, Acknowledge(w),
         UNCHANGED <<dead, completed>>, Settled(log[delivered])
  PROVE  [Delivery!Next]_(Delivery!vars)
<1>1. /\ Current(w) = delivered
      /\ delivered \in 1..Len(log)
      /\ log[delivered] \in Events
  BY LastInHand
<1>2. Open' = Open \ {delivered} /\ UNCHANGED log
  BY <1>1 DEF Acknowledge, Open
<1>3. UNCHANGED Processed
  BY DEF Processed
<1>4. log[delivered] \in Processed \cup dead
  BY <1>1 DEF Settled, Processed
<1>5. CASE delivered \in Open
  BY <1>2, <1>3, <1>4, <1>5 DEF Delivery!Next, Delivery!Close
<1>6. CASE delivered \notin Open
  BY <1>2, <1>3, <1>6 DEF Delivery!vars
<1>7. QED
  BY <1>5, <1>6

LEMMA StepRefines ==
  ASSUME OneWorker, IInv, [Next]_vars
  PROVE  [Delivery!Next]_(Delivery!vars)
<1> USE DEF broker, local, budget, vars
<1>1. TInv /\ TypeOK /\ Progress
  BY DEF IInv, Rest, TInv
<1>2. Stutter => UNCHANGED Delivery!vars
  BY DEF Stutter, Delivery!vars
<1>3. ASSUME UNCHANGED <<log, delivered, pel, completed, dead>>
      PROVE  Stutter
  BY <1>3 DEF Stutter, Open, Processed
<1>4. ASSUME NEW e \in Events, Publish(e) \/ Replay(e)
      PROVE  Delivery!Next
  <2>1. log' = Append(log, e) /\ UNCHANGED <<delivered, pel, completed, dead>>
    BY <1>4 DEF Publish, Replay, AppendToStream
  <2>2. Len(log') = Len(log) + 1 /\ delivered \in 0..Len(log) /\ Len(log) \in Nat
    BY <1>1, <2>1 DEF TypeOK
  <2>3. Open' = Open \cup {Len(log) + 1}
    BY <2>1, <2>2 DEF Open
  <2>4. UNCHANGED Processed
    BY <2>1 DEF Processed
  <2>5. Delivery!Publish(e)
    BY <1>4, <2>1, <2>3, <2>4 DEF Delivery!Publish, Delivery!Published, Publish, Replay,
       Published
  <2>6. QED
    BY <2>5 DEF Delivery!Next
<1>5. ASSUME NEW w \in Workers, ReadNew(w)
      PROVE  Stutter
  <2>1. /\ delivered < Len(log) /\ delivered' = delivered + 1
        /\ pel' = pel \cup {delivered + 1} /\ UNCHANGED <<log, completed, dead>>
    BY <1>5 DEF ReadNew
  <2>2. delivered \in Nat /\ Len(log) \in Nat
    BY <1>1 DEF TypeOK
  <2>3. Open' = Open
    BY <2>1, <2>2 DEF Open
  <2>4. QED
    BY <2>1, <2>3 DEF Stutter, Processed
<1>6. ASSUME NEW w \in Workers, ProcessReturns(w)
      PROVE  Delivery!Next
  <2>1. pc[w] \notin AtRest
    BY <1>6 DEF ProcessReturns, AtRest
  <2>2. /\ CurrentEvent(w) = log[delivered]
        /\ delivered \in 1..Len(log)
        /\ log[delivered] \in Events
    BY <2>1, LastInHand
  <2> DEFINE e == log[delivered]
  <2>3. /\ completed' = [completed EXCEPT ![e] = completed[e] + 1]
        /\ UNCHANGED <<log, delivered, pel, dead>>
    BY <1>6, <2>2 DEF ProcessReturns
  <2>4. completed[e] + 1 > 0 /\ \A d \in Events : completed'[d] = IF d = e THEN completed[e] + 1 ELSE completed[d]
    BY <1>1, <2>2, <2>3 DEF TypeOK
  <2>5. Processed' = Processed \cup {e}
    BY <2>2, <2>4 DEF Processed
  <2>6. Delivery!Succeed(e)
    BY <2>2, <2>3, <2>5 DEF Delivery!Succeed, Delivery!Published, Open
  <2>7. QED
    BY <2>2, <2>6 DEF Delivery!Next
<1>7. ASSUME NEW w \in Workers, SendToDeadLetter(w)
      PROVE  Delivery!Next
  <2>1. pc[w] \notin AtRest
    BY <1>7 DEF SendToDeadLetter, AtRest
  <2>2. /\ CurrentEvent(w) = log[delivered]
        /\ delivered \in 1..Len(log)
        /\ log[delivered] \in Events
    BY <2>1, LastInHand
  <2>3. Delivery!Bury(log[delivered])
    BY <1>7, <2>2 DEF SendToDeadLetter, Delivery!Bury, Delivery!Published, Open, Processed
  <2>4. QED
    BY <2>2, <2>3 DEF Delivery!Next
<1>8. ASSUME NEW w \in Workers, AckSkipped(w) \/ AckProcessed(w) \/ AckDead(w)
      PROVE  [Delivery!Next]_(Delivery!vars)
  <2>1. pc[w] \notin AtRest /\ Settled(log[delivered])
    BY <1>1, <1>8 DEF AckSkipped, AckProcessed, AckDead, AtRest, Progress, Settled
  <2>2. QED
    BY <1>8, <2>1, AcknowledgeCloses DEF AckSkipped, AckProcessed, AckDead
<1>9. ASSUME NEW w \in Workers, AckRaises(w)
      PROVE  [Delivery!Next]_(Delivery!vars)
  <2>1. pc[w] \notin AtRest /\ Settled(log[delivered])
    BY <1>1, <1>9 DEF AckRaises, AtRest, Progress, Settled
  <2>2. CASE UNCHANGED broker
    BY <1>2, <1>3, <1>9, <2>2 DEF AckRaises
  <2>3. CASE Acknowledge(w)
    BY <1>9, <2>1, <2>3, AcknowledgeCloses DEF AckRaises
  <2>4. QED
    BY <1>9, <2>2, <2>3 DEF AckRaises
<1>10. ASSUME NEW w \in Workers,
              \/ Start(w) \/ RecoverPending(w) \/ RecoveryDone(w) \/ ReclaimStale(w)
              \/ CheckDone(w) \/ TakeOverClaim(w) \/ TryClaim(w)
              \/ ProcessRaises(w) \/ ProcessHangs(w) \/ MarkDone(w)
              \/ ReleaseClaim(w) \/ Crash(w) \/ KillHung(w)
       PROVE  Stutter
  BY <1>3, <1>10 DEF Start, RecoverPending, RecoveryDone, ReclaimStale, CheckDone,
     TakeOverClaim, TryClaim, ProcessRaises, ProcessHangs, MarkDone, ReleaseClaim,
     Crash, KillHung, Die
<1>11. ASSUME \/ \E e \in Events : ExpireClaim(e)
              \/ \E m \in pel : Age(m)
              \/ UNCHANGED vars
       PROVE  Stutter
  BY <1>3, <1>11 DEF ExpireClaim, Age
<1>12. QED
  BY <1>2, <1>4, <1>5, <1>6, <1>7, <1>8, <1>9, <1>10, <1>11
     DEF Next, Worker, ConsumeEvents, HandleMessage

\* With one worker the consumer keeps the promise of EventDelivery: an entry
\* is closed only when its event is processed or dead-lettered.
THEOREM ConsumerImplementsDelivery == ASSUME OneWorker PROVE Spec => ImplementsDelivery
<1>1. Init => Delivery!Init
  BY DEF Init, Delivery!Init, Open, Processed
<1>2. IInv /\ [Next]_vars => [Delivery!Next]_(Delivery!vars)
  BY StepRefines
<1>3. QED
  BY <1>1, <1>2, InvAlways, PTL DEF Spec, ImplementsDelivery, Delivery!Spec

-----------------------------------------------------------------------------
(* What comes of an event: each entry read gives it one processing or one     *)
(* place on the dead-letter stream, each crash or Redis error one more.       *)

Read(e) == {m \in 1..delivered : log[m] = e}

\* The worker may still process or bury the entry read last.
OnIt(w) == \/ pc[w] \in {"check", "takeover", "claim", "process", "hung", "release", "bury"}
           \/ pc[w] \in {"down", "recover"} /\ delivered \in pel
Underway(e) == IF \E w \in Workers : OnIt(w) /\ log[delivered] = e THEN 1 ELSE 0
Buried(e) == IF e \in dead THEN 1 ELSE 0

OutcomesExplained ==
  \A e \in Events :
    completed[e] + Underway(e) + Buried(e) <= Cardinality(Read(e)) + crashes + redisErrors

LEMMA InitialSegment ==
  ASSUME NEW n \in Nat, NEW S \in SUBSET (1..n)
  PROVE  IsFiniteSet(S) /\ Cardinality(S) \in Nat
<1>1. 1 \in Int /\ n \in Int
  OBVIOUS
<1>2. IsFiniteSet(1..n)
  BY <1>1, FS_Interval
<1>3. IsFiniteSet(S)
  BY <1>2, FS_Subset
<1>4. QED
  BY <1>3, FS_CardinalityType

LEMMA CountTypes ==
  ASSUME TypeOK, NEW e \in Events
  PROVE  /\ completed[e] \in Nat /\ Underway(e) \in {0, 1} /\ Buried(e) \in {0, 1}
         /\ IsFiniteSet(Read(e)) /\ Cardinality(Read(e)) \in Nat
         /\ crashes \in Nat /\ redisErrors \in Nat
<1>1. Read(e) \in SUBSET (1..delivered) /\ delivered \in Nat
  BY DEF TypeOK, Read
<1>2. QED
  BY <1>1, InitialSegment DEF TypeOK, Underway, Buried

LEMMA OnLast ==
  ASSUME IInv, NEW w \in Workers, OnIt(w)
  PROVE  delivered \in 1..Len(log) /\ log[delivered] \in Events
<1>1. CASE pc[w] \notin AtRest
  BY <1>1, LastInHand
<1>2. CASE pc[w] \in AtRest
  BY <1>2 DEF OnIt, AtRest, IInv, TInv, TypeOK
<1>3. QED
  BY <1>1, <1>2

LEMMA Balance ==
  ASSUME NEW c \in Nat, NEW b \in Nat, NEW r \in Nat, NEW k \in Nat, NEW l \in Nat, NEW m \in Nat, NEW n \in Nat,
         NEW u \in {0, 1}, NEW v \in {0, 1},
         c + u + b <= r + k + l, k + l <= m + n, v <= u \/ k + l < m + n
  PROVE  c + v + b <= r + m + n
OBVIOUS

LEMMA LessThenLeq ==
  ASSUME NEW k \in Nat, NEW l \in Nat, NEW m \in Nat, NEW n \in Nat, k + l < m + n
  PROVE  k + l <= m + n
OBVIOUS

\* A step that completes and buries nothing keeps the account, if it puts
\* nothing under way or is a fault.
LEMMA NoOutcome ==
  ASSUME IInv, TypeOK', OutcomesExplained, UNCHANGED <<completed, dead>>,
         \A e \in Events : Read(e)' = Read(e),
         crashes + redisErrors <= crashes' + redisErrors',
         \/ \A e \in Events : Underway(e)' <= Underway(e)
         \/ crashes + redisErrors < crashes' + redisErrors'
  PROVE  OutcomesExplained'
<1> SUFFICES ASSUME NEW e \in Events
             PROVE  completed'[e] + Underway(e)' + Buried(e)' <= Cardinality(Read(e)') + crashes' + redisErrors'
  BY DEF OutcomesExplained
<1>1. /\ completed[e] \in Nat /\ Underway(e) \in {0, 1} /\ Buried(e) \in {0, 1}
      /\ Cardinality(Read(e)) \in Nat /\ crashes \in Nat /\ redisErrors \in Nat
  BY CountTypes DEF IInv, TInv
<1>2. Underway(e)' \in {0, 1} /\ crashes' \in Nat /\ redisErrors' \in Nat
  BY DEF Underway, TypeOK
<1>3. completed'[e] = completed[e] /\ Buried(e)' = Buried(e) /\ Read(e)' = Read(e)
  BY DEF Buried
<1>4. completed[e] + Underway(e) + Buried(e) <= Cardinality(Read(e)) + crashes + redisErrors
  BY DEF OutcomesExplained
<1>5. Underway(e)' <= Underway(e) \/ crashes + redisErrors < crashes' + redisErrors'
  OBVIOUS
<1>6. PICK c, b, r, u, v, k, l, m, n :
        /\ c = completed[e] /\ b = Buried(e) /\ r = Cardinality(Read(e)) /\ u = Underway(e)
        /\ v = Underway(e)' /\ k = crashes /\ l = redisErrors /\ m = crashes' /\ n = redisErrors'
  OBVIOUS
<1>7. k + l <= m + n
  BY <1>6
<1>8. /\ c \in Nat /\ b \in Nat /\ r \in Nat /\ k \in Nat /\ l \in Nat /\ m \in Nat /\ n \in Nat
      /\ u \in {0, 1} /\ v \in {0, 1}
  BY <1>1, <1>2, <1>6
<1>9. c + u + b <= r + k + l
  BY <1>4, <1>6
<1>10. v <= u \/ k + l < m + n
  BY <1>5, <1>6
<1>11. c + v + b <= r + m + n
  BY <1>7, <1>8, <1>9, <1>10, Balance
<1>12. QED
  BY <1>3, <1>6, <1>11

\* What is under way stays the last entry's.
LEMMA StillUnderway ==
  ASSUME IInv, UNCHANGED <<delivered, log>>,
         \A w \in Workers : OnIt(w)' => OnIt(w)
  PROVE  \A e \in Events : Underway(e)' <= Underway(e) /\ Read(e)' = Read(e)
BY DEF Underway, Read

LEMMA OutcomesStep ==
  ASSUME OneWorker, IInv, IInv', OutcomesExplained, [Next]_vars
  PROVE  OutcomesExplained'
<1> USE DEF broker, local, budget, vars
<1>1. TypeOK /\ TypeOK' /\ InHand /\ LoopIsClean /\ OneAtATime
  BY DEF IInv, TInv, Rest
<1>2. crashes \in Nat /\ redisErrors \in Nat /\ delivered \in Nat
  BY <1>1 DEF TypeOK
<1>3. ASSUME NEW e \in Events, AppendToStream(e)
      PROVE  OutcomesExplained'
  <2>1. /\ \A m \in 1..Len(log) : log'[m] = log[m]
        /\ UNCHANGED <<delivered, pel, completed, dead, pc, crashes, redisErrors>>
    BY <1>1, <1>3 DEF AppendToStream, TypeOK
  <2>2. \A f \in Events : Read(f)' = Read(f)
    <3>1. 1..delivered \subseteq 1..Len(log)
      BY <1>1 DEF TypeOK
    <3>2. QED
      BY <2>1, <3>1 DEF Read
  <2>3. \A w \in Workers : OnIt(w)' => OnIt(w) /\ log'[delivered'] = log[delivered]
    BY <2>1, OnLast DEF OnIt
  <2>4. \A f \in Events : Underway(f)' <= Underway(f)
    BY <2>3 DEF Underway
  <2>5. QED
    BY <1>1, <1>2, <2>1, <2>2, <2>4, NoOutcome
<1>4. ASSUME UNCHANGED <<delivered, log, completed, dead, crashes, redisErrors>>,
             \A w \in Workers : OnIt(w)' => OnIt(w)
      PROVE  OutcomesExplained'
  BY <1>1, <1>2, <1>4, NoOutcome, StillUnderway
<1>5. CASE \/ \E e \in Events : ExpireClaim(e)
           \/ \E m \in pel : Age(m)
           \/ UNCHANGED vars
  BY <1>4, <1>5 DEF ExpireClaim, Age, OnIt
<1>6. ASSUME NEW w \in Workers,
             \/ Start(w) \/ RecoverPending(w) \/ RecoveryDone(w) \/ ReclaimStale(w)
             \/ CheckDone(w) \/ TakeOverClaim(w) \/ TryClaim(w) \/ ProcessHangs(w)
             \/ ReleaseClaim(w) \/ KillHung(w)
      PROVE  OutcomesExplained'
  <2>1. \A v \in Workers : v = w
    BY DEF OneWorker
  <2>2. UNCHANGED <<delivered, log, completed, dead, crashes, redisErrors, pel>>
    BY <1>6 DEF Start, RecoverPending, RecoveryDone, ReclaimStale, CheckDone, TakeOverClaim, TryClaim,
                ProcessHangs, ReleaseClaim, KillHung, Die
  <2>3. CASE Start(w) \/ RecoverPending(w) \/ RecoveryDone(w) \/ ReclaimStale(w)
    BY <1>1, <1>4, <2>1, <2>2, <2>3
       DEF Start, RecoverPending, RecoveryDone, ReclaimStale, OnIt, Goto, TypeOK, OneAtATime, LoopIsClean
  <2>4. CASE CheckDone(w) \/ TakeOverClaim(w) \/ TryClaim(w) \/ ProcessHangs(w) \/ ReleaseClaim(w) \/ KillHung(w)
    BY <1>1, <1>4, <2>1, <2>2, <2>4
       DEF CheckDone, TakeOverClaim, TryClaim, BeginAttempts, ProcessHangs, ReleaseClaim, KillHung, Die, OnIt, Goto, TypeOK
  <2>5. QED
    BY <1>6, <2>3, <2>4
<1>7. ASSUME NEW w \in Workers, ProcessRaises(w)
      PROVE  OutcomesExplained'
  <2>1. \A v \in Workers : v = w /\ pc'[v] \in {"process", "release"}
    BY <1>7, FailAttemptTo DEF ProcessRaises, IInv
  <2>2. UNCHANGED <<delivered, log, completed, dead, crashes, redisErrors>> /\ pc[w] = "process"
    BY <1>7 DEF ProcessRaises
  <2>3. QED
    BY <1>4, <2>1, <2>2 DEF OnIt
<1>8. ASSUME NEW w \in Workers, AckSkipped(w) \/ AckProcessed(w) \/ AckDead(w)
      PROVE  OutcomesExplained'
  <2>1. pc[w] \notin AtRest /\ Acknowledge(w) /\ FinishMessage(w)
        /\ UNCHANGED <<completed, dead, crashes, redisErrors>>
    BY <1>8 DEF AckSkipped, AckProcessed, AckDead, AtRest
  <2>2. \A v \in Workers : pc'[v] \in {"recover", "loop"} /\ pel' = {} /\ UNCHANGED <<log, delivered>>
    BY <2>1, FinishLast
  <2>3. QED
    BY <1>4, <2>1, <2>2 DEF OnIt
<1>9. ASSUME UNCHANGED <<delivered, log, completed, dead>>, crashes + redisErrors < crashes' + redisErrors'
      PROVE  OutcomesExplained'
  <2>1. \A e \in Events : Read(e)' = Read(e)
    BY <1>9 DEF Read
  <2>2. crashes' \in Nat /\ redisErrors' \in Nat
    BY <1>1 DEF TypeOK
  <2>3. crashes + redisErrors <= crashes' + redisErrors'
    BY <1>2, <1>9, <2>2, LessThenLeq
  <2>4. QED
    BY <1>1, <1>9, <2>1, <2>3, NoOutcome
<1>10. ASSUME NEW w \in Workers, MarkDone(w)
       PROVE  OutcomesExplained'
  <2>1. \A v \in Workers : v = w /\ pc'[v] = "ack"
    BY <1>1, <1>10 DEF MarkDone, Goto, OneWorker, TypeOK
  <2>2. CASE UNCHANGED budget
    BY <1>4, <1>10, <2>1, <2>2 DEF MarkDone, OnIt
  <2>3. CASE RedisError
    BY <1>2, <1>9, <1>10, <2>3 DEF MarkDone, RedisError
  <2>4. QED
    BY <1>10, <2>2, <2>3 DEF MarkDone
<1>11. ASSUME NEW w \in Workers, AckRaises(w)
       PROVE  OutcomesExplained'
  BY <1>2, <1>9, <1>11 DEF AckRaises, RedisError, Acknowledge
<1>12. ASSUME NEW w \in Workers, Crash(w)
       PROVE  OutcomesExplained'
  BY <1>2, <1>9, <1>12 DEF Crash, Die
<1>13. ASSUME NEW w \in Workers, ProcessReturns(w) \/ SendToDeadLetter(w)
       PROVE  OutcomesExplained'
  <2>1. PICK d : d = log[delivered]
    OBVIOUS
  <2>2. /\ pc[w] \in {"process", "bury"} /\ pc[w] \notin AtRest
        /\ UNCHANGED <<delivered, log, pel, crashes, redisErrors>>
    BY <1>13 DEF ProcessReturns, SendToDeadLetter, AtRest
  <2>3. CurrentEvent(w) = d /\ d \in Events
    BY <2>1, <2>2, LastInHand
  <2>4. \A v \in Workers : v = w /\ pc'[v] \in {"mark", "buryAck"}
    BY <1>1, <1>13 DEF ProcessReturns, SendToDeadLetter, Goto, OneWorker, TypeOK
  <2>5. \A e \in Events : Underway(e)' = 0 /\ Read(e)' = Read(e)
    BY <2>2, <2>4 DEF Underway, OnIt, Read
  <2>6. Underway(d) = 1
    BY <2>1, <2>2 DEF Underway, OnIt
  <2>7. \A e \in Events : /\ completed'[e] \in Nat
                          /\ e # d => completed'[e] + Buried(e)' = completed[e] + Buried(e)
                          /\ completed'[d] + Buried(d)' <= completed[d] + Buried(d) + 1
    <3>1. CASE ProcessReturns(w)
      <4>1. completed' = [completed EXCEPT ![d] = completed[d] + 1] /\ UNCHANGED dead
        BY <2>3, <3>1 DEF ProcessReturns
      <4>2. \A e \in Events : Buried(e)' = Buried(e) /\ Buried(e) \in {0, 1}
        BY <4>1 DEF Buried
      <4>3. QED
        <5>1. \A e \in Events : /\ completed[e] \in Nat
                                /\ completed'[e] = IF e = d THEN completed[d] + 1 ELSE completed[e]
          BY <1>1, <2>3, <4>1 DEF TypeOK
        <5>2. completed[d] + 1 + Buried(d) = completed[d] + Buried(d) + 1
          BY <2>3, <4>2, <5>1
        <5>3. QED
          BY <2>3, <4>2, <5>1, <5>2
    <3>2. CASE SendToDeadLetter(w)
      <4>1. dead' = dead \cup {d} /\ UNCHANGED completed
        BY <2>3, <3>2 DEF SendToDeadLetter
      <4>2. \A e \in Events : /\ Buried(e)' \in {0, 1} /\ Buried(e) \in {0, 1}
                              /\ e # d => Buried(e)' = Buried(e)
        BY <4>1 DEF Buried
      <4>3. QED
        <5>1. \A e \in Events : completed'[e] = completed[e] /\ completed[e] \in Nat
          BY <1>1, <4>1 DEF TypeOK
        <5>2. completed[d] + Buried(d)' <= completed[d] + Buried(d) + 1
          BY <2>3, <4>2, <5>1
        <5>3. QED
          BY <2>3, <4>2, <5>1, <5>2
    <3>3. QED
      BY <1>13, <3>1, <3>2
  <2>8. ASSUME NEW e \in Events
        PROVE  completed'[e] + Underway(e)' + Buried(e)' <= Cardinality(Read(e)') + crashes' + redisErrors'
    <3>1. /\ completed[e] \in Nat /\ Underway(e) \in {0, 1} /\ Buried(e) \in {0, 1}
          /\ Cardinality(Read(e)) \in Nat
      BY <1>1, CountTypes
    <3>2. completed'[e] \in Nat /\ Buried(e)' \in {0, 1}
      BY <2>7 DEF Buried
    <3>3. completed[e] + Underway(e) + Buried(e) <= Cardinality(Read(e)) + crashes + redisErrors
      BY DEF OutcomesExplained
    <3>4. Cardinality(Read(e)') = Cardinality(Read(e)) /\ Underway(e)' = 0
          /\ crashes' = crashes /\ redisErrors' = redisErrors
      BY <2>2, <2>5
    <3>5. CASE e = d
      <4>1. completed'[e] + Buried(e)' <= completed[e] + Buried(e) + 1 /\ Underway(e) = 1
        BY <2>6, <2>7, <3>5
      <4>2. QED
        BY <1>2, <3>1, <3>2, <3>3, <3>4, <4>1
    <3>6. CASE e # d
      <4>1. completed'[e] + Buried(e)' = completed[e] + Buried(e)
        BY <2>7, <3>6
      <4>2. QED
        BY <1>2, <3>1, <3>2, <3>3, <3>4, <4>1
    <3>7. QED
      BY <3>5, <3>6
  <2>9. QED
    BY <2>8 DEF OutcomesExplained
<1>14. ASSUME NEW w \in Workers, ReadNew(w)
       PROVE  OutcomesExplained'
  <2>1. PICK n, d : n = delivered + 1 /\ d = log[n]
    OBVIOUS
  <2>2. /\ pc[w] = "loop" /\ delivered' = n /\ n \in Nat /\ n \notin 1..delivered /\ n \in 1..Len(log)
        /\ UNCHANGED <<log, completed, dead, crashes, redisErrors>>
    BY <1>1, <1>14, <2>1 DEF ReadNew, TypeOK
  <2>3. d \in Events
    BY <1>1, <2>1, <2>2 DEF TypeOK
  <2>4. 1..delivered' = (1..delivered) \cup {n}
    BY <1>2, <2>1, <2>2
  <2>5. \A e \in Events : Underway(e) = 0
    <3>1. \A v \in Workers : pc[v] = "loop"
      BY <2>2 DEF OneWorker
    <3>2. QED
      BY <3>1 DEF Underway, OnIt
  <2>6. ASSUME NEW e \in Events
        PROVE  completed'[e] + Underway(e)' + Buried(e)' <= Cardinality(Read(e)') + crashes' + redisErrors'
    <3>1. /\ completed[e] \in Nat /\ Buried(e) \in {0, 1}
          /\ IsFiniteSet(Read(e)) /\ Cardinality(Read(e)) \in Nat
      BY <1>1, CountTypes
    <3>2. completed[e] + Buried(e) <= Cardinality(Read(e)) + crashes + redisErrors
      <4>1. completed[e] + Underway(e) + Buried(e) <= Cardinality(Read(e)) + crashes + redisErrors
        BY DEF OutcomesExplained
      <4>2. QED
        BY <2>5, <3>1, <4>1
    <3>3. Buried(e)' = Buried(e) /\ completed'[e] = completed[e]
      BY <2>2 DEF Buried
    <3>4. CASE e = d
      <4>1. Read(e)' = Read(e) \cup {n} /\ n \notin Read(e)
        BY <2>1, <2>2, <2>4, <3>4 DEF Read
      <4>2. Cardinality(Read(e)') = Cardinality(Read(e)) + 1
        BY <3>1, <4>1, FS_AddElement
      <4>3. Underway(e)' \in {0, 1}
        BY DEF Underway
      <4>4. QED
        BY <1>2, <2>2, <3>1, <3>2, <3>3, <4>2, <4>3
    <3>5. CASE e # d
      <4>1. Read(e)' = Read(e)
        BY <2>1, <2>2, <2>4, <3>5 DEF Read
      <4>2. Underway(e)' = 0
        BY <2>1, <2>2, <3>5 DEF Underway
      <4>3. QED
        BY <1>2, <2>2, <3>1, <3>2, <3>3, <4>1, <4>2
    <3>6. QED
      BY <3>4, <3>5
  <2>7. QED
    BY <2>6 DEF OutcomesExplained
<1>15. QED
  BY <1>3, <1>5, <1>6, <1>7, <1>8, <1>10, <1>11, <1>12, <1>13, <1>14
     DEF Next, Publish, Replay, Worker, ConsumeEvents, HandleMessage

LEMMA OutcomesAlways == ASSUME OneWorker PROVE Spec => [](IInv /\ OutcomesExplained)
<1>1. Init => OutcomesExplained
  <2> SUFFICES ASSUME Init, NEW e \in Events
               PROVE  completed[e] + Underway(e) + Buried(e) <= Cardinality(Read(e)) + crashes + redisErrors
    BY DEF OutcomesExplained
  <2>1. completed[e] = 0 /\ Underway(e) = 0 /\ Buried(e) = 0 /\ Read(e) = {} /\ crashes = 0 /\ redisErrors = 0
    BY DEF Init, Underway, OnIt, Buried, Read
  <2>2. QED
    BY <2>1, FS_EmptySet
<1>2. IInv /\ IInv' /\ OutcomesExplained /\ [Next]_vars => OutcomesExplained'
  BY OutcomesStep
<1>3. QED
  BY <1>1, <1>2, InvAlways, PTL DEF Spec

\* Of the copies of an event on the stream some have been read.
LEMMA ReadOfCopies ==
  ASSUME TypeOK, NEW e \in Events
  PROVE  Cardinality(Read(e)) <= Cardinality(Copies(e)) /\ Cardinality(Copies(e)) \in Nat
<1>1. Copies(e) \in SUBSET (1..Len(log)) /\ Len(log) \in Nat
  BY DEF TypeOK, Copies
<1>2. IsFiniteSet(Copies(e)) /\ Cardinality(Copies(e)) \in Nat
  BY <1>1, InitialSegment
<1>3. Read(e) \in SUBSET Copies(e)
  BY DEF TypeOK, Read, Copies
<1>4. QED
  BY <1>2, <1>3, FS_Subset

\* The account, read from the copies.
LEMMA CopiesExplain ==
  ASSUME IInv, OutcomesExplained, NEW e \in Events
  PROVE  /\ completed[e] + Buried(e) <= Cardinality(Copies(e)) + crashes + redisErrors
         /\ completed[e] \in Nat /\ Buried(e) \in {0, 1} /\ Cardinality(Copies(e)) \in Nat
         /\ crashes \in Nat /\ redisErrors \in Nat
<1>1. TypeOK
  BY DEF IInv, TInv
<1>2. /\ completed[e] \in Nat /\ Underway(e) \in {0, 1} /\ Buried(e) \in {0, 1}
      /\ Cardinality(Read(e)) \in Nat /\ crashes \in Nat /\ redisErrors \in Nat
  BY <1>1, CountTypes
<1>3. Cardinality(Read(e)) <= Cardinality(Copies(e)) /\ Cardinality(Copies(e)) \in Nat
  BY <1>1, ReadOfCopies
<1>4. completed[e] + Underway(e) + Buried(e) <= Cardinality(Read(e)) + crashes + redisErrors
  BY DEF OutcomesExplained
<1>5. QED
  BY <1>2, <1>3, <1>4

\* With one worker an event is processed once for each copy on the stream, and
\* once more at most for each crash and each Redis error.
THEOREM DuplicatesExplained == ASSUME OneWorker PROVE Spec => []DuplicatesHaveACause
<1>1. IInv /\ OutcomesExplained => DuplicatesHaveACause
  <2> SUFFICES ASSUME IInv, OutcomesExplained, NEW e \in Published
               PROVE  completed[e] <= Cardinality(Copies(e)) + crashes + redisErrors
    BY DEF DuplicatesHaveACause
  <2>1. e \in Events
    BY DEF Published, IInv, TInv, TypeOK
  <2>2. QED
    BY <2>1, CopiesExplain
<1>2. QED
  BY <1>1, OutcomesAlways, PTL

\* With one worker nothing that was processed is buried as well, unless it was
\* replayed, or a crash or a Redis error came between.
THEOREM BuriedIsUnprocessed == ASSUME OneWorker PROVE Spec => []ProcessedNotBuried
<1>1. IInv /\ OutcomesExplained => ProcessedNotBuried
  <2> SUFFICES ASSUME IInv, OutcomesExplained, NEW e \in dead
               PROVE  completed[e] = 0 \/ Cardinality(Copies(e)) > 1 \/ crashes + redisErrors > 0
    BY DEF ProcessedNotBuried
  <2>1. e \in Events /\ Buried(e) = 1
    BY DEF IInv, TInv, TypeOK, Buried
  <2>2. QED
    <3>1. /\ completed[e] + 1 <= Cardinality(Copies(e)) + crashes + redisErrors
          /\ completed[e] \in Nat /\ Cardinality(Copies(e)) \in Nat
          /\ crashes \in Nat /\ redisErrors \in Nat
      BY <2>1, CopiesExplain
    <3>2. QED
      BY <3>1
<1>2. QED
  BY <1>1, OutcomesAlways, PTL
=============================================================================
