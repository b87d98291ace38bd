------------------------ MODULE WorkerWatchdogProofs ------------------------
(***************************************************************************)
(* That no claim runs out under a worker, and that none is restarted       *)
(* without a cause, for all durations that satisfy the assumptions of      *)
(* WorkerWatchdog.                                                         *)
(***************************************************************************)
EXTENDS WorkerWatchdog, TLAPS

\* The time between two answers of probes, at most.
Gap == Interval + Timeout

\* While an event is handled: the claim has lost no more than the time that
\* passed; the heartbeat ends with the cap and one TTL, the start period before
\* that; and from then on every probe fails.
ClaimAges == claim + elapsed >= Claim
HeartbeatEnds == key = 0 \/ key + elapsed <= Cap + TTL
GraceEnds == grace = 0 \/ grace + elapsed <= StartPeriod
ProbesFail ==
  elapsed >= Cap + TTL =>
    IF failures < Retries
    THEN elapsed + probeIn <= Cap + TTL + (failures + 1) * Gap
    ELSE elapsed + healIn <= Cap + TTL + Retries * Gap + Heal

WorkInv == phase = "work" => ClaimAges /\ HeartbeatEnds /\ GraceEnds /\ ProbesFail

-----------------------------------------------------------------------------

LEMMA Distribute ==
  ASSUME NEW a \in Nat, NEW d \in Nat
  PROVE  /\ a * d \in Nat
         /\ (a + 1) * d = a * d + d
OBVIOUS

LEMMA Sums ==
  ASSUME NEW a \in Nat, NEW b \in Nat, NEW c \in Nat, NEW d \in Nat
  PROVE  /\ a <= b => a + 0 <= c + b
         /\ a <= b /\ c <= d => a + c <= b + d
OBVIOUS

LEMMA Monotone ==
  ASSUME NEW a \in Nat, NEW b \in Nat, a <= b, NEW d \in Nat
  PROVE  a * d <= b * d
OBVIOUS

LEMMA Durations ==
  /\ Beat \in Nat /\ Cap \in Nat /\ TTL \in Nat /\ Block \in Nat /\ Rest \in Nat
  /\ Claim \in Nat /\ Interval \in Nat /\ Timeout \in Nat /\ Retries \in Nat
  /\ StartPeriod \in Nat /\ Heal \in Nat /\ Gap \in Nat
  /\ Beat > 0 /\ TTL > 0 /\ Claim > 0 /\ Interval > 0 /\ Timeout > 0 /\ Retries > 0
  /\ StartPeriod > 0 /\ Heal > 0
BY DurationsAssumption DEF Gap

\* The two halves of the type invariant, which different provers see to.
Numbers ==
  /\ phase \in Phases
  /\ elapsed \in Nat /\ beatIn \in 0..Beat /\ left \in Nat
  /\ key \in 0..TTL /\ claim \in 0..Claim
  /\ probeIn \in 0..(Interval + Timeout) /\ failures \in 0..Retries
  /\ grace \in 0..StartPeriod /\ healIn \in 0..Heal
  /\ faults \in 0..MaxFaults
Flags ==
  /\ outage \in BOOLEAN /\ overdue \in BOOLEAN /\ troubled \in BOOLEAN
  /\ starting \in BOOLEAN

LEMMA FlagsInit == Init => Flags
BY Zenon DEF Init, Flags

LEMMA FlagsKept == ASSUME Flags, [Next]_vars PROVE Flags'
<1> USE DEF Flags, history
<1>1. CASE Worker
  BY <1>1, Zenon DEF Worker, ServerUp, WarmedUp, StartPoll, PollReturns,
     HandleEvent, BeatOnce, EventEnds, RestEnds
<1>2. CASE Crash \/ Kill
  BY <1>2, Zenon DEF Crash, Kill, Restart
<1>3. CASE Probe
  BY <1>3, Zenon DEF Probe
<1>4. CASE OutageBegins \/ OutageEnds
  BY <1>4, Zenon DEF OutageBegins, OutageEnds
<1>5. CASE Tick
  BY <1>5, Zenon DEF Tick
<1>6. CASE UNCHANGED vars
  BY <1>6, Zenon DEF vars
<1> QED
  BY <1>1, <1>2, <1>3, <1>4, <1>5, <1>6 DEF Next

LEMMA NumbersKept == ASSUME Numbers, [Next]_vars PROVE Numbers'
<1> USE Durations, BoundsAssumption DEF Numbers, Phases
<1>1. CASE ServerUp \/ WarmedUp \/ StartPoll \/ RestEnds
  BY <1>1 DEF ServerUp, WarmedUp, StartPoll, RestEnds, docker
<1>2. CASE PollReturns \/ HandleEvent \/ BeatOnce
  BY <1>2 DEF PollReturns, HandleEvent, BeatOnce, RecordHeartbeat, docker
<1>3. CASE EventEnds
  BY <1>3 DEF EventEnds, docker
<1>4. ASSUME Restart, faults' \in 0..MaxFaults PROVE Numbers'
  <2>1. grace' > 0
    BY <1>4 DEF Restart
  <2>2. probeIn' \in 1..(Interval + Timeout)
    BY <1>4, <2>1 DEF Restart, NextProbe
  <2> QED
    BY <1>4, <2>2 DEF Restart
<1>5. CASE Crash
  BY <1>4, <1>5 DEF Crash
<1>6. CASE Kill
  BY <1>4, <1>6 DEF Kill
<1>7. CASE Probe
  BY <1>7 DEF Probe, Healthy, Failures, NextProbe, worker
<1>8. CASE OutageBegins \/ OutageEnds
  BY <1>8 DEF OutageBegins, OutageEnds, worker, docker
<1>9. CASE Tick
  BY <1>9 DEF Tick, Less
<1>10. CASE UNCHANGED vars
  BY <1>10 DEF vars, worker, docker
<1> QED
  BY <1>1, <1>2, <1>3, <1>5, <1>6, <1>7, <1>8, <1>9, <1>10 DEF Next, Worker

\* The variables have their types.
THEOREM TypeCorrect == Spec => []TypeOK
<1>1. Init => Numbers
  BY Durations, BoundsAssumption DEF Init, Numbers, Phases
<1>2. Numbers /\ Flags <=> TypeOK
  BY Zenon DEF Numbers, Flags, TypeOK
<1> QED
  BY <1>1, <1>2, FlagsInit, FlagsKept, NumbersKept, PTL DEF Spec

-----------------------------------------------------------------------------

LEMMA WorkInvInit == Init => WorkInv
BY DEF Init, WorkInv

LEMMA TickKeeps == ASSUME TypeOK, WorkInv, Tick PROVE WorkInv'
<1> SUFFICES ASSUME phase' = "work"
             PROVE  (ClaimAges /\ HeartbeatEnds /\ GraceEnds /\ ProbesFail)'
  BY DEF WorkInv
<1> USE Durations
<1>1. phase = "work" /\ elapsed' = elapsed + 1 /\ elapsed \in Nat
  BY DEF Tick, TypeOK
<1>2. ClaimAges /\ HeartbeatEnds /\ GraceEnds /\ ProbesFail
  BY <1>1 DEF WorkInv
<1>3. ClaimAges'
  BY <1>1, <1>2 DEF Tick, TypeOK, ClaimAges, Less
<1>4. HeartbeatEnds' /\ GraceEnds'
  BY <1>1, <1>2 DEF Tick, TypeOK, HeartbeatEnds, GraceEnds, Less
<1>5. ProbesFail'
  <2> SUFFICES ASSUME elapsed + 1 >= Cap + TTL PROVE ProbesFail'
    BY <1>1 DEF ProbesFail
  <2>1. CASE failures < Retries
    <3>1. probeIn \in 1..Gap /\ probeIn' = probeIn - 1 /\ failures' = failures /\ failures \in Nat
      BY <2>1 DEF Tick, Patient, TypeOK, Less, Gap
    <3>2. failures * Gap \in Nat /\ (failures + 1) * Gap = failures * Gap + Gap
      BY <3>1, Distribute
    <3>3. elapsed' + probeIn' <= Cap + TTL + (failures + 1) * Gap
      <4>1. CASE elapsed >= Cap + TTL
        <5>1. elapsed + probeIn <= Cap + TTL + (failures + 1) * Gap
          BY <4>1, <2>1, <1>2 DEF ProbesFail
        <5> DEFINE b == (failures + 1) * Gap
        <5>2. b \in Nat
          BY <3>2
        <5> HIDE DEF b
        <5>3. elapsed + probeIn <= Cap + TTL + b
          BY <5>1 DEF b
        <5>4. elapsed' + probeIn' <= Cap + TTL + b
          BY <1>1, <3>1, <5>2, <5>3
        <5> QED
          BY <5>4 DEF b
      <4>2. CASE elapsed + 1 = Cap + TTL
        <5> DEFINE b == failures * Gap
        <5>1. b \in Nat /\ (failures + 1) * Gap = b + Gap
          BY <3>2
        <5> HIDE DEF b
        <5>2. elapsed' + probeIn' <= Cap + TTL + (b + Gap)
          BY <1>1, <3>1, <4>2, <5>1
        <5> QED
          BY <5>1, <5>2
      <4> QED
        BY <1>1, <4>1, <4>2
    <3> QED
      BY <2>1, <3>1, <3>3 DEF ProbesFail
  <2>2. CASE ~(failures < Retries)
    <3>1. /\ healIn \in 1..Heal /\ healIn' = healIn - 1
          /\ failures' = failures /\ failures = Retries
      BY <2>2 DEF Tick, Patient, TypeOK, Less
    <3> DEFINE b == Retries * Gap
    <3>2. b \in Nat
      BY Distribute
    <3>3. elapsed >= Cap + TTL => elapsed + healIn <= Cap + TTL + b + Heal
      BY <2>2, <1>2 DEF ProbesFail
    <3> HIDE DEF b
    <3>4. elapsed' + healIn' <= Cap + TTL + b + Heal
      BY <1>1, <3>1, <3>2, <3>3
    <3> QED
      BY <2>2, <3>1, <3>4 DEF ProbesFail, b
  <2> QED
    BY <2>1, <2>2
<1> QED
  BY <1>3, <1>4, <1>5

LEMMA ProbeKeeps == ASSUME TypeOK, WorkInv, Probe PROVE WorkInv'
<1> SUFFICES ASSUME phase' = "work"
             PROVE  (ClaimAges /\ HeartbeatEnds /\ GraceEnds /\ ProbesFail)'
  BY DEF WorkInv
<1> USE Durations
<1>1. /\ phase = "work"
      /\ elapsed' = elapsed /\ elapsed \in Nat /\ key' = key /\ claim' = claim
      /\ failures \in Nat /\ failures < Retries /\ probeIn = 0
      /\ grace' \in {0, grace} /\ probeIn' \in 0..Gap
  BY DEF Probe, TypeOK, worker, NextProbe, Gap
<1>2. ClaimAges /\ HeartbeatEnds /\ GraceEnds /\ ProbesFail
  BY <1>1 DEF WorkInv
<1>3. ClaimAges' /\ HeartbeatEnds' /\ GraceEnds'
  BY <1>1, <1>2 DEF ClaimAges, HeartbeatEnds, GraceEnds
<1>4. ProbesFail'
  <2> SUFFICES ASSUME elapsed >= Cap + TTL PROVE ProbesFail'
    BY <1>1 DEF ProbesFail
  <2>1. key = 0 /\ grace = 0
    BY <1>1, <1>2, ClaimAssumption DEF HeartbeatEnds, GraceEnds, TypeOK
  <2>2. failures' = failures + 1
    BY <2>1 DEF Probe, Healthy, Failures, TypeOK
  <2> DEFINE b == failures * Gap
  <2>3. /\ b \in Nat /\ (failures + 1) * Gap = b + Gap
        /\ ((failures + 1) + 1) * Gap = (b + Gap) + Gap
    BY <1>1, Distribute
  <2>4. elapsed + probeIn <= Cap + TTL + (failures + 1) * Gap
    BY <1>1, <1>2 DEF ProbesFail
  <2>5. elapsed <= Cap + TTL + (b + Gap)
    BY <2>3, <2>4, <1>1
  <2> HIDE DEF b
  <2>6. CASE failures' < Retries
    <3>1. elapsed' + probeIn' <= Cap + TTL + ((b + Gap) + Gap)
      <4>1. b \in Nat /\ elapsed \in Nat /\ elapsed' = elapsed
        BY <1>1, <2>3
      <4>2. probeIn' \in Nat /\ probeIn' <= Gap
        BY <1>1
      <4> DEFINE limit == Cap + TTL + (b + Gap)
      <4>3. limit \in Nat /\ limit + Gap = Cap + TTL + ((b + Gap) + Gap)
        BY <4>1
      <4>4. elapsed <= limit
        BY <2>5
      <4> HIDE DEF limit
      <4>5. elapsed + probeIn' <= limit + Gap
        BY <4>1, <4>2, <4>3, <4>4, Sums
      <4> QED
        BY <4>1, <4>3, <4>5
    <3>2. elapsed' + probeIn' <= Cap + TTL + (failures' + 1) * Gap
      BY <2>2, <2>3, <3>1
    <3> QED
      BY <2>6, <3>2 DEF ProbesFail
  <2>7. CASE ~(failures' < Retries)
    <3>1. failures' = Retries /\ healIn' = Heal
      BY <1>1, <2>2, <2>7 DEF Probe
    <3>2. Retries * Gap = b + Gap
      BY <2>2, <2>3, <3>1
    <3>3. elapsed' + healIn' <= Cap + TTL + (b + Gap) + Heal
      BY <1>1, <2>3, <2>5, <3>1
    <3>4. elapsed' + healIn' <= Cap + TTL + Retries * Gap + Heal
      BY <3>2, <3>3
    <3> QED
      BY <2>7, <3>4 DEF ProbesFail
  <2> QED
    BY <2>6, <2>7
<1> QED
  BY <1>3, <1>4

LEMMA OthersKeep ==
  ASSUME TypeOK, WorkInv, [Next]_vars, ~Tick, ~Probe
  PROVE  WorkInv'
<1> SUFFICES ASSUME phase' = "work"
             PROVE  (ClaimAges /\ HeartbeatEnds /\ GraceEnds /\ ProbesFail)'
  BY DEF WorkInv
<1> USE Durations
<1>1. CASE HandleEvent
  <2>1. elapsed' = 0 /\ claim' = Claim /\ key' <= TTL /\ key' \in Nat /\ grace' = grace
    BY <1>1 DEF HandleEvent, RecordHeartbeat, TypeOK, docker
  <2>2. ~(elapsed' >= Cap + TTL)
    BY <2>1
  <2>3. grace' \in Nat /\ grace' <= StartPeriod
    BY <2>1 DEF TypeOK
  <2>4. ClaimAges'
    BY <2>1 DEF ClaimAges
  <2>5. HeartbeatEnds'
    <3>1. Cap \in Nat /\ TTL \in Nat /\ key' \in Nat /\ key' <= TTL /\ elapsed' = 0
      BY <2>1
    <3>2. key' + elapsed' <= Cap + TTL
      BY <3>1, Sums
    <3> QED
      BY <3>2 DEF HeartbeatEnds
  <2>6. GraceEnds'
    BY <2>1, <2>3 DEF GraceEnds
  <2> QED
    BY <2>2, <2>4, <2>5, <2>6 DEF ProbesFail
<1>2. CASE BeatOnce
  <2>1. /\ phase = "work" /\ elapsed' = elapsed /\ elapsed \in Nat /\ elapsed <= Cap
        /\ claim' = claim /\ grace' = grace /\ key' \in {key, TTL}
    BY <1>2 DEF BeatOnce, RecordHeartbeat, TypeOK, docker
  <2>2. ~(elapsed' >= Cap + TTL)
    BY <2>1
  <2>3. ClaimAges /\ HeartbeatEnds /\ GraceEnds
    BY <2>1 DEF WorkInv
  <2> QED
    BY <2>1, <2>2, <2>3 DEF ClaimAges, HeartbeatEnds, GraceEnds, ProbesFail
<1>3. CASE OutageBegins \/ OutageEnds \/ UNCHANGED vars
  BY <1>3 DEF OutageBegins, OutageEnds, vars, worker, docker, history,
              WorkInv, ClaimAges, HeartbeatEnds, GraceEnds, ProbesFail
<1>4. ~(ServerUp \/ WarmedUp \/ StartPoll \/ PollReturns \/ EventEnds \/ RestEnds \/ Crash \/ Kill)
  BY DEF ServerUp, WarmedUp, StartPoll, PollReturns, EventEnds, RestEnds, Crash, Kill, Restart
<1> QED
  BY <1>1, <1>2, <1>3, <1>4 DEF Next, Worker

\* While an event is handled, hung or not, its claim has time left.
THEOREM ClaimsOutliveWork == Spec => []ClaimOutlivesWork
<1>1. TypeOK /\ WorkInv /\ [Next]_vars => WorkInv'
  BY TickKeeps, ProbeKeeps, OthersKeep
<1>2. TypeOK /\ WorkInv => ClaimOutlivesWork
  <2> SUFFICES ASSUME TypeOK, WorkInv, phase = "work" PROVE claim > 0
    BY DEF ClaimOutlivesWork
  <2> USE Durations
  <2>1. ClaimAges /\ ProbesFail /\ elapsed \in Nat /\ claim \in Nat
    BY DEF WorkInv, TypeOK
  <2> DEFINE b == Retries * Gap
  <2>2. b \in Nat
    BY Distribute
  <2>3. failures < Retries => (failures + 1) * Gap <= b
    <3> SUFFICES ASSUME failures < Retries PROVE (failures + 1) * Gap <= b
      OBVIOUS
    <3>1. failures + 1 \in Nat /\ failures + 1 <= Retries
      BY DEF TypeOK
    <3> QED
      BY <3>1, Monotone
  <2>4. Limit = Cap + TTL + b + Heal
    BY DEF Limit, Gap
  <2>5. elapsed <= Cap + TTL + b + Heal
    <3>1. CASE failures < Retries
      <4> DEFINE c == (failures + 1) * Gap
      <4>1. c \in Nat /\ c <= b
        BY <2>3, <3>1, Distribute DEF TypeOK
      <4>2. elapsed >= Cap + TTL => elapsed + probeIn <= Cap + TTL + c
        BY <2>1, <3>1 DEF ProbesFail
      <4> HIDE DEF b, c
      <4> QED
        BY <2>1, <2>2, <4>1, <4>2 DEF TypeOK
    <3>2. CASE ~(failures < Retries)
      <4>1. elapsed >= Cap + TTL => elapsed + healIn <= Cap + TTL + b + Heal
        BY <2>1, <3>2 DEF ProbesFail
      <4> HIDE DEF b
      <4> QED
        BY <2>1, <2>2, <4>1 DEF TypeOK
    <3> QED
      BY <3>1, <3>2
  <2> HIDE DEF b
  <2> QED
    BY <2>1, <2>2, <2>4, <2>5, ClaimAssumption DEF ClaimAges
<1> QED
  BY <1>1, <1>2, WorkInvInit, TypeCorrect, PTL DEF Spec

-----------------------------------------------------------------------------
(* Restarts: what is left of the history when nothing excuses one. *)

Calm == ~overdue /\ ~troubled /\ ~starting

\* How long the worker may stay silent from here.
SilentFor(where, beat, wait) ==
  IF where = "work" THEN beat + Rest + Block
  ELSE IF where = "rest" THEN wait + Block
  ELSE IF where = "poll" THEN wait ELSE Block
Due == SilentFor(phase, beatIn, left)

Waits == /\ phase = "poll" => left <= Block
         /\ phase = "rest" => left <= Rest

\* What the history says of the present.
Marks == /\ outage => troubled
         /\ phase \in {"boot", "warm"} => starting
         /\ phase = "work" /\ elapsed > Cap => overdue
Counts == failures > 0 => grace = 0

\* A worker with no excuse beats before its heartbeat is gone, or at least
\* before the probes that fail until then make it unhealthy.
Beats == Calm => /\ failures < Retries
                 /\ \/ key > Due
                    \/ Due + (failures + 1) * Interval <= Silence + probeIn

\* A worker that starts has no more of a heartbeat than of its start period,
\* and none once a probe has failed, unless Redis did.
Boots == /\ phase = "boot" => key <= grace
         /\ phase \in {"boot", "warm"} /\ failures > 0 /\ ~troubled => key = 0

LEMMA WaitsKept == ASSUME TypeOK, Waits, [Next]_vars PROVE Waits'
<1> USE Durations DEF Waits, TypeOK
<1>1. CASE Worker
  BY <1>1 DEF Worker, ServerUp, WarmedUp, StartPoll, PollReturns, HandleEvent, BeatOnce, EventEnds, RestEnds
<1>2. CASE Crash \/ Kill
  BY <1>2 DEF Crash, Kill, Restart
<1>3. CASE Probe \/ OutageBegins \/ OutageEnds \/ UNCHANGED vars
  BY <1>3 DEF Probe, OutageBegins, OutageEnds, vars, worker
<1>4. CASE Tick
  BY <1>4 DEF Tick, Less
<1> QED
  BY <1>1, <1>2, <1>3, <1>4 DEF Next

LEMMA CountsKept == ASSUME TypeOK, Counts, [Next]_vars PROVE Counts'
<1> USE Durations DEF Counts, TypeOK
<1>1. CASE Worker
  BY <1>1 DEF Worker, ServerUp, WarmedUp, StartPoll, PollReturns, HandleEvent, BeatOnce, EventEnds, RestEnds, docker
<1>2. CASE Crash \/ Kill
  BY <1>2 DEF Crash, Kill, Restart
<1>3. CASE Probe
  BY <1>3 DEF Probe, Failures
<1>4. CASE OutageBegins \/ OutageEnds \/ UNCHANGED vars
  BY <1>4 DEF OutageBegins, OutageEnds, vars, docker
<1>5. CASE Tick
  BY <1>5 DEF Tick, Less
<1> QED
  BY <1>1, <1>2, <1>3, <1>4, <1>5 DEF Next

LEMMA MarksKept == ASSUME TypeOK, Marks, [Next]_vars PROVE Marks'
<1>1. CASE ServerUp \/ WarmedUp \/ StartPoll \/ PollReturns \/ HandleEvent \/ RestEnds
  <2> USE Durations DEF Marks, TypeOK, Phases
  <2>1. UNCHANGED <<outage, troubled, starting, overdue>>
    BY <1>1, Zenon DEF ServerUp, WarmedUp, StartPoll, PollReturns, HandleEvent, RestEnds, history
  <2>2. phase' = "work" => elapsed' = 0
    BY <1>1 DEF ServerUp, WarmedUp, StartPoll, PollReturns, HandleEvent, RestEnds
  <2>3. phase' \in {"boot", "warm"} => phase \in {"boot", "warm"}
    BY <1>1 DEF ServerUp, WarmedUp, StartPoll, PollReturns, HandleEvent, RestEnds
  <2>4. ~(phase' = "work" /\ elapsed' > Cap)
    BY <2>2
  <2> QED
    BY <2>1, <2>3, <2>4, Zenon
<1>2. CASE BeatOnce \/ EventEnds
  BY <1>2 DEF BeatOnce, EventEnds, Marks, history
<1>3. CASE Crash \/ Kill
  <2>1. phase' = "boot" /\ UNCHANGED outage /\ troubled' = outage /\ starting' = TRUE
    BY <1>3, Zenon DEF Crash, Kill, Restart
  <2>2. phase' # "work"
    BY <2>1
  <2> QED
    BY <2>1, <2>2, Zenon DEF Marks
<1>4. CASE Probe
  <2>1. /\ UNCHANGED <<phase, elapsed, outage>>
        /\ troubled' = (troubled /\ ~Healthy)
        /\ overdue' = (overdue /\ (Healthy => elapsed > Cap))
        /\ starting' = (starting /\ (Healthy => phase = "warm"))
    BY <1>4, Zenon DEF Probe, worker
  <2>2. Healthy => ~outage /\ phase # "boot"
    BY Zenon DEF Healthy
  <2>3. phase \in {"boot", "warm"} /\ phase # "boot" => phase = "warm"
    BY Zenon
  <2> QED
    BY <2>1, <2>2, <2>3, Zenon DEF Marks
<1>5. CASE OutageBegins \/ OutageEnds \/ UNCHANGED vars
  <2>1. UNCHANGED <<phase, elapsed, overdue, starting>>
    BY <1>5, SMT DEF OutageBegins, OutageEnds, vars, worker, history
  <2>2. outage' => troubled'
    <3>1. CASE OutageBegins
      BY <3>1, Zenon DEF OutageBegins
    <3>2. CASE OutageEnds
      BY <3>2, Zenon DEF OutageEnds
    <3>3. CASE UNCHANGED vars
      BY <3>3, SMT DEF vars, history, Marks
    <3> QED
      BY <1>5, <3>1, <3>2, <3>3
  <2> QED
    BY <2>1, <2>2, Zenon DEF Marks
<1>6. CASE Tick
  <2>1. /\ UNCHANGED <<phase, outage, troubled, starting>>
        /\ overdue' = (overdue \/ elapsed' > Cap)
    BY <1>6, Zenon DEF Tick
  <2> QED
    BY <2>1, Zenon DEF Marks
<1> QED
  BY <1>1, <1>2, <1>3, <1>4, <1>5, <1>6 DEF Next, Worker

LEMMA BootsKept == ASSUME TypeOK, Counts, Marks, Boots, [Next]_vars PROVE Boots'
<1> USE Durations
<1>1. CASE Worker
  <2>1. /\ failures' = failures /\ grace' = grace /\ troubled' = troubled
        /\ phase' \in {"boot", "warm"} => phase \in {"boot", "warm"} /\ key' = key /\ phase' # "boot"
    BY <1>1 DEF Worker, ServerUp, WarmedUp, StartPoll, PollReturns, HandleEvent, BeatOnce, EventEnds, RestEnds,
                docker, history
  <2> QED
    BY <2>1 DEF Boots
<1>2. CASE Crash \/ Kill
  <2>1. key' = key /\ grace' = StartPeriod /\ failures' = 0
    BY <1>2 DEF Crash, Kill, Restart
  <2> QED
    BY <2>1, PaceAssumption DEF Boots, TypeOK
<1>3. CASE Probe
  <2>1. /\ phase' = phase /\ key' = key /\ outage' = outage
        /\ failures' = Failures(Healthy) /\ grace' = IF Healthy THEN 0 ELSE grace
    BY <1>3 DEF Probe, worker
  <2>2. CASE Healthy
    BY <2>1, <2>2 DEF Healthy, Failures, Boots
  <2>3. CASE ~Healthy
    <3>1. troubled' = troubled
      <4>1. troubled' = (troubled /\ ~Healthy) /\ troubled \in BOOLEAN
        BY <1>3, Zenon DEF Probe, TypeOK
      <4> QED
        BY <2>3, <4>1, Zenon
    <3>2. phase \in {"boot", "warm"} /\ grace = 0 /\ ~troubled => key = 0
      BY <2>3 DEF Healthy, Boots, Marks, TypeOK
    <3>3. failures' > 0 => grace = 0
      BY <2>1, <2>3 DEF Failures, TypeOK
    <3> QED
      BY <2>1, <2>3, <3>1, <3>2, <3>3 DEF Boots
  <2> QED
    BY <2>2, <2>3
<1>4. CASE OutageBegins \/ OutageEnds \/ UNCHANGED vars
  BY <1>4 DEF OutageBegins, OutageEnds, vars, worker, docker, history, Boots, TypeOK
<1>5. CASE Tick
  BY <1>5 DEF Tick, Less, Boots, TypeOK
<1> QED
  BY <1>1, <1>2, <1>3, <1>4, <1>5 DEF Next

\* The start period is over once a healthy worker has been seen.
Started == starting \/ grace = 0

LEMMA StartedKept == ASSUME TypeOK, Started, [Next]_vars PROVE Started'
<1>1. CASE Worker
  <2>1. UNCHANGED <<starting, grace>>
    BY <1>1, SMT DEF Worker, ServerUp, WarmedUp, StartPoll, PollReturns, HandleEvent, BeatOnce, EventEnds, RestEnds,
       docker, history
  <2> QED
    BY <2>1, Zenon DEF Started
<1>2. CASE Crash \/ Kill
  BY <1>2, Zenon DEF Crash, Kill, Restart, Started
<1>3. CASE Probe
  BY <1>3, Zenon DEF Probe, Started
<1>4. CASE OutageBegins \/ OutageEnds \/ UNCHANGED vars
  <2>1. UNCHANGED <<starting, grace>>
    BY <1>4, SMT DEF OutageBegins, OutageEnds, vars, docker, history
  <2> QED
    BY <2>1, Zenon DEF Started
<1>5. CASE Tick
  <2>1. UNCHANGED starting /\ grace' = Less(grace)
    BY <1>5, Zenon DEF Tick
  <2>2. grace = 0 => grace' = 0
    BY <2>1, SMT DEF Less
  <2> QED
    BY <2>1, <2>2, Zenon DEF Started
<1> QED
  BY <1>1, <1>2, <1>3, <1>4, <1>5 DEF Next

LEMMA SilentForType ==
  ASSUME NEW where, NEW beat \in 0..Beat, NEW wait \in Nat,
         where = "poll" => wait <= Block, where = "rest" => wait <= Rest
  PROVE  /\ SilentFor(where, beat, wait) \in Nat /\ SilentFor(where, beat, wait) <= Silence
         /\ Silence \in Nat
<1> USE Durations DEF SilentFor, Silence
<1>1. CASE where = "work"
  <2>1. beat <= Beat /\ beat \in Nat /\ Rest + Block \in Nat /\ Beat + Rest + Block \in Nat
    OBVIOUS
  <2>2. beat + Rest + Block <= Beat + Rest + Block
    BY <2>1
  <2> QED
    BY <1>1, <2>1, <2>2
<1>2. CASE where = "rest"
  BY <1>2
<1>3. CASE where \notin {"work", "rest"}
  BY <1>3
<1> QED
  BY <1>1, <1>2, <1>3

LEMMA DueType ==
  ASSUME TypeOK, Waits
  PROVE  Due \in Nat /\ Due <= Silence /\ Silence \in Nat
BY SilentForType DEF Due, Waits, TypeOK

LEMMA Sooner ==
  ASSUME NEW d \in Nat, NEW e \in Nat, NEW b \in Nat, NEW s \in Nat, NEW k \in Nat,
         e <= d, k > d \/ d + b <= s
  PROVE  k > e \/ e + b <= s
OBVIOUS

LEMMA Later ==
  ASSUME NEW d \in Nat, NEW s \in Nat, NEW p \in Nat, NEW j \in Nat, d <= s, j <= p
  PROVE  d + j <= s + p
OBVIOUS

LEMMA OneLess ==
  ASSUME NEW d \in Nat, NEW b \in Nat, NEW s \in Nat, NEW p \in Nat, NEW k \in Nat,
         d > 0, p > 0, k > d \/ d + b <= s + p
  PROVE  \/ Less(k) > d - 1
         \/ (d - 1) + b <= s + (p - 1)
BY DEF Less

\* What excuses nothing now excused nothing a step of the worker before.
LEMMA CalmBefore == ASSUME Worker, Calm' PROVE Calm
<1>1. UNCHANGED <<overdue, troubled, starting>>
  BY SMT DEF Worker, ServerUp, WarmedUp, StartPoll, PollReturns, HandleEvent, BeatOnce, EventEnds, RestEnds, history
<1> QED
  BY <1>1, Zenon DEF Calm

LEMMA BeatsKept ==
  ASSUME TypeOK, TypeOK', Waits, Waits', Marks, Marks', Started, Beats, [Next]_vars
  PROVE  Beats'
<1> SUFFICES ASSUME Calm'
             PROVE  /\ failures' < Retries
                    /\ \/ key' > Due'
                       \/ Due' + (failures' + 1) * Interval <= Silence + probeIn'
  BY DEF Beats
<1> USE Durations
<1>1. Due \in Nat /\ Due' \in Nat /\ Due' <= Silence /\ Silence \in Nat /\ Silence < TTL
  <2>1. Due' \in Nat /\ Due' <= Silence
    BY SilentForType DEF Due, Waits, TypeOK
  <2> QED
    BY <2>1, DueType, PaceAssumption
<1>2. failures \in Nat /\ failures' \in Nat /\ probeIn \in Nat /\ probeIn' \in Nat /\ key \in Nat /\ key' \in Nat
  BY DEF TypeOK
<1>3. Calm => /\ ~outage /\ phase \notin {"boot", "warm"} /\ grace = 0
              /\ ~(phase = "work" /\ elapsed > Cap)
  BY Zenon DEF Calm, Marks, Started
<1>4. CASE Worker
  <2>1. Calm
    BY <1>4, CalmBefore
  <2>2. UNCHANGED <<failures, probeIn>>
    BY <1>4 DEF Worker, ServerUp, WarmedUp, StartPoll, PollReturns, HandleEvent, BeatOnce, EventEnds, RestEnds, docker
  <2>3. CASE HandleEvent \/ BeatOnce \/ PollReturns
    <3>1. key' = TTL
      BY <1>3, <2>1, <2>3 DEF HandleEvent, BeatOnce, PollReturns, RecordHeartbeat
    <3> QED
      BY <1>1, <2>1, <2>2, <3>1 DEF Beats
  <2>4. CASE StartPoll \/ EventEnds \/ RestEnds
    <3>1. key' = key /\ Due' <= Due
      <4>1. CASE StartPoll
        BY <4>1 DEF StartPoll, Due, SilentFor
      <4>2. CASE EventEnds
        <5>1. Due = beatIn + Rest + Block /\ Due' = Rest + Block /\ key' = key /\ beatIn \in Nat
          BY <4>2 DEF EventEnds, Due, SilentFor, TypeOK
        <5> QED
          BY <5>1
      <4>3. CASE RestEnds
        BY <4>3 DEF RestEnds, Due, SilentFor
      <4> QED
        BY <2>4, <4>1, <4>2, <4>3
    <3> DEFINE b == (failures + 1) * Interval
    <3>2. b \in Nat
      BY <1>2, Distribute
    <3>3. failures < Retries /\ (key > Due \/ Due + b <= Silence + probeIn)
      BY <2>1 DEF Beats
    <3> HIDE DEF b
    <3>4. key' > Due' \/ Due' + b <= Silence + probeIn'
      <4>1. Silence + probeIn \in Nat /\ probeIn' = probeIn /\ key' = key
        BY <1>1, <1>2, <2>2, <3>1
      <4>2. key > Due' \/ Due' + b <= Silence + probeIn
        BY <1>1, <1>2, <3>1, <3>2, <3>3, <4>1, Sooner
      <4> QED
        BY <4>1, <4>2
    <3> QED
      BY <2>2, <3>3, <3>4 DEF b
  <2>5. CASE ServerUp \/ WarmedUp
    BY <1>3, <2>1, <2>5 DEF ServerUp, WarmedUp
  <2> QED
    BY <1>4, <2>3, <2>4, <2>5 DEF Worker
<1>5. CASE Crash \/ Kill
  BY <1>5, Zenon DEF Crash, Kill, Restart, Calm
<1>6. CASE Probe
  <2>1. /\ UNCHANGED <<worker, key, outage>> /\ failures < Retries /\ probeIn = 0
        /\ failures' = Failures(Healthy) /\ grace' = IF Healthy THEN 0 ELSE grace
        /\ NextProbe
    BY <1>6, Zenon DEF Probe
  <2>2. Due' = Due
    BY <2>1 DEF Due, worker
  <2>3. CASE Healthy
    <3>1. failures' = 0 /\ probeIn' >= Interval
      BY <2>1, <2>3 DEF Failures, NextProbe
    <3>2. (failures' + 1) * Interval = Interval
      BY <3>1
    <3> QED
      <4>1. Due' + Interval <= Silence + probeIn'
        BY <1>1, <1>2, <3>1, Later
      <4> QED
        BY <3>1, <3>2, <4>1
  <2>4. CASE ~Healthy
    <3>1. Calm
      BY <1>6, <2>4, Zenon DEF Probe, Calm
    <3>2. grace = 0 /\ ~outage /\ phase # "boot"
      BY <1>3, <3>1
    <3>3. key = 0
      BY <1>2, <2>4, <3>2 DEF Healthy
    <3>4. failures' = failures + 1 /\ probeIn' >= Interval
      BY <2>1, <2>4, <3>2 DEF Failures, NextProbe
    <3> DEFINE b == (failures + 1) * Interval
    <3>5. b \in Nat /\ (failures' + 1) * Interval = b + Interval
      BY <1>2, <3>4, Distribute
    <3>6. Due + b <= Silence
      <4>1. key > Due \/ Due + b <= Silence + probeIn
        BY <3>1 DEF Beats
      <4> HIDE DEF b
      <4> QED
        BY <1>1, <1>2, <2>1, <3>3, <3>5, <4>1
    <3>7. failures' < Retries
      <4>1. b < Retries * Interval
        <5> HIDE DEF b
        <5>1. b <= Silence
          BY <1>1, <3>5, <3>6
        <5>2. Retries * Interval \in Nat
          BY Distribute
        <5> QED
          BY <1>1, <3>5, <5>1, <5>2, PaceAssumption
      <4>2. failures + 1 # Retries
        BY <4>1, <3>5, <1>2, Distribute
      <4> QED
        BY <1>2, <2>1, <3>4, <4>2
    <3>8. Due' + (b + Interval) <= Silence + probeIn'
      <4> HIDE DEF b
      <4> QED
        <5>1. (Due + b) + Interval <= Silence + probeIn'
          <6>1. Due + b \in Nat /\ Interval <= probeIn'
            BY <1>1, <3>4, <3>5
          <6> QED
            BY <1>1, <1>2, <3>6, <6>1, Later
        <5> QED
          BY <1>1, <2>2, <3>5, <5>1
    <3> QED
      BY <3>5, <3>7, <3>8
  <2> QED
    BY <2>3, <2>4
<1>7. CASE OutageBegins
  BY <1>7, Zenon DEF OutageBegins, Calm
<1>8. CASE OutageEnds \/ UNCHANGED vars
  <2>1. UNCHANGED <<worker, key, docker, history>>
    BY <1>8, SMT DEF OutageEnds, vars
  <2>2. Calm
    <3>1. UNCHANGED <<overdue, troubled, starting>>
      BY <2>1, SMT DEF history
    <3> QED
      BY <3>1, Zenon DEF Calm
  <2>3. Due' = Due /\ failures' = failures /\ probeIn' = probeIn /\ key' = key
    BY <2>1 DEF Due, worker, docker
  <2> QED
    BY <2>2, <2>3 DEF Beats
<1>9. CASE Tick
  <2>1. Calm /\ ~(elapsed' > Cap)
    BY <1>9, Zenon DEF Tick, Calm
  <2>2. failures' = failures /\ failures < Retries /\ probeIn > 0 /\ probeIn' = probeIn - 1 /\ key' = Less(key)
    BY <1>2, <1>9, <2>1 DEF Tick, Patient, Less, Beats
  <2>3. Due' = Due - 1
    <3>1. phase \in {"poll", "work", "rest"} /\ phase' = phase /\ left \in Nat /\ beatIn \in Nat /\ elapsed \in Nat
      BY <1>3, <1>9, <2>1 DEF Tick, Patient, TypeOK, Phases
    <3>2. CASE phase = "work"
      <4>1. beatIn > 0
        BY <1>3, <1>9, <2>1, <3>1, <3>2 DEF Tick, Patient
      <4> QED
        BY <1>9, <3>1, <3>2, <4>1 DEF Tick, Less, Due, SilentFor
    <3>3. CASE phase \in {"poll", "rest"}
      <4>1. left > 0
        BY <1>9, <3>1, <3>3 DEF Tick, Patient
      <4> QED
        BY <1>9, <3>1, <3>3, <4>1 DEF Tick, Less, Due, SilentFor
    <3> QED
      BY <3>1, <3>2, <3>3
  <2> DEFINE b == (failures + 1) * Interval
  <2>4. b \in Nat
    BY <1>2, Distribute
  <2>5. key > Due \/ Due + b <= Silence + probeIn
    BY <2>1 DEF Beats
  <2> HIDE DEF b
  <2>6. key' > Due' \/ Due' + b <= Silence + probeIn'
    <3>1. Due > 0
      BY <1>1, <2>3
    <3> QED
      BY <1>1, <1>2, <2>2, <2>3, <2>4, <2>5, <3>1, OneLess
  <2> QED
    BY <2>2, <2>6 DEF b
<1> QED
  BY <1>4, <1>5, <1>6, <1>7, <1>8, <1>9 DEF Next

PaceInv == Waits /\ Marks /\ Counts /\ Started /\ Boots /\ Beats

LEMMA PaceInit == Init => PaceInv
<1> SUFFICES ASSUME Init
             PROVE  PaceInv
  OBVIOUS
<1>1. Waits /\ Counts /\ Boots
  BY Durations DEF Init, Waits, Counts, Boots
<1>2. Started /\ ~Calm /\ outage = FALSE /\ starting = TRUE /\ phase = "boot"
  BY Zenon DEF Init, Started, Calm
<1>3. phase # "work"
  BY <1>2
<1>4. Marks
  BY <1>2, <1>3, Zenon DEF Marks
<1> QED
  BY <1>1, <1>2, <1>4, Zenon DEF PaceInv, Beats

LEMMA PaceAlways == Spec => [](TypeOK /\ PaceInv)
<1>1. TypeOK /\ TypeOK' /\ PaceInv /\ [Next]_vars => PaceInv'
  <2> SUFFICES ASSUME TypeOK, TypeOK', PaceInv, [Next]_vars
               PROVE  PaceInv'
    OBVIOUS
  <2>1. Waits' /\ Marks' /\ Counts' /\ Started' /\ Boots'
    BY WaitsKept, MarksKept, CountsKept, StartedKept, BootsKept DEF PaceInv
  <2>2. Beats'
    BY <2>1, BeatsKept DEF PaceInv
  <2> QED
    BY <2>1, <2>2 DEF PaceInv
<1> QED
  BY <1>1, PaceInit, TypeCorrect, PTL DEF Spec

\* autoheal restarts a worker only for a cause: the cap, Redis, or its start.
THEOREM RestartsHaveCauses == Spec => RestartsHaveACause
<1>1. TypeOK /\ PaceInv => (Killed => overdue \/ troubled \/ (starting /\ grace = 0))
  <2> SUFFICES ASSUME TypeOK, PaceInv, failures = Retries
               PROVE  overdue \/ troubled \/ (starting /\ grace = 0)
    BY DEF Killed
  <2>1. ~(failures < Retries) /\ failures > 0
    BY Durations
  <2>2. ~Calm
    BY <2>1 DEF PaceInv, Beats
  <2>3. grace = 0
    BY <2>1 DEF PaceInv, Counts
  <2> QED
    BY <2>2, <2>3, Zenon DEF Calm
<1>2. TypeOK /\ PaceInv /\ [Next]_vars => [Killed => overdue \/ troubled \/ (starting /\ grace = 0)]_vars
  BY <1>1, Zenon
<1> QED
  BY <1>2, PaceAlways, PTL DEF Spec, RestartsHaveACause

\* A worker restarted before it is up leaves no heartbeat that would cut the
\* next start short, unless Redis was out.
THEOREM RestartsEnd == Spec => NoRestartLoop
<1>1. TypeOK /\ PaceInv /\ [Next]_vars => [Killed /\ phase \in {"boot", "warm"} /\ ~troubled => key' = 0]_vars
  <2> SUFFICES ASSUME TypeOK, PaceInv, [Next]_vars, Killed, phase \in {"boot", "warm"}, ~troubled
               PROVE  key' = 0
    BY Zenon
  <2>1. failures > 0 /\ failures' = 0 /\ phase' = "boot"
    BY Durations DEF Killed
  <2>2. key = 0
    BY <2>1 DEF PaceInv, Boots
  <2>3. CASE Worker
    BY <2>1, <2>3 DEF Worker, ServerUp, WarmedUp, StartPoll, PollReturns, HandleEvent, BeatOnce, EventEnds, RestEnds
  <2>4. CASE Crash \/ Kill \/ Probe \/ OutageBegins \/ OutageEnds
    BY <2>2, <2>4 DEF Crash, Kill, Restart, Probe, OutageBegins, OutageEnds
  <2>5. CASE Tick
    BY <2>2, <2>5 DEF Tick, Less
  <2>6. CASE UNCHANGED vars
    BY <2>2, <2>6 DEF vars
  <2> QED
    BY <2>3, <2>4, <2>5, <2>6 DEF Next
<1> QED
  BY <1>1, PaceAlways, PTL DEF Spec, NoRestartLoop
=============================================================================
