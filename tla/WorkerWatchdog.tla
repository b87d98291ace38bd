--------------------------- MODULE WorkerWatchdog ---------------------------
(***************************************************************************)
(* What keeps one worker alive or ends it, in discrete time: the heartbeat *)
(* key it writes (workers/health.py), the health check Docker runs on it   *)
(* and autoheal, which restarts what is unhealthy (docker-compose.yml).    *)
(* The worker is a process of the consumer, reduced to when it beats and   *)
(* how long it can stay where it is (event_consumer.py).                   *)
(***************************************************************************)
EXTENDS Naturals

CONSTANTS
  Beat,         \* keep_alive: between two beats while an event is handled
  Cap,          \* WORKER_MAX_EVENT_SECONDS: keep_alive beats no longer
  TTL,          \* WORKER_HEARTBEAT_TTL_SECONDS
  Block,        \* an XREADGROUP waits this long at most
  Rest,         \* PROCESSING_DELAY_SECONDS
  Claim,        \* CLAIM_TTL_SECONDS, and PENDING_RECLAIM_IDLE_MS
  Interval,     \* healthcheck: between two probes
  Timeout,      \*   what one takes at most
  Retries,      \*   failures in a row that make the container unhealthy
  StartPeriod,  \*   how long failures do not count
  Heal,         \* until autoheal has noticed, and the container has stopped
  MaxFaults     \* bound: crashes, and outages of Redis

ASSUME DurationsAssumption ==
  {Beat, Cap, TTL, Block, Rest, Claim, Interval, Timeout, Retries, StartPeriod, Heal} \subseteq Nat \ {0}
ASSUME BoundsAssumption == MaxFaults \in Nat

VARIABLES
  phase,     \* "boot", "warm", "ready", "poll", "work" or "rest"
  elapsed,   \* since keep_alive began
  beatIn,    \* until its thread beats again
  left,      \* until XREADGROUP or the delay returns
  key,       \* what is left of the heartbeat's TTL; 0 is no key
  claim,     \* what is left of the TTL of the claim on the event handled
  probeIn,   \* until the next probe has its answer
  failures,  \* probes failed in a row
  grace,     \* what is left of the start period; a success ends it
  healIn,    \* until autoheal restarts an unhealthy container
  outage,    \* Redis does not answer
  faults,
  \* History: what has not been followed by a healthy probe yet.
  overdue,   \* an event passed the cap
  troubled,  \* an outage
  starting   \* the start of the container

worker  == <<phase, elapsed, beatIn, left>>
docker  == <<probeIn, failures, grace, healIn>>
history == <<overdue, troubled, starting>>
vars    == <<worker, key, claim, docker, outage, faults, history>>

Phases == {"boot", "warm", "ready", "poll", "work", "rest"}

\* A worker on one event has this long before it is gone: the last beat, then
\* the key's life, then as many failed probes as make it unhealthy.
Limit == Cap + TTL + Retries * (Interval + Timeout) + Heal

\* "Must outlive the longest event" (idempotency.py, config.py) is not enough.
ASSUME ClaimAssumption == Limit < Claim /\ StartPeriod <= Cap + TTL

\* Whatever a worker does, it beats again within this time: a beat is due, the
\* event ends just before it, and the stream is empty after the rest.  Neither
\* the heartbeat nor the health check's patience is shorter.
Silence == Beat + Rest + Block

ASSUME PaceAssumption == /\ Silence < TTL /\ Silence < Retries * Interval
                         /\ TTL <= StartPeriod

TypeOK ==
  /\ phase \in Phases
  /\ elapsed \in Nat /\ beatIn \in 0..Beat /\ left \in Nat
  /\ key \in 0..TTL /\ claim \in 0..Claim
  /\ probeIn \in 0..(Interval + Timeout) /\ failures \in 0..Retries
  /\ grace \in 0..StartPeriod /\ healIn \in 0..Heal
  /\ outage \in BOOLEAN /\ faults \in 0..MaxFaults
  /\ overdue \in BOOLEAN /\ troubled \in BOOLEAN
  /\ starting \in BOOLEAN

\* When the next probe answers: in the start period Docker may probe at a
\* shorter interval of its own.
NextProbe ==
  probeIn' \in IF grace' > 0 THEN 1..(Interval + Timeout) ELSE Interval..(Interval + Timeout)

Init ==
  /\ phase = "boot"
  /\ elapsed = 0 /\ beatIn = 0 /\ left = 0
  /\ key = 0 /\ claim = 0
  /\ probeIn = Interval /\ failures = 0 /\ grace = StartPeriod /\ healIn = 0
  /\ outage = FALSE /\ faults = 0
  /\ overdue = FALSE /\ troubled = FALSE /\ starting = TRUE

-----------------------------------------------------------------------------
(* The worker. *)

\* record_heartbeat swallows what Redis raises.
RecordHeartbeat == key' = IF outage THEN key ELSE TTL

\* start_worker.sh is done and run_worker.py has started the health server.
ServerUp ==
  /\ phase = "boot"
  /\ phase' = "warm"
  /\ UNCHANGED <<elapsed, beatIn, left, key, claim, docker, outage, faults, history>>

\* warm_up_rag is done.
WarmedUp ==
  /\ phase = "warm"
  /\ phase' = "ready"
  /\ UNCHANGED <<elapsed, beatIn, left, key, claim, docker, outage, faults, history>>

\* Planted bug: the next beat comes with the next event.
PollSilently ==
  /\ phase = "poll"
  /\ ~outage
  /\ phase' = "ready" /\ left' = 0
  /\ UNCHANGED <<elapsed, beatIn, key, claim, docker, outage, faults, history>>

\* XREADGROUP, with a new event or without.
StartPoll ==
  /\ phase = "ready"
  /\ phase' = "poll" /\ left' = Block
  /\ UNCHANGED <<elapsed, beatIn, key, claim, docker, outage, faults, history>>
PollReturns ==
  /\ phase = "poll"
  /\ ~outage
  /\ phase' = "ready" /\ left' = 0
  /\ RecordHeartbeat
  /\ UNCHANGED <<elapsed, beatIn, claim, docker, outage, faults, history>>

\* handle_message has the claim and enters keep_alive, for an event just read,
\* recovered at the start or reclaimed.
HandleEvent ==
  /\ phase = "ready"
  /\ ~outage
  /\ phase' = "work" /\ elapsed' = 0 /\ beatIn' = Beat
  /\ claim' = Claim
  /\ RecordHeartbeat
  /\ UNCHANGED <<left, docker, outage, faults, history>>

\* Planted bug: keep_alive never gives up.
BeatForever ==
  /\ phase = "work" /\ beatIn = 0
  /\ beatIn' = Beat
  /\ RecordHeartbeat
  /\ UNCHANGED <<phase, elapsed, left, claim, docker, outage, faults, history>>

\* _beat, up to its deadline.
BeatOnce ==
  /\ phase = "work" /\ beatIn = 0 /\ elapsed <= Cap
  /\ beatIn' = Beat
  /\ RecordHeartbeat
  /\ UNCHANGED <<phase, elapsed, left, claim, docker, outage, faults, history>>

\* The event is done or dead-lettered.
EventEnds ==
  /\ phase = "work"
  /\ phase' = "rest" /\ left' = Rest
  /\ elapsed' = 0 /\ beatIn' = 0 /\ claim' = 0
  /\ UNCHANGED <<key, docker, outage, faults, history>>

RestEnds ==
  /\ phase = "rest" /\ left = 0
  /\ phase' = "ready"
  /\ UNCHANGED <<elapsed, beatIn, left, key, claim, docker, outage, faults, history>>

-----------------------------------------------------------------------------
(* Docker, autoheal and time. *)

\* The container starts anew.
Restart ==
  /\ phase' = "boot"
  /\ elapsed' = 0 /\ beatIn' = 0 /\ left' = 0 /\ claim' = 0
  /\ grace' = StartPeriod /\ failures' = 0 /\ healIn' = 0
  /\ NextProbe
  /\ overdue' = FALSE
  /\ troubled' = outage
  /\ starting' = TRUE
  /\ UNCHANGED <<key, outage>>

\* The process ends, or a Redis call outside keep_alive raises in an outage;
\* restart: unless-stopped.
Crash ==
  /\ \/ faults < MaxFaults /\ faults' = faults + 1
     \/ outage /\ phase \in {"ready", "poll"} /\ UNCHANGED faults
  /\ Restart

\* is_healthy, asked while the health server runs.
Healthy == phase # "boot" /\ key > 0 /\ ~outage

\* Planted bug: there is no start period.
FailuresFromTheStart(healthy) == IF healthy THEN 0 ELSE failures + 1

\* Failures do not count during the start period.
Failures(healthy) == IF healthy \/ grace > 0 THEN 0 ELSE failures + 1

Probe ==
  /\ probeIn = 0 /\ failures < Retries
  /\ grace' = IF Healthy THEN 0 ELSE grace
  /\ failures' = Failures(Healthy)
  /\ healIn' = IF failures' = Retries THEN Heal ELSE 0
  /\ NextProbe
  /\ troubled' = (troubled /\ ~Healthy)
  /\ overdue' = (overdue /\ (Healthy => elapsed > Cap))
  /\ starting' = (starting /\ (Healthy => phase = "warm"))
  /\ UNCHANGED <<worker, key, claim, outage, faults>>

\* autoheal restarts the container.
Kill ==
  /\ failures = Retries /\ healIn = 0
  /\ Restart
  /\ UNCHANGED faults

OutageBegins ==
  /\ ~outage /\ faults < MaxFaults
  /\ outage' = TRUE /\ faults' = faults + 1 /\ troubled' = TRUE
  /\ UNCHANGED <<worker, key, claim, docker, overdue, starting>>

OutageEnds ==
  /\ outage
  /\ outage' = FALSE
  /\ UNCHANGED <<worker, key, claim, docker, faults, history>>

Less(n) == IF n > 0 THEN n - 1 ELSE 0

\* Nothing is due: no beat, no probe, no restart, no end of a wait, and the
\* worker is not between two steps.
Patient ==
  /\ ~(phase = "work" /\ beatIn = 0 /\ elapsed <= Cap)
  /\ ~(probeIn = 0 /\ failures < Retries)
  /\ ~(failures = Retries /\ healIn = 0)
  /\ ~(phase \in {"poll", "rest"} /\ left = 0)
  /\ phase # "ready"

Tick ==
  /\ Patient
  /\ elapsed' = IF phase = "work" THEN elapsed + 1 ELSE 0
  /\ overdue' = (overdue \/ elapsed' > Cap)
  /\ beatIn' = Less(beatIn) /\ left' = Less(left)
  /\ key' = Less(key) /\ claim' = Less(claim)
  /\ probeIn' = Less(probeIn) /\ grace' = Less(grace) /\ healIn' = Less(healIn)
  /\ UNCHANGED <<phase, failures, outage, faults, troubled, starting>>

Worker ==
  \/ ServerUp \/ WarmedUp \/ StartPoll \/ PollReturns \/ HandleEvent
  \/ BeatOnce \/ EventEnds \/ RestEnds

Next ==
  \/ Worker \/ Crash \/ Probe \/ Kill
  \/ OutageBegins \/ OutageEnds \/ Tick

Spec == Init /\ [][Next]_vars

-----------------------------------------------------------------------------

\* A claim never runs out under the worker that handles its event, hung or not:
\* with the constants of the code the container is gone before.  This is what
\* the consumer's claims, and its reclaiming of idle messages, build on.
ClaimOutlivesWork == phase = "work" => claim > 0

Killed == failures = Retries /\ healIn = 0 /\ phase' = "boot" /\ failures' = 0

\* autoheal restarts a worker only for a cause: its event passed the cap; Redis
\* did not answer; or it was still starting when its start period ended, by
\* time or by a healthy answer that was its predecessor's.  A slow event, the
\* rest after it and an empty stream never are one.
RestartsHaveACause ==
  [][Killed => overdue \/ troubled \/ (starting /\ grace = 0)]_vars

\* A start that a predecessor's heartbeat cuts short is not followed by another:
\* unless Redis was out, a worker killed before it is up leaves no heartbeat.
NoRestartLoop ==
  [][Killed /\ phase \in {"boot", "warm"} /\ ~troubled => key' = 0]_vars
=============================================================================
