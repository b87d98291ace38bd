# AI customer operations, in TLA+

A verification development kept beside the code of *ai-customer-operations*: a
FastAPI service and a background worker that handle e-commerce customer
operations with LLM agents. Orders that are late and tickets that customers
open become events on a Redis stream; a worker process reads them, runs an
agent for each, and either executes the agent's decision or leaves it to a
human reviewer.

Paths below are relative to the repository root; `app/` stands for
`backend/app/`.

## 1. Inventory

| Component | State it keeps | Operations | Speaks to |
|---|---|---|---|
| Event publisher (`app/events/publisher.py`, `schemas.py`) | the `customer-events` stream | `publish_event` (fresh id, XADD, no trimming) | order monitor, demo, tickets API, decision execution |
| Event consumer (`app/workers/event_consumer.py`) | the group's last delivered id and pending list; in memory: batch, attempt counter | `consume_events`, `recover_pending_messages`, `reclaim_stale_messages`, `handle_message` | stream, claims, dead letters, `process_event` |
| Idempotency claims (`app/events/idempotency.py`) | one Redis key per event: free, processing, done | claim (SET NX), take over, mark done, release | event consumer |
| Dead letters (`app/events/dead_letter.py`) | the dead-letter stream | append | event consumer; replayed by hand |
| Event processing (`process_event`, `app/services/action_service.py`, `agent_service.py`) | orders, tickets, notifications, agent runs in PostgreSQL | run the agent, execute the decision or ask for approval, triage a ticket | LLM, database, SMTP, publisher |
| Delayed-order agent (`app/agents/graphs/delayed_order.py`, `guardrails.py`) | graph state: messages, rounds, usage | agent, tools, decision nodes | LLM, read-only tools |
| Triage agent (`app/agents/graphs/triage_agent.py`, `app/services/triage_service.py`) | ticket status and priority | `process_ticket` | LLM, database, SMTP |
| Human approvals (`app/services/approval_service.py`, `app/api/admin.py`) | `human_approvals.status` | create, claim, execute, release, reject | admin console, decision execution |
| Order monitor (`app/services/order_monitor.py`) | a Redis key per order and day | `detect_delayed_orders` | scheduler or operator, publisher |
| Demo simulator (`app/services/demo_service.py`) | orders, tickets, the same daily key | `create_delayed_order`, `create_customer_ticket` | publisher |
| Worker liveness (`app/workers/health.py`, `docker-compose.yml`) | a heartbeat key with a TTL | beat, health endpoint, restart by autoheal | event consumer |
| Timelines (`app/services/order_timeline.py`) | none | stages computed from rows | customer portal |
| Usage accounting (`app/api/admin.py`, `app/core/pricing.py`) | none | group agent runs into tasks | admin console |
| Rate limiter and API keys (`app/core/security.py`) | a counter per caller and window | count, refuse | every API route |
| Hybrid retrieval (`app/rag/`) | vector and BM25 indexes | retrieve, fuse | agents |
| Orders, shipments, customers, products, tickets APIs (`app/api/`) | rows | single-transaction reads and inserts | database |
| Evaluation harness (`backend/evaluation/`) | checkpoint file | run cases, resume | LLM |
| Portal and console (`frontend/`), tracing, configuration, migrations, seeds | - | - | - |

What is hard in it:

* **Crashes anywhere.** The worker's effects, the claim's DONE mark and the
  ack are three systems (PostgreSQL, a Redis key, a Redis stream) written one
  after the other; the process may end between any two of them.
* **Several processes under one name.** Every worker reads as `worker-1`.
* **Concurrent API requests** on one approval, one order, one daily key.
* **Partial failure** of a decision's execution, each step of which commits
  on its own, followed by a retry of the whole.
* **Hung work**, ended from outside by a health check.
* **An arbitrary LLM** that must not escape the cap, the count or the human.

What makes each component correct is stated as the properties of section 3;
the hazards of `PROJECT.json` give the line at which each one bites.

## 2. Modules

| Module | Models | Composition |
|---|---|---|
| `EventDelivery` | the abstract promise of the pipeline to a publisher | implemented by `EventConsumer`, and by `CustomerOperations` |
| `EventConsumer` | stream, group, claims, dead letters, worker processes | `INSTANCE EventDelivery` with a refinement mapping |
| `ApprovalService` | approvals raced for by API requests, with the execution of the decision | - |
| `OrderMonitor` | monitor runs and demo requests over the daily key | - |
| `DelayedOrderGraph` | one run of the delayed-order agent graph | - |
| `CustomerOperations` | the pipeline of one order: worker, agents, execution, reviewers, tickets | takes what `EventConsumer`, `ApprovalService` and `DelayedOrderGraph` show of their parts as given |
| `OrderTimeline` | the timelines, and the properties of the pipeline | EXTENDS `CustomerOperations`; `INSTANCE EventDelivery` with a refinement mapping |
| `AiUsage` | the usage page's tasks, and the migration that found older runs' tasks | EXTENDS `OrderTimeline` |
| `WorkerWatchdog` | heartbeat, health check, autoheal and claim, in discrete time | justifies `Age`, `ExpireClaim` and `KillHung` of `EventConsumer` |
| `RateLimiter` | the fixed-window limiter | - |
| `ShopRequests` | the routes that insert rows, and the simulator's, side by side | - |
| `ApiRequests` | the API server: requests through limiter and handlers | EXTENDS `RateLimiter` and `ShopRequests` |
| `EvaluationRun` | evaluation runs with their checkpoints, retries and gates | EXTENDS `DelayedOrderGraph` |
| `MC...` | model values, symmetry and one specification for TLC | |
| `...Proofs` | theorems and proofs | EXTENDS the component's module |

### EventConsumer

`log`, `delivered`, `pel` and `stale` are the stream and the consumer group:
entries appended, the group's last delivered position, the pending list, and
those of its entries that have idled for 20 minutes. Since every process uses
the name `worker-1` there is one pending list. `claims` is the
`processed_event:<id>` key; `dead` the dead-letter stream. `pc[w]` is where
process `w` stands in `consume_events` and `handle_message`; `todo[w]` is the
batch it holds, `attempt[w]` the local retry counter.

One action is one Redis call, with the Python that leads to the next one:
`RecoverPending` and `RecoveryDone` are XREADGROUP from `0`, `ReclaimStale` is
XAUTOCLAIM, `ReadNew` is XREADGROUP from `>`; `CheckDone`, `TakeOverClaim`,
`TryClaim`, `MarkDone`, `ReleaseClaim` are the calls to `idempotency.py`;
`SendToDeadLetter` and `Ack...` the rest. `process_event` is one step that
returns, raises or hangs. `AckRaises` is an xack that raises inside the `try`,
which the code counts as a failed attempt although the event was processed.
An exception that no handler catches ends the process: `Crash`, from any label.

Abstracted: the batch sizes (100 when recovering, 10 when reclaiming) are "all
of them"; a claim or an idle time runs out at any moment at which no live
worker is busy with the event, since both are longer (20 min) than a worker
may stay on one event (15 min).

### ApprovalService

`status[a]` is the row's status; a request `r` has a target, a verdict and a
`pc`. `Claim` is `UPDATE ... WHERE status = 'PENDING'` with its commit; the
steps of `execute_decision` that commit, publish or mail are `CommitTicket`,
`PublishTicket`, `SendEmail`, `Finish`; `ExecutionRaises` leaves any of them
by an exception, an email that has left included; `Release` and
`ReleaseRaises` are `_release_approval`. `ClaimRaises` is a commit whose
outcome the caller does not learn. `Crash` ends every request in flight. What
an approval executes depends on its resolution only: `Ticketed`, `Triaged`
(the ticket is published for triage), `Emailed` are sets of approvals.

### OrderMonitor

`slots` are the `delayed_order:<id>:<day>` keys, `delayed` the rows the query
finds, `sent` and `announced` what is on the stream. A run computes its day
and its list once (`StartRun`), then per order `TakeSlot` (SET NX),
`PublishOrder` or `PublishRaises`, and after a failure `GiveBack`, which ends
the run. A demo request commits its order (`CreateDemo`: from then on the
monitor sees it), publishes, and sets the key without NX (`MarkDemo`). Orders
become late and midnight passes at any time.

### DelayedOrderGraph

`node` is the node LangGraph runs next; `reply` is the agent's last message,
reduced to whether it calls tools and what decision its text parses to, if
any. `ShouldContinue`, `Tools`, `Validated`, `Reviewed`, `DecideFromAgent`,
`DecideByFallback` are the functions of the same purpose in
`delayed_order.py` and `guardrails.py`. The LLM is nondeterministic.

### CustomerOperations and OrderTimeline

The parts above put together around one order. `stream`, `delivered`, `dead`
are Redis; `executions`, `approvals`, `tickets` the tables, rows in commit
order (which is how the timelines sort them); `emails` the notifications
recorded. An event is its position in the stream; a row its index.

`job[x]` says where an executor of decisions is: `job[Worker]` is the worker on
event `delivered`, `job[k]` the request that has approval `k`. Both run
`CommitTicket`, `PublishTicket`, `SendEmail`, `Settle`: that is
`execute_decision` with each commit, publish and mail a step, and a publish
that fails swallowed. Before it the worker does `Investigate` (the agent, then
its `agent_executions` row) and, if a human is required, `AskHuman`; a
`TICKET_CREATED` goes through `Triage` and `TellCustomer`. `AttemptFails`
raises at any of these steps, `WorkerCrash` ends the process at any of them;
both start the event anew with everything committed so far in place, and after
the last attempt come `Bury` and `AckDead`. Reviewers `Approve` and `Reject`;
`RequestFails` and `ReleaseApproval` put an approval back; `ApiCrash` ends
every request. `create_customer_ticket` is `FileTicket`, `PublishFiled`,
`AcknowledgeFiled`, `FilingFails`.

Two early returns are left out because nothing reaches them: an order always
has a customer (`process_event`), and tickets are not deleted
(`process_ticket`).

Taken as given, since the other modules show it: one worker handles events in
order and exactly the unsettled one is recovered; an approval has one request;
what the agent decides has passed the guardrails (`DecisionsAssumption`).

`Timeline(e, reading)` is `build_order_timeline` for event `e`, reduced to the stage it
stops at and the state it reports, `TicketTimeline(m, reading)` is
`build_ticket_timeline`. They are functions of the state and of what Redis
shows the request, so TLC reads them after every step, for every reading:
`Readings` has any newest part of the dead letters (the scan stops at 500, of
all orders) or none (the call raised, which is swallowed), and the group's
position or none. Rows and Redis are read at one moment; the code takes a few
queries for it. As in the code, the approval and the triage run are the
newest of the order, not of the event, and dead letters are those of any event
of the order.

The promise of `EventDelivery` is made a second time here, where "processed" is
a matter of rows instead of a consumer's label: `Handled(e)` says that a human
was asked, the worker opened a ticket, nothing had to be done, or the ticket
was triaged. An event is open while it is unread or in the worker's hands.

### AiUsage

Event and row of `CustomerOperations` carry `task`, the `task_id` that
`execute_decision` puts into `TICKET_CREATED` and the worker into the row.
`GroupIntoTasks(n)` is `_group_into_tasks` over the newest `n` rows (the page
takes `TASK_SCAN_LIMIT` = 500; the property asks for every `n`), `Backfilled(i)` the task that
`_backfill_task_ids` would give row `i`. Both are compared with `Cause(i)`, what
the run was really for, which neither of them reads.

### WorkerWatchdog

Time goes in ticks. `phase` is where the worker is: booting (no health server
yet), warming up the models, ready, in XREADGROUP, on an event, or in its
delay. `key` and `claim` are what is left of the TTLs of the heartbeat and of the
claim on the event it handles; `probeIn`, `failures`, `grace` and `healIn` are Docker's count of the health
check and autoheal's reaction. A `Tick` waits for everything that is due
(`Patient`), so a beat or a probe is never late by a tick; how long booting,
warming up and an event take is open. `Crash` is a process that ends, and a
Redis call that raises outside `keep_alive` in an outage; `record_heartbeat`
swallows what Redis raises, the probe takes it for unhealthy. While Docker is
in the start period failures do not count, and a first success ends it; newer
versions probe more often then, hence `NextProbe`.

### RateLimiter, ShopRequests, ApiRequests

A request of the limiter reads the clock (`Stamp`), then INCRs (`Count`), then,
if it was the first, EXPIREs (`Expire`): three steps, with time, other requests
and faults between them. A call that raises (`RedisRaises`) may have been
applied, either of the two. `counted` is history: when it was counted.

A handler of `ShopRequests` is its looks (`CheckCustomer`, `CheckShipment`,
`FindCustomer`) and then its insert with commit, as the database sees them:
what decides in between is a unique constraint, and the IntegrityError that no
handler catches is `conflict` (a 500), a refusal by the handler `refused` (a
4xx). A demo order flushes a new customer before it commits and meanwhile holds
the address in the unique index (`Locked`). `seen` is history: how many rows
there were at the look. The three looks of `create_shipment` are one, which
loses nothing: rows are only added, so looks that pass all pass at the first,
and one that refuses does so at its own moment. Addresses are compared as `customers.py` does (as
typed) or as `demo_service.py` does (lower case, the operator `Mailbox`).

`ApiRequests` puts the limiter before the simulator's routes. Its initial
states are an empty database and what `seed_database.py` leaves in it.
`ApiDies` ends all requests under way: rows roll back, counters stay.

### EvaluationRun

`run_all.py` as a process that goes through retrieval, then the cases of the
two agents, then the gates. A delayed-order case is a run of
`DelayedOrderGraph` (`Invoke` takes its steps), in `retry_with_backoff`: a
rate-limit error starts the graph anew (`Retry`), another one fails the case
(`Fail`). `file` holds the records of each checkpoint file and `ending` how it
ends; `memory` is `Checkpoint._done`. `WriteLine`, and `LineIsCut` when the
write is cut short, are `record`; `Load` is the constructor, in which
`json.loads` raises on a torn line. Of a decision's measures one bit is kept:
is it as the dataset expects.

## 3. Runs

Passing runs:

| Run | Shows |
|---|---|
| `consumer_one_worker` | One worker, the deployed configuration. Only the last entry read is ever pending (`OneAtATime`); an acked entry's event was processed or dead-lettered (`NoEventLost`); an event is skipped only if processed (`SkipsOnlyProcessed`); processing twice and dead-lettering what was processed have a cause (`DuplicatesHaveACause`, `ProcessedNotBuried`); every event is settled (`EveryEventSettled`); the worker implements `EventDelivery` (`ImplementsDelivery`). |
| `consumer_survivor` | Two processes, one of which may stop for good: what it leaves pending is taken over and acked, and of the entries that left the pending list with nothing done no more remain than crashes happened (`PendingEventuallySettled`): when both race for a claim, the loser's ack costs an event only if the winner crashes. |
| `approvals` | At most one winner (`OneWinner`); an answered request is never undone (`AnswerStands`); extra tickets and emails are explained by executions that raised (`EffectsHaveACause`); an approval nobody executes is explained by a crash or a failed claim or release (`StuckOnlyByFault`). |
| `monitor` | Published once a day (`OncePerDay`); no slot silences an order unless a request died (`SilentOnlyByDeath`); a run below its limit covers what it found (`RunCovers`); a run takes up a demo request's order only before that request has returned, and only if no run sent its event that day, failed publishes apart (`RunsRespectDemos`). |
| `operations` | What the order's timeline says of its latest delay is so: awaiting approval (`AwaitingMeansWaiting`), complete (`CompleteMeansDone`) and in progress (`InProgressMeansWork`) each hold of the rows and the queue, with the exceptions the properties name; timelines settle (`TimelinesSettle`). Every ticket has the recorded decision, and the approval, it needs (`ActionsAreAudited`); second approvals and tickets of an event each have a failed attempt, crash or request behind them, and never a failed publish (`EffectsHaveACause`); triage never lowers a priority or reopens a ticket (`TicketsOnlyEscalate`); the customer is told that a ticket is resolved if and only if it is (`ResolvedIsTold`). The usage page charges every run to the delay or ticket it was for, however few rows it scans (`UsageIsPerTask`); the migration's rule errs only when a newer delay was investigated in between (`BackfillFindsTask`). |
| `api` | A caller gets no more than the maximum through in a window, and twice that in any stretch as long as one (`LimitHolds`); a counter that never expires has a failed or dead request behind it (`LeakedOnlyByFault`). An order is shipped exactly if it has a shipment, and never has two (`ShippedTogether`); a 500 or a mailbox with two customers comes from a row inserted after the look (`ConflictsAreRaces`); a demo ticket finds the order put under its address (`TicketFindsItsOrder`). |
| `watchdog` | No claim runs out under a worker, hung or not (`ClaimOutlivesWork`); autoheal restarts only what passed the cap, had no Redis, or was still starting (`RestartsHaveACause`); a start cut short by a predecessor's heartbeat is not cut short again (`NoRestartLoop`). |
| `evaluation` | Of the agent: nothing cut short, CRITICAL or ESCALATE is executed without a human (`AutoOnlyIfComplete`), and calls are counted (`CallsCounted`), through retries. Of the harness: no answer that was written down is asked for again (`AskedAgainOnlyForCause`); a checkpoint stops a run only if a line was cut (`ResumesUnlessCut`); gates pass on evaluated cases only (`GatesHonest`); every run ends (`EvaluationEnds`). |

Runs that end in a violation, each of a sentence the repository writes:

| Run | What the code does |
|---|---|
| `operations_asked` | An event is dead-lettered after its execution row was committed and before its approval was. `build_order_timeline` finds the row, no approval, and never looks at the dead letters: "awaiting approval" for good, with nothing to approve. |
| `consumer_two_workers` | A second process starts, recovers what the first has pending (same name), takes its claim over, and both handle the event. |
| `consumer_hanging` | An event on which `process_event` hangs is restarted for ever with its attempts back at 1, and blocks the event behind it. |
| `approvals_rejected` | An execution that fails after the ticket's commit returns the approval to PENDING; it is then rejected, with a ticket (and perhaps an event and an email) in the world. |

The `consumer_...` runs need a second worker process or a hanging event; the
compose file runs one worker.

Type invariants, and `OrderTimeline!ImplementsDelivery`, are not among the runs'
properties: they are proved (section 4).

Further behaviours to know of, met while modelling:

* With two worker processes an event can be lost: a starting process recovers a
  message another was just given and takes its claim first; the other acks the
  message as a duplicate (`event_consumer.py:269-278`); if the first then
  crashes, nobody has it. `PendingEventuallySettled` bounds the loss: one
  event at most for each crash, and none without.
* `create_delayed_order` commits, publishes and only then sets the daily key,
  without NX (`demo_service.py:137-141`): a monitor run in between publishes
  the order too, although `order_monitor.py:13-14` calls the key shared. By
  `RunsRespectDemos` that window is the only one and costs one event.
* `json.loads` raises on a checkpoint line that was cut short
  (`evaluation/utils.py:122`), and does so in every later run until
  `make evaluate-reset`.
* A judge's score that is not a number raises outside the `try` of
  `evaluate_faithfulness.py:91` and ends the whole run, though a failed item
  must not (line 84).
* "Must outlive the longest event" (`idempotency.py`) is not what makes a claim
  safe: it must outlive the cap, the heartbeat's TTL, three probes and
  autoheal's reaction too (`ClaimAssumption`). 20 minutes do.
* A heartbeat that outlives its worker can end the next one's start period
  while the models load; autoheal may then restart it once
  (`RestartsHaveACause`), not for ever (`NoRestartLoop`).
* The simulator matches addresses in any case and the shop as typed, so one
  mailbox can come to have two customers; a demo ticket filed with the address
  may then be refused (`TicketFindsItsOrder`).

The exceptions in the timeline properties are behaviours to know of. A
timeline is "complete" before its ticket exists while the worker or a request
is still executing, and for good if a triage run of another ticket of the
order, or an approval that a crashed request left APPROVED, makes it so. It
stays "in progress" when `TICKET_CREATED` could not be published, though the
stage reads "queued, waiting for the worker", and while Redis does not show the
dead letter that ended the ticket's event.

### Bounds

* Consumer: two events, so that one can wait behind the other; MAX_RETRIES 2
  instead of 3 in the passing runs (the first, a middle and the last attempt
  behave alike but for "is it the last"; the violation runs use 3); one manual
  replay; two crashes, so that a recovery can itself crash; two failed Redis
  calls.
* Approvals: three requests over three approvals, one of each kind of
  resolution (ticket with triage, ticket without, no ticket); two failures, so
  that a retry can fail again; one crash.
* Monitor: two runs, two ordinary orders and a demo order, two days, one
  failed publish, one request that dies; limit 2 of 3 orders.
* Operations: a `Budget` of 5, where an input (a delay or a filed ticket, at
  most two) and a worker crash cost two and any other fault one: so two inputs
  and a fault between them, one input with a worker crash and another fault,
  or one input with three faults. A worker crash with two inputs is left to
  the consumer's own runs, where two events and a crash do meet. One
  decision of each kind (needs a human; executed and triaged; no action), a
  verdict that resolves and one that escalates. MAX_RETRIES is 1, so that one
  fault makes a dead letter and the others can be something else; a retry
  within the process differs from `WorkerCrash` in the attempt counter only.
  `operations_asked` uses 2.
* Api: three requests, of any kinds, from one caller; two addresses that are
  one mailbox, two tracking numbers, a maximum of 1, a window of 2, time up to
  2, so that a window's border can be crossed; one failed call or death. The
  constraint `Bound` lets handlers run in the first moment only, since neither
  part reads the other's state: limiter and handlers meet in `Begin` and in
  `ApiDies`, both of which happen there.
* Watchdog: the durations of the code in units of five seconds: TTL 12, beats
  every 3, the cap 180, the claim 240, probes 6 apart and 1 long, start period 60. Two crashes or
  outages, so that a restart can be disturbed again.
* Evaluation: the cap of the tool loop is 2 instead of 5 (the first round, and
  the last); two delayed-order cases and a triage case, limits of one and two,
  one retry, one kill or cut line. `VIEW MCView` leaves out what a
  message says beside its tool calls: the graph never reads it, so states that
  differ only in it have the same steps.

Bounds are constants of the modules (`MaxCrashes`, `MaxFailures`, ...) and the
theorems hold for all their values.

### Fairness

`EventConsumer!Fairness` is weak fairness of a worker's own steps (a process
that can run does), of `Start` (`restart: unless-stopped`), and of `KillHung`
(the heartbeat of a hung worker stops, the container turns unhealthy and
autoheal restarts it). `Crash`, failures, expiries and publishing are never
fair. `SurvivorSpec` lets one worker live
(the action constraint `SurvivorLives`): only that one is sure to be started,
every running process takes its steps, and pending entries age: time passes.
`CustomerOperations!Fairness` is one
weak fairness condition for the worker and the requests together, the weakest
that keeps the system going. Nobody has to approve, file or publish.
`EvaluationRun!EvalSpec` has weak fairness of a run's own steps: a process
that is not killed goes on, LLM calls have a timeout in the client, and a
backoff ends. Kills, resets and new runs are not fair. The other modules check safety only and stop where they please, hence
`CHECK_DEADLOCK FALSE`.

## 4. Proofs

Proved with TLAPS for all values of the constants:

* `EventConsumerProofs`: `TypeCorrect` needs no assumption but those on the
  constants. The rest assume `OneWorker`, which is what the compose file
  deploys and without which the runs above show counterexamples.
  `OneAtATime` and `NoEventLost` are not inductive: that an acked entry's
  event is settled depends on what the worker knew at the label from which it
  acks, and on a DONE claim meaning "processed". The invariant adds one
  conjunct for each: what the batch, the claims and each label imply.
  `ConsumerImplementsDelivery` maps every step to a step of `EventDelivery` or
  a stutter, with the invariant giving the guard of `Close`.
  `DuplicatesExplained` and `BuriedIsUnprocessed` count, in `OutcomesExplained`:
  what came of an event, plus one if the worker may still process or bury it,
  is at most the entries read of it plus the crashes and failed Redis calls.
* `ApprovalServiceProofs`: `AtMostOneWinner` by an invariant that ties each
  request that holds an approval to the row's status; `AnswersStand` follows
  from it: only a request that holds an approval ever releases it.
  `EffectsAreExplained` needs `Accounted`: how far an execution has come bounds
  the effects that no failure explains, and one that is to be claimed has
  none. `StuckNeedsFault` is inductive on top of the first invariant: only a
  crash and a release that raises let go of an approval unsettled.
* `OrderMonitorProofs`: `PublishedOncePerDay` needs that a slot being settled
  is held by one run only (`Exclusive`), that a slot a run can still take or
  has just taken carries no event unless a publish raised (`TakeableUnsent`);
  `NobodySilenced` adds what a demo request's stage implies (`DemoOrder`).
  The conjunction `IInv` is also checked by TLC. `RunsCover` follows from
  `PassedCovered` (what a run passed over was announced, or is being settled)
  and `DemosRespected` from `Marked` (the key of a finished demo request is
  there, unless a publish that raised gave it back, `GivenBack`, or its day and
  every run of that day are over), from `TakeableUnsent`, and from no run
  knowing an order before it is created (`Uncreated`).
* `DelayedOrderGraphProofs`: for every cap, `HumanInTheLoop`, `CallsBounded`
  (calls are rounds plus one until the decision node), `UsageIsExact`.
* `EvaluationRunProofs` proves the same of the graph inside the harness
  (`HumanInTheEvaluation`, `EvaluationUsageIsExact`), and of the harness by
  `EvalInv`: between loads the memory of a run is its file but for the answer
  about to be written (`Remembers`), every answer given is in the file, about
  to be, or lost (`AnswersKept`), only a cut line makes a file end badly
  (`UncleanIsCut`), and the tally is the count of the cases the run has behind
  it (`Tallied`). `AnswersSpentOnce`, `KilledRunsResume` and
  `GatesTellTheTruth` each follow from one of these conjuncts.
* `ApiRequestsProofs`: a step of the server is a step of the limiter and a
  step of the handlers, either of which may stutter (`StepSplits`); so each
  part has an invariant of its own. `LimiterInv`: requests stamp a window no
  later than now, a counter expires only after its window, and until then has
  counted everyone it let through. `LimitRespected` then needs that a stretch
  as long as a window touches two of them. `ShopInv`: what a request did not find when it looked has been inserted
  since (`LooksHold`), and an order is shipped exactly if it has its one
  shipment (`OneEach`).
* `WorkerWatchdogProofs`: `ClaimsOutliveWork`, for all durations with
  `Cap + TTL + Retries * (Interval + Timeout) + Heal < Claim` and
  `StartPeriod <= Cap + TTL`. The invariant `WorkInv` says how old the event can be while the key lives, while the start
  period lasts, and with how many failed probes behind it.
  `RestartsHaveCauses` and `RestartsEnd` hold for all durations with
  `Silence < TTL`, `Silence < Retries * Interval` and `TTL <= StartPeriod`
  (`PaceAssumption`, true of the deployed ones), where `Silence` is the longest
  a healthy worker goes without a beat. `PaceInv` bounds it from both ends: the
  heartbeat of a worker with no excuse outlasts its silence, or the failed
  probes so far leave time for a beat (`Beats`); a start has no more of a
  predecessor's heartbeat than of its start period (`Boots`).
* `CustomerOperationsProofs`: `TypeCorrect`, with `Ready` (who acts on a
  decision has one) to make it inductive: rows are only appended, so what a row
  refers to stays there (`RowsGrow`). `TicketsEscalate` is an action property
  from the types alone. `ActionsAudited` needs `AuditInv`: what the worker is
  about to ask or execute was decided for its event, an approval and the
  request that holds it carry such a decision, and every ticket was made from
  one; execution and approval rows never change what they are about
  (`ExecutionsStay`, `ApprovalsStay`).
  * `ResolvedTold`: a resolved ticket has its mail, or its event is held by the
    worker or a dead letter, and the worker settles the event of a resolved
    ticket only after telling (`ToldInv`); `Lane` says which kind of event each
    label is about.
  * `EffectsExplained` counts: the approvals of an event, plus one if the
    worker may still ask, are at most one more than the retries
    (`AsksBounded`); its tickets, plus the approvals and requests that may
    still open one, one more than the failures (`OpenBounded`). A request that
    acts has its approval APPROVED (`Claimed`).
  * `UsagePerTask`, `BackfillIsRight`: every ticket, event, filing and publish
    names the ticket and delay it belongs to (`Links`), so the run rows carry
    the task they were for (`TriageRows`), and investigations come in the order
    of the stream (`DelayRows`).
  * `AwaitingIsTrue`, `CompleteIsTrue`, `InProgressIsTrue`: `WorkInv` says that
    the worker acts on the newest decision about its event, that what it is
    about to settle is done, and that every event read is in its hands, done
    or a dead letter (`ReadIsDone`); `PaperInv` that an approved decision is
    carried out, on its way, or was cut short. That a nonempty set of rows has
    a newest one, which the timelines read, is proved (from `WFMin`: the
    numbers below a bound are well-founded).
  * `PipelineImplementsDelivery`: a step that appends an event is `Publish`,
    rows for the event in hand are `Succeed`, `Settle` and `AckDead` are
    `Close`, whose guard comes from `WorkInv` and `Lane`; all other steps
    stutter. TLC refutes it with the recovery at start-up taken out
    (`CrashForgets`).

Only model-checked: everything temporal (`EveryEventSettled`,
`PendingEventuallySettled`, `EvaluationEnds`, `TimelinesSettle`), since liveness
under fairness is out of the prover's reach; and the four disagreements, which
are counterexamples.

## 5. Not modelled

Prompts, texts and email bodies, the regular expression that looks for
injections, token sums and prices (no property is about them: they are
functions of one input with no state); retrieval, whose parts are libraries and
whose fusion is a sum of quotients and a sort; document ingestion; endpoints
that only read; API keys; the frontend, which polls the timeline; tracing,
logging and configuration; schema migrations and knowledge ingestion, which are
run by hand with nothing else running.

## 6. Plan

1. An abstract specification of an approval (asked, granted or refused,
   carried out) that the requests of `CustomerOperations` and `ApprovalService`
   both implement, which would prove that the one may take the other for
   granted.
2. The same for the worker: `CustomerOperations` takes events in order, one
   until it is settled, as `EventConsumer` with one worker is proved to.
3. The guardrail on a ticket's text, and reciprocal rank fusion as an operator
   against a reference definition.
