--------------------------- MODULE OrderTimeline ---------------------------
(***************************************************************************)
(* The timelines of services/order_timeline.py, read from the rows and the *)
(* Redis state of CustomerOperations at any moment, and what they may      *)
(* tell; then what the pipeline's rows must be to one another.             *)
(***************************************************************************)
EXTENDS CustomerOperations, FiniteSetsExt

\* order_by(created_at.desc()) ... first(): the newest row that passes, 0 if none does.
NewestRow(S) == IF S = {} THEN 0 ELSE Max(S)

RunsOf(agent) == {i \in DOMAIN executions : executions[i].agent = agent}
DelayRun(e)   == NewestRow({i \in RunsOf("delayed_order_agent") : executions[i].event = e})
TriageRun     == NewestRow(RunsOf("triage_agent"))
Approval      == NewestRow(DOMAIN approvals)        \* of the order, whatever its event

\* What a request gets to see of Redis: the newest DEAD_LETTER_SCAN_LIMIT dead
\* letters, which those of other orders may fill, or none when the call raises;
\* and how far the group has read, nothing when that call raises.
Readings ==
  [letters : {{e \in dead : e >= oldest} : oldest \in 1..(Len(stream) + 1)}, position : {0, delivered}]
FullReading == [letters |-> dead, position |-> delivered]

\* Any dead-lettered event of the type about the order.
DeadLetters(type, reading) == {e \in reading.letters : stream[e].type = type}

\* _queue_position compares the message's id with the group's last-delivered-id.
PickedUp(e, reading) == DelayRun(e) # 0 \/ e <= reading.position

\* build_order_timeline(order, e): the stage it stops at and the state it reports.
Stage(stage, state) == [stage |-> stage, state |-> state]

AgentStage(e, reading) ==
  IF DeadLetters("ORDER_DELAYED", reading) # {} THEN Stage("delay_agent", "failed")
  ELSE Stage(IF PickedUp(e, reading) THEN "delay_agent" ELSE "event_queued", "in_progress")

TriageStage(reading) ==
  IF TriageRun # 0 THEN Stage("triage", "complete")
  ELSE Stage("triage", IF DeadLetters("TICKET_CREATED", reading) # {} THEN "failed" ELSE "in_progress")

ActionsStage(decision, reading) ==
  IF decision.resolution \in TRIAGE_RESOLUTIONS THEN TriageStage(reading) ELSE Stage("actions", "complete")

Timeline(e, reading) ==
  IF DelayRun(e) = 0 THEN AgentStage(e, reading)
  ELSE LET decision == executions[DelayRun(e)].decision
           status   == IF Approval = 0 THEN "PENDING" ELSE approvals[Approval].status
       IN  CASE decision.requires_human /\ status = "PENDING"  -> Stage("human_review", "awaiting_approval")
             [] decision.requires_human /\ status = "REJECTED" -> Stage("human_review", "complete")
             [] OTHER                                          -> ActionsStage(decision, reading)

\* build_ticket_timeline(t, m) of a filed ticket and its TICKET_CREATED event m.
TicketTimeline(m, reading) ==
  IF \E i \in RunsOf("triage_agent") : executions[i].event = m THEN "complete"
  ELSE IF m \in reading.letters THEN "failed" ELSE "in_progress"

-----------------------------------------------------------------------------
(* What a reader of the timelines may rely on                              *)

WorkerOn(e)  == Busy(Worker) /\ delivered = e
RequestOn(e) == \E k \in Requests : Busy(k) /\ approvals[k].event = e
TicketsOf(e) == {t \in DOMAIN tickets : tickets[t].event = e /\ tickets[t].by # "customer"}
EventsOf(t)  == {m \in DOMAIN stream : stream[m].ticket = t}

\* The order's latest delay, the one its timeline is watched for.
Latest == NewestRow(Delays)
LatestState(reading) == IF Latest = 0 THEN "none" ELSE Timeline(Latest, reading).state

\* A request that had the newest approval ended on the way: it stays APPROVED.
CutShort == Approval # 0 /\ approvals[Approval].status = "APPROVED" /\ faults["api"] > 0

\* "Awaiting approval" means what it says: the newest approval is this event's
\* and a reviewer can act on it; or the worker is still on the event, about to
\* ask or to retry; or the event was dead-lettered before it could ask.
AwaitingMeansWaiting ==
  \A reading \in Readings : LatestState(reading) = "awaiting_approval" =>
    \/ Approval # 0 /\ approvals[Approval].event = Latest /\ approvals[Approval].status = "PENDING"
    \/ WorkerOn(Latest)
    \/ Latest \in dead

\* "Complete" may be premature only while somebody is still on the event: a
\* rejected decision, or NO_ACTION, or the ticket is there; otherwise the
\* worker or a request is executing, the event is a dead letter, or an API
\* request was cut short (which leaves an approval APPROVED, nothing executed).
CompleteMeansDone ==
  \A reading \in Readings : LatestState(reading) = "complete" =>
    \/ approvals # <<>> /\ approvals[Approval].status = "REJECTED"
    \/ executions[DelayRun(Latest)].decision.resolution = "NO_ACTION"
    \/ TicketsOf(Latest) # {}
    \/ WorkerOn(Latest) \/ RequestOn(Latest)
    \/ Latest \in dead \/ CutShort

\* "In progress" means somebody or something is left to make progress: the
\* event or a TICKET_CREATED of its tickets is queued or worked on, or a
\* request executes it; save after a swallowed publish, a dead letter (one of
\* a ticket only if Redis did not show it) or an API request cut short.
InProgressMeansWork ==
  \A reading \in Readings : LatestState(reading) = "in_progress" =>
    \/ Latest > delivered \/ WorkerOn(Latest) \/ RequestOn(Latest)
    \/ \E t \in TicketsOf(Latest) : \E m \in EventsOf(t) :
         m > delivered \/ WorkerOn(m) \/ m \in dead \ reading.letters
    \/ Latest \in dead \/ CutShort \/ faults["publish"] > 0

\* The portal and the console poll until the state is final: once Redis answers,
\* the order's timeline stops being in progress, unless a fault of InProgressMeansWork
\* holds it, and by then every published ticket's timeline has completed or
\* failed.
TimelinesSettle ==
  []<>(/\ LatestState(FullReading) # "in_progress" \/ Latest \in dead \/ CutShort \/ faults["publish"] > 0
       /\ \A m \in DOMAIN stream :
            stream[m].type = "TICKET_CREATED" => TicketTimeline(m, FullReading) # "in_progress")

\* order_timeline.py:150 of a missing approval: "only in the instant between
\* the worker committing the execution row and committing the approval".
\* Read generously: only while the worker is on the event.
ApprovalMissingOnlyInInstant ==
  \A e \in Delays :
    Timeline(e, FullReading).state = "awaiting_approval" /\ Approval = 0 => WorkerOn(e)

-----------------------------------------------------------------------------
(* What the rows must be to one another                                    *)

\* Nothing was done that no one decided: a ticket the worker opened has an
\* execution row with that decision, which needed no human; a ticket a
\* request opened has an approval of it, and the row that asked for one.
ActionsAreAudited ==
  \A t \in DOMAIN tickets :
    LET decided == \E i \in RunsOf("delayed_order_agent") :
                      /\ executions[i].event = tickets[t].event
                      /\ executions[i].decision = tickets[t].decision
    IN  CASE tickets[t].by = "worker"   -> decided /\ ~tickets[t].decision.requires_human
          [] tickets[t].by = "request"  ->
               /\ decided /\ tickets[t].decision.requires_human
               /\ \E k \in Requests : /\ approvals[k].event = tickets[t].event
                                      /\ approvals[k].decision = tickets[t].decision
          [] tickets[t].by = "customer" -> TRUE

\* A delay brings one approval or one ticket, and one more only for a failed
\* attempt, a worker crash or a failed request: never because TICKET_CREATED
\* could not be published (action_service.py:122).
EffectsHaveACause ==
  \A e \in Delays :
    LET retries == faults["attempt"] + faults["worker"]
        asked   == {k \in Requests : approvals[k].event = e}
    IN  /\ Cardinality(asked) <= 1 + retries
        /\ Cardinality(TicketsOf(e)) <= 1 + retries + faults["api"]

\* However often a ticket is triaged, by whatever answers, its priority never
\* falls and a resolved ticket is not reopened.
TicketsOnlyEscalate ==
  [][\A t \in DOMAIN tickets :
       /\ Rank(tickets'[t].priority) >= Rank(tickets[t].priority)
       /\ tickets[t].status = "RESOLVED" => tickets'[t].status = "RESOLVED"]_vars

\* The customer hears that a ticket is resolved exactly if it is: an update
\* saying so is about a resolved ticket, and a resolved ticket has one, or
\* the worker is still on it, or gave its event up after resolving it.
ResolvedIsTold ==
  \A t \in DOMAIN tickets :
    LET told == \E mail \in emails : mail.ticket = t /\ mail.says = "resolved"
    IN  /\ told => tickets[t].status = "RESOLVED"
        /\ tickets[t].status = "RESOLVED" =>
             told \/ \E m \in EventsOf(t) : m \in dead \/ WorkerOn(m)

-----------------------------------------------------------------------------
(* The promise to whoever publishes, kept by the pipeline as a whole       *)

\* A human was asked or the worker carried the decision out, nothing had to be
\* done, or the ticket was triaged: what is in the database of an event.
Handled(e) ==
  \/ \E k \in Requests : approvals[k].event = e
  \/ \E t \in DOMAIN tickets : tickets[t].by = "worker" /\ tickets[t].event = e
  \/ \E i \in RunsOf("delayed_order_agent") :
       /\ executions[i].event = e /\ executions[i].decision.resolution = "NO_ACTION"
       /\ ~executions[i].decision.requires_human
  \/ \E i \in RunsOf("triage_agent") : executions[i].event = e

Delivery == INSTANCE EventDelivery WITH
  Events    <- Nat,
  log       <- [m \in DOMAIN stream |-> m],
  open      <- {m \in DOMAIN stream : m > delivered \/ WorkerOn(m)},
  processed <- {e \in DOMAIN stream : Handled(e)}

\* No event is left without its rows or a dead letter, and none gets rows that
\* was not published.
ImplementsDelivery == Delivery!Spec

=============================================================================
