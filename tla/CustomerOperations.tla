------------------------- MODULE CustomerOperations -------------------------
(***************************************************************************)
(* The pipeline of one order, end to end: process_event of                 *)
(* workers/event_consumer.py runs the delayed-order agent, then executes   *)
(* its decision or leaves it to a reviewer; tickets that come out of it,   *)
(* or that the customer files, are triaged.  Every commit, publish and     *)
(* email is a step; attempts fail, the worker and the API crash, and the   *)
(* timelines of services/order_timeline.py are read at any moment.         *)
(*                                                                         *)
(* What EventConsumer shows of the queue is taken for granted here: one    *)
(* worker takes the events in order and runs each until it is settled or   *)
(* on the dead-letter stream; and what ApprovalService shows of approvals: *)
(* at most one request has an approval.  An event's id is its position in  *)
(* the stream, an approval's and a ticket's id its row.                    *)
(***************************************************************************)
EXTENDS Naturals, Sequences, FiniteSets

CONSTANTS Decisions,     \* what the delayed-order agent may decide, guardrails applied
          Verdicts,      \* what the triage agent may decide, guardrails applied
          None,          \* no decision
          FiledPriorities,  \* what a customer's ticket is filed with
          MAX_RETRIES,   \* workers/config.py
          MaxInputs,     \* bound: delays published and tickets filed
          Budget         \* bound: what these and the faults may cost, together

Severities  == {"LOW", "MEDIUM", "HIGH", "CRITICAL"}
Resolutions == {"TRACK_SHIPMENT", "CONTACT_CARRIER", "CONTACT_CUSTOMER", "ESCALATE", "NO_ACTION"}
Actions     == {"AUTO_RESPOND", "ROUTE_TO_AGENT", "ESCALATE", "RESOLVE"}

\* attempt: a step of process_event raises; publish: a publish_event that
\* execute_decision swallows; worker: the worker ends; api: a request raises
\* or the API ends.
FaultKinds  == {"attempt", "publish", "worker", "api"}

\* action_service.py and order_timeline.py keep a copy each.
TRIAGE_RESOLUTIONS == {"ESCALATE", "CONTACT_CUSTOMER"}

ASSUME DecisionsAssumption ==
  /\ Decisions \subseteq [severity : Severities, resolution : Resolutions,
                          customer_message : BOOLEAN, requires_human : BOOLEAN]
  \* DelayedOrderGraph!AutoOnlyIfComplete
  /\ \A d \in Decisions :
       d.severity = "CRITICAL" \/ d.resolution = "ESCALATE" => d.requires_human
ASSUME VerdictsAssumption ==
  /\ Verdicts \subseteq [priority : Severities, action : Actions, requires_human : BOOLEAN]
  /\ FiledPriorities \subseteq Severities
ASSUME NoneAssumption == None \notin Decisions \cup Verdicts
ASSUME BoundsAssumption ==
  /\ MAX_RETRIES \in Nat \ {0}
  /\ MaxInputs \in Nat /\ Budget \in Nat

VARIABLES
  stream, delivered, dead,                 \* Redis: events, last one read, dead letters
  executions, approvals, tickets,  \* the database, rows in commit order
  emails,    \* notifications recorded, delivered or not, up to repetition
  job,       \* where the worker and each approving request are
  attempt,   \* the worker's attempt at its event
  filing,    \* the ticket create_customer_ticket is at, and where
  faults     \* faults so far, by kind

redis    == <<stream, delivered, dead>>
database == <<executions, approvals, tickets, emails>>
vars     == <<redis, database, job, attempt, filing, faults>>

-----------------------------------------------------------------------------
(* Rows, events and jobs                                                   *)

\* Who executes decisions: the worker, and for approval k the request k.
Worker   == 0
Requests == DOMAIN approvals
Jobs     == {Worker} \cup Requests

Idle   == [at |-> "idle", decision |-> None, ticket |-> 0]
Retry  == [Idle EXCEPT !.at = "start"]
GiveUp == [Idle EXCEPT !.at = "bury"]
Labels == {"idle", "start", "ask", "ticket", "publish", "email", "tell", "settle",
           "bury", "ackDead", "release"}

Delays  == {e \in DOMAIN stream : stream[e].type = "ORDER_DELAYED"}
Filed   == {t \in DOMAIN tickets : tickets[t].by = "customer"}

EventOf(x)  == IF x = Worker THEN delivered ELSE approvals[x].event
Busy(x)     == job[x].at # "idle"
Goto(x, l)  == job' = [job EXCEPT ![x].at = l]
Inputs      == Cardinality(Delays) + Cardinality(Filed)

\* The bound: an input and a worker crash open most behaviours, and cost most.
Cost(kind)    == IF kind = "worker" THEN 2 ELSE 1
Spent         == 2 * Inputs + 2 * faults["worker"]
                 + faults["attempt"] + faults["publish"] + faults["api"]
InputInBounds == Inputs < MaxInputs /\ Spent + 2 <= Budget
Fault(kind)   == Spent + Cost(kind) <= Budget /\ faults' = [faults EXCEPT ![kind] = @ + 1]

\* The task of a TICKET_CREATED is the delay it came out of, 0 if it was filed.
OrderDelayed           == [type |-> "ORDER_DELAYED", ticket |-> 0, task |-> 0]
TicketCreated(t, task) == [type |-> "TICKET_CREATED", ticket |-> t, task |-> task]

Ticket(by, event, decision, priority) ==
  [by |-> by, event |-> event, decision |-> decision, priority |-> priority, status |-> "OPEN"]

EventRows == [type : {"ORDER_DELAYED", "TICKET_CREATED"}, ticket : 0..Len(tickets),
              task : 0..delivered]
ExecutionRows == [agent : {"delayed_order_agent", "triage_agent"}, event : 1..delivered,
                  task : 1..delivered, ticket : 0..Len(tickets),
                  decision : Decisions \cup {None}]
ApprovalRows == [event : 1..delivered, decision : Decisions,
                 status : {"PENDING", "APPROVED", "REJECTED"}]
TicketRows == [by : {"worker", "request", "customer"}, event : 0..delivered,
               decision : Decisions \cup {None}, priority : Severities,
               status : {"OPEN", "RESOLVED"}]
EmailRows == [ticket : 0..Len(tickets), says : {"update", "received", "resolved"} \cup Actions]
JobStates == [at : Labels, decision : Decisions \cup Verdicts \cup {None},
              ticket : 0..Len(tickets)]

TypeOK ==
  /\ stream \in Seq(EventRows)
  /\ delivered \in 0..Len(stream)
  /\ dead \subseteq 1..delivered
  /\ executions \in Seq(ExecutionRows)
  /\ approvals \in Seq(ApprovalRows)
  /\ tickets \in Seq(TicketRows)
  /\ emails \subseteq EmailRows
  /\ job \in [Jobs -> JobStates]
  /\ attempt \in 1..MAX_RETRIES
  /\ filing \in [at : {"idle", "publish", "email"}, ticket : 0..Len(tickets)]
  /\ faults \in [FaultKinds -> Nat]

Init ==
  /\ stream = <<>> /\ delivered = 0 /\ dead = {}
  /\ executions = <<>> /\ approvals = <<>> /\ tickets = <<>> /\ emails = {}
  /\ job = [x \in {Worker} |-> Idle]
  /\ attempt = 1
  /\ filing = [at |-> "idle", ticket |-> 0]
  /\ faults = [kind \in FaultKinds |-> 0]

-----------------------------------------------------------------------------
(* The API files tickets, monitors and demos publish delays                *)

PublishDelayed ==
  /\ InputInBounds
  /\ stream' = Append(stream, OrderDelayed)
  /\ UNCHANGED <<delivered, dead, database, job, attempt, filing, faults>>

FileTicket ==
  /\ filing.at = "idle" /\ InputInBounds
  /\ \E p \in FiledPriorities : tickets' = Append(tickets, Ticket("customer", 0, None, p))
  /\ filing' = [at |-> "publish", ticket |-> Len(tickets')]
  /\ UNCHANGED <<redis, executions, approvals, emails, job, attempt, faults>>

PublishFiled ==
  /\ filing.at = "publish"
  /\ stream' = Append(stream, TicketCreated(filing.ticket, 0))
  /\ filing' = [filing EXCEPT !.at = "email"]
  /\ UNCHANGED <<delivered, dead, database, job, attempt, faults>>

AcknowledgeFiled ==
  /\ filing.at = "email"
  /\ emails' = emails \cup {[ticket |-> filing.ticket, says |-> "received"]}
  /\ filing' = [filing EXCEPT !.at = "idle"]
  /\ UNCHANGED <<redis, executions, approvals, tickets, job, attempt, faults>>

\* Here a publish that raises is not swallowed: the request fails, its ticket stays.
FilingFails ==
  /\ filing.at # "idle"
  /\ Fault("api")
  /\ filing' = [filing EXCEPT !.at = "idle"]
  /\ UNCHANGED <<redis, database, job, attempt>>

-----------------------------------------------------------------------------
(* The worker and its event                                                *)

ReadNext ==
  /\ ~Busy(Worker) /\ delivered < Len(stream)
  /\ delivered' = delivered + 1
  /\ Goto(Worker, "start") /\ attempt' = 1
  /\ UNCHANGED <<stream, dead, database, filing, faults>>

\* Planted bug: requires_human is not asked.
ExecuteUnreviewed ==
  /\ job[Worker].at = "start" /\ stream[delivered].type = "ORDER_DELAYED"
  /\ \E d \in Decisions :
       /\ executions' = Append(executions, [agent |-> "delayed_order_agent", event |-> delivered,
                                            task |-> delivered, ticket |-> 0, decision |-> d])
       /\ job' = [job EXCEPT ![Worker] = [at |-> "ticket", decision |-> d, ticket |-> 0]]
  /\ UNCHANGED <<redis, approvals, tickets, emails, attempt, filing, faults>>

\* The graph runs, then its execution row commits; create_approval or
\* execute_decision comes next.  That process_event returns early for an order
\* without a customer cannot be: the column is not null, no order is deleted.
Investigate ==
  /\ job[Worker].at = "start" /\ stream[delivered].type = "ORDER_DELAYED"
  /\ \E d \in Decisions :
       /\ executions' = Append(executions, [agent |-> "delayed_order_agent", event |-> delivered,
                                            task |-> delivered, ticket |-> 0, decision |-> d])
       /\ job' = [job EXCEPT ![Worker] = [at |-> IF d.requires_human THEN "ask" ELSE "ticket",
                                           decision |-> d, ticket |-> 0]]
  /\ UNCHANGED <<redis, approvals, tickets, emails, attempt, filing, faults>>

\* Planted bug: create_approval without its commit.
AskWithoutCommit ==
  /\ job[Worker].at = "ask"
  /\ Goto(Worker, "settle")
  /\ UNCHANGED <<redis, database, attempt, filing, faults>>

AskHuman ==
  /\ job[Worker].at = "ask"
  /\ approvals' = Append(approvals, [event |-> delivered, decision |-> job[Worker].decision,
                                     status |-> "PENDING"])
  /\ job' = [x \in {Worker} \cup DOMAIN approvals' |->
               IF x = Worker THEN [job[x] EXCEPT !.at = "settle"]
               ELSE IF x \in Requests THEN job[x] ELSE Idle]
  /\ UNCHANGED <<redis, executions, tickets, emails, attempt, filing, faults>>

\* Severity rank; the alphabet would put "LOW" above "HIGH".
Rank(p) == CASE p = "LOW" -> 0 [] p = "MEDIUM" -> 1 [] p = "HIGH" -> 2 [] p = "CRITICAL" -> 3

\* Planted bug: priorities compared as strings.
TriagedByName(ticket, v) ==
  LET name == [CRITICAL |-> 0, HIGH |-> 1, LOW |-> 2, MEDIUM |-> 3]
  IN [ticket EXCEPT !.priority = IF name[v.priority] > name[@] THEN v.priority ELSE @,
                    !.status   = IF v.action = "RESOLVE" /\ ~v.requires_human THEN "RESOLVED" ELSE @]

Triaged(ticket, v) ==
  [ticket EXCEPT !.priority = IF Rank(v.priority) > Rank(@) THEN v.priority ELSE @,
                 !.status   = IF v.action = "RESOLVE" /\ ~v.requires_human THEN "RESOLVED" ELSE @]

\* Planted bug: every triage is a task of its own.
TriageOnItsOwn ==
  /\ job[Worker].at = "start" /\ stream[delivered].type = "TICKET_CREATED"
  /\ LET t == stream[delivered].ticket IN
     \E v \in Verdicts :
       /\ executions' = Append(executions, [agent |-> "triage_agent", event |-> delivered,
                                            task |-> delivered, ticket |-> t, decision |-> None])
       /\ tickets' = [tickets EXCEPT ![t] = Triaged(@, v)]
       /\ job' = [job EXCEPT ![Worker] = [at |-> "tell", decision |-> v, ticket |-> t]]
  /\ UNCHANGED <<redis, approvals, emails, attempt, filing, faults>>

\* Execution row and ticket commit together.  That process_ticket returns early
\* for a ticket it does not find cannot be: no code deletes one.
Triage ==
  /\ job[Worker].at = "start" /\ stream[delivered].type = "TICKET_CREATED"
  /\ LET t    == stream[delivered].ticket
         task == IF stream[delivered].task = 0 THEN delivered ELSE stream[delivered].task IN
     \E v \in Verdicts :
       /\ executions' = Append(executions, [agent |-> "triage_agent", event |-> delivered,
                                            task |-> task, ticket |-> t, decision |-> None])
       /\ tickets' = [tickets EXCEPT ![t] = Triaged(@, v)]
       /\ job' = [job EXCEPT ![Worker] = [at |-> "tell", decision |-> v, ticket |-> t]]
  /\ UNCHANGED <<redis, approvals, emails, attempt, filing, faults>>

\* Planted bug: the mail goes by this run's verdict.
UpdateByVerdict(ticket, v) == IF v.action = "RESOLVE" /\ ~v.requires_human THEN "resolved" ELSE v.action

\* What the mail says goes by the ticket's status, then by this run's action.
TriageUpdate(ticket, v) == IF ticket.status = "RESOLVED" THEN "resolved"
                           ELSE IF v.action = "RESOLVE" THEN "ROUTE_TO_AGENT" ELSE v.action

TellCustomer ==
  /\ job[Worker].at = "tell"
  /\ LET t == job[Worker].ticket IN
     emails' = emails \cup {[ticket |-> t,
                               says |-> TriageUpdate(tickets[t], job[Worker].decision)]}
  /\ Goto(Worker, "settle")
  /\ UNCHANGED <<redis, executions, approvals, tickets, attempt, filing, faults>>

\* A step of process_event, of mark_event_done or of xack raises.
AttemptFails ==
  /\ job[Worker].at \notin {"idle", "bury", "ackDead"}
  /\ Fault("attempt")
  /\ IF attempt < MAX_RETRIES
     THEN attempt' = attempt + 1 /\ job' = [job EXCEPT ![Worker] = Retry]
     ELSE attempt' = attempt     /\ job' = [job EXCEPT ![Worker] = GiveUp]
  /\ UNCHANGED <<redis, database, filing>>

Bury ==
  /\ job[Worker].at = "bury"
  /\ dead' = dead \cup {delivered}
  /\ Goto(Worker, "ackDead")
  /\ UNCHANGED <<stream, delivered, database, attempt, filing, faults>>

AckDead ==
  /\ job[Worker].at = "ackDead"
  /\ Goto(Worker, "idle")
  /\ UNCHANGED <<redis, database, attempt, filing, faults>>

\* Planted bug: no recovery at start-up.
CrashForgets ==
  /\ Busy(Worker)
  /\ Fault("worker")
  /\ job' = [job EXCEPT ![Worker] = Idle] /\ attempt' = 1
  /\ UNCHANGED <<redis, database, filing>>

\* The next process recovers the unfinished event and starts it anew.  The
\* worker also ends when Bury or AckDead raises.
WorkerCrash ==
  /\ Busy(Worker)
  /\ Fault("worker")
  /\ job' = [job EXCEPT ![Worker] = Retry] /\ attempt' = 1
  /\ UNCHANGED <<redis, database, filing>>

-----------------------------------------------------------------------------
(* execute_decision, by the worker or by an approving request              *)

\* Planted bugs: the commit forgotten; only escalations sent to triage.
TicketWithoutCommit(x) ==
  /\ job[x].at = "ticket"
  /\ Goto(x, "email")
  /\ UNCHANGED <<redis, database, attempt, filing, faults>>
TriageEscalationsOnly(x) ==
  /\ job[x].at = "ticket" /\ job[x].decision.resolution # "NO_ACTION"
  /\ tickets' = Append(tickets, Ticket(IF x = Worker THEN "worker" ELSE "request", EventOf(x),
                                       job[x].decision, job[x].decision.severity))
  /\ job' = [job EXCEPT ![x].ticket = Len(tickets'),
                         ![x].at = IF job[x].decision.resolution = "ESCALATE" THEN "publish" ELSE "email"]
  /\ UNCHANGED <<redis, executions, approvals, emails, attempt, filing, faults>>

CommitTicket(x) ==
  /\ job[x].at = "ticket"
  /\ LET d == job[x].decision IN
     IF d.resolution = "NO_ACTION"
     THEN /\ Goto(x, "email")
          /\ UNCHANGED tickets
     ELSE /\ tickets' = Append(tickets, Ticket(IF x = Worker THEN "worker" ELSE "request",
                                               EventOf(x), d, d.severity))
          /\ job' = [job EXCEPT ![x].ticket = Len(tickets'),
                                 ![x].at = IF d.resolution \in TRIAGE_RESOLUTIONS
                                           THEN "publish" ELSE "email"]
  /\ UNCHANGED <<redis, executions, approvals, emails, attempt, filing, faults>>

\* Planted bug: a publish that fails fails the execution.
PublishOrRaise(x) ==
  /\ job[x].at = "publish"
  /\ \/ /\ stream' = Append(stream, TicketCreated(job[x].ticket, EventOf(x)))
        /\ Goto(x, "email") /\ UNCHANGED faults
     \/ /\ Fault("publish") /\ UNCHANGED stream
        /\ Goto(x, IF x = Worker THEN "start" ELSE "release")
  /\ UNCHANGED <<delivered, dead, database, attempt, filing>>

PublishTicket(x) ==
  /\ job[x].at = "publish"
  /\ \/ stream' = Append(stream, TicketCreated(job[x].ticket, EventOf(x))) /\ UNCHANGED faults
     \/ Fault("publish") /\ UNCHANGED stream        \* logged, the ticket stands
  /\ Goto(x, "email")
  /\ UNCHANGED <<delivered, dead, database, attempt, filing>>

SendEmail(x) ==
  /\ job[x].at = "email"
  /\ LET d == job[x].decision
         facing == d.resolution \in TRIAGE_RESOLUTIONS
     IN IF d.customer_message \/ facing
        THEN emails' = emails \cup {[ticket |-> IF facing THEN job[x].ticket ELSE 0,
                                     says   |-> IF d.customer_message THEN "update" ELSE "received"]}
        ELSE UNCHANGED emails
  /\ Goto(x, "settle")
  /\ UNCHANGED <<redis, executions, approvals, tickets, attempt, filing, faults>>

\* mark_event_done and xack, or the request's last commit and its answer.
Settle(x) ==
  /\ job[x].at = "settle"
  /\ job' = [job EXCEPT ![x] = Idle]
  /\ UNCHANGED <<redis, database, attempt, filing, faults>>

ExecuteDecision(x) == CommitTicket(x) \/ PublishTicket(x) \/ SendEmail(x) \/ Settle(x)

-----------------------------------------------------------------------------
(* Reviewers                                                               *)

Claim(k, status) ==
  /\ approvals[k].status = "PENDING"
  /\ approvals' = [approvals EXCEPT ![k].status = status]

Approve(k) ==
  /\ Claim(k, "APPROVED")
  /\ job' = [job EXCEPT ![k] = [at |-> "ticket", ticket |-> 0,
                              decision |-> approvals[k].decision]]
  /\ UNCHANGED <<redis, executions, tickets, emails, attempt, filing, faults>>

Reject(k) ==
  /\ Claim(k, "REJECTED")
  /\ UNCHANGED <<redis, executions, tickets, emails, job, attempt, filing, faults>>

RequestFails(k) ==
  /\ job[k].at \in {"ticket", "publish", "email", "settle"}
  /\ Fault("api")
  /\ Goto(k, "release")
  /\ UNCHANGED <<redis, database, attempt, filing>>

ReleaseApproval(k) ==
  /\ job[k].at = "release"
  /\ approvals' = [approvals EXCEPT ![k].status = IF @ = "APPROVED" THEN "PENDING" ELSE @]
  /\ job' = [job EXCEPT ![k] = Idle]
  /\ UNCHANGED <<redis, executions, tickets, emails, attempt, filing, faults>>

\* Every request ends where it is; an approval whose request had it stays APPROVED.
ApiCrash ==
  /\ Fault("api")
  /\ (\E k \in Requests : Busy(k)) \/ filing.at # "idle"
  /\ job' = [x \in Jobs |-> IF x = Worker THEN job[x] ELSE Idle]
  /\ filing' = [filing EXCEPT !.at = "idle"]
  /\ UNCHANGED <<redis, database, attempt>>

-----------------------------------------------------------------------------
WorkerStep ==
  \/ ReadNext \/ Investigate \/ AskHuman \/ Triage \/ TellCustomer \/ Bury \/ AckDead
  \/ ExecuteDecision(Worker)
RequestStep(k) == ExecuteDecision(k) \/ ReleaseApproval(k)

\* What runs on by itself.
Progress == \/ WorkerStep \/ PublishFiled \/ AcknowledgeFiled
            \/ \E k \in Requests : RequestStep(k)

Next ==
  \/ PublishDelayed \/ FileTicket
  \/ Progress
  \/ \E k \in Requests : Approve(k) \/ Reject(k) \/ RequestFails(k)
  \/ AttemptFails \/ WorkerCrash \/ FilingFails \/ ApiCrash

\* autoheal restarts the worker, and requests run until they end; nobody has
\* to approve, file or publish anything.  One condition is enough: no part
\* of Progress can go on for ever while another one waits.  Every step of
\* Progress moves a job or the filing on.
Fairness == WF_<<job, filing>>(Progress)

Spec == Init /\ [][Next]_vars /\ Fairness

=============================================================================
