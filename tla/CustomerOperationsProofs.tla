---------------------- MODULE CustomerOperationsProofs ----------------------
(***************************************************************************)
(* Theorems about the pipeline of one order, for any number of events,     *)
(* decisions, retries, reviewers and faults.                               *)
(***************************************************************************)
EXTENDS AiUsage, SequenceTheorems, FiniteSetTheorems, WellFoundedInduction, TLAPS

\* A job has the decision it is about to act on, and the worker an event.
Ready ==
  /\ Busy(Worker) => delivered > 0
  /\ \A x \in Jobs : job[x].at \in {"ask", "ticket", "publish", "email"} =>
       job[x].decision \in Decisions
  /\ job[Worker].at = "tell" => job[Worker].decision \in Verdicts

TypeInv == TypeOK /\ Ready

-----------------------------------------------------------------------------
(* Rows are only appended, and what a row may refer to only grows.         *)

Grow == Len(tickets') \in Nat /\ Len(tickets) <= Len(tickets') /\ delivered' \in Nat /\ delivered <= delivered'

LEMMA RowsGrow ==
  ASSUME TypeOK, Grow
  PROVE  /\ EventRows \subseteq EventRows'
         /\ ExecutionRows \subseteq ExecutionRows'
         /\ ApprovalRows \subseteq ApprovalRows'
         /\ TicketRows \subseteq TicketRows'
         /\ EmailRows \subseteq EmailRows'
         /\ JobStates \subseteq JobStates'
<1>1. Len(tickets) \in Nat /\ delivered \in Nat
  BY LenProperties DEF TypeOK
<1>2. 0..Len(tickets) \subseteq 0..Len(tickets') /\ 0..delivered \subseteq 0..delivered'
      /\ 1..delivered \subseteq 1..delivered'
  BY <1>1 DEF Grow
<1>3. EventRows \subseteq EventRows'
  BY <1>2, Zenon DEF EventRows
<1> QED
  BY <1>2 DEF EventRows, ExecutionRows, ApprovalRows, TicketRows, EmailRows, JobStates

LEMMA DecisionFields ==
  ASSUME NEW d \in Decisions
  PROVE  /\ d.severity \in Severities /\ d.resolution \in Resolutions
         /\ d.requires_human \in BOOLEAN /\ d.customer_message \in BOOLEAN
BY DecisionsAssumption

LEMMA TriagedTicket ==
  ASSUME NEW ticket \in TicketRows, NEW v \in Verdicts
  PROVE  /\ Triaged(ticket, v) \in TicketRows
         /\ Triaged(ticket, v).by = ticket.by
         /\ Triaged(ticket, v).event = ticket.event
         /\ Triaged(ticket, v).decision = ticket.decision
BY VerdictsAssumption DEF Triaged, TicketRows

LEMMA StatesTyped ==
  ASSUME TypeOK
  PROVE  /\ Worker \in Jobs
         /\ \A k \in Requests : k \in Jobs /\ k \in 1..Len(approvals)
         /\ \A x \in Jobs : job[x] \in JobStates
         /\ Idle \in JobStates /\ Retry \in JobStates /\ GiveUp \in JobStates
         /\ Len(tickets) \in Nat /\ Len(stream) \in Nat /\ delivered \in Nat
<1>1. Len(tickets) \in Nat /\ Len(stream) \in Nat /\ delivered \in Nat
  BY LenProperties DEF TypeOK
<1>2. Worker \in Jobs /\ \A k \in Requests : k \in Jobs /\ k \in 1..Len(approvals)
  BY LenProperties DEF TypeOK, Jobs, Requests
<1>3. \A x \in Jobs : job[x] \in JobStates
  BY DEF TypeOK
<1>4. Idle \in JobStates /\ Retry \in JobStates /\ GiveUp \in JobStates
  BY <1>1 DEF Idle, Retry, GiveUp, JobStates, Labels
<1> QED
  BY <1>1, <1>2, <1>3, <1>4

LEMMA InitTyped == Init => TypeInv
<1> SUFFICES ASSUME Init PROVE TypeInv
  OBVIOUS
<1>1. stream \in Seq(EventRows) /\ executions \in Seq(ExecutionRows) /\ approvals \in Seq(ApprovalRows)
      /\ tickets \in Seq(TicketRows) /\ Len(stream) = 0 /\ Len(tickets) = 0 /\ DOMAIN approvals = {}
  BY EmptySeq DEF Init
<1>2. job \in [Jobs -> JobStates]
  BY <1>1 DEF Init, Jobs, Requests, Worker, Idle, JobStates, Labels
<1>3. TypeOK
  BY <1>1, <1>2, BoundsAssumption DEF Init, TypeOK, FaultKinds
<1>4. Ready
  BY <1>1 DEF Init, Ready, Busy, Jobs, Requests, Worker, Idle
<1> QED
  BY <1>3, <1>4 DEF TypeInv

\* What a step leaves alone has its type after it.
LEMMA OldTypes ==
  ASSUME TypeOK, Grow
  PROVE  /\ stream \in Seq(EventRows') /\ executions \in Seq(ExecutionRows')
         /\ approvals \in Seq(ApprovalRows') /\ tickets \in Seq(TicketRows')
         /\ emails \subseteq EmailRows' /\ job \in [Jobs -> JobStates']
         /\ filing \in [at : {"idle", "publish", "email"}, ticket : 0..Len(tickets')]
<1>1. /\ stream \in Seq(EventRows') /\ executions \in Seq(ExecutionRows')
      /\ approvals \in Seq(ApprovalRows') /\ tickets \in Seq(TicketRows')
  BY RowsGrow, SeqMonotonic, Zenon DEF TypeOK
<1>2. emails \subseteq EmailRows' /\ job \in [Jobs -> JobStates']
  BY RowsGrow, StatesTyped DEF TypeOK
<1>3. filing \in [at : {"idle", "publish", "email"}, ticket : 0..Len(tickets')]
  BY LenProperties DEF TypeOK, Grow
<1> QED
  BY <1>1, <1>2, <1>3

LEMMA FaultTyped ==
  ASSUME TypeOK, NEW kind \in FaultKinds, Fault(kind)
  PROVE  faults' \in [FaultKinds -> Nat] /\ faults' = [faults EXCEPT ![kind] = faults[kind] + 1]
BY DEF Fault, TypeOK

\* A step that changes neither rows nor the stream, and moves one job.
LEMMA OneJob ==
  ASSUME TypeInv, NEW x \in Jobs, NEW j \in JobStates,
         UNCHANGED <<redis, database>>,
         job' = [job EXCEPT ![x] = j],
         attempt' \in 1..MAX_RETRIES,
         filing' = filing, faults' \in [FaultKinds -> Nat],
         x = Worker /\ j.at # "idle" => delivered > 0,
         j.at \in {"ask", "ticket", "publish", "email"} => j.decision \in Decisions,
         j.at # "tell"
  PROVE  TypeInv'
<1>1. Jobs' = Jobs /\ JobStates' = JobStates
  BY DEF Jobs, Requests, JobStates, database
<1>2. job' \in [Jobs -> JobStates] /\ \A y \in Jobs : job'[y] = IF y = x THEN j ELSE job[y]
  BY DEF TypeInv, TypeOK
<1>3. TypeOK'
  BY <1>1, <1>2 DEF TypeInv, TypeOK, redis, database, EventRows, ExecutionRows, ApprovalRows,
     TicketRows, EmailRows
<1>4. Ready'
  <2>1. Worker \in Jobs
    BY DEF Jobs
  <2> QED
    BY <1>1, <1>2, <2>1 DEF TypeInv, Ready, Busy, redis
<1> QED
  BY <1>3, <1>4 DEF TypeInv

-----------------------------------------------------------------------------
(* The steps of the API, monitors and demos.                               *)

LEMMA StreamTyped ==
  ASSUME TypeInv, NEW row \in EventRows,
         stream' = Append(stream, row),
         UNCHANGED <<delivered, dead, database, attempt>>,
         Jobs' = Jobs,
         job' \in [Jobs -> JobStates],
         filing' \in [at : {"idle", "publish", "email"}, ticket : 0..Len(tickets)],
         faults' \in [FaultKinds -> Nat]
  PROVE  TypeOK'
<1>1. stream' \in Seq(EventRows) /\ Len(stream') = Len(stream) + 1
  BY AppendProperties DEF TypeInv, TypeOK
<1>2. delivered \in 0..Len(stream')
  BY <1>1, StatesTyped DEF TypeInv, TypeOK
<1> QED
  BY <1>1, <1>2 DEF TypeInv, TypeOK, database, EventRows, ExecutionRows, ApprovalRows,
     TicketRows, EmailRows, JobStates

LEMMA PublishDelayedTyped == TypeInv /\ PublishDelayed => TypeInv'
<1> SUFFICES ASSUME TypeInv, PublishDelayed PROVE TypeInv'
  OBVIOUS
<1>1. OrderDelayed \in EventRows
  BY StatesTyped DEF TypeInv, OrderDelayed, EventRows
<1>2. Jobs' = Jobs
  BY DEF PublishDelayed, database, Jobs, Requests
<1>3. TypeOK'
  BY <1>1, <1>2, StreamTyped DEF PublishDelayed, TypeInv, TypeOK
<1> QED
  BY <1>2, <1>3 DEF PublishDelayed, TypeInv, Ready, Busy

LEMMA FilingTyped ==
  TypeInv /\ (FileTicket \/ PublishFiled \/ AcknowledgeFiled \/ FilingFails) => TypeInv'
<1> SUFFICES ASSUME TypeInv, FileTicket \/ PublishFiled \/ AcknowledgeFiled \/ FilingFails
             PROVE  TypeInv'
  OBVIOUS
<1>0. Jobs' = Jobs
  BY DEF FileTicket, PublishFiled, AcknowledgeFiled, FilingFails, database, Jobs, Requests
<1>1. Ready'
  BY <1>0 DEF FileTicket, PublishFiled, AcknowledgeFiled, FilingFails, redis, TypeInv, Ready, Busy
<1>2. CASE FileTicket
  <2>1. PICK p \in FiledPriorities : tickets' = Append(tickets, Ticket("customer", 0, None, p))
    BY <1>2 DEF FileTicket
  <2>2. Ticket("customer", 0, None, p) \in TicketRows
    BY VerdictsAssumption, StatesTyped DEF Ticket, TicketRows, TypeInv
  <2>3. tickets' \in Seq(TicketRows) /\ Len(tickets') = Len(tickets) + 1
    BY <2>1, <2>2, AppendProperties DEF TypeInv, TypeOK
  <2>4. Grow
    BY <1>2, <2>3, StatesTyped DEF FileTicket, redis, Grow, TypeInv
  <2>5. tickets' \in Seq(TicketRows')
    BY <2>3, <1>2 DEF FileTicket, redis, TicketRows
  <2>6. filing' \in [at : {"idle", "publish", "email"}, ticket : 0..Len(tickets')]
    BY <1>2, <2>3, StatesTyped DEF FileTicket, TypeInv
  <2>7. TypeOK'
    BY <1>0, <1>2, <2>4, <2>5, <2>6, OldTypes DEF FileTicket, redis, TypeInv, TypeOK
  <2> QED
    BY <1>1, <2>7 DEF TypeInv
<1>3. CASE PublishFiled
  <2>1. TicketCreated(filing.ticket, 0) \in EventRows
    BY StatesTyped DEF TypeInv, TypeOK, TicketCreated, EventRows
  <2>2. filing' \in [at : {"idle", "publish", "email"}, ticket : 0..Len(tickets)]
    BY <1>3 DEF PublishFiled, TypeInv, TypeOK
  <2> QED
    BY <1>0, <1>1, <1>3, <2>1, <2>2, StreamTyped DEF PublishFiled, TypeInv, TypeOK
<1>4. CASE AcknowledgeFiled
  <2>1. [ticket |-> filing.ticket, says |-> "received"] \in EmailRows
    BY DEF TypeInv, TypeOK, EmailRows
  <2> QED
    BY <1>0, <1>1, <1>4, <2>1 DEF AcknowledgeFiled, TypeInv, TypeOK, redis, EventRows,
       ExecutionRows, ApprovalRows, TicketRows, EmailRows, JobStates
<1>5. CASE FilingFails
  <2>1. faults' \in [FaultKinds -> Nat]
    BY <1>5, FaultTyped DEF FilingFails, TypeInv, FaultKinds
  <2>2. filing' \in [at : {"idle", "publish", "email"}, ticket : 0..Len(tickets)]
    BY <1>5 DEF FilingFails, TypeInv, TypeOK
  <2> QED
    BY <1>0, <1>1, <1>5, <2>1, <2>2 DEF FilingFails, TypeInv, TypeOK, redis, database, EventRows,
       ExecutionRows, ApprovalRows, TicketRows, EmailRows, JobStates
<1> QED
  BY <1>2, <1>3, <1>4, <1>5

-----------------------------------------------------------------------------
(* The worker and its event.                                               *)

LEMMA ReadNextTyped == TypeInv /\ ReadNext => TypeInv'
<1> SUFFICES ASSUME TypeInv, ReadNext PROVE TypeInv'
  OBVIOUS
<1>1. Grow /\ delivered' > 0 /\ delivered' \in 0..Len(stream)
  BY StatesTyped DEF ReadNext, Grow, TypeInv, database
<1>2. Jobs' = Jobs /\ Worker \in Jobs
  BY DEF ReadNext, database, Jobs, Requests
<1>3. job' = [job EXCEPT ![Worker] = [job[Worker] EXCEPT !.at = "start"]]
  BY DEF ReadNext, Goto
<1>4. job' \in [Jobs -> JobStates]
  BY <1>2, <1>3, StatesTyped DEF TypeInv, TypeOK, JobStates, Labels
<1>5. job' \in [Jobs' -> JobStates']
  BY <1>1, <1>2, <1>4, RowsGrow DEF TypeInv
<1>6. dead \subseteq 1..delivered'
  BY <1>1, StatesTyped DEF TypeInv, TypeOK, Grow
<1>7. attempt' \in 1..MAX_RETRIES
  BY BoundsAssumption DEF ReadNext
<1>8. TypeOK'
  BY <1>1, <1>5, <1>6, <1>7, OldTypes DEF ReadNext, TypeInv, TypeOK, database
<1>9. Ready'
  <2>1. job'[Worker].at = "start" /\ \A x \in Jobs : x # Worker => job'[x] = job[x]
    BY <1>2, <1>3, StatesTyped DEF TypeInv, TypeOK, JobStates
  <2> QED
    BY <1>1, <1>2, <2>1 DEF TypeInv, Ready, Busy
<1> QED
  BY <1>8, <1>9 DEF TypeInv

LEMMA InvestigateTyped == TypeInv /\ Investigate => TypeInv'
<1> SUFFICES ASSUME TypeInv, Investigate PROVE TypeInv'
  OBVIOUS
<1> DEFINE Row(d) == [agent |-> "delayed_order_agent", event |-> delivered, task |-> delivered,
                      ticket |-> 0, decision |-> d]
           J(d) == [at |-> IF d.requires_human THEN "ask" ELSE "ticket", decision |-> d, ticket |-> 0]
<1>1. PICK d \in Decisions : executions' = Append(executions, Row(d))
                           /\ job' = [job EXCEPT ![Worker] = J(d)]
  BY DEF Investigate
<1>2. delivered \in 1..delivered
  BY StatesTyped DEF TypeInv, Ready, Busy, Investigate
<1>3. Row(d) \in ExecutionRows
  BY <1>2, StatesTyped DEF TypeInv, ExecutionRows
<1>4. executions' \in Seq(ExecutionRows)
  BY <1>1, <1>3, AppendProperties DEF TypeInv, TypeOK
<1>5. J(d) \in JobStates
  BY StatesTyped DEF TypeInv, JobStates, Labels
<1>6. Worker \in Jobs /\ Jobs' = Jobs
  BY DEF Jobs, Requests, Investigate
<1>7. job' \in [Jobs -> JobStates] /\ \A y \in Jobs : job'[y] = IF y = Worker THEN J(d) ELSE job[y]
  BY <1>1, <1>5, <1>6 DEF TypeInv, TypeOK
<1>8. TypeOK'
  BY <1>4, <1>6, <1>7 DEF Investigate, TypeInv, TypeOK, redis, EventRows, ExecutionRows,
     ApprovalRows, TicketRows, EmailRows, JobStates
<1>9. Ready'
  BY <1>2, <1>6, <1>7 DEF Investigate, redis, TypeInv, Ready, Busy
<1> QED
  BY <1>8, <1>9 DEF TypeInv

LEMMA AskHumanTyped == TypeInv /\ AskHuman => TypeInv'
<1> SUFFICES ASSUME TypeInv, AskHuman PROVE TypeInv'
  OBVIOUS
<1> DEFINE Row == [event |-> delivered, decision |-> job[Worker].decision, status |-> "PENDING"]
<1>1. job[Worker].decision \in Decisions /\ delivered \in 1..delivered
  BY StatesTyped DEF TypeInv, Ready, Busy, AskHuman
<1>2. Row \in ApprovalRows
  BY <1>1 DEF ApprovalRows
<1>3. approvals' \in Seq(ApprovalRows) /\ Len(approvals') = Len(approvals) + 1
  BY <1>2, AppendProperties DEF TypeInv, TypeOK, AskHuman
<1>4. Requests = 1..Len(approvals) /\ Requests' = 1..Len(approvals') /\ Len(approvals) \in Nat
  BY <1>3, LenProperties DEF TypeInv, TypeOK, Requests
<1>5. Jobs \subseteq Jobs' /\ Worker \in Jobs /\ Worker \notin Requests'
  BY <1>3, <1>4 DEF Jobs, Worker
<1>6. \A x \in Jobs' : job'[x] = IF x = Worker THEN [job[x] EXCEPT !.at = "settle"]
                                ELSE IF x \in Requests THEN job[x] ELSE Idle
  BY DEF AskHuman, Jobs, Requests
<1>7. \A x \in Jobs' : job'[x] \in JobStates
  <2> TAKE x \in Jobs'
  <2>1. CASE x = Worker
    <3>1. job[Worker] \in JobStates
      BY StatesTyped DEF TypeInv
    <3>2. [job[Worker] EXCEPT !.at = "settle"] \in JobStates
      BY <3>1 DEF JobStates, Labels
    <3> QED
      BY <1>6, <2>1, <3>2
  <2>2. CASE x # Worker
    BY <1>6, <2>2, StatesTyped DEF TypeInv, JobStates
  <2> QED
    BY <2>1, <2>2
<1>8. job' \in [Jobs' -> JobStates]
  <2>1. job' = [x \in Jobs' |-> job'[x]]
    BY DEF AskHuman, Jobs, Requests
  <2> QED
    BY <1>7, <2>1
<1>9. TypeOK'
  BY <1>3, <1>8 DEF AskHuman, TypeInv, TypeOK, redis, EventRows, ExecutionRows,
     ApprovalRows, TicketRows, EmailRows, JobStates
<1>10. Ready'
  <2>1. job[Worker] \in JobStates
    BY StatesTyped DEF TypeInv
  <2>2. job'[Worker].at = "settle"
    BY <1>5, <1>6, <2>1 DEF JobStates
  <2>3. \A x \in Jobs' : x # Worker => (job'[x] = job[x] /\ x \in Jobs) \/ job'[x] = Idle
    BY <1>6, StatesTyped DEF TypeInv
  <2>4. \A x \in Jobs' : job'[x].at \in {"ask", "ticket", "publish", "email"} =>
          job'[x].decision \in Decisions
    BY <2>2, <2>3 DEF TypeInv, Ready, Idle
  <2>5. delivered' > 0
    BY <1>1, StatesTyped DEF AskHuman, redis, TypeInv
  <2> QED
    BY <2>2, <2>4, <2>5 DEF Ready
<1> QED
  BY <1>9, <1>10 DEF TypeInv

LEMMA TriageTyped == TypeInv /\ Triage => TypeInv'
<1> SUFFICES ASSUME TypeInv, Triage PROVE TypeInv'
  OBVIOUS
<1> DEFINE t == stream[delivered].ticket
           task == IF stream[delivered].task = 0 THEN delivered ELSE stream[delivered].task
           Row == [agent |-> "triage_agent", event |-> delivered, task |-> task,
                   ticket |-> t, decision |-> None]
           J(v) == [at |-> "tell", decision |-> v, ticket |-> t]
<1>1. PICK v \in Verdicts : /\ executions' = Append(executions, Row)
                            /\ tickets' = [tickets EXCEPT ![t] = Triaged(@, v)]
                            /\ job' = [job EXCEPT ![Worker] = J(v)]
  BY DEF Triage
<1>2. delivered \in 1..delivered /\ delivered \in 1..Len(stream)
  BY StatesTyped DEF TypeInv, TypeOK, Ready, Busy, Triage
<1>3. stream[delivered] \in EventRows
  BY <1>2, ElementOfSeq DEF TypeInv, TypeOK
<1>4. t \in 0..Len(tickets) /\ task \in 1..delivered
  BY <1>2, <1>3 DEF EventRows
<1>5. Row \in ExecutionRows
  BY <1>2, <1>4 DEF ExecutionRows
<1>6. executions' \in Seq(ExecutionRows)
  BY <1>1, <1>5, AppendProperties DEF TypeInv, TypeOK
<1>7. tickets' \in Seq(TicketRows) /\ Len(tickets') = Len(tickets)
  <2>1. CASE t \in DOMAIN tickets
    <3>1. t \in 1..Len(tickets) /\ tickets \in Seq(TicketRows)
      BY <2>1, LenProperties DEF TypeInv, TypeOK
    <3>2. Triaged(tickets[t], v) \in TicketRows
      BY <3>1, ElementOfSeq, TriagedTicket
    <3> QED
      BY <1>1, <3>1, <3>2, ExceptSeq
  <2>2. CASE t \notin DOMAIN tickets
    <3>1. tickets' = tickets
      BY <1>1, <2>2, LenProperties DEF TypeInv, TypeOK
    <3> QED
      BY <3>1 DEF TypeInv, TypeOK
  <2> QED
    BY <2>1, <2>2
<1>8. J(v) \in JobStates
  BY <1>4 DEF JobStates, Labels
<1>9. Worker \in Jobs /\ Jobs' = Jobs
  BY DEF Jobs, Requests, Triage
<1>10. job' \in [Jobs -> JobStates] /\ \A y \in Jobs : job'[y] = IF y = Worker THEN J(v) ELSE job[y]
  BY <1>1, <1>8, <1>9 DEF TypeInv, TypeOK
<1>11. TypeOK'
  BY <1>6, <1>7, <1>9, <1>10 DEF Triage, TypeInv, TypeOK, redis, EventRows, ExecutionRows,
     ApprovalRows, TicketRows, EmailRows, JobStates
<1>12. Ready'
  BY <1>2, <1>9, <1>10 DEF Triage, redis, TypeInv, Ready, Busy
<1> QED
  BY <1>11, <1>12 DEF TypeInv

\* A step that only records an email and moves a job on.
LEMMA MailTyped ==
  ASSUME TypeInv, NEW x \in Jobs, NEW mails \in SUBSET EmailRows,
         emails' = emails \cup mails,
         job' = [job EXCEPT ![x].at = "settle"],
         x = Worker => delivered > 0,
         UNCHANGED <<redis, executions, approvals, tickets, attempt, filing, faults>>
  PROVE  TypeInv'
<1>1. Jobs' = Jobs
  BY DEF Jobs, Requests
<1>2. [job[x] EXCEPT !.at = "settle"] \in JobStates
  BY StatesTyped DEF TypeInv, JobStates, Labels
<1>3. job' \in [Jobs -> JobStates]
      /\ \A y \in Jobs : job'[y] = IF y = x THEN [job[x] EXCEPT !.at = "settle"] ELSE job[y]
  BY <1>2 DEF TypeInv, TypeOK
<1>4. job'[x].at = "settle"
  BY <1>3, StatesTyped DEF TypeInv, JobStates
<1>5. TypeOK'
  BY <1>1, <1>3 DEF TypeInv, TypeOK, redis, EventRows, ExecutionRows, ApprovalRows, TicketRows,
     EmailRows, JobStates
<1>6. Worker \in Jobs
  BY DEF Jobs
<1>7. Ready'
  BY <1>1, <1>3, <1>4, <1>6 DEF TypeInv, Ready, Busy, redis
<1> QED
  BY <1>5, <1>7 DEF TypeInv

LEMMA TellCustomerTyped == TypeInv /\ TellCustomer => TypeInv'
<1> SUFFICES ASSUME TypeInv, TellCustomer PROVE TypeInv'
  OBVIOUS
<1> DEFINE t == job[Worker].ticket
           v == job[Worker].decision
<1>1. v \in Verdicts /\ delivered > 0 /\ t \in 0..Len(tickets) /\ Worker \in Jobs
  BY StatesTyped DEF TypeInv, Ready, Busy, TellCustomer, JobStates
<1>2. TriageUpdate(tickets[t], v) \in {"update", "received", "resolved"} \cup Actions
  BY <1>1, VerdictsAssumption DEF TriageUpdate, Actions
<1>3. {[ticket |-> t, says |-> TriageUpdate(tickets[t], v)]} \in SUBSET EmailRows
  BY <1>1, <1>2 DEF EmailRows
<1> QED
  BY <1>1, <1>3, MailTyped DEF TellCustomer, Goto

LEMMA RelabelTyped ==
  ASSUME TypeInv, NEW x \in Jobs, NEW l \in Labels \ {"tell"},
         UNCHANGED <<redis, database, filing>>,
         Goto(x, l), attempt' \in 1..MAX_RETRIES, faults' \in [FaultKinds -> Nat],
         x = Worker => delivered > 0,
         l \in {"ask", "ticket", "publish", "email"} => job[x].decision \in Decisions
  PROVE  TypeInv'
<1>1. [job[x] EXCEPT !.at = l] \in JobStates
  BY StatesTyped DEF TypeInv, JobStates, Labels
<1>2. /\ [job[x] EXCEPT !.at = l].at = l
      /\ [job[x] EXCEPT !.at = l].decision = job[x].decision
  BY StatesTyped DEF TypeInv, JobStates
<1> QED
  BY <1>1, <1>2, OneJob DEF Goto

LEMMA FailureTyped ==
  TypeInv /\ (AttemptFails \/ WorkerCrash \/ Bury \/ AckDead) => TypeInv'
<1> SUFFICES ASSUME TypeInv, AttemptFails \/ WorkerCrash \/ Bury \/ AckDead PROVE TypeInv'
  OBVIOUS
<1>1. Worker \in Jobs /\ delivered > 0
  BY StatesTyped DEF TypeInv, Ready, Busy, AttemptFails, WorkerCrash, Bury, AckDead
<1>2. /\ Retry.at = "start" /\ GiveUp.at = "bury"
  BY DEF Retry, GiveUp, Idle
<1>3. CASE AttemptFails
  <2>1. faults' \in [FaultKinds -> Nat]
    BY <1>3, FaultTyped DEF AttemptFails, TypeInv, FaultKinds
  <2>2. PICK j \in {Retry, GiveUp} : job' = [job EXCEPT ![Worker] = j]
    BY <1>3 DEF AttemptFails
  <2>3. attempt' \in 1..MAX_RETRIES
    BY <1>3, BoundsAssumption DEF AttemptFails, TypeInv, TypeOK
  <2> QED
    BY <1>1, <1>2, <1>3, <2>1, <2>2, <2>3, StatesTyped, OneJob DEF AttemptFails, TypeInv
<1>4. CASE WorkerCrash
  <2>1. faults' \in [FaultKinds -> Nat]
    BY <1>4, FaultTyped DEF WorkerCrash, TypeInv, FaultKinds
  <2>2. attempt' \in 1..MAX_RETRIES
    BY <1>4, BoundsAssumption DEF WorkerCrash
  <2> QED
    BY <1>1, <1>2, <1>4, <2>1, <2>2, StatesTyped, OneJob DEF WorkerCrash, TypeInv
<1>5. CASE Bury
  <2>1. delivered \in 1..delivered
    BY <1>1, StatesTyped DEF TypeInv
  <2>2. Jobs' = Jobs
    BY <1>5 DEF Bury, database, Jobs, Requests
  <2>3. [job[Worker] EXCEPT !.at = "ackDead"] \in JobStates
    BY <1>1, StatesTyped DEF TypeInv, JobStates, Labels
  <2>4. job' \in [Jobs -> JobStates]
        /\ \A y \in Jobs : job'[y] = IF y = Worker THEN [job[Worker] EXCEPT !.at = "ackDead"] ELSE job[y]
    BY <1>1, <1>5, <2>3 DEF Bury, Goto, TypeInv, TypeOK
  <2>5. job'[Worker].at = "ackDead"
    BY <1>1, <2>4, StatesTyped DEF TypeInv, JobStates
  <2>6. TypeOK'
    BY <1>5, <2>1, <2>2, <2>4 DEF Bury, database, TypeInv, TypeOK, EventRows, ExecutionRows,
       ApprovalRows, TicketRows, EmailRows, JobStates
  <2>7. Ready'
    BY <1>1, <1>5, <2>2, <2>4, <2>5 DEF Bury, TypeInv, Ready, Busy
  <2> QED
    BY <2>6, <2>7 DEF TypeInv
<1>6. CASE AckDead
  BY <1>1, <1>6, RelabelTyped DEF AckDead, TypeInv, TypeOK, Labels
<1> QED
  BY <1>3, <1>4, <1>5, <1>6

-----------------------------------------------------------------------------
(* execute_decision, and reviewers.                                        *)

LEMMA EventOfTyped ==
  ASSUME TypeInv, NEW x \in Jobs
  PROVE  EventOf(x) \in 0..delivered
<1>1. CASE x = Worker
  BY <1>1, StatesTyped DEF EventOf, TypeInv
<1>2. CASE x # Worker
  <2>1. x \in 1..Len(approvals)
    BY <1>2, StatesTyped DEF Jobs, TypeInv
  <2>2. approvals[x] \in ApprovalRows
    BY <2>1, ElementOfSeq DEF TypeInv, TypeOK
  <2> QED
    BY <1>2, <2>2, StatesTyped DEF EventOf, ApprovalRows, TypeInv
<1> QED
  BY <1>1, <1>2

LEMMA CommitTicketTyped == ASSUME TypeInv, NEW x \in Jobs, CommitTicket(x) PROVE TypeInv'
<1> DEFINE d == job[x].decision
           row == Ticket(IF x = Worker THEN "worker" ELSE "request", EventOf(x), d, d.severity)
<1>1. d \in Decisions /\ (x = Worker => delivered > 0)
  BY DEF TypeInv, Ready, Busy, CommitTicket
<1>2. CASE d.resolution = "NO_ACTION"
  BY <1>1, <1>2, RelabelTyped DEF CommitTicket, database, Labels, TypeInv, TypeOK
<1>3. CASE d.resolution # "NO_ACTION"
  <2>1. PICK l \in {"publish", "email"} :
          /\ tickets' = Append(tickets, row)
          /\ job' = [job EXCEPT ![x].ticket = Len(tickets'), ![x].at = l]
    BY <1>3, Zenon DEF CommitTicket
  <2>2. row \in TicketRows
    BY <1>1, DecisionFields, EventOfTyped DEF Ticket, TicketRows
  <2>3. tickets' \in Seq(TicketRows) /\ Len(tickets') = Len(tickets) + 1
    BY <2>1, <2>2, AppendProperties DEF TypeInv, TypeOK
  <2>4. UNCHANGED <<redis, executions, approvals, emails, attempt, filing, faults>>
    BY DEF CommitTicket
  <2>5. Grow /\ TicketRows' = TicketRows /\ Jobs' = Jobs
    BY <2>3, <2>4, StatesTyped DEF Grow, redis, TicketRows, Jobs, Requests, TypeInv
  <2> DEFINE j == [job[x] EXCEPT !.ticket = Len(tickets'), !.at = l]
  <2>6. /\ j \in JobStates' /\ j.at = l /\ j.decision = d
        /\ job' = [job EXCEPT ![x] = j]
    <3>1. job[x] \in JobStates'
      BY <2>5, RowsGrow, StatesTyped DEF TypeInv
    <3>2. Len(tickets') \in 0..Len(tickets')
      BY <2>5 DEF Grow
    <3>3. j \in JobStates' /\ j.at = l /\ j.decision = d
      BY <3>1, <3>2 DEF JobStates, Labels
    <3>4. job' = [job EXCEPT ![x] = j]
      BY <2>1
    <3> QED
      BY <3>3, <3>4
  <2>7. job' \in [Jobs -> JobStates'] /\ \A y \in Jobs : job'[y] = IF y = x THEN j ELSE job[y]
    <3>1. job \in [Jobs -> JobStates']
      BY <2>5, OldTypes DEF TypeInv
    <3> HIDE DEF j
    <3> QED
      BY <2>6, <3>1
  <2>8. TypeOK'
    BY <2>3, <2>4, <2>5, <2>7, OldTypes DEF redis, TypeInv, TypeOK
  <2>9. Ready'
    <3>1. Worker \in Jobs
      BY DEF Jobs
    <3> HIDE DEF j
    <3> QED
      BY <1>1, <2>4, <2>5, <2>6, <2>7, <3>1 DEF redis, TypeInv, Ready, Busy
  <2> QED
    BY <2>8, <2>9 DEF TypeInv
<1> QED
  BY <1>2, <1>3

LEMMA PublishTicketTyped == ASSUME TypeInv, NEW x \in Jobs, PublishTicket(x) PROVE TypeInv'
<1> DEFINE row == TicketCreated(job[x].ticket, EventOf(x))
<1>1. job[x].decision \in Decisions /\ (x = Worker => delivered > 0) /\ job[x] \in JobStates
  BY StatesTyped DEF TypeInv, Ready, Busy, PublishTicket
<1>2. CASE stream' = Append(stream, row) /\ UNCHANGED faults
  <2>1. row \in EventRows
    BY <1>1, EventOfTyped DEF TicketCreated, EventRows, JobStates
  <2>2. [job[x] EXCEPT !.at = "email"] \in JobStates
    BY <1>1 DEF JobStates, Labels
  <2>3. Jobs' = Jobs
    BY DEF PublishTicket, database, Jobs, Requests
  <2>4. job' \in [Jobs -> JobStates]
        /\ \A y \in Jobs : job'[y] = IF y = x THEN [job[x] EXCEPT !.at = "email"] ELSE job[y]
    BY <2>2 DEF PublishTicket, Goto, TypeInv, TypeOK
  <2>5. [job[x] EXCEPT !.at = "email"].decision = job[x].decision
        /\ [job[x] EXCEPT !.at = "email"].at = "email"
    BY <1>1 DEF JobStates
  <2>6. TypeOK'
    BY <1>2, <2>1, <2>3, <2>4, StreamTyped DEF PublishTicket, TypeInv, TypeOK
  <2>7. Ready'
    <3>1. Worker \in Jobs
      BY DEF Jobs
    <3> QED
      BY <1>1, <2>3, <2>4, <2>5, <3>1 DEF PublishTicket, TypeInv, Ready, Busy
  <2> QED
    BY <2>6, <2>7 DEF TypeInv
<1>3. CASE Fault("publish") /\ UNCHANGED stream
  <2>1. faults' \in [FaultKinds -> Nat]
    BY <1>3, FaultTyped DEF TypeInv, FaultKinds
  <2> QED
    BY <1>1, <1>3, <2>1, RelabelTyped DEF PublishTicket, redis, Labels, TypeInv, TypeOK
<1> QED
  BY <1>2, <1>3 DEF PublishTicket

LEMMA SendEmailTyped == ASSUME TypeInv, NEW x \in Jobs, SendEmail(x) PROVE TypeInv'
<1> DEFINE d == job[x].decision
           mail == [ticket |-> IF d.resolution \in TRIAGE_RESOLUTIONS THEN job[x].ticket ELSE 0,
                    says   |-> IF d.customer_message THEN "update" ELSE "received"]
<1>1. job[x] \in JobStates /\ (x = Worker => delivered > 0) /\ Len(tickets) \in Nat
  BY StatesTyped DEF TypeInv, Ready, Busy, SendEmail
<1>2. mail \in EmailRows
  BY <1>1 DEF JobStates, EmailRows
<1>3. PICK mails \in {{}, {mail}} : emails' = emails \cup mails
  BY Zenon DEF SendEmail
<1> QED
  BY <1>1, <1>2, <1>3, MailTyped DEF SendEmail, Goto

LEMMA SettleTyped == ASSUME TypeInv, NEW x \in Jobs, Settle(x) PROVE TypeInv'
BY StatesTyped, OneJob DEF Settle, TypeInv, TypeOK, Idle

LEMMA ExecuteTyped == ASSUME TypeInv, NEW x \in Jobs, ExecuteDecision(x) PROVE TypeInv'
BY CommitTicketTyped, PublishTicketTyped, SendEmailTyped, SettleTyped DEF ExecuteDecision

\* A step that gives an approval another status, and its job another state.
LEMMA ApprovalTyped ==
  ASSUME TypeInv, NEW k \in Requests, NEW j \in JobStates, NEW st \in {"PENDING", "APPROVED", "REJECTED"},
         approvals' = [approvals EXCEPT ![k].status = st],
         job' = [job EXCEPT ![k] = j],
         j.at \in {"ask", "ticket", "publish", "email"} => j.decision \in Decisions,
         UNCHANGED <<redis, executions, tickets, emails, attempt, filing, faults>>
  PROVE  TypeInv'
<1>1. k \in 1..Len(approvals) /\ k \in Jobs /\ k # Worker /\ Worker \in Jobs
  BY StatesTyped DEF TypeInv, Worker
<1>2. approvals[k] \in ApprovalRows
  BY <1>1, ElementOfSeq DEF TypeInv, TypeOK
<1>3. [approvals[k] EXCEPT !.status = st] \in ApprovalRows
  BY <1>2 DEF ApprovalRows
<1>4. approvals' \in Seq(ApprovalRows) /\ Len(approvals') = Len(approvals)
  BY <1>1, <1>3, ExceptSeq DEF TypeInv, TypeOK
<1>5. Jobs' = Jobs
  BY <1>4, LenProperties DEF Jobs, Requests, TypeInv, TypeOK
<1>6. job' \in [Jobs -> JobStates] /\ \A y \in Jobs : job'[y] = IF y = k THEN j ELSE job[y]
  BY <1>1 DEF TypeInv, TypeOK
<1>7. TypeOK'
  BY <1>4, <1>5, <1>6 DEF redis, TypeInv, TypeOK, EventRows, ExecutionRows,
     ApprovalRows, TicketRows, EmailRows, JobStates
<1>8. Ready'
  BY <1>1, <1>5, <1>6 DEF redis, TypeInv, Ready, Busy
<1> QED
  BY <1>7, <1>8 DEF TypeInv

LEMMA ReviewTyped ==
  ASSUME TypeInv, NEW k \in Requests,
         Approve(k) \/ Reject(k) \/ RequestFails(k) \/ ReleaseApproval(k)
  PROVE  TypeInv'
<1>1. approvals[k] \in ApprovalRows /\ k \in Jobs /\ job[k] \in JobStates /\ k # Worker
  <2>1. k \in 1..Len(approvals)
    BY StatesTyped DEF TypeInv
  <2> QED
    BY <2>1, StatesTyped, ElementOfSeq DEF TypeInv, TypeOK, Worker
<1>2. CASE Approve(k)
  <2> DEFINE j == [at |-> "ticket", ticket |-> 0, decision |-> approvals[k].decision]
  <2>1. approvals[k].decision \in Decisions
    BY <1>1 DEF ApprovalRows
  <2>2. j \in JobStates
    BY <2>1, StatesTyped DEF TypeInv, JobStates, Labels
  <2> QED
    BY <1>2, <2>1, <2>2, ApprovalTyped DEF Approve, Claim
<1>3. CASE Reject(k)
  <2>1. job' = [job EXCEPT ![k] = job[k]]
    BY <1>1, <1>3 DEF Reject, TypeInv, TypeOK
  <2>2. job[k].at \in {"ask", "ticket", "publish", "email"} => job[k].decision \in Decisions
    BY <1>1 DEF TypeInv, Ready
  <2> QED
    BY <1>1, <1>3, <2>1, <2>2, ApprovalTyped DEF Reject, Claim
<1>4. CASE RequestFails(k)
  <2>1. faults' \in [FaultKinds -> Nat]
    BY <1>4, FaultTyped DEF RequestFails, TypeInv, FaultKinds
  <2> QED
    BY <1>1, <1>4, <2>1, RelabelTyped DEF RequestFails, Labels, TypeInv, TypeOK
<1>5. CASE ReleaseApproval(k)
  <2>1. PICK st \in {"PENDING", "APPROVED", "REJECTED"} :
          approvals' = [approvals EXCEPT ![k].status = st]
    BY <1>1, <1>5 DEF ReleaseApproval, ApprovalRows
  <2>2. Idle \in JobStates /\ Idle.at = "idle"
    BY StatesTyped DEF TypeInv, Idle
  <2> QED
    BY <1>5, <2>1, <2>2, ApprovalTyped DEF ReleaseApproval
<1> QED
  BY <1>2, <1>3, <1>4, <1>5

LEMMA ApiCrashTyped == TypeInv /\ ApiCrash => TypeInv'
<1> SUFFICES ASSUME TypeInv, ApiCrash PROVE TypeInv'
  OBVIOUS
<1>1. Jobs' = Jobs /\ Worker \in Jobs
  BY DEF ApiCrash, database, Jobs, Requests
<1>2. faults' \in [FaultKinds -> Nat]
  BY FaultTyped DEF ApiCrash, TypeInv, FaultKinds
<1>3. \A x \in Jobs : job'[x] = job[x] \/ (x # Worker /\ job'[x] = Idle)
  BY DEF ApiCrash
<1>4. job' \in [Jobs -> JobStates]
  BY <1>3, StatesTyped DEF ApiCrash, TypeInv
<1>5. filing' \in [at : {"idle", "publish", "email"}, ticket : 0..Len(tickets)]
  BY DEF ApiCrash, TypeInv, TypeOK
<1>6. TypeOK'
  BY <1>1, <1>2, <1>4, <1>5 DEF ApiCrash, redis, database, TypeInv, TypeOK, EventRows, ExecutionRows,
     ApprovalRows, TicketRows, EmailRows, JobStates
<1>7. Ready'
  BY <1>1, <1>3 DEF ApiCrash, redis, TypeInv, Ready, Busy, Idle
<1> QED
  BY <1>6, <1>7 DEF TypeInv

-----------------------------------------------------------------------------

LEMMA StutterTyped == TypeInv /\ UNCHANGED vars => TypeInv'
BY DEF TypeInv, TypeOK, Ready, Busy, vars, redis, database, Jobs, Requests, EventRows, ExecutionRows,
   ApprovalRows, TicketRows, EmailRows, JobStates

LEMMA TypeStep == TypeInv /\ [Next]_vars => TypeInv'
<1> SUFFICES ASSUME TypeInv, [Next]_vars PROVE TypeInv'
  OBVIOUS
<1>1. Worker \in Jobs /\ \A k \in Requests : k \in Jobs
  BY StatesTyped DEF TypeInv
<1>2. CASE PublishDelayed \/ FileTicket \/ PublishFiled \/ AcknowledgeFiled \/ FilingFails
  BY <1>2, PublishDelayedTyped, FilingTyped
<1>3. CASE WorkerStep
  BY <1>1, <1>3, ReadNextTyped, InvestigateTyped, AskHumanTyped, TriageTyped, TellCustomerTyped,
     FailureTyped, ExecuteTyped DEF WorkerStep
<1>4. CASE \E k \in Requests : RequestStep(k) \/ Approve(k) \/ Reject(k) \/ RequestFails(k)
  BY <1>1, <1>4, ExecuteTyped, ReviewTyped DEF RequestStep
<1>5. CASE AttemptFails \/ WorkerCrash \/ ApiCrash
  BY <1>5, FailureTyped, ApiCrashTyped
<1>6. CASE UNCHANGED vars
  BY <1>6, StutterTyped
<1> QED
  BY <1>2, <1>3, <1>4, <1>5, <1>6 DEF Next, Progress

\* Types, and a decision in the hands of everyone who acts on one, whatever the
\* worker, the reviewers and the faults do: what the theorems below rest on.
THEOREM Typed == Spec => []TypeInv
BY InitTyped, TypeStep, PTL DEF Spec

\* Every row, event and job is what the code's models say it is, whatever
\* happens to the worker and to the requests.
THEOREM TypeCorrect == Spec => []TypeOK
BY Typed, PTL DEF TypeInv

-----------------------------------------------------------------------------
(* What a step does to rows that are there.                                *)

\* Tickets are opened, by a customer, the worker or a request, and triaged.
LEMMA TicketSteps ==
  ASSUME TypeInv, [Next]_vars
  PROVE  \/ UNCHANGED tickets
         \/ FileTicket \/ Triage
         \/ \E x \in Jobs : CommitTicket(x) /\ job[x].decision.resolution # "NO_ACTION"
<1>1. CASE Progress
  <2>1. CASE \E x \in Jobs : ExecuteDecision(x)
    <3>1. PICK x \in Jobs : ExecuteDecision(x)
      BY <2>1
    <3>2. CASE CommitTicket(x)
      BY <3>2 DEF CommitTicket
    <3> QED
      BY <3>1, <3>2 DEF ExecuteDecision, PublishTicket, SendEmail, Settle, database
  <2>2. CASE ~\E x \in Jobs : ExecuteDecision(x)
    <3>1. Worker \in Jobs /\ \A k \in Requests : k \in Jobs
      BY StatesTyped DEF TypeInv
    <3> QED
      BY <1>1, <2>2, <3>1 DEF Progress, WorkerStep, RequestStep, ReadNext, Investigate, AskHuman, TellCustomer,
         Bury, AckDead, PublishFiled, AcknowledgeFiled, ReleaseApproval, database
  <2> QED
    BY <2>1, <2>2
<1>2. CASE ~Progress
  BY <1>2 DEF Next, vars, PublishDelayed, FileTicket, Approve, Reject, RequestFails, AttemptFails,
     WorkerCrash, FilingFails, ApiCrash, database
<1> QED
  BY <1>1, <1>2

LEMMA Ranks ==
  ASSUME NEW p \in Severities, NEW q \in Severities
  PROVE  /\ Rank(p) \in Nat /\ Rank(p) >= Rank(p)
         /\ Rank(q) > Rank(p) => Rank(q) >= Rank(p)
BY DEF Severities, Rank

LEMMA TicketsStay ==
  ASSUME TypeInv, [Next]_vars, NEW t \in DOMAIN tickets
  PROVE  /\ t \in DOMAIN tickets'
         /\ tickets'[t].by = tickets[t].by
         /\ tickets'[t].event = tickets[t].event
         /\ tickets'[t].decision = tickets[t].decision
         /\ Rank(tickets'[t].priority) >= Rank(tickets[t].priority)
         /\ tickets[t].status = "RESOLVED" => tickets'[t].status = "RESOLVED"
         /\ ~Triage => tickets'[t] = tickets[t]
<1>1. t \in 1..Len(tickets) /\ tickets \in Seq(TicketRows) /\ Len(tickets) \in Nat
  BY LenProperties DEF TypeInv, TypeOK
<1>2. tickets[t] \in TicketRows
  BY <1>1, ElementOfSeq
<1>3. Rank(tickets[t].priority) >= Rank(tickets[t].priority)
  BY <1>2, Ranks DEF TicketRows
<1>4. CASE tickets' = tickets
  BY <1>3, <1>4
<1>5. CASE \E row \in TicketRows : tickets' = Append(tickets, row)
  <2>1. tickets' \in Seq(TicketRows) /\ Len(tickets') = Len(tickets) + 1 /\ tickets'[t] = tickets[t]
    BY <1>1, <1>5, AppendProperties
  <2>2. t \in DOMAIN tickets'
    BY <1>1, <2>1, LenProperties
  <2> QED
    BY <1>3, <2>1, <2>2
<1>6. CASE Triage
  <2>1. PICK v \in Verdicts : tickets' = [tickets EXCEPT ![stream[delivered].ticket]
                                            = Triaged(tickets[stream[delivered].ticket], v)]
    BY <1>6 DEF Triage
  <2>2. DOMAIN tickets' = DOMAIN tickets
    BY <1>1, <2>1, LenProperties
  <2>3. tickets'[t] = tickets[t] \/ tickets'[t] = Triaged(tickets[t], v)
    BY <1>1, <2>1, LenProperties
  <2>4. Rank(Triaged(tickets[t], v).priority) >= Rank(tickets[t].priority)
    <3>1. tickets[t].priority \in Severities /\ v.priority \in Severities
      BY <1>2, VerdictsAssumption DEF TicketRows
    <3>2. Triaged(tickets[t], v).priority = IF Rank(v.priority) > Rank(tickets[t].priority)
                                              THEN v.priority ELSE tickets[t].priority
      BY <1>2 DEF Triaged, TicketRows
    <3> QED
      BY <1>3, <3>1, <3>2, Ranks, Zenon
  <2>5. tickets[t].status = "RESOLVED" => Triaged(tickets[t], v).status = "RESOLVED"
    BY <1>2 DEF Triaged, TicketRows
  <2> QED
    BY <1>2, <1>3, <1>6, <2>2, <2>3, <2>4, <2>5, TriagedTicket
<1>7. CASE FileTicket
  <2>1. \A p \in FiledPriorities : Ticket("customer", 0, None, p) \in TicketRows
    BY VerdictsAssumption, StatesTyped DEF Ticket, TicketRows, TypeInv
  <2> QED
    BY <1>5, <1>7, <2>1 DEF FileTicket
<1>8. CASE \E x \in Jobs : CommitTicket(x) /\ job[x].decision.resolution # "NO_ACTION"
  <2>1. PICK x \in Jobs : CommitTicket(x) /\ job[x].decision.resolution # "NO_ACTION"
    BY <1>8
  <2>2. job[x].decision \in Decisions
    BY <2>1 DEF TypeInv, Ready, CommitTicket
  <2>3. Ticket(IF x = Worker THEN "worker" ELSE "request", EventOf(x), job[x].decision,
               job[x].decision.severity) \in TicketRows
    BY <2>2, DecisionFields, EventOfTyped DEF Ticket, TicketRows
  <2>4. tickets' = Append(tickets, Ticket(IF x = Worker THEN "worker" ELSE "request", EventOf(x),
                                          job[x].decision, job[x].decision.severity))
    BY <2>1 DEF CommitTicket
  <2> QED
    BY <1>5, <2>3, <2>4
<1> QED
  BY <1>4, <1>6, <1>7, <1>8, TicketSteps

\* However often a ticket is triaged, and whatever the answers, its priority
\* does not fall, and a resolved ticket stays resolved.
THEOREM TicketsEscalate == Spec => TicketsOnlyEscalate
<1>1. TypeInv /\ [Next]_vars =>
        [\A t \in DOMAIN tickets :
           /\ Rank(tickets'[t].priority) >= Rank(tickets[t].priority)
           /\ tickets[t].status = "RESOLVED" => tickets'[t].status = "RESOLVED"]_vars
  BY TicketsStay
<1> QED
  BY <1>1, Typed, PTL DEF Spec, TicketsOnlyEscalate

-----------------------------------------------------------------------------
(* Nothing is done that no one decided.                                    *)

Decided(e, d) ==
  \E i \in RunsOf("delayed_order_agent") : executions[i].event = e /\ executions[i].decision = d

Granted(e, d) ==
  /\ Decided(e, d) /\ d.requires_human
  /\ \E k \in Requests : approvals[k].event = e /\ approvals[k].decision = d

\* The worker asks about, or executes, what the agent decided on its event; a
\* request executes what its approval says, which the agent decided.
WorkerDecided ==
  job[Worker].at \in {"ask", "ticket"} =>
    /\ Decided(delivered, job[Worker].decision)
    /\ job[Worker].decision.requires_human <=> job[Worker].at = "ask"
ApprovalsDecided ==
  \A k \in Requests : Decided(approvals[k].event, approvals[k].decision)
                      /\ approvals[k].decision.requires_human
RequestsDecided ==
  \A k \in Requests : job[k].at = "ticket" => job[k].decision = approvals[k].decision
TicketDecided(t) ==
  /\ tickets[t].by = "worker" =>
       Decided(tickets[t].event, tickets[t].decision) /\ ~tickets[t].decision.requires_human
  /\ tickets[t].by = "request" => Granted(tickets[t].event, tickets[t].decision)

AuditInv ==
  /\ WorkerDecided /\ ApprovalsDecided /\ RequestsDecided
  /\ \A t \in DOMAIN tickets : TicketDecided(t)

LEMMA ExecutionsStay ==
  ASSUME TypeInv, [Next]_vars
  PROVE  \A i \in RunsOf("delayed_order_agent") :
           i \in RunsOf("delayed_order_agent")' /\ executions'[i] = executions[i]
<1>1. executions \in Seq(ExecutionRows)
  BY DEF TypeInv, TypeOK
<1>2. CASE executions' = executions
  BY <1>2 DEF RunsOf
<1>3. CASE \E row : executions' = Append(executions, row)
  <2>1. PICK row : executions' = Append(executions, row)
    BY <1>3
  <2>2. \A i \in DOMAIN executions : i \in DOMAIN executions' /\ executions'[i] = executions[i]
    <3>1. executions \in Seq(ExecutionRows \cup {row})
      BY <1>1, SeqMonotonic
    <3>2. /\ executions' \in Seq(ExecutionRows \cup {row}) /\ Len(executions') = Len(executions) + 1
          /\ \A i \in 1..Len(executions) : executions'[i] = executions[i]
      BY <2>1, <3>1, AppendProperties
    <3> QED
      BY <3>1, <3>2, LenProperties
  <2> QED
    BY <2>2 DEF RunsOf
<1>4. executions' = executions \/ \E row : executions' = Append(executions, row)
  <2>1. CASE Investigate \/ Triage
    BY <2>1, Zenon DEF Investigate, Triage
  <2>2. CASE ~(Investigate \/ Triage)
    BY <2>2 DEF Next, Progress, WorkerStep, RequestStep, ExecuteDecision, vars, database,
       PublishDelayed, FileTicket, PublishFiled, AcknowledgeFiled, FilingFails, ReadNext, AskHuman,
       TellCustomer, Bury, AckDead, CommitTicket, PublishTicket, SendEmail, Settle, Approve, Reject,
       RequestFails, ReleaseApproval, AttemptFails, WorkerCrash, ApiCrash
  <2> QED
    BY <2>1, <2>2
<1> QED
  BY <1>2, <1>3, <1>4

\* Only the worker asks, and an approval stays about what it is about.
LEMMA ApprovalsStay ==
  ASSUME TypeInv, [Next]_vars, NEW k \in Requests
  PROVE  /\ k \in Requests'
         /\ approvals'[k].event = approvals[k].event
         /\ approvals'[k].decision = approvals[k].decision
<1>1. approvals \in Seq(ApprovalRows) /\ k \in 1..Len(approvals) /\ approvals[k] \in ApprovalRows
      /\ Len(approvals) \in Nat
  BY StatesTyped, ElementOfSeq, LenProperties DEF TypeInv, TypeOK
<1>2. CASE approvals' = approvals
  BY <1>2 DEF Requests
<1>3. CASE AskHuman
  <2>1. job[Worker].decision \in Decisions /\ delivered \in 1..delivered
    BY <1>3, StatesTyped DEF TypeInv, Ready, Busy, AskHuman
  <2>2. [event |-> delivered, decision |-> job[Worker].decision, status |-> "PENDING"] \in ApprovalRows
    BY <2>1 DEF ApprovalRows
  <2>3. /\ approvals' \in Seq(ApprovalRows) /\ Len(approvals') = Len(approvals) + 1
        /\ approvals'[k] = approvals[k]
    BY <1>1, <1>3, <2>2, AppendProperties DEF AskHuman
  <2> QED
    BY <1>1, <2>3, LenProperties DEF Requests
<1>4. CASE \E n \in Requests : \E st : approvals' = [approvals EXCEPT ![n].status = st]
  BY <1>1, <1>4 DEF Requests, ApprovalRows
<1>5. CASE \E n \in Requests : Approve(n) \/ Reject(n) \/ ReleaseApproval(n)
  <2>1. PICK n \in Requests : Approve(n) \/ Reject(n) \/ ReleaseApproval(n)
    BY <1>5
  <2> QED
    BY <1>4, <2>1, Zenon DEF Approve, Reject, Claim, ReleaseApproval
<1>6. approvals' = approvals \/ AskHuman \/ \E n \in Requests : Approve(n) \/ Reject(n) \/ ReleaseApproval(n)
  BY DEF Next, Progress, WorkerStep, RequestStep, ExecuteDecision, vars, database,
     PublishDelayed, FileTicket, PublishFiled, AcknowledgeFiled, FilingFails, ReadNext, Investigate, Triage,
     TellCustomer, Bury, AckDead, CommitTicket, PublishTicket, SendEmail, Settle,
     RequestFails, AttemptFails, WorkerCrash, ApiCrash
<1> QED
  BY <1>2, <1>3, <1>5, <1>6

LEMMA RequestsStay == ASSUME TypeInv, [Next]_vars, ~AskHuman PROVE Requests' = Requests
<1>1. CASE approvals' = approvals
  BY <1>1 DEF Requests
<1>2. CASE \E n \in Requests : Approve(n) \/ Reject(n) \/ ReleaseApproval(n)
  <2>1. PICK n \in Requests : \E st : approvals' = [approvals EXCEPT ![n].status = st]
    BY <1>2, Zenon DEF Approve, Reject, Claim, ReleaseApproval
  <2> QED
    BY <2>1, LenProperties DEF Requests, TypeInv, TypeOK
<1>3. approvals' = approvals \/ \E n \in Requests : Approve(n) \/ Reject(n) \/ ReleaseApproval(n)
  BY DEF Next, Progress, WorkerStep, RequestStep, ExecuteDecision, vars, database,
     PublishDelayed, FileTicket, PublishFiled, AcknowledgeFiled, FilingFails, ReadNext, Investigate,
     Triage, TellCustomer, Bury, AckDead, CommitTicket, PublishTicket, SendEmail, Settle,
     RequestFails, AttemptFails, WorkerCrash, ApiCrash
<1> QED
  BY <1>1, <1>2, <1>3

LEMMA NewTicket ==
  ASSUME TypeOK, NEW row \in TicketRows, tickets' = Append(tickets, row),
         NEW t \in DOMAIN tickets', t \notin DOMAIN tickets
  PROVE  tickets'[t] = row
<1>1. /\ tickets' \in Seq(TicketRows) /\ Len(tickets') = Len(tickets) + 1
      /\ tickets'[Len(tickets) + 1] = row /\ Len(tickets) \in Nat
  BY AppendProperties, LenProperties DEF TypeOK
<1>2. t = Len(tickets) + 1
  BY <1>1, LenProperties DEF TypeOK
<1> QED
  BY <1>1, <1>2

\* How a step moves jobs on.
LEMMA Relabel ==
  ASSUME TypeInv, NEW x \in Jobs, NEW l, Goto(x, l)
  PROVE  /\ \A y \in Jobs : y # x => job'[y] = job[y]
         /\ job'[x].at = l /\ job'[x].decision = job[x].decision /\ job'[x].ticket = job[x].ticket
<1>1. job[x] \in JobStates /\ job \in [Jobs -> JobStates]
  BY StatesTyped DEF TypeInv, TypeOK
<1> QED
  BY <1>1 DEF Goto, JobStates

LEMMA Reset ==
  ASSUME TypeInv, NEW x \in Jobs, NEW j, job' = [job EXCEPT ![x] = j]
  PROVE  job'[x] = j /\ \A y \in Jobs : y # x => job'[y] = job[y]
BY DEF TypeInv, TypeOK

\* execute_decision only moves the executor, and only forward.
LEMMA ExecuteMoves ==
  ASSUME TypeInv, NEW x \in Jobs, ExecuteDecision(x)
  PROVE  /\ \A y \in Jobs : y # x => job'[y] = job[y]
         /\ job'[x].at \in {"publish", "email", "settle", "idle"}
         /\ UNCHANGED <<delivered, dead, approvals, Jobs>>
<1>1. CASE CommitTicket(x) /\ job[x].decision.resolution # "NO_ACTION"
  <2>1. PICK l \in {"publish", "email"} : job' = [job EXCEPT ![x].ticket = Len(tickets'), ![x].at = l]
    BY <1>1, Zenon DEF CommitTicket
  <2>2. job[x] \in JobStates /\ job \in [Jobs -> JobStates]
    BY StatesTyped DEF TypeInv, TypeOK
  <2>3. job'[x].at = l /\ \A y \in Jobs : y # x => job'[y] = job[y]
    BY <2>1, <2>2 DEF JobStates
  <2> QED
    BY <1>1, <2>3 DEF CommitTicket, redis, Jobs, Requests
<1>2. CASE CommitTicket(x) /\ job[x].decision.resolution = "NO_ACTION"
  BY <1>2, Relabel DEF CommitTicket, redis, Jobs, Requests
<1>3. CASE PublishTicket(x)
  BY <1>3, Relabel DEF PublishTicket, redis, database, Jobs, Requests
<1>4. CASE SendEmail(x)
  BY <1>4, Relabel DEF SendEmail, redis, Jobs, Requests
<1>5. CASE Settle(x)
  BY <1>5, Reset DEF Settle, redis, database, Jobs, Requests, Idle
<1> QED
  BY <1>1, <1>2, <1>3, <1>4, <1>5 DEF ExecuteDecision

LEMMA WorkerMoves ==
  ASSUME TypeInv, [Next]_vars
  PROVE  \/ Investigate
         \/ job'[Worker].at \notin {"ask", "ticket"}
         \/ job'[Worker] = job[Worker] /\ delivered' = delivered
<1>1. Worker \in Jobs /\ \A k \in Requests : k \in Jobs /\ k # Worker
  BY StatesTyped DEF TypeInv, Worker
<1>2. CASE \E x \in Jobs : ExecuteDecision(x)
  BY <1>1, <1>2, ExecuteMoves
<1>3. CASE ReadNext \/ TellCustomer \/ Bury \/ AckDead
  BY <1>1, <1>3, Relabel DEF ReadNext, TellCustomer, Bury, AckDead
<1>4. CASE Triage
  <2>1. PICK v \in Verdicts : job' = [job EXCEPT ![Worker] =
                                 [at |-> "tell", decision |-> v, ticket |-> stream[delivered].ticket]]
    BY <1>4 DEF Triage
  <2>2. job'[Worker] = [at |-> "tell", decision |-> v, ticket |-> stream[delivered].ticket]
    BY <1>1, <2>1, Reset, Zenon
  <2> QED
    BY <2>2
<1>5. CASE AskHuman
  <2>1. job'[Worker] = [job[Worker] EXCEPT !.at = "settle"]
    BY <1>5 DEF AskHuman
  <2> QED
    BY <1>1, <2>1, StatesTyped DEF TypeInv, JobStates
<1>6. CASE AttemptFails \/ WorkerCrash
  BY <1>1, <1>6, Reset DEF AttemptFails, WorkerCrash, Retry, GiveUp, Idle
<1>7. CASE \E k \in Requests : RequestFails(k) \/ ReleaseApproval(k) \/ Approve(k) \/ Reject(k)
  BY <1>1, <1>7, Relabel, Reset DEF RequestFails, ReleaseApproval, Approve, Reject, redis
<1>8. CASE PublishDelayed \/ FileTicket \/ PublishFiled \/ AcknowledgeFiled \/ FilingFails \/ ApiCrash
  BY <1>1, <1>8 DEF PublishDelayed, FileTicket, PublishFiled, AcknowledgeFiled, FilingFails, ApiCrash, redis
<1>9. CASE UNCHANGED vars
  BY <1>9 DEF vars, redis
<1> QED
  BY <1>1, <1>2, <1>3, <1>4, <1>5, <1>6, <1>7, <1>8, <1>9 DEF Next, Progress, WorkerStep, RequestStep

LEMMA RequestMoves ==
  ASSUME TypeInv, [Next]_vars, NEW k \in Requests'
  PROVE  \/ k \in Requests /\ job'[k] = job[k]
         \/ job'[k].at # "ticket"
         \/ k \in Requests /\ job'[k].decision = approvals[k].decision
<1>1. Worker \in Jobs /\ \A n \in Requests : n \in Jobs /\ n # Worker
  BY StatesTyped DEF TypeInv, Worker
<1>2. CASE AskHuman
  <2>1. k # Worker
    <3>1. TypeInv'
      BY TypeStep
    <3> QED
      BY <3>1, LenProperties DEF TypeInv, TypeOK, Requests, Worker
  <2>2. job'[k] = IF k \in Requests THEN job[k] ELSE Idle
    BY <1>2, <2>1 DEF AskHuman, Requests
  <2> QED
    BY <2>2 DEF Idle
<1>3. CASE ~AskHuman
  <2>1. k \in Requests
    BY <1>3, RequestsStay
  <2>2. k \in Jobs /\ k # Worker
    BY <1>1, <2>1
  <2>3. CASE \E x \in Jobs : ExecuteDecision(x)
    BY <2>1, <2>2, <2>3, ExecuteMoves
  <2>4. CASE ReadNext \/ TellCustomer \/ Bury \/ AckDead
    BY <1>1, <2>1, <2>2, <2>4, Relabel DEF ReadNext, TellCustomer, Bury, AckDead
  <2>5. CASE \E j : job' = [job EXCEPT ![Worker] = j]
    BY <1>1, <2>1, <2>2, <2>5, Reset
  <2>6. CASE Investigate \/ Triage
    BY <2>5, <2>6, Zenon DEF Investigate, Triage
  <2>7. CASE AttemptFails \/ WorkerCrash
    BY <2>5, <2>7, Zenon DEF AttemptFails, WorkerCrash
  <2>8. CASE \E n \in Requests : Approve(n)
    <3>1. PICK n \in Requests : Approve(n)
      BY <2>8
    <3> QED
      BY <1>1, <2>1, <2>2, <3>1, Reset DEF Approve
  <2>9. CASE \E n \in Requests : RequestFails(n) \/ ReleaseApproval(n) \/ Reject(n)
    BY <1>1, <2>1, <2>2, <2>9, Relabel, Reset DEF RequestFails, ReleaseApproval, Reject, Idle
  <2>10. CASE PublishDelayed \/ FileTicket \/ PublishFiled \/ AcknowledgeFiled \/ FilingFails
    BY <2>1, <2>10 DEF PublishDelayed, FileTicket, PublishFiled, AcknowledgeFiled, FilingFails
  <2>11. CASE ApiCrash
    BY <2>2, <2>11 DEF ApiCrash, Idle
  <2>12. CASE UNCHANGED vars
    BY <2>1, <2>12 DEF vars
  <2> QED
    BY <1>1, <1>3, <2>3, <2>4, <2>6, <2>7, <2>8, <2>9, <2>10, <2>11, <2>12
       DEF Next, Progress, WorkerStep, RequestStep
<1> QED
  BY <1>2, <1>3

LEMMA AuditStep == ASSUME TypeInv, AuditInv, [Next]_vars PROVE AuditInv'
<1>0. /\ Worker \in Jobs /\ Worker \in Jobs' /\ TypeInv'
      /\ \A k \in Requests : k \in Jobs /\ k # Worker
  <2>1. TypeInv'
    BY TypeStep
  <2> QED
    BY <2>1, StatesTyped DEF TypeInv, Worker, Jobs
<1>1. WorkerDecided'
  <2>1. CASE Investigate
    <3>1. PICK d \in Decisions :
            /\ executions' = Append(executions, [agent |-> "delayed_order_agent", event |-> delivered,
                                                 task |-> delivered, ticket |-> 0, decision |-> d])
            /\ job' = [job EXCEPT ![Worker] = [at |-> IF d.requires_human THEN "ask" ELSE "ticket",
                                               decision |-> d, ticket |-> 0]]
      BY <2>1, Zenon DEF Investigate
    <3> DEFINE row == [agent |-> "delayed_order_agent", event |-> delivered, task |-> delivered,
                       ticket |-> 0, decision |-> d]
               n == Len(executions) + 1
    <3>2. delivered \in 1..delivered
      BY <2>1, StatesTyped DEF TypeInv, Ready, Busy, Investigate
    <3>3. row \in ExecutionRows
      BY <3>2, StatesTyped DEF TypeInv, ExecutionRows
    <3>4. executions' \in Seq(ExecutionRows) /\ Len(executions') = n /\ executions'[n] = row
      BY <3>1, <3>3, AppendProperties DEF TypeInv, TypeOK
    <3>5. n \in DOMAIN executions'
      BY <3>4, LenProperties DEF TypeInv, TypeOK
    <3>6. /\ executions'[n].agent = "delayed_order_agent" /\ executions'[n].event = delivered
          /\ executions'[n].decision = d
      BY <3>4
    <3>7. job'[Worker] = [at |-> IF d.requires_human THEN "ask" ELSE "ticket",
                          decision |-> d, ticket |-> 0]
      BY <1>0, <3>1, Reset, Zenon
    <3>8. delivered' = delivered /\ d.requires_human \in BOOLEAN
      BY <2>1, DecisionFields DEF Investigate, redis
    <3>9. job'[Worker].decision = d /\ (job'[Worker].at = "ask" <=> d.requires_human)
      BY <3>7, <3>8
    <3> HIDE DEF n
    <3>10. n \in RunsOf("delayed_order_agent")'
      BY <3>5, <3>6 DEF RunsOf
    <3>11. Decided(delivered, job[Worker].decision)'
      BY <3>6, <3>8, <3>9, <3>10, Zenon DEF Decided
    <3>12. WorkerDecided' = (job'[Worker].at \in {"ask", "ticket"} =>
             /\ Decided(delivered, job[Worker].decision)'
             /\ job'[Worker].decision.requires_human <=> job'[Worker].at = "ask")
      BY DEF WorkerDecided
    <3> QED
      BY <3>9, <3>11, <3>12
  <2>2. CASE job'[Worker].at \notin {"ask", "ticket"}
    BY <2>2 DEF WorkerDecided
  <2>3. CASE job'[Worker] = job[Worker] /\ delivered' = delivered
    <3>1. CASE job[Worker].at \in {"ask", "ticket"}
      <4>1. Decided(delivered, job[Worker].decision)
        BY <3>1 DEF AuditInv, WorkerDecided
      <4>2. Decided(delivered, job[Worker].decision)'
        BY <2>3, <4>1, ExecutionsStay, Zenon DEF Decided
      <4> QED
        BY <2>3, <3>1, <4>2 DEF AuditInv, WorkerDecided
    <3>2. CASE job[Worker].at \notin {"ask", "ticket"}
      BY <2>3, <3>2 DEF WorkerDecided
    <3> QED
      BY <3>1, <3>2
  <2> QED
    BY <2>1, <2>2, <2>3, WorkerMoves
<1>2. ASSUME NEW k \in Requests
      PROVE  /\ Decided(approvals[k].event, approvals[k].decision)'
             /\ approvals'[k].decision.requires_human
  <2>1. Decided(approvals[k].event, approvals[k].decision) /\ approvals[k].decision.requires_human
    BY DEF AuditInv, ApprovalsDecided
  <2> QED
    BY <2>1, ApprovalsStay, ExecutionsStay, Zenon DEF Decided
<1>3. ApprovalsDecided'
  <2>1. CASE AskHuman
    <3> DEFINE row == [event |-> delivered, decision |-> job[Worker].decision, status |-> "PENDING"]
    <3>0. PICK n : n = Len(approvals) + 1
      OBVIOUS
    <3>1. /\ job[Worker].decision \in Decisions /\ delivered \in 1..delivered
          /\ job[Worker].decision.requires_human \in BOOLEAN
      BY <2>1, StatesTyped, DecisionFields DEF TypeInv, Ready, Busy, AskHuman
    <3>2. row \in ApprovalRows
      BY <3>1 DEF ApprovalRows
    <3>3. /\ approvals' \in Seq(ApprovalRows) /\ Len(approvals') = n /\ approvals'[n] = row
      BY <2>1, <3>0, <3>2, AppendProperties DEF AskHuman, TypeInv, TypeOK
    <3>4. \A k \in Requests' : k \in Requests \/ k = n
      BY <3>0, <3>3, LenProperties DEF Requests, TypeInv, TypeOK
    <3>5. Decided(delivered, job[Worker].decision) /\ job[Worker].decision.requires_human
      BY <2>1, Zenon DEF AskHuman, AuditInv, WorkerDecided
    <3>6. approvals'[n].event = delivered /\ approvals'[n].decision = job[Worker].decision
      BY <3>3
    <3>7. Decided(approvals[n].event, approvals[n].decision)' /\ approvals'[n].decision.requires_human
      BY <3>5, <3>6, ExecutionsStay, Zenon DEF Decided
    <3> QED
      BY <1>2, <3>4, <3>7, Zenon DEF ApprovalsDecided
  <2>2. CASE ~AskHuman
    <3>1. Requests' = Requests
      BY <2>2, RequestsStay
    <3> QED
      BY <1>2, <3>1, Zenon DEF ApprovalsDecided
  <2> QED
    BY <2>1, <2>2
<1>4. RequestsDecided'
  <2> SUFFICES ASSUME NEW k \in Requests', job'[k].at = "ticket"
               PROVE  job'[k].decision = approvals'[k].decision
    BY DEF RequestsDecided
  <2>1. k \in Requests
    BY RequestMoves
  <2>2. CASE job'[k] = job[k]
    BY <2>1, <2>2, ApprovalsStay DEF AuditInv, RequestsDecided
  <2>3. CASE job'[k].decision = approvals[k].decision
    BY <2>1, <2>3, ApprovalsStay
  <2> QED
    BY <2>2, <2>3, RequestMoves
<1>5. ASSUME NEW t \in DOMAIN tickets
      PROVE  TicketDecided(t)'
  <2>1. TicketDecided(t)
    BY DEF AuditInv
  <2>2. tickets'[t].by = tickets[t].by /\ tickets'[t].event = tickets[t].event
        /\ tickets'[t].decision = tickets[t].decision
    BY TicketsStay
  <2>3. Decided(tickets[t].event, tickets[t].decision) => Decided(tickets[t].event, tickets[t].decision)'
    BY <2>2, ExecutionsStay, Zenon DEF Decided
  <2>4. Granted(tickets[t].event, tickets[t].decision) => Granted(tickets[t].event, tickets[t].decision)'
    BY <2>2, <2>3, ApprovalsStay, Zenon DEF Granted
  <2> QED
    BY <2>1, <2>2, <2>3, <2>4, Zenon DEF TicketDecided
<1>6. ASSUME NEW t \in DOMAIN tickets', t \notin DOMAIN tickets
      PROVE  TicketDecided(t)'
  <2>1. CASE FileTicket
    <3>1. PICK p \in FiledPriorities : tickets' = Append(tickets, Ticket("customer", 0, None, p))
      BY <2>1 DEF FileTicket
    <3>2. Ticket("customer", 0, None, p) \in TicketRows
      BY VerdictsAssumption, StatesTyped DEF Ticket, TicketRows, TypeInv
    <3>3. tickets'[t] = Ticket("customer", 0, None, p)
      BY <1>6, <3>1, <3>2, NewTicket DEF TypeInv
    <3> QED
      BY <3>3 DEF TicketDecided, Ticket
  <2>2. CASE \E x \in Jobs : CommitTicket(x) /\ job[x].decision.resolution # "NO_ACTION"
    <3>1. PICK x \in Jobs : CommitTicket(x) /\ job[x].decision.resolution # "NO_ACTION"
      BY <2>2
    <3> DEFINE d == job[x].decision
               row == Ticket(IF x = Worker THEN "worker" ELSE "request", EventOf(x), d, d.severity)
    <3>2. d \in Decisions /\ job[x].at = "ticket" /\ tickets' = Append(tickets, row)
      BY <3>1 DEF CommitTicket, TypeInv, Ready
    <3>3. row \in TicketRows
      BY <3>2, DecisionFields, EventOfTyped DEF Ticket, TicketRows
    <3>4. tickets'[t] = row
      BY <1>6, <3>2, <3>3, NewTicket DEF TypeInv
    <3>5. /\ tickets'[t].by = IF x = Worker THEN "worker" ELSE "request"
          /\ tickets'[t].event = EventOf(x) /\ tickets'[t].decision = d
      BY <3>4 DEF Ticket
    <3>6. CASE x = Worker
      <4>1. Decided(delivered, d) /\ ~d.requires_human
        BY <3>2, <3>6, DecisionFields DEF AuditInv, WorkerDecided
      <4>2. EventOf(x) = delivered
        BY <3>6 DEF EventOf
      <4>3. Decided(tickets[t].event, tickets[t].decision)'
        BY <3>5, <4>1, <4>2, ExecutionsStay, Zenon DEF Decided
      <4> QED
        BY <3>5, <3>6, <4>1, <4>3 DEF TicketDecided
    <3>7. CASE x # Worker
      <4>1. x \in Requests /\ EventOf(x) = approvals[x].event
        BY <3>7 DEF Jobs, EventOf
      <4>2. d = approvals[x].decision
        BY <3>2, <4>1 DEF AuditInv, RequestsDecided
      <4>3. Granted(approvals[x].event, approvals[x].decision)
        BY <4>1 DEF AuditInv, ApprovalsDecided, Granted
      <4>4. Granted(tickets[t].event, tickets[t].decision)'
        BY <3>5, <4>1, <4>2, <4>3, ApprovalsStay, ExecutionsStay, Zenon DEF Granted, Decided
      <4> QED
        BY <3>5, <3>7, <4>4 DEF TicketDecided
    <3> QED
      BY <3>6, <3>7
  <2>3. CASE Triage
    BY <1>6, <2>3 DEF Triage
  <2>4. CASE UNCHANGED tickets
    BY <1>6, <2>4
  <2> QED
    BY <2>1, <2>2, <2>3, <2>4, TicketSteps
<1>7. \A t \in DOMAIN tickets' : TicketDecided(t)'
  BY <1>5, <1>6
<1> QED
  BY <1>1, <1>3, <1>4, <1>7 DEF AuditInv

LEMMA AuditInit == Init => AuditInv
BY DEF Init, AuditInv, WorkerDecided, ApprovalsDecided, RequestsDecided, Idle, Worker, Requests

LEMMA AuditHolds == TypeInv /\ AuditInv => ActionsAreAudited
<1> SUFFICES ASSUME TypeInv, AuditInv PROVE ActionsAreAudited
  OBVIOUS
<1> SUFFICES ASSUME NEW t \in DOMAIN tickets
             PROVE  LET decided == \E i \in RunsOf("delayed_order_agent") :
                                      /\ executions[i].event = tickets[t].event
                                      /\ executions[i].decision = tickets[t].decision
                    IN  CASE tickets[t].by = "worker"   -> decided /\ ~tickets[t].decision.requires_human
                          [] tickets[t].by = "request"  ->
                               /\ decided /\ tickets[t].decision.requires_human
                               /\ \E k \in Requests : /\ approvals[k].event = tickets[t].event
                                                      /\ approvals[k].decision = tickets[t].decision
                          [] tickets[t].by = "customer" -> TRUE
  BY Zenon DEF ActionsAreAudited
<1>1. tickets[t] \in TicketRows
  <2>1. tickets \in Seq(TicketRows) /\ t \in 1..Len(tickets)
    BY LenProperties DEF TypeInv, TypeOK
  <2> QED
    BY <2>1, ElementOfSeq
<1>2. TicketDecided(t)
  BY DEF AuditInv
<1>3. CASE tickets[t].by = "worker"
  BY <1>2, <1>3 DEF TicketDecided, Decided
<1>4. CASE tickets[t].by = "request"
  BY <1>2, <1>4 DEF TicketDecided, Granted, Decided
<1>5. CASE tickets[t].by = "customer"
  BY <1>5
<1> QED
  BY <1>1, <1>3, <1>4, <1>5 DEF TicketRows

\* Nothing is done that the agent did not decide, or that needed a human and
\* got none, whatever fails, crashes and is tried again.
THEOREM ActionsAudited == Spec => []ActionsAreAudited
<1>1. TypeInv /\ AuditInv /\ [Next]_vars => AuditInv'
  BY AuditStep
<1> QED
  BY <1>1, AuditInit, AuditHolds, Typed, PTL DEF Spec

-----------------------------------------------------------------------------
(* The events, and what the worker is at with the one it has.              *)

\* Only delays, tickets filed and tickets opened become events.
LEMMA StreamSteps ==
  ASSUME TypeInv, [Next]_vars
  PROVE  \/ UNCHANGED stream
         \/ PublishDelayed
         \/ PublishFiled
         \/ \E x \in Jobs : PublishTicket(x) /\ stream' = Append(stream, TicketCreated(job[x].ticket, EventOf(x)))
<1>1. Worker \in Jobs /\ \A k \in Requests : k \in Jobs
  BY StatesTyped DEF TypeInv
<1>2. CASE \E x \in Jobs : ExecuteDecision(x)
  BY <1>2 DEF ExecuteDecision, PublishTicket, CommitTicket, SendEmail, Settle, redis
<1>3. CASE ~\E x \in Jobs : ExecuteDecision(x)
  BY <1>1, <1>3 DEF Next, Progress, WorkerStep, RequestStep, vars, redis, FileTicket, AcknowledgeFiled,
     FilingFails, ReadNext, Investigate, AskHuman, Triage, TellCustomer, Bury, AckDead, Approve, Reject,
     RequestFails, ReleaseApproval, AttemptFails, WorkerCrash, ApiCrash
<1> QED
  BY <1>2, <1>3

LEMMA StreamGrows ==
  ASSUME TypeInv, [Next]_vars
  PROVE  \A m \in DOMAIN stream : m \in DOMAIN stream' /\ stream'[m] = stream[m]
<1>1. UNCHANGED stream \/ \E row \in EventRows : stream' = Append(stream, row)
  <2>1. OrderDelayed \in EventRows
    BY StatesTyped DEF TypeInv, OrderDelayed, EventRows
  <2>2. TicketCreated(filing.ticket, 0) \in EventRows
    BY StatesTyped DEF TypeInv, TypeOK, TicketCreated, EventRows
  <2>3. ASSUME NEW x \in Jobs, PublishTicket(x)
        PROVE  TicketCreated(job[x].ticket, EventOf(x)) \in EventRows
    <3>1. job[x].ticket \in 0..Len(tickets) /\ EventOf(x) \in 0..delivered
      BY <2>3, StatesTyped, EventOfTyped DEF TypeInv, JobStates, PublishTicket
    <3> QED
      BY <3>1 DEF TicketCreated, EventRows
  <2> QED
    BY <2>1, <2>2, <2>3, StreamSteps DEF PublishDelayed, PublishFiled
<1>2. stream \in Seq(EventRows) /\ DOMAIN stream = 1..Len(stream) /\ Len(stream) \in Nat
  BY LenProperties DEF TypeInv, TypeOK
<1>3. CASE UNCHANGED stream
  BY <1>3
<1>4. CASE \E row \in EventRows : stream' = Append(stream, row)
  <2>1. PICK row \in EventRows : stream' = Append(stream, row)
    BY <1>4
  <2>2. /\ stream' \in Seq(EventRows) /\ Len(stream') = Len(stream) + 1
        /\ \A m \in 1..Len(stream) : stream'[m] = stream[m]
    BY <1>2, <2>1, AppendProperties
  <2> QED
    BY <1>2, <2>2, LenProperties
<1> QED
  BY <1>1, <1>3, <1>4

LEMMA InHand ==
  ASSUME TypeInv, Busy(Worker)
  PROVE  delivered \in DOMAIN stream
BY StatesTyped, LenProperties DEF TypeInv, TypeOK, Ready

\* Whatever is no step of the worker's leaves it where it is.
LEMMA WorkerSteps ==
  ASSUME TypeInv, [Next]_vars
  PROVE  \/ ReadNext \/ Investigate \/ AskHuman \/ Triage \/ TellCustomer \/ Bury \/ AckDead
         \/ ExecuteDecision(Worker) \/ AttemptFails \/ WorkerCrash
         \/ job'[Worker] = job[Worker] /\ UNCHANGED <<delivered, dead>>
<1>1. Worker \in Jobs /\ \A k \in Requests : k \in Jobs /\ k # Worker
  BY StatesTyped DEF TypeInv, Worker
<1>2. CASE \E k \in Requests : ExecuteDecision(k)
  BY <1>1, <1>2, ExecuteMoves
<1>3. CASE \E k \in Requests : RequestFails(k) \/ ReleaseApproval(k) \/ Approve(k) \/ Reject(k)
  BY <1>1, <1>3, Relabel, Reset DEF RequestFails, ReleaseApproval, Approve, Reject, redis
<1>4. CASE PublishDelayed \/ FileTicket \/ PublishFiled \/ AcknowledgeFiled \/ FilingFails \/ ApiCrash
  BY <1>1, <1>4 DEF PublishDelayed, FileTicket, PublishFiled, AcknowledgeFiled, FilingFails, ApiCrash, redis
<1>5. CASE UNCHANGED vars
  BY <1>5 DEF vars, redis
<1> QED
  BY <1>2, <1>3, <1>4, <1>5 DEF Next, Progress, WorkerStep, RequestStep

\* Where each of these steps takes the worker.
LEMMA ExecuteFrom ==
  ASSUME TypeInv, NEW x \in Jobs, ExecuteDecision(x)
  PROVE  /\ job[x].at \in {"ticket", "publish", "email", "settle"}
         /\ job'[x].at \in {"publish", "email"} => job[x].at \in {"ticket", "publish"}
         /\ job'[x].at = "settle" => job[x].at = "email"
         /\ job'[x].at = "idle" => job[x].at = "settle"
<1>1. CASE CommitTicket(x) /\ job[x].decision.resolution # "NO_ACTION"
  <2>1. PICK l \in {"publish", "email"} : job' = [job EXCEPT ![x].ticket = Len(tickets'), ![x].at = l]
    BY <1>1, Zenon DEF CommitTicket
  <2>2. job[x] \in JobStates /\ job \in [Jobs -> JobStates]
    BY StatesTyped DEF TypeInv, TypeOK
  <2>3. job'[x].at = l
    BY <2>1, <2>2 DEF JobStates
  <2> QED
    BY <1>1, <2>3 DEF CommitTicket
<1>2. CASE CommitTicket(x) /\ job[x].decision.resolution = "NO_ACTION"
  BY <1>2, Relabel DEF CommitTicket
<1>3. CASE PublishTicket(x) \/ SendEmail(x)
  BY <1>3, Relabel DEF PublishTicket, SendEmail
<1>4. CASE Settle(x)
  <2>1. job'[x] = Idle
    BY <1>4, Reset DEF Settle
  <2> QED
    BY <1>4, <2>1 DEF Settle, Idle
<1> QED
  BY <1>1, <1>2, <1>3, <1>4 DEF ExecuteDecision

\* Decisions are executed for delays, triage results told for tickets, and an
\* event is acknowledged unsettled only once it is a dead letter.
Lane ==
  /\ job[Worker].at \in {"ask", "ticket", "publish", "email"} => stream[delivered].type = "ORDER_DELAYED"
  /\ job[Worker].at = "tell" =>
       stream[delivered].type = "TICKET_CREATED" /\ job[Worker].ticket = stream[delivered].ticket
  /\ job[Worker].at = "ackDead" => delivered \in dead
DelaysBare == \A m \in DOMAIN stream : stream[m].type = "ORDER_DELAYED" => stream[m].ticket = 0

LEMMA LaneStep == ASSUME TypeInv, Lane, [Next]_vars PROVE Lane'
<1>1. Worker \in Jobs
  BY StatesTyped DEF TypeInv
<1>2. CASE job'[Worker] = job[Worker] /\ UNCHANGED <<delivered, dead>>
  <2>1. CASE Busy(Worker)
    BY <1>2, <2>1, InHand, StreamGrows DEF Lane
  <2>2. CASE ~Busy(Worker)
    BY <1>2, <2>2 DEF Lane, Busy
  <2> QED
    BY <2>1, <2>2
<1>3. CASE ReadNext \/ AskHuman \/ TellCustomer \/ AckDead \/ Bury
  <2>1. CASE AskHuman
    BY <1>1, <2>1, StatesTyped DEF AskHuman, TypeInv, JobStates, Lane
  <2>2. CASE ReadNext \/ TellCustomer \/ AckDead
    BY <1>1, <2>2, Relabel DEF ReadNext, TellCustomer, AckDead, Lane
  <2>3. CASE Bury
    BY <1>1, <2>3, Relabel DEF Bury, Lane
  <2> QED
    BY <1>3, <2>1, <2>2, <2>3
<1>4. CASE Investigate
  <2>1. PICK d \in Decisions : job' = [job EXCEPT ![Worker] =
                                 [at |-> IF d.requires_human THEN "ask" ELSE "ticket",
                                  decision |-> d, ticket |-> 0]]
    BY <1>4 DEF Investigate
  <2>2. job'[Worker] = [at |-> IF d.requires_human THEN "ask" ELSE "ticket",
                        decision |-> d, ticket |-> 0]
    BY <1>1, <2>1, Reset, Zenon
  <2>3. job'[Worker].at \in {"ask", "ticket"}
    BY <2>2
  <2> QED
    BY <1>4, <2>3 DEF Investigate, redis, Lane
<1>5. CASE Triage
  <2>1. PICK v \in Verdicts : job' = [job EXCEPT ![Worker] =
                                 [at |-> "tell", decision |-> v, ticket |-> stream[delivered].ticket]]
    BY <1>5 DEF Triage
  <2>2. job'[Worker] = [at |-> "tell", decision |-> v, ticket |-> stream[delivered].ticket]
    BY <1>1, <2>1, Reset, Zenon
  <2> QED
    BY <1>5, <2>2 DEF Triage, redis, Lane
<1>6. CASE ExecuteDecision(Worker)
  <2>1. /\ job'[Worker].at \in {"publish", "email", "settle", "idle"}
        /\ job'[Worker].at \in {"publish", "email"} => job[Worker].at \in {"ticket", "publish"}
        /\ UNCHANGED <<delivered, dead>> /\ Busy(Worker)
    BY <1>1, <1>6, ExecuteMoves, ExecuteFrom DEF Busy
  <2> QED
    BY <2>1, InHand, StreamGrows DEF Lane
<1>7. CASE AttemptFails \/ WorkerCrash
  BY <1>1, <1>7, Reset DEF AttemptFails, WorkerCrash, Retry, GiveUp, Idle, Lane
<1> QED
  BY <1>2, <1>3, <1>4, <1>5, <1>6, <1>7, WorkerSteps

LEMMA DelaysBareStep == ASSUME TypeInv, DelaysBare, [Next]_vars PROVE DelaysBare'
<1>1. CASE UNCHANGED stream
  BY <1>1 DEF DelaysBare
<1>2. ASSUME NEW row, stream' = Append(stream, row), row.type = "ORDER_DELAYED" => row.ticket = 0
      PROVE  DelaysBare'
  <2>1. stream \in Seq(EventRows \cup {row}) /\ DOMAIN stream = 1..Len(stream) /\ Len(stream) \in Nat
    BY SeqMonotonic, LenProperties DEF TypeInv, TypeOK
  <2>2. /\ stream' \in Seq(EventRows \cup {row}) /\ Len(stream') = Len(stream) + 1
        /\ stream'[Len(stream) + 1] = row
        /\ \A m \in 1..Len(stream) : stream'[m] = stream[m]
    BY <1>2, <2>1, AppendProperties
  <2>3. DOMAIN stream' = 1..Len(stream')
    BY <2>2, LenProperties
  <2>4. \A m \in DOMAIN stream' : stream'[m] = row \/ (m \in DOMAIN stream /\ stream'[m] = stream[m])
    BY <2>1, <2>2, <2>3
  <2> QED
    BY <1>2, <2>4 DEF DelaysBare
<1> QED
  BY <1>1, <1>2, StreamSteps DEF PublishDelayed, PublishFiled, OrderDelayed, TicketCreated

-----------------------------------------------------------------------------
(* A resolved ticket's customer is told.                                   *)

Told(t) == \E mail \in emails : mail.ticket = t /\ mail.says = "resolved"
Held(t) == \E m \in EventsOf(t) : m \in dead \/ WorkerOn(m)

\* ResolvedIsTold, and that the worker settles the event of a resolved ticket
\* only after it told the customer.
ToldInv ==
  /\ \A t \in DOMAIN tickets : Told(t) => tickets[t].status = "RESOLVED"
  /\ \A t \in DOMAIN tickets : tickets[t].status = "RESOLVED" => Told(t) \/ Held(t)
  /\ \A t \in DOMAIN tickets :
       /\ job[Worker].at = "settle" /\ stream[delivered].ticket = t
       /\ tickets[t].status = "RESOLVED"
       => Told(t)

LEMMA MailSteps ==
  ASSUME TypeInv, [Next]_vars
  PROVE  \/ UNCHANGED emails
         \/ AcknowledgeFiled
         \/ TellCustomer
         \/ \E x \in Jobs : SendEmail(x)
<1>1. Worker \in Jobs /\ \A k \in Requests : k \in Jobs
  BY StatesTyped DEF TypeInv
<1>2. CASE \E x \in Jobs : ExecuteDecision(x)
  BY <1>2 DEF ExecuteDecision, PublishTicket, CommitTicket, Settle, database
<1>3. CASE ~\E x \in Jobs : ExecuteDecision(x)
  BY <1>1, <1>3 DEF Next, Progress, WorkerStep, RequestStep, vars, database, PublishDelayed, FileTicket,
     PublishFiled, FilingFails, ReadNext, Investigate, AskHuman, Triage, Bury, AckDead, Approve, Reject,
     RequestFails, ReleaseApproval, AttemptFails, WorkerCrash, ApiCrash
<1> QED
  BY <1>2, <1>3

\* What is told stays told, and only the worker tells, about a resolved ticket.
LEMMA TellingSteps ==
  ASSUME TypeInv, [Next]_vars, NEW t
  PROVE  /\ Told(t) => Told(t)'
         /\ Told(t)' => Told(t) \/ (TellCustomer /\ t = job[Worker].ticket /\ tickets[t].status = "RESOLVED")
<1>1. CASE UNCHANGED emails
  BY <1>1 DEF Told
<1>2. ASSUME NEW mail, emails' = emails \cup {mail},
             mail.says = "resolved" =>
               TellCustomer /\ mail.ticket = job[Worker].ticket /\ tickets[mail.ticket].status = "RESOLVED"
      PROVE  /\ Told(t) => Told(t)'
             /\ Told(t)' => Told(t) \/ (TellCustomer /\ t = job[Worker].ticket /\ tickets[t].status = "RESOLVED")
  BY <1>2 DEF Told
<1>3. CASE AcknowledgeFiled
  <2> DEFINE mail == [ticket |-> filing.ticket, says |-> "received"]
  <2>1. mail.says # "resolved" /\ emails' = emails \cup {mail}
    BY <1>3 DEF AcknowledgeFiled
  <2> HIDE DEF mail
  <2> QED
    BY <1>2, <2>1
<1>4. CASE TellCustomer
  <2> DEFINE u == job[Worker].ticket
             v == job[Worker].decision
             mail == [ticket |-> u, says |-> TriageUpdate(tickets[u], v)]
  <2>1. emails' = emails \cup {mail} /\ v.action \in Actions
    BY <1>4, VerdictsAssumption DEF TellCustomer, TypeInv, Ready
  <2>2. TriageUpdate(tickets[u], v) = "resolved" => tickets[u].status = "RESOLVED"
    BY <2>1 DEF TriageUpdate, Actions
  <2>3. mail.ticket = u /\ mail.says = TriageUpdate(tickets[u], v)
    OBVIOUS
  <2> HIDE DEF mail
  <2> QED
    BY <1>2, <1>4, <2>1, <2>2, <2>3
<1>5. CASE \E x \in Jobs : SendEmail(x)
  <2>1. UNCHANGED emails \/ \E mail : emails' = emails \cup {mail} /\ mail.says # "resolved"
    <3>1. PICK x \in Jobs : SendEmail(x)
      BY <1>5
    <3> DEFINE d == job[x].decision
               facing == d.resolution \in TRIAGE_RESOLUTIONS
               mail == [ticket |-> IF facing THEN job[x].ticket ELSE 0,
                        says   |-> IF d.customer_message THEN "update" ELSE "received"]
    <3>2. mail.says # "resolved"
      OBVIOUS
    <3>3. UNCHANGED emails \/ emails' = emails \cup {mail}
      BY <3>1, Zenon DEF SendEmail
    <3> HIDE DEF mail
    <3> QED
      BY <3>2, <3>3
  <2> QED
    BY <1>1, <1>2, <2>1
<1> QED
  BY <1>1, <1>3, <1>4, <1>5, MailSteps

\* A new ticket is open, and only the triage of an event changes its ticket.
LEMMA NewIsOpen ==
  ASSUME TypeInv, [Next]_vars, NEW t \in DOMAIN tickets', t \notin DOMAIN tickets
  PROVE  tickets'[t].status = "OPEN"
<1>1. CASE FileTicket
  <2>1. PICK p \in FiledPriorities : tickets' = Append(tickets, Ticket("customer", 0, None, p))
    BY <1>1 DEF FileTicket
  <2>2. Ticket("customer", 0, None, p) \in TicketRows
    BY VerdictsAssumption, StatesTyped DEF Ticket, TicketRows, TypeInv
  <2>3. tickets'[t] = Ticket("customer", 0, None, p)
    BY <2>1, <2>2, NewTicket DEF TypeInv
  <2> QED
    BY <2>3 DEF Ticket
<1>2. CASE \E x \in Jobs : CommitTicket(x) /\ job[x].decision.resolution # "NO_ACTION"
  <2>1. PICK x \in Jobs : CommitTicket(x) /\ job[x].decision.resolution # "NO_ACTION"
    BY <1>2
  <2> DEFINE d == job[x].decision
             row == Ticket(IF x = Worker THEN "worker" ELSE "request", EventOf(x), d, d.severity)
  <2>2. d \in Decisions /\ tickets' = Append(tickets, row)
    BY <2>1 DEF CommitTicket, TypeInv, Ready
  <2>3. row \in TicketRows
    BY <2>1, <2>2, DecisionFields, EventOfTyped DEF Ticket, TicketRows, CommitTicket
  <2>4. tickets'[t] = row
    BY <2>2, <2>3, NewTicket DEF TypeInv
  <2> QED
    BY <2>4 DEF Ticket
<1>3. CASE Triage
  BY <1>3 DEF Triage
<1> QED
  BY <1>1, <1>2, <1>3, TicketSteps

LEMMA TriageTouches ==
  ASSUME TypeInv, Triage, NEW t, t # stream[delivered].ticket
  PROVE  tickets'[t] = tickets[t]
BY DEF Triage

LEMMA DeadStay == ASSUME TypeInv, [Next]_vars PROVE dead \subseteq dead'
<1>1. CASE ReadNext \/ Investigate \/ AskHuman \/ Triage \/ TellCustomer \/ Bury \/ AckDead \/ AttemptFails \/ WorkerCrash
  BY <1>1 DEF ReadNext, Investigate, AskHuman, Triage, TellCustomer, Bury, AckDead, AttemptFails, WorkerCrash, redis
<1>2. CASE ExecuteDecision(Worker)
  BY <1>2, ExecuteMoves, StatesTyped DEF TypeInv
<1> QED
  BY <1>1, <1>2, WorkerSteps

\* The worker leaves an event only when it settled or buried it.
LEMMA HandStays ==
  ASSUME TypeInv, Lane, [Next]_vars, Busy(Worker)
  PROVE  \/ Busy(Worker)' /\ delivered' = delivered
         \/ delivered \in dead'
         \/ job[Worker].at = "settle"
<1>1. Worker \in Jobs
  BY StatesTyped DEF TypeInv
<1>2. CASE ReadNext \/ TellCustomer \/ Bury
  BY <1>1, <1>2, Relabel DEF ReadNext, TellCustomer, Bury, Busy, redis
<1>3. CASE AckDead
  BY <1>3, DeadStay DEF AckDead, Lane
<1>4. CASE AskHuman
  BY <1>1, <1>4, StatesTyped DEF AskHuman, redis, Busy, TypeInv, JobStates
<1>5. CASE Investigate
  <2>1. PICK d \in Decisions : job' = [job EXCEPT ![Worker] =
                                 [at |-> IF d.requires_human THEN "ask" ELSE "ticket",
                                  decision |-> d, ticket |-> 0]]
    BY <1>5 DEF Investigate
  <2>2. job'[Worker] = [at |-> IF d.requires_human THEN "ask" ELSE "ticket",
                        decision |-> d, ticket |-> 0]
    BY <1>1, <2>1, Reset, Zenon
  <2>3. job'[Worker].at \in {"ask", "ticket"}
    BY <2>2
  <2> QED
    BY <1>5, <2>3 DEF Investigate, redis, Busy
<1>6. CASE Triage
  <2>1. PICK v \in Verdicts : job' = [job EXCEPT ![Worker] =
                                 [at |-> "tell", decision |-> v, ticket |-> stream[delivered].ticket]]
    BY <1>6 DEF Triage
  <2>2. job'[Worker] = [at |-> "tell", decision |-> v, ticket |-> stream[delivered].ticket]
    BY <1>1, <2>1, Reset, Zenon
  <2> QED
    BY <1>6, <2>2 DEF Triage, redis, Busy
<1>7. CASE ExecuteDecision(Worker)
  BY <1>1, <1>7, ExecuteMoves, ExecuteFrom DEF Busy
<1>8. CASE AttemptFails \/ WorkerCrash
  BY <1>1, <1>8, Reset DEF AttemptFails, WorkerCrash, Retry, GiveUp, Idle, Busy, redis
<1>9. CASE job'[Worker] = job[Worker] /\ UNCHANGED <<delivered, dead>>
  BY <1>9 DEF Busy
<1> QED
  BY <1>2, <1>3, <1>4, <1>5, <1>6, <1>7, <1>8, <1>9, WorkerSteps

\* How the worker comes to settle an event: it told a ticket's customer, or the
\* event is a delay.
LEMMA ComesToSettle ==
  ASSUME TypeInv, Lane, [Next]_vars, job'[Worker].at = "settle"
  PROVE  \/ TellCustomer /\ job[Worker].at = "tell"
         \/ Busy(Worker) /\ stream[delivered].type = "ORDER_DELAYED" /\ delivered' = delivered
         \/ job[Worker].at = "settle" /\ delivered' = delivered
<1>1. Worker \in Jobs
  BY StatesTyped DEF TypeInv
<1>2. CASE ReadNext \/ Bury \/ AckDead
  BY <1>1, <1>2, Relabel DEF ReadNext, Bury, AckDead
<1>3. CASE TellCustomer
  BY <1>3 DEF TellCustomer
<1>4. CASE AskHuman
  BY <1>4 DEF AskHuman, redis, Busy, Lane
<1>5. CASE Investigate
  <2>1. PICK d \in Decisions : job' = [job EXCEPT ![Worker] =
                                 [at |-> IF d.requires_human THEN "ask" ELSE "ticket",
                                  decision |-> d, ticket |-> 0]]
    BY <1>5 DEF Investigate
  <2>2. job'[Worker] = [at |-> IF d.requires_human THEN "ask" ELSE "ticket",
                        decision |-> d, ticket |-> 0]
    BY <1>1, <2>1, Reset, Zenon
  <2>3. job'[Worker].at \in {"ask", "ticket"}
    BY <2>2
  <2> QED
    BY <2>3
<1>6. CASE Triage
  <2>1. PICK v \in Verdicts : job' = [job EXCEPT ![Worker] =
                                 [at |-> "tell", decision |-> v, ticket |-> stream[delivered].ticket]]
    BY <1>6 DEF Triage
  <2>2. job'[Worker] = [at |-> "tell", decision |-> v, ticket |-> stream[delivered].ticket]
    BY <1>1, <2>1, Reset, Zenon
  <2> QED
    BY <2>2
<1>7. CASE ExecuteDecision(Worker)
  BY <1>1, <1>7, ExecuteMoves, ExecuteFrom DEF Lane, Busy
<1>8. CASE AttemptFails \/ WorkerCrash
  BY <1>1, <1>8, Reset DEF AttemptFails, WorkerCrash, Retry, GiveUp, Idle
<1>9. CASE job'[Worker] = job[Worker] /\ UNCHANGED <<delivered, dead>>
  BY <1>9
<1> QED
  BY <1>2, <1>3, <1>4, <1>5, <1>6, <1>7, <1>8, <1>9, WorkerSteps

LEMMA ToldStep ==
  ASSUME TypeInv, TypeInv', Lane, DelaysBare, ToldInv, [Next]_vars
  PROVE  ToldInv'
<1>1. Worker \in Jobs /\ DOMAIN tickets = 1..Len(tickets) /\ DOMAIN tickets' = 1..Len(tickets')
  BY StatesTyped, LenProperties DEF TypeInv, TypeOK
<1>2. \A t \in DOMAIN tickets : t # 0
  BY <1>1
<1>3. ASSUME NEW t \in DOMAIN tickets', Told(t)'
      PROVE  tickets'[t].status = "RESOLVED"
  <2>1. CASE t \in DOMAIN tickets /\ Told(t)
    BY <2>1, TicketsStay DEF ToldInv
  <2>2. CASE t \notin DOMAIN tickets /\ Told(t)
    <3>1. PICK mail \in emails : mail.ticket = t
      BY <2>2 DEF Told
    <3>2. mail.ticket \in 0..Len(tickets)
      BY DEF TypeInv, TypeOK, EmailRows
    <3> QED
      BY <1>1, <2>2, <3>1, <3>2, StatesTyped DEF TypeInv
  <2>3. CASE TellCustomer /\ tickets[t].status = "RESOLVED"
    BY <2>3 DEF TellCustomer
  <2> QED
    BY <1>3, <2>1, <2>2, <2>3, TellingSteps
<1>4. ASSUME NEW t \in DOMAIN tickets', tickets'[t].status = "RESOLVED"
      PROVE  Told(t)' \/ Held(t)'
  <2>1. t \in DOMAIN tickets
    BY <1>4, NewIsOpen
  <2>2. CASE Told(t)
    BY <2>2, TellingSteps
  <2>3. CASE ~Told(t) /\ tickets[t].status = "RESOLVED"
    <3>1. PICK m \in EventsOf(t) : m \in dead \/ WorkerOn(m)
      BY <2>1, <2>3 DEF ToldInv, Held
    <3>2. m \in EventsOf(t)' /\ stream[m].ticket = t
      BY StreamGrows DEF EventsOf
    <3>3. CASE m \in dead
      BY <3>2, <3>3, DeadStay DEF Held
    <3>4. CASE WorkerOn(m)
      <4>1. job[Worker].at # "settle"
        BY <2>1, <2>3, <3>2, <3>4 DEF ToldInv, WorkerOn
      <4> QED
        BY <3>2, <3>4, <4>1, HandStays DEF Held, WorkerOn
    <3> QED
      BY <3>1, <3>3, <3>4
  <2>4. CASE tickets[t].status # "RESOLVED"
    <3>1. Triage /\ t = stream[delivered].ticket
      BY <1>4, <2>1, <2>4, TicketsStay, TriageTouches
    <3>2. Busy(Worker) /\ job[Worker].at = "start" /\ delivered' = delivered /\ dead' = dead
      BY <3>1 DEF Triage, Busy, redis
    <3>3. delivered \in EventsOf(t)'
      BY <3>1, <3>2, InHand, StreamGrows DEF EventsOf
    <3>4. Busy(Worker)'
      <4>1. PICK v \in Verdicts : job' = [job EXCEPT ![Worker] =
                                     [at |-> "tell", decision |-> v, ticket |-> stream[delivered].ticket]]
        BY <3>1 DEF Triage
      <4>2. job'[Worker] = [at |-> "tell", decision |-> v, ticket |-> stream[delivered].ticket]
        BY <1>1, <4>1, Reset, Zenon
      <4> QED
        BY <4>2 DEF Busy
    <3> QED
      BY <3>2, <3>3, <3>4 DEF Held, WorkerOn
  <2> QED
    BY <2>2, <2>3, <2>4
<1>5. ASSUME NEW t \in DOMAIN tickets', job'[Worker].at = "settle",
             stream'[delivered'].ticket = t, tickets'[t].status = "RESOLVED"
      PROVE  Told(t)'
  <2>1. t \in DOMAIN tickets
    BY <1>5, NewIsOpen
  <2>2. Busy(Worker)
    BY <1>5, ComesToSettle DEF Busy
  <2>3. delivered \in DOMAIN stream /\ stream'[delivered] = stream[delivered]
    BY <2>2, InHand, StreamGrows
  <2>4. CASE TellCustomer /\ job[Worker].at = "tell"
    <3>1. stream[delivered].ticket = t /\ job[Worker].ticket = t /\ tickets[t].status = "RESOLVED"
      BY <1>5, <2>3, <2>4 DEF TellCustomer, redis, Lane
    <3>2. [ticket |-> t, says |-> "resolved"] \in emails'
      BY <2>4, <3>1 DEF TellCustomer, TriageUpdate
    <3> QED
      BY <3>2 DEF Told
  <2>5. CASE stream[delivered].type = "ORDER_DELAYED" /\ delivered' = delivered
    BY <1>2, <1>5, <2>1, <2>3, <2>5 DEF DelaysBare
  <2>6. CASE job[Worker].at = "settle" /\ delivered' = delivered
    <3>1. ~Triage /\ stream[delivered].ticket = t
      BY <1>5, <2>3, <2>6 DEF Triage
    <3>2. tickets[t].status = "RESOLVED"
      BY <1>5, <2>1, <3>1, TicketsStay
    <3> QED
      BY <2>1, <2>6, <3>1, <3>2, TellingSteps DEF ToldInv
  <2> QED
    BY <1>5, <2>4, <2>5, <2>6, ComesToSettle
<1> QED
  BY <1>3, <1>4, <1>5 DEF ToldInv

LEMMA ToldInit == Init => Lane /\ DelaysBare /\ ToldInv
BY DEF Init, Lane, DelaysBare, ToldInv, Idle, Worker

LEMMA ToldHolds == ToldInv => ResolvedIsTold
BY DEF ToldInv, ResolvedIsTold, Told, Held

\* The events, and where the worker is with the one it has.
LEMMA LaneAlways == Spec => [](Lane /\ DelaysBare)
<1>1. TypeInv /\ Lane /\ DelaysBare /\ [Next]_vars => (Lane /\ DelaysBare)'
  BY LaneStep, DelaysBareStep
<1> QED
  BY <1>1, ToldInit, Typed, PTL DEF Spec

\* Whatever fails, crashes and is tried again, a customer hears that a ticket is
\* resolved only if it is, and hears it unless the event was given up on.
THEOREM ResolvedTold == Spec => []ResolvedIsTold
<1>1. TypeInv /\ TypeInv' /\ Lane /\ DelaysBare /\ ToldInv /\ [Next]_vars => ToldInv'
  BY ToldStep
<1> QED
  BY <1>1, ToldInit, ToldHolds, LaneAlways, Typed, PTL DEF Spec

-----------------------------------------------------------------------------
(* What a delay may bring.                                                 *)

Retries  == faults["attempt"] + faults["worker"]
Failures == Retries + faults["api"]

AskedFor(e) == {k \in Requests : approvals[k].event = e}
\* Approvals that may yet be executed: nobody reviewed them, or the request
\* that did has not opened the ticket, or is giving the approval back.
Open(e) == {k \in AskedFor(e) : approvals[k].status = "PENDING" \/ job[k].at \in {"ticket", "release"}}

\* Whether the worker may yet ask about the event, or ask or open a ticket.
ToAsk(e)  == IF delivered = e /\ job[Worker].at \in {"start", "ask"} THEN 1 ELSE 0
ToOpen(e) == IF delivered = e /\ job[Worker].at \in {"start", "ask", "ticket"} THEN 1 ELSE 0

Claimed     == \A k \in Requests : Busy(k) => approvals[k].status = "APPROVED"
AsksBounded == \A e \in Nat \ {0} : Cardinality(AskedFor(e)) + ToAsk(e) <= 1 + Retries
OpenBounded ==
  \A e \in Nat \ {0} : Cardinality(TicketsOf(e)) + Cardinality(Open(e)) + ToOpen(e) <= 1 + Failures

\* Sets of rows.
LEMMA RowSet ==
  ASSUME NEW n \in Nat, NEW S \in SUBSET (1..n)
  PROVE  IsFiniteSet(S) /\ Cardinality(S) \in Nat
<1>1. IsFiniteSet(1..n)
  BY FS_Interval
<1> QED
  BY <1>1, FS_Subset, FS_CardinalityType

LEMMA OneMore ==
  ASSUME NEW S, IsFiniteSet(S), NEW x, NEW T \in SUBSET (S \cup {x})
  PROVE  Cardinality(T) \in Nat /\ Cardinality(S) \in Nat /\ Cardinality(T) <= Cardinality(S) + 1
<1>1. /\ IsFiniteSet(S \cup {x}) /\ Cardinality(S) \in Nat
      /\ Cardinality(S \cup {x}) = Cardinality(S) \/ Cardinality(S \cup {x}) = Cardinality(S) + 1
  BY FS_AddElement, FS_CardinalityType
<1>2. Cardinality(T) <= Cardinality(S \cup {x}) /\ Cardinality(T) \in Nat
  BY <1>1, FS_Subset, FS_CardinalityType
<1> QED
  BY <1>1, <1>2

LEMMA NoMore ==
  ASSUME NEW S, IsFiniteSet(S), NEW T \in SUBSET S
  PROVE  Cardinality(T) \in Nat /\ Cardinality(S) \in Nat /\ Cardinality(T) <= Cardinality(S)
BY FS_Subset, FS_CardinalityType

LEMMA OneLess ==
  ASSUME NEW S, IsFiniteSet(S), NEW x \in S, NEW T \in SUBSET (S \ {x})
  PROVE  Cardinality(T) \in Nat /\ Cardinality(S) \in Nat /\ Cardinality(T) + 1 <= Cardinality(S)
<1>1. IsFiniteSet(S \ {x}) /\ Cardinality(S \ {x}) = Cardinality(S) - 1 /\ Cardinality(S) \in Nat
  BY FS_RemoveElement, FS_CardinalityType, FS_Subset
<1> QED
  BY <1>1, NoMore

LEMMA RowSets ==
  ASSUME TypeInv, NEW e
  PROVE  /\ IsFiniteSet(AskedFor(e)) /\ IsFiniteSet(Open(e)) /\ IsFiniteSet(TicketsOf(e))
         /\ Cardinality(AskedFor(e)) \in Nat /\ Cardinality(Open(e)) \in Nat /\ Cardinality(TicketsOf(e)) \in Nat
<1>1. Requests = 1..Len(approvals) /\ DOMAIN tickets = 1..Len(tickets) /\ Len(approvals) \in Nat /\ Len(tickets) \in Nat
  BY LenProperties DEF TypeInv, TypeOK, Requests
<1>2. AskedFor(e) \in SUBSET (1..Len(approvals)) /\ Open(e) \in SUBSET (1..Len(approvals))
      /\ TicketsOf(e) \in SUBSET (1..Len(tickets))
  BY <1>1 DEF AskedFor, Open, TicketsOf
<1> QED
  BY <1>1, <1>2, RowSet

\* Failed attempts, crashes and failed requests are counted.
LEMMA FaultSteps ==
  ASSUME TypeInv, [Next]_vars
  PROVE  /\ Retries \in Nat /\ Failures \in Nat /\ Retries' \in Nat /\ Failures' \in Nat
         /\ Retries <= Retries' /\ Failures <= Failures'
         /\ AttemptFails \/ WorkerCrash => Retries + 1 <= Retries' /\ Failures + 1 <= Failures'
         /\ (\E k \in Requests : RequestFails(k)) => Failures + 1 <= Failures'
<1>1. faults \in [FaultKinds -> Nat]
  BY DEF TypeInv, TypeOK
<1>2. ASSUME NEW kind \in FaultKinds, Fault(kind)
      PROVE  /\ Retries \in Nat /\ Failures \in Nat /\ Retries' \in Nat /\ Failures' \in Nat
             /\ Retries <= Retries' /\ Failures <= Failures'
             /\ kind \in {"attempt", "worker"} => Retries + 1 <= Retries' /\ Failures + 1 <= Failures'
             /\ kind = "api" => Failures + 1 <= Failures'
  BY <1>1, <1>2, FaultTyped DEF TypeInv, Retries, Failures, FaultKinds
<1>3. CASE AttemptFails
  BY <1>2, <1>3 DEF AttemptFails, FaultKinds
<1>4. CASE WorkerCrash
  BY <1>2, <1>4 DEF WorkerCrash, FaultKinds
<1>5. CASE \E k \in Requests : RequestFails(k)
  <2>1. Fault("api") /\ "api" \in FaultKinds
    BY <1>5 DEF RequestFails, FaultKinds
  <2>2. ~AttemptFails /\ ~WorkerCrash
    <3>1. faults'["api"] = faults["api"] + 1 /\ faults["api"] \in Nat
      BY <1>1, <2>1, FaultTyped DEF TypeInv
    <3>2. Fault("attempt") => faults'["api"] = faults["api"]
      BY <1>1 DEF Fault, FaultKinds
    <3>3. Fault("worker") => faults'["api"] = faults["api"]
      BY <1>1 DEF Fault, FaultKinds
    <3> QED
      BY <3>1, <3>2, <3>3 DEF AttemptFails, WorkerCrash
  <2> QED
    BY <1>2, <2>1, <2>2
<1>6. CASE ~(AttemptFails \/ WorkerCrash \/ \E k \in Requests : RequestFails(k))
  <2>1. UNCHANGED faults \/ \E kind \in FaultKinds : Fault(kind)
    BY <1>6 DEF Next, Progress, WorkerStep, RequestStep, ExecuteDecision, vars, PublishDelayed, FileTicket,
       PublishFiled, AcknowledgeFiled, FilingFails, ReadNext, Investigate, AskHuman, Triage, TellCustomer,
       Bury, AckDead, CommitTicket, PublishTicket, SendEmail, Settle, Approve, Reject, ReleaseApproval,
       ApiCrash, FaultKinds
  <2>2. CASE UNCHANGED faults
    BY <1>1, <1>6, <2>2 DEF Retries, Failures, FaultKinds
  <2> QED
    BY <1>2, <1>6, <2>1, <2>2
<1> QED
  BY <1>3, <1>4, <1>5, <1>6

\* The worker is about to ask or to open a ticket only if it was, or reads an
\* event, or tries again.
LEMMA ComesToOpen ==
  ASSUME TypeInv, [Next]_vars, job'[Worker].at \in {"start", "ask", "ticket"},
         ~ReadNext, ~AttemptFails, ~WorkerCrash
  PROVE  /\ delivered' = delivered /\ job[Worker].at \in {"start", "ask", "ticket"}
         /\ job'[Worker].at \in {"start", "ask"} => job[Worker].at \in {"start", "ask"}
<1>1. Worker \in Jobs
  BY StatesTyped DEF TypeInv
<1>2. CASE Bury \/ AckDead \/ TellCustomer
  BY <1>1, <1>2, Relabel DEF Bury, AckDead, TellCustomer
<1>3. CASE AskHuman
  BY <1>1, <1>3, StatesTyped DEF AskHuman, TypeInv, JobStates
<1>4. CASE Investigate
  BY <1>4 DEF Investigate, redis
<1>5. CASE Triage
  <2>1. PICK v \in Verdicts : job' = [job EXCEPT ![Worker] =
                                 [at |-> "tell", decision |-> v, ticket |-> stream[delivered].ticket]]
    BY <1>5 DEF Triage
  <2>2. job'[Worker] = [at |-> "tell", decision |-> v, ticket |-> stream[delivered].ticket]
    BY <1>1, <2>1, Reset, Zenon
  <2> QED
    BY <2>2
<1>6. CASE ExecuteDecision(Worker)
  BY <1>1, <1>6, ExecuteMoves
<1>7. CASE job'[Worker] = job[Worker] /\ UNCHANGED <<delivered, dead>>
  BY <1>7
<1> QED
  BY <1>2, <1>3, <1>4, <1>5, <1>6, <1>7, WorkerSteps

\* What happens to an approval and the request that has it.
LEMMA RequestSteps ==
  ASSUME TypeInv, [Next]_vars, ~AskHuman, NEW k \in Requests
  PROVE  \/ job'[k] = job[k] /\ approvals'[k] = approvals[k]
         \/ ExecuteDecision(k) \/ Approve(k) \/ Reject(k) \/ RequestFails(k) \/ ReleaseApproval(k)
         \/ ApiCrash /\ job'[k] = Idle /\ approvals'[k] = approvals[k]
<1>1. Worker \in Jobs /\ k \in Jobs /\ k # Worker /\ \A n \in Requests : n \in Jobs /\ n # Worker
  BY StatesTyped DEF TypeInv, Worker
<1>2. CASE \E x \in Jobs : x # k /\ ExecuteDecision(x)
  BY <1>1, <1>2, ExecuteMoves
<1>3. CASE ReadNext \/ TellCustomer \/ Bury \/ AckDead
  BY <1>1, <1>3, Relabel DEF ReadNext, TellCustomer, Bury, AckDead, database
<1>5. CASE Investigate \/ Triage
  <2>1. \E j : job' = [job EXCEPT ![Worker] = j]
    BY <1>5, Zenon DEF Investigate, Triage
  <2>2. UNCHANGED approvals
    BY <1>5 DEF Investigate, Triage
  <2> QED
    BY <1>1, <2>1, <2>2, Reset
<1>6. CASE AttemptFails \/ WorkerCrash
  <2>1. \E j : job' = [job EXCEPT ![Worker] = j]
    BY <1>6, Zenon DEF AttemptFails, WorkerCrash
  <2>2. UNCHANGED approvals
    BY <1>6 DEF AttemptFails, WorkerCrash, database
  <2> QED
    BY <1>1, <2>1, <2>2, Reset
<1>7. ASSUME NEW n \in Requests, n # k, Approve(n) \/ Reject(n) \/ RequestFails(n) \/ ReleaseApproval(n)
      PROVE  job'[k] = job[k] /\ approvals'[k] = approvals[k]
  <2>1. job'[k] = job[k]
    <3>1. CASE Approve(n)
      BY <1>1, <1>7, <3>1, Reset DEF Approve
    <3>2. CASE Reject(n) \/ RequestFails(n) \/ ReleaseApproval(n)
      BY <1>1, <1>7, <3>2, Relabel, Reset DEF Reject, RequestFails, ReleaseApproval
    <3> QED
      BY <1>7, <3>1, <3>2
  <2>2. CASE RequestFails(n)
    BY <2>1, <2>2 DEF RequestFails, database
  <2>3. CASE \E st : approvals' = [approvals EXCEPT ![n].status = st]
    BY <1>7, <2>1, <2>3
  <2> QED
    BY <1>7, <2>2, <2>3, Zenon DEF Approve, Reject, Claim, ReleaseApproval
<1>8. CASE PublishDelayed \/ FileTicket \/ PublishFiled \/ AcknowledgeFiled \/ FilingFails \/ UNCHANGED vars
  BY <1>8 DEF PublishDelayed, FileTicket, PublishFiled, AcknowledgeFiled, FilingFails, vars, database
<1>9. CASE ApiCrash
  BY <1>1, <1>9 DEF ApiCrash, database
<1> QED
  BY <1>1, <1>2, <1>3, <1>5, <1>6, <1>7, <1>8, <1>9 DEF Next, Progress, WorkerStep, RequestStep

\* Reviewing an approval, and giving it back, change its status and its request.
LEMMA Reviewed ==
  ASSUME TypeInv, NEW k \in Requests, Approve(k) \/ Reject(k) \/ RequestFails(k) \/ ReleaseApproval(k)
  PROVE  /\ Approve(k) => approvals[k].status = "PENDING" /\ approvals'[k].status = "APPROVED"
         /\ Reject(k) => approvals[k].status = "PENDING" /\ job'[k] = job[k]
         /\ RequestFails(k) => Busy(k) /\ approvals'[k] = approvals[k]
         /\ ReleaseApproval(k) => job[k].at = "release" /\ job'[k] = Idle
<1>1. k \in Jobs /\ approvals \in Seq(ApprovalRows) /\ k \in DOMAIN approvals /\ approvals[k] \in ApprovalRows
  BY StatesTyped, LenProperties, ElementOfSeq DEF TypeInv, TypeOK, Requests
<1>2. CASE Approve(k)
  <2>1. approvals[k].status = "PENDING" /\ approvals' = [approvals EXCEPT ![k].status = "APPROVED"]
    BY <1>2 DEF Approve, Claim
  <2>2. approvals'[k].status = "APPROVED"
    BY <1>1, <2>1 DEF ApprovalRows
  <2>3. ~Reject(k)
    BY <1>1, <2>2 DEF Reject, Claim, ApprovalRows
  <2>4. ~RequestFails(k)
    BY <2>1, <2>2 DEF RequestFails, database
  <2>5. ReleaseApproval(k) => job[k].at = "release" /\ job'[k] = Idle
    BY <1>1, Reset DEF ReleaseApproval
  <2> QED
    BY <2>1, <2>2, <2>3, <2>4, <2>5
<1>3. CASE ~Approve(k)
  <2>1. Reject(k) => approvals[k].status = "PENDING" /\ job'[k] = job[k]
    BY DEF Reject, Claim
  <2>2. RequestFails(k) => Busy(k) /\ approvals'[k] = approvals[k]
    BY DEF RequestFails, Busy, database
  <2>3. ReleaseApproval(k) => job[k].at = "release" /\ job'[k] = Idle
    BY <1>1, Reset DEF ReleaseApproval
  <2> QED
    BY <1>3, <2>1, <2>2, <2>3
<1> QED
  BY <1>2, <1>3

\* Asking adds the approval, with nobody on it.
LEMMA Asked ==
  ASSUME TypeInv, AskHuman
  PROVE  /\ Requests' = Requests \cup {Len(approvals) + 1} /\ Len(approvals) + 1 \notin Requests
         /\ \A k \in Requests : approvals'[k] = approvals[k] /\ job'[k] = job[k]
         /\ approvals'[Len(approvals) + 1].event = delivered
         /\ approvals'[Len(approvals) + 1].decision = job[Worker].decision
         /\ approvals'[Len(approvals) + 1].status = "PENDING"
         /\ job'[Len(approvals) + 1] = Idle
<1> DEFINE row == [event |-> delivered, decision |-> job[Worker].decision, status |-> "PENDING"]
<1>1. job[Worker].decision \in Decisions /\ delivered \in 1..delivered
  BY StatesTyped DEF TypeInv, Ready, Busy, AskHuman
<1>2. row \in ApprovalRows
  BY <1>1 DEF ApprovalRows
<1>3. /\ approvals' \in Seq(ApprovalRows) /\ Len(approvals') = Len(approvals) + 1
      /\ approvals'[Len(approvals) + 1] = row
      /\ \A k \in 1..Len(approvals) : approvals'[k] = approvals[k]
  BY <1>2, AppendProperties DEF TypeInv, TypeOK, AskHuman
<1>4. Requests = 1..Len(approvals) /\ Requests' = 1..Len(approvals') /\ Len(approvals) \in Nat
  BY <1>3, LenProperties DEF TypeInv, TypeOK, Requests
<1>5. Requests' = Requests \cup {Len(approvals) + 1} /\ Len(approvals) + 1 \notin Requests
  BY <1>3, <1>4
<1>6. \A k \in Requests' : k # Worker
  BY <1>4 DEF Worker
<1>7. \A k \in Requests' : job'[k] = IF k \in Requests THEN job[k] ELSE Idle
  BY <1>6 DEF AskHuman, Requests
<1> QED
  BY <1>3, <1>4, <1>5, <1>7

LEMMA ClaimedStep == ASSUME TypeInv, Claimed, [Next]_vars PROVE Claimed'
<1> SUFFICES ASSUME NEW k \in Requests', Busy(k)' PROVE approvals'[k].status = "APPROVED"
  BY DEF Claimed
<1>1. CASE AskHuman
  BY <1>1, Asked DEF Claimed, Busy, Idle
<1>2. CASE ~AskHuman
  <2>1. k \in Requests /\ k \in Jobs
    BY <1>2, RequestsStay, StatesTyped DEF TypeInv
  <2>2. CASE job'[k] = job[k] /\ approvals'[k] = approvals[k]
    BY <2>1, <2>2 DEF Claimed, Busy
  <2>3. CASE ExecuteDecision(k)
    BY <2>1, <2>3, ExecuteMoves, ExecuteFrom DEF Claimed, Busy
  <2>4. CASE Approve(k) \/ Reject(k) \/ RequestFails(k) \/ ReleaseApproval(k)
    BY <2>1, <2>4, Reviewed DEF Claimed, Busy, Idle
  <2>5. CASE job'[k] = Idle
    BY <2>5 DEF Busy, Idle
  <2> QED
    BY <1>2, <2>1, <2>2, <2>3, <2>4, <2>5, RequestSteps
<1> QED
  BY <1>1, <1>2

\* What a step adds to the approvals of an event.
LEMMA AskedSteps ==
  ASSUME TypeInv, [Next]_vars, NEW e
  PROVE  /\ (AskHuman /\ e = delivered) \/ AskedFor(e)' \subseteq AskedFor(e)
         /\ \E n : AskedFor(e)' \subseteq AskedFor(e) \cup {n}
<1>1. CASE AskHuman
  <2>1. AskedFor(e)' \subseteq AskedFor(e) \cup {Len(approvals) + 1}
    BY <1>1, Asked DEF AskedFor
  <2>2. e # delivered => AskedFor(e)' \subseteq AskedFor(e)
    BY <1>1, Asked DEF AskedFor
  <2> QED
    BY <1>1, <2>1, <2>2
<1>2. CASE ~AskHuman
  <2>1. AskedFor(e)' \subseteq AskedFor(e)
    BY <1>2, RequestsStay, ApprovalsStay DEF AskedFor
  <2> QED
    BY <2>1
<1> QED
  BY <1>1, <1>2

\* An approval becomes open by being asked for, or by its request failing.
LEMMA OpenSteps ==
  ASSUME TypeInv, Claimed, [Next]_vars, NEW e
  PROVE  \/ Open(e)' \subseteq Open(e)
         \/ AskHuman /\ e = delivered /\ Open(e)' \subseteq Open(e) \cup {Len(approvals) + 1}
         \/ \E k \in Requests : RequestFails(k) /\ Open(e)' \subseteq Open(e) \cup {k}
<1>1. CASE AskHuman
  <2>1. \A k \in Open(e)' : k \in Open(e) \/ (k = Len(approvals) + 1 /\ e = delivered)
    BY <1>1, Asked DEF Open, AskedFor, Idle
  <2> QED
    BY <1>1, <2>1
<1>2. CASE ~AskHuman
  <2>1. ASSUME NEW k \in Open(e)', ~RequestFails(k)
        PROVE  k \in Open(e)
    <3>1. /\ k \in Requests /\ k \in Jobs /\ k \in AskedFor(e)
          /\ approvals'[k].status = "PENDING" \/ job'[k].at \in {"ticket", "release"}
      BY <1>2, <2>1, RequestsStay, ApprovalsStay, StatesTyped DEF TypeInv, Open, AskedFor
    <3>2. CASE job'[k] = job[k] /\ approvals'[k] = approvals[k]
      BY <3>1, <3>2 DEF Open
    <3>3. CASE ExecuteDecision(k)
      BY <3>1, <3>3, ExecuteMoves, ExecuteFrom DEF Claimed, Busy
    <3>4. CASE Approve(k) \/ Reject(k) \/ ReleaseApproval(k)
      BY <3>1, <3>4, Reviewed DEF Open
    <3>5. CASE job'[k] = Idle /\ approvals'[k] = approvals[k]
      BY <3>1, <3>5 DEF Open, Idle
    <3> QED
      BY <1>2, <2>1, <3>1, <3>2, <3>3, <3>4, <3>5, RequestSteps
  <2>2. CASE \E k \in Requests : RequestFails(k)
    <3>1. PICK k \in Requests : RequestFails(k)
      BY <2>2
    <3>2. \A n \in Requests : n # k => ~RequestFails(n)
      <4>1. ASSUME NEW n \in Requests, n # k, RequestFails(n)
            PROVE  FALSE
        <5>1. n \in Jobs /\ k \in Jobs
          BY StatesTyped DEF TypeInv
        <5> QED
          BY <3>1, <4>1, <5>1, Relabel DEF RequestFails
      <4> QED
        BY <4>1
    <3>3. \A n \in Open(e)' : n \in Requests
      BY <1>2, RequestsStay DEF Open, AskedFor
    <3> QED
      BY <2>1, <3>1, <3>2, <3>3
  <2>3. CASE ~\E k \in Requests : RequestFails(k)
    <3>1. \A n \in Open(e)' : n \in Requests
      BY <1>2, RequestsStay DEF Open, AskedFor
    <3> QED
      BY <2>1, <2>3, <3>1
  <2> QED
    BY <2>2, <2>3
<1> QED
  BY <1>1, <1>2

\* What a step adds to the tickets of an event.
LEMMA TicketsOfSteps ==
  ASSUME TypeInv, [Next]_vars, NEW e
  PROVE  \/ TicketsOf(e)' \subseteq TicketsOf(e)
         \/ \E x \in Jobs : /\ CommitTicket(x) /\ e = EventOf(x)
                            /\ TicketsOf(e)' \subseteq TicketsOf(e) \cup {Len(tickets) + 1}
<1>1. \A t \in DOMAIN tickets : t \in TicketsOf(e)' => t \in TicketsOf(e)
  BY TicketsStay DEF TicketsOf
<1>2. CASE UNCHANGED tickets
  BY <1>2 DEF TicketsOf
<1>3. CASE Triage
  <2>1. DOMAIN tickets' = DOMAIN tickets
    BY <1>3 DEF Triage
  <2> QED
    BY <1>1, <2>1 DEF TicketsOf
<1>4. CASE FileTicket
  <2>1. PICK p \in FiledPriorities : tickets' = Append(tickets, Ticket("customer", 0, None, p))
    BY <1>4 DEF FileTicket
  <2>2. Ticket("customer", 0, None, p) \in TicketRows
    BY VerdictsAssumption, StatesTyped DEF Ticket, TicketRows, TypeInv
  <2>3. \A t \in DOMAIN tickets' : t \notin DOMAIN tickets => tickets'[t] = Ticket("customer", 0, None, p)
    BY <2>1, <2>2, NewTicket DEF TypeInv
  <2> QED
    BY <1>1, <2>3 DEF TicketsOf, Ticket
<1>5. CASE \E x \in Jobs : CommitTicket(x) /\ job[x].decision.resolution # "NO_ACTION"
  <2>1. PICK x \in Jobs : CommitTicket(x) /\ job[x].decision.resolution # "NO_ACTION"
    BY <1>5
  <2> DEFINE d == job[x].decision
             row == Ticket(IF x = Worker THEN "worker" ELSE "request", EventOf(x), d, d.severity)
  <2>2. d \in Decisions /\ tickets' = Append(tickets, row)
    BY <2>1 DEF CommitTicket, TypeInv, Ready
  <2>3. row \in TicketRows
    BY <2>1, <2>2, DecisionFields, EventOfTyped DEF Ticket, TicketRows, CommitTicket
  <2>4. \A t \in DOMAIN tickets' : t \notin DOMAIN tickets => tickets'[t] = row
    BY <2>2, <2>3, NewTicket DEF TypeInv
  <2>5. row.event = EventOf(x)
    BY DEF Ticket
  <2>6. \A t \in DOMAIN tickets' : t \notin DOMAIN tickets => t = Len(tickets) + 1
    <3>1. tickets' \in Seq(TicketRows) /\ Len(tickets') = Len(tickets) + 1 /\ Len(tickets) \in Nat
      BY <2>2, <2>3, AppendProperties, LenProperties DEF TypeInv, TypeOK
    <3> QED
      BY <3>1, LenProperties DEF TypeInv, TypeOK
  <2> HIDE DEF row
  <2>7. \A t \in TicketsOf(e)' : t \in TicketsOf(e) \/ (t = Len(tickets) + 1 /\ e = EventOf(x))
    BY <1>1, <2>4, <2>5, <2>6 DEF TicketsOf
  <2> QED
    BY <2>1, <2>7
<1> QED
  BY <1>2, <1>3, <1>4, <1>5, TicketSteps

\* Whether the worker is about to act on the event, after a step.
LEMMA ActSteps ==
  ASSUME TypeInv, [Next]_vars, NEW e
  PROVE  /\ ToAsk(e) \in {0, 1} /\ ToAsk(e)' \in {0, 1} /\ ToOpen(e) \in {0, 1} /\ ToOpen(e)' \in {0, 1}
         /\ \/ ReadNext /\ e = delivered + 1
            \/ AttemptFails \/ WorkerCrash
            \/ ToAsk(e)' <= ToAsk(e) /\ ToOpen(e)' <= ToOpen(e)
         /\ AskHuman => ToAsk(e)' = 0 /\ ToOpen(e)' = 0
         /\ AskHuman /\ e = delivered => ToAsk(e) = 1 /\ ToOpen(e) = 1
         /\ ExecuteDecision(Worker) => ToOpen(e)' = 0
         /\ CommitTicket(Worker) /\ e = delivered => ToOpen(e) = 1
<1>1. Worker \in Jobs
  BY StatesTyped DEF TypeInv
<1>2. ToAsk(e) \in {0, 1} /\ ToAsk(e)' \in {0, 1} /\ ToOpen(e) \in {0, 1} /\ ToOpen(e)' \in {0, 1}
  BY DEF ToAsk, ToOpen
<1>3. \/ ReadNext /\ e = delivered + 1
      \/ AttemptFails \/ WorkerCrash
      \/ ToAsk(e)' <= ToAsk(e) /\ ToOpen(e)' <= ToOpen(e)
  <2>1. CASE ReadNext /\ e # delivered + 1
    BY <2>1 DEF ReadNext, ToAsk, ToOpen
  <2>2. CASE ~ReadNext /\ ~AttemptFails /\ ~WorkerCrash
    BY <2>2, ComesToOpen DEF ToAsk, ToOpen
  <2> QED
    BY <2>1, <2>2
<1>4. AskHuman => ToAsk(e)' = 0 /\ ToOpen(e)' = 0
  BY <1>1, StatesTyped DEF AskHuman, ToAsk, ToOpen, TypeInv, JobStates
<1>5. AskHuman /\ e = delivered => ToAsk(e) = 1 /\ ToOpen(e) = 1
  BY DEF AskHuman, ToAsk, ToOpen
<1>6. ExecuteDecision(Worker) => ToOpen(e)' = 0
  BY <1>1, ExecuteMoves DEF ToOpen
<1>7. CommitTicket(Worker) /\ e = delivered => ToOpen(e) = 1
  BY DEF CommitTicket, ToOpen
<1> QED
  BY <1>2, <1>3, <1>4, <1>5, <1>6, <1>7

\* The account of an event: what it has, what may come, what explains it.
LEMMA Account ==
  ASSUME NEW a \in Nat, NEW u \in Nat, NEW r \in Nat, NEW b \in Nat, NEW v \in Nat, NEW s \in Nat,
         a + u <= 1 + r, r <= s,
         b + v <= a + u \/ (b + v <= a + u + 1 /\ r + 1 <= s)
  PROVE  b + v <= 1 + s
OBVIOUS

LEMMA EventsRead ==
  ASSUME TypeInv
  PROVE  /\ \A k \in Requests : approvals[k].event \in 1..delivered
         /\ \A n \in DOMAIN tickets : tickets[n].event \in 0..delivered
<1>1. ASSUME NEW k \in Requests
      PROVE  approvals[k].event \in 1..delivered
  <2>1. approvals \in Seq(ApprovalRows) /\ k \in 1..Len(approvals)
    BY <1>1, StatesTyped DEF TypeInv, TypeOK
  <2>2. approvals[k] \in ApprovalRows
    BY <2>1, ElementOfSeq
  <2> QED
    BY <2>2 DEF ApprovalRows
<1>2. ASSUME NEW n \in DOMAIN tickets
      PROVE  tickets[n].event \in 0..delivered
  <2>1. tickets \in Seq(TicketRows) /\ n \in 1..Len(tickets)
    BY <1>2, LenProperties DEF TypeInv, TypeOK
  <2>2. tickets[n] \in TicketRows
    BY <2>1, ElementOfSeq
  <2> QED
    BY <2>2 DEF TicketRows
<1> QED
  BY <1>1, <1>2

LEMMA AsksStep == ASSUME TypeInv, AsksBounded, [Next]_vars PROVE AsksBounded'
<1> SUFFICES ASSUME NEW e \in Nat \ {0}
             PROVE  Cardinality(AskedFor(e)') + ToAsk(e)' <= 1 + Retries'
  BY DEF AsksBounded
<1>1. PICK n : AskedFor(e)' \subseteq AskedFor(e) \cup {n}
  BY AskedSteps
<1>2. PICK a, b, u, v, r, s : /\ a = Cardinality(AskedFor(e)) /\ b = Cardinality(AskedFor(e)')
                              /\ u = ToAsk(e) /\ v = ToAsk(e)' /\ r = Retries /\ s = Retries'
  OBVIOUS
<1>3. /\ a \in Nat /\ b \in Nat /\ u \in {0, 1} /\ v \in {0, 1} /\ r \in Nat /\ s \in Nat
      /\ r <= s /\ b <= a + 1
  BY <1>1, <1>2, RowSets, OneMore, FaultSteps, ActSteps
<1>4. (AskHuman /\ e = delivered) \/ b <= a
  BY <1>2, AskedSteps, RowSets, NoMore
<1>5. a + u <= 1 + r
  BY <1>2 DEF AsksBounded
<1>6. CASE AskHuman /\ e = delivered
  <2>1. u = 1 /\ v = 0
    BY <1>2, <1>6, ActSteps
  <2>2. b + v <= a + u
    BY <1>3, <2>1
  <2> QED
    BY <1>2, <1>3, <1>5, <2>2, Account
<1>7. CASE b <= a /\ (AttemptFails \/ WorkerCrash)
  <2>1. r + 1 <= s
    BY <1>2, <1>7, FaultSteps
  <2>2. b + v <= a + u + 1
    BY <1>3, <1>7
  <2> QED
    BY <1>2, <1>3, <1>5, <2>1, <2>2, Account
<1>8. CASE b <= a /\ v <= u
  <2>1. b + v <= a + u
    BY <1>3, <1>8
  <2> QED
    BY <1>2, <1>3, <1>5, <2>1, Account
<1>9. CASE b <= a /\ ReadNext /\ e = delivered + 1
  <2>1. AskedFor(e) = {}
    BY <1>9, EventsRead, StatesTyped DEF AskedFor, TypeInv
  <2>2. a = 0
    BY <1>2, <2>1, FS_EmptySet
  <2>3. b + v <= 1 + s
    BY <1>3, <1>9, <2>2
  <2> QED
    BY <1>2, <2>3
<1> QED
  BY <1>2, <1>4, <1>6, <1>7, <1>8, <1>9, ActSteps

LEMMA OpenStep == ASSUME TypeInv, Claimed, OpenBounded, [Next]_vars PROVE OpenBounded'
<1> SUFFICES ASSUME NEW e \in Nat \ {0}
             PROVE  Cardinality(TicketsOf(e)') + Cardinality(Open(e)') + ToOpen(e)' <= 1 + Failures'
  BY DEF OpenBounded
<1>1. /\ \E n : TicketsOf(e)' \subseteq TicketsOf(e) \cup {n}
      /\ \E n : Open(e)' \subseteq Open(e) \cup {n}
  BY TicketsOfSteps, OpenSteps
<1>2. PICK t, t1, o, o1, u, v, r, s :
        /\ t = Cardinality(TicketsOf(e)) /\ t1 = Cardinality(TicketsOf(e)')
        /\ o = Cardinality(Open(e)) /\ o1 = Cardinality(Open(e)')
        /\ u = ToOpen(e) /\ v = ToOpen(e)' /\ r = Failures /\ s = Failures'
  OBVIOUS
<1>3. /\ t \in Nat /\ t1 \in Nat /\ o \in Nat /\ o1 \in Nat
      /\ u \in {0, 1} /\ v \in {0, 1} /\ r \in Nat /\ s \in Nat
      /\ r <= s /\ t1 <= t + 1 /\ o1 <= o + 1
  <2>1. t \in Nat /\ t1 \in Nat /\ t1 <= t + 1
    BY <1>1, <1>2, RowSets, OneMore
  <2>2. o \in Nat /\ o1 \in Nat /\ o1 <= o + 1
    BY <1>1, <1>2, RowSets, OneMore
  <2> QED
    BY <1>2, <2>1, <2>2, FaultSteps, ActSteps
<1>4. (t + o) + u <= 1 + r
  BY <1>2 DEF OpenBounded
<1>5. ASSUME \/ (t1 + o1) + v <= (t + o) + u
             \/ (t1 + o1) + v <= (t + o) + u + 1 /\ r + 1 <= s
      PROVE  (t1 + o1) + v <= 1 + s
  <2>1. t + o \in Nat /\ t1 + o1 \in Nat /\ u \in Nat /\ v \in Nat
    BY <1>3
  <2> QED
    BY <1>3, <1>4, <1>5, <2>1, Account
<1>6. CASE \E x \in Jobs : CommitTicket(x) /\ e = EventOf(x)
  <2>1. PICK x \in Jobs : CommitTicket(x) /\ e = EventOf(x)
    BY <1>6
  <2>2. ExecuteDecision(x)
    BY <2>1 DEF ExecuteDecision
  <2>3. CASE x = Worker
    <3>1. u = 1 /\ v = 0
      BY <1>2, <2>1, <2>2, <2>3, ActSteps DEF EventOf
    <3>2. Open(e)' \subseteq Open(e)
      <4>1. ~AskHuman
        BY <2>1, <2>3 DEF AskHuman, CommitTicket
      <4>2. \A k \in Requests : ~RequestFails(k)
        <5>1. ASSUME NEW k \in Requests, RequestFails(k)
              PROVE  FALSE
          <6>1. k \in Jobs /\ k # Worker
            BY StatesTyped DEF TypeInv, Worker
          <6>2. job'[Worker] = job[Worker]
            BY <2>1, <2>3, <5>1, <6>1, Relabel DEF RequestFails
          <6> QED
            BY <2>1, <2>2, <2>3, <6>2, ExecuteMoves DEF CommitTicket
        <5> QED
          BY <5>1
      <4> QED
        BY <4>1, <4>2, OpenSteps
    <3>3. o1 <= o
      BY <1>2, <3>2, RowSets, NoMore
    <3>4. (t1 + o1) + v <= (t + o) + u
      BY <1>3, <3>1, <3>3
    <3> QED
      BY <1>2, <1>5, <3>4
  <2>4. CASE x # Worker
    <3>1. x \in Requests /\ e = approvals[x].event /\ job[x].at = "ticket"
      BY <2>1, <2>4 DEF Jobs, EventOf, CommitTicket
    <3>2. x \in Open(e) /\ x \notin Open(e)'
      <4>1. approvals'[x] = approvals[x] /\ job'[x].at \in {"publish", "email", "settle", "idle"}
        BY <2>2, ExecuteMoves
      <4>2. approvals[x].status = "APPROVED"
        BY <3>1 DEF Claimed, Busy
      <4> QED
        BY <3>1, <4>1, <4>2 DEF Open, AskedFor
    <3>3. ~AskHuman /\ \A k \in Requests : ~RequestFails(k)
      <4>1. ASSUME NEW k \in Requests, RequestFails(k)
            PROVE  FALSE
        <5>1. k \in Jobs
          BY StatesTyped DEF TypeInv
        <5> QED
          BY <2>1, <2>2, <3>1, <4>1, <5>1, Relabel, ExecuteMoves DEF RequestFails
      <4>2. ~AskHuman
        BY <2>2, ExecuteMoves, Asked DEF Requests
      <4> QED
        BY <4>1, <4>2
    <3>4. Open(e)' \subseteq Open(e) \ {x}
      BY <3>2, <3>3, OpenSteps
    <3>5. o1 + 1 <= o
      BY <1>2, <3>2, <3>4, RowSets, OneLess
    <3>6. v <= u
      <4>1. job'[Worker] = job[Worker] /\ delivered' = delivered
        BY <2>2, <2>4, ExecuteMoves, StatesTyped DEF TypeInv
      <4> QED
        BY <1>2, <4>1 DEF ToOpen
    <3>7. (t1 + o1) + v <= (t + o) + u
      BY <1>3, <3>5, <3>6
    <3> QED
      BY <1>2, <1>5, <3>7
  <2> QED
    BY <2>3, <2>4
<1>7. CASE ~\E x \in Jobs : CommitTicket(x) /\ e = EventOf(x)
  <2>1. t1 <= t
    BY <1>2, <1>7, TicketsOfSteps, RowSets, NoMore
  <2>2. CASE AskHuman /\ e = delivered
    <3>1. u = 1 /\ v = 0
      BY <1>2, <2>2, ActSteps
    <3>2. (t1 + o1) + v <= (t + o) + u
      BY <1>3, <2>1, <3>1
    <3> QED
      BY <1>2, <1>5, <3>2
  <2>3. CASE \E k \in Requests : RequestFails(k)
    <3>1. PICK k \in Requests : RequestFails(k)
      BY <2>3
    <3>2. r + 1 <= s
      BY <1>2, <2>3, FaultSteps
    <3>3. v <= u
      <4>1. k \in Jobs /\ k # Worker /\ Worker \in Jobs
        BY StatesTyped DEF TypeInv, Worker
      <4>2. job'[Worker] = job[Worker] /\ delivered' = delivered
        BY <3>1, <4>1, Relabel DEF RequestFails, redis
      <4> QED
        BY <1>2, <4>2 DEF ToOpen
    <3>4. (t1 + o1) + v <= (t + o) + u + 1
      BY <1>3, <2>1, <3>3
    <3> QED
      BY <1>2, <1>5, <3>2, <3>4
  <2>4. CASE Open(e)' \subseteq Open(e)
    <3>1. o1 <= o
      BY <1>2, <2>4, RowSets, NoMore
    <3>2. CASE AttemptFails \/ WorkerCrash
      <4>1. r + 1 <= s
        BY <1>2, <3>2, FaultSteps
      <4>2. (t1 + o1) + v <= (t + o) + u + 1
        BY <1>3, <2>1, <3>1
      <4> QED
        BY <1>2, <1>5, <4>1, <4>2
    <3>3. CASE v <= u
      <4>1. (t1 + o1) + v <= (t + o) + u
        BY <1>3, <2>1, <3>1, <3>3
      <4> QED
        BY <1>2, <1>5, <4>1
    <3>4. CASE ReadNext /\ e = delivered + 1
      <4>1. Open(e) = {} /\ TicketsOf(e) = {}
        BY <3>4, EventsRead, StatesTyped DEF Open, AskedFor, TicketsOf, TypeInv
      <4>2. t = 0 /\ o = 0
        BY <1>2, <4>1, FS_EmptySet
      <4>3. (t1 + o1) + v <= 1 + s
        BY <1>3, <2>1, <3>1, <4>2
      <4> QED
        BY <1>2, <4>3
    <3> QED
      BY <1>2, <3>2, <3>3, <3>4, ActSteps
  <2> QED
    BY <2>2, <2>3, <2>4, OpenSteps
<1> QED
  BY <1>6, <1>7

LEMMA EffectsInit == Init => Claimed /\ AsksBounded /\ OpenBounded
<1> SUFFICES ASSUME Init PROVE Claimed /\ AsksBounded /\ OpenBounded
  OBVIOUS
<1>1. Requests = {} /\ DOMAIN tickets = {}
  BY EmptySeq DEF Init, Requests
<1>2. \A e : AskedFor(e) = {} /\ Open(e) = {} /\ TicketsOf(e) = {} /\ ToAsk(e) = 0 /\ ToOpen(e) = 0
  BY <1>1 DEF AskedFor, Open, TicketsOf, ToAsk, ToOpen, Init, Idle, Worker
<1>3. Retries = 0 /\ Failures = 0
  BY DEF Init, Retries, Failures, FaultKinds
<1>4. Cardinality({}) = 0
  BY FS_EmptySet
<1>5. AsksBounded
  BY <1>2, <1>3, <1>4 DEF AsksBounded
<1>6. OpenBounded
  BY <1>2, <1>3, <1>4 DEF OpenBounded
<1> QED
  BY <1>1, <1>5, <1>6 DEF Claimed

LEMMA EffectsHold == ASSUME TypeInv, AsksBounded, OpenBounded PROVE EffectsHaveACause
<1> SUFFICES ASSUME NEW e \in Delays
             PROVE  /\ Cardinality({k \in Requests : approvals[k].event = e})
                         <= 1 + (faults["attempt"] + faults["worker"])
                    /\ Cardinality(TicketsOf(e))
                         <= 1 + (faults["attempt"] + faults["worker"]) + faults["api"]
  BY DEF EffectsHaveACause
<1>1. e \in Nat \ {0}
  BY LenProperties DEF TypeInv, TypeOK, Delays
<1>2. PICK a, t, o, u, v, p, q, c :
        /\ a = Cardinality(AskedFor(e)) /\ t = Cardinality(TicketsOf(e)) /\ o = Cardinality(Open(e))
        /\ u = ToAsk(e) /\ v = ToOpen(e)
        /\ p = faults["attempt"] /\ q = faults["worker"] /\ c = faults["api"]
  OBVIOUS
<1>3. /\ a \in Nat /\ t \in Nat /\ o \in Nat /\ u \in {0, 1} /\ v \in {0, 1}
      /\ p \in Nat /\ q \in Nat /\ c \in Nat
  BY <1>2, RowSets DEF TypeInv, TypeOK, FaultKinds, ToAsk, ToOpen
<1>4. a + u <= 1 + (p + q) /\ t + o + v <= 1 + ((p + q) + c)
  BY <1>1, <1>2 DEF AsksBounded, OpenBounded, Retries, Failures
<1>5. a <= 1 + (p + q) /\ t <= 1 + (p + q) + c
  BY <1>3, <1>4
<1> QED
  BY <1>2, <1>5 DEF AskedFor

\* A delay brings one approval or one ticket, and one more only for a failed
\* attempt, a worker crash or a failed request, wherever these strike.
THEOREM EffectsExplained == Spec => []EffectsHaveACause
<1>1. TypeInv /\ Claimed /\ AsksBounded /\ OpenBounded /\ [Next]_vars => (Claimed /\ AsksBounded /\ OpenBounded)'
  BY ClaimedStep, AsksStep, OpenStep
<1>2. TypeInv /\ AsksBounded /\ OpenBounded => EffectsHaveACause
  BY EffectsHold
<1> QED
  BY <1>1, <1>2, EffectsInit, Typed, PTL DEF Spec

-----------------------------------------------------------------------------
(* What AI runs are accounted to.                                          *)

OfCustomer(t) == tickets[t].by = "customer"

\* A ticket that was filed has no delay, one that was opened has one.
TicketLinks == \A t \in DOMAIN tickets : OfCustomer(t) <=> tickets[t].event = 0

\* A TICKET_CREATED carries the delay its ticket came out of, and a filed
\* ticket has one such event.
EventLinks ==
  \A m \in DOMAIN stream :
    stream[m].type = "TICKET_CREATED" =>
      /\ stream[m].ticket \in DOMAIN tickets
      /\ stream[m].task = tickets[stream[m].ticket].event
      /\ OfCustomer(stream[m].ticket) => \A n \in EventsOf(stream[m].ticket) : n = m

FilingLinks ==
  /\ filing.at # "idle" => filing.ticket \in DOMAIN tickets /\ OfCustomer(filing.ticket)
  /\ filing.at = "publish" => EventsOf(filing.ticket) = {}

PublishLinks ==
  \A x \in Jobs : job[x].at = "publish" =>
    /\ job[x].ticket \in DOMAIN tickets /\ ~OfCustomer(job[x].ticket)
    /\ tickets[job[x].ticket].event = EventOf(x)

Links == TicketLinks /\ EventLinks /\ FilingLinks /\ PublishLinks

LEMMA Executor ==
  ASSUME TypeInv, NEW x \in Jobs, Busy(x)
  PROVE  EventOf(x) \in 1..delivered
<1>1. CASE x = Worker
  BY <1>1, StatesTyped DEF EventOf, TypeInv, Ready
<1>2. CASE x # Worker
  BY <1>2, EventsRead DEF EventOf, Jobs
<1> QED
  BY <1>1, <1>2

\* A new ticket is filed by a customer, or opened on a decision.
LEMMA NewTickets ==
  ASSUME TypeInv, [Next]_vars, NEW t \in DOMAIN tickets', t \notin DOMAIN tickets
  PROVE  /\ t = Len(tickets) + 1 /\ t = Len(tickets')
         /\ \/ FileTicket /\ tickets'[t].by = "customer" /\ tickets'[t].event = 0
            \/ \E x \in Jobs : /\ CommitTicket(x) /\ job[x].decision.resolution # "NO_ACTION"
                               /\ tickets'[t].by # "customer" /\ tickets'[t].event = EventOf(x)
                               /\ tickets'[t].by = "worker" => x = Worker
<1>1. ASSUME NEW row \in TicketRows, tickets' = Append(tickets, row)
      PROVE  tickets'[t] = row /\ t = Len(tickets) + 1 /\ t = Len(tickets')
  <2>1. tickets' \in Seq(TicketRows) /\ Len(tickets') = Len(tickets) + 1 /\ Len(tickets) \in Nat
    BY <1>1, AppendProperties, LenProperties DEF TypeInv, TypeOK
  <2> QED
    BY <1>1, <2>1, NewTicket, LenProperties DEF TypeInv, TypeOK
<1>2. CASE FileTicket
  <2>1. PICK p \in FiledPriorities : tickets' = Append(tickets, Ticket("customer", 0, None, p))
    BY <1>2 DEF FileTicket
  <2>2. Ticket("customer", 0, None, p) \in TicketRows
    BY VerdictsAssumption, StatesTyped DEF Ticket, TicketRows, TypeInv
  <2>3. tickets'[t] = Ticket("customer", 0, None, p) /\ t = Len(tickets) + 1 /\ t = Len(tickets')
    BY <1>1, <2>1, <2>2
  <2> QED
    BY <1>2, <2>3 DEF Ticket
<1>3. CASE \E x \in Jobs : CommitTicket(x) /\ job[x].decision.resolution # "NO_ACTION"
  <2>1. PICK x \in Jobs : CommitTicket(x) /\ job[x].decision.resolution # "NO_ACTION"
    BY <1>3
  <2> DEFINE d == job[x].decision
             row == Ticket(IF x = Worker THEN "worker" ELSE "request", EventOf(x), d, d.severity)
  <2>2. d \in Decisions /\ tickets' = Append(tickets, row)
    BY <2>1 DEF CommitTicket, TypeInv, Ready
  <2>3. row \in TicketRows
    BY <2>1, <2>2, DecisionFields, EventOfTyped DEF Ticket, TicketRows, CommitTicket
  <2>4. tickets'[t] = row /\ t = Len(tickets) + 1 /\ t = Len(tickets')
    BY <1>1, <2>2, <2>3
  <2>5. row.by # "customer" /\ row.event = EventOf(x) /\ (row.by = "worker" => x = Worker)
    BY DEF Ticket
  <2> HIDE DEF row
  <2> QED
    BY <2>1, <2>4, <2>5
<1>4. CASE Triage
  BY <1>4 DEF Triage
<1> QED
  BY <1>2, <1>3, <1>4, TicketSteps

LEMMA TicketLinksStep == ASSUME TypeInv, TicketLinks, [Next]_vars PROVE TicketLinks'
<1> SUFFICES ASSUME NEW t \in DOMAIN tickets'
             PROVE  tickets'[t].by = "customer" <=> tickets'[t].event = 0
  BY DEF TicketLinks, OfCustomer
<1>1. CASE t \in DOMAIN tickets
  BY <1>1, TicketsStay DEF TicketLinks, OfCustomer
<1>2. CASE t \notin DOMAIN tickets
  <2>1. ASSUME NEW x \in Jobs, CommitTicket(x)
        PROVE  EventOf(x) # 0
    BY <2>1, Executor, StatesTyped DEF CommitTicket, Busy, TypeInv
  <2> QED
    BY <1>2, <2>1, NewTickets
<1> QED
  BY <1>1, <1>2

\* How a job comes to publish: it was about to, or it has just opened the ticket.
LEMMA ComesToPublish ==
  ASSUME TypeInv, [Next]_vars, NEW x \in Jobs', job'[x].at = "publish"
  PROVE  /\ x \in Jobs /\ EventOf(x)' = EventOf(x)
         /\ \/ job'[x] = job[x]
            \/ CommitTicket(x) /\ Len(tickets') \in DOMAIN tickets' /\ Len(tickets') \notin DOMAIN tickets
               /\ job'[x].ticket = Len(tickets') /\ tickets'[Len(tickets')].by # "customer"
               /\ tickets'[Len(tickets')].event = EventOf(x)
<1>1. Worker \in Jobs
  BY StatesTyped DEF TypeInv
<1>2. ASSUME x \in Jobs, CommitTicket(x)
      PROVE  /\ Len(tickets') \in DOMAIN tickets' /\ Len(tickets') \notin DOMAIN tickets
             /\ job'[x].ticket = Len(tickets') /\ tickets'[Len(tickets')].by # "customer"
             /\ tickets'[Len(tickets')].event = EventOf(x)
  <2> DEFINE d == job[x].decision
             row == Ticket(IF x = Worker THEN "worker" ELSE "request", EventOf(x), d, d.severity)
  <2>1. d.resolution # "NO_ACTION"
    <3>1. CASE d.resolution = "NO_ACTION"
      <4>1. Goto(x, "email")
        BY <1>2, <3>1 DEF CommitTicket
      <4>2. job'[x].at = "email"
        BY <1>2, <4>1, Relabel
      <4> QED
        BY <4>2
    <3> QED
      BY <3>1
  <2>2. d \in Decisions
    BY <1>2 DEF CommitTicket, TypeInv, Ready
  <2>3. row \in TicketRows
    BY <1>2, <2>2, DecisionFields, EventOfTyped DEF Ticket, TicketRows
  <2>4. PICK l \in {"publish", "email"} :
          /\ tickets' = Append(tickets, row)
          /\ job' = [job EXCEPT ![x].ticket = Len(tickets'), ![x].at = l]
    BY <1>2, <2>1, Zenon DEF CommitTicket
  <2>5. /\ tickets' \in Seq(TicketRows) /\ Len(tickets') = Len(tickets) + 1 /\ Len(tickets) \in Nat
        /\ tickets'[Len(tickets) + 1] = row
    BY <2>3, <2>4, AppendProperties, LenProperties DEF TypeInv, TypeOK
  <2>6. Len(tickets') \in DOMAIN tickets' /\ Len(tickets') \notin DOMAIN tickets
    BY <2>5, LenProperties DEF TypeInv, TypeOK
  <2>7. row.by # "customer" /\ row.event = EventOf(x)
    BY DEF Ticket
  <2>8. job[x] \in JobStates /\ job \in [Jobs -> JobStates]
    BY <1>2, StatesTyped DEF TypeInv, TypeOK
  <2>9. job'[x].ticket = Len(tickets')
    BY <1>2, <2>4, <2>8 DEF JobStates
  <2> HIDE DEF row
  <2> QED
    BY <2>5, <2>6, <2>7, <2>9
<1>3. ASSUME x \in Jobs, ExecuteDecision(x)
      PROVE  CommitTicket(x) /\ EventOf(x)' = EventOf(x)
  <2>1. CASE PublishTicket(x) \/ SendEmail(x)
    BY <1>3, <2>1, Relabel DEF PublishTicket, SendEmail
  <2>2. CASE Settle(x)
    BY <1>3, <2>2, Reset DEF Settle, Idle
  <2>3. EventOf(x)' = EventOf(x)
    BY <1>3, ExecuteMoves DEF EventOf
  <2> QED
    BY <1>3, <2>1, <2>2, <2>3 DEF ExecuteDecision
<1>4. CASE x = Worker
  <2>1. CASE ReadNext \/ Bury \/ AckDead \/ TellCustomer
    BY <1>1, <1>4, <2>1, Relabel DEF ReadNext, Bury, AckDead, TellCustomer
  <2>2. CASE AskHuman
    BY <1>1, <1>4, <2>2, StatesTyped DEF AskHuman, TypeInv, JobStates
  <2>3. CASE Investigate
    <3>1. PICK d \in Decisions : job' = [job EXCEPT ![Worker] =
                                   [at |-> IF d.requires_human THEN "ask" ELSE "ticket",
                                    decision |-> d, ticket |-> 0]]
      BY <2>3 DEF Investigate
    <3>2. job'[Worker] = [at |-> IF d.requires_human THEN "ask" ELSE "ticket",
                          decision |-> d, ticket |-> 0]
      BY <1>1, <3>1, Reset, Zenon
    <3>3. job'[Worker].at \in {"ask", "ticket"}
      BY <3>2
    <3> QED
      BY <1>4, <3>3
  <2>4. CASE Triage
    <3>1. PICK v \in Verdicts : job' = [job EXCEPT ![Worker] =
                                   [at |-> "tell", decision |-> v, ticket |-> stream[delivered].ticket]]
      BY <2>4 DEF Triage
    <3>2. job'[Worker] = [at |-> "tell", decision |-> v, ticket |-> stream[delivered].ticket]
      BY <1>1, <3>1, Reset, Zenon
    <3> QED
      BY <1>4, <3>2
  <2>5. CASE AttemptFails \/ WorkerCrash
    <3>1. job'[Worker].at \in {"start", "bury"}
      BY <1>1, <2>5, Reset DEF AttemptFails, WorkerCrash, Retry, GiveUp, Idle
    <3> QED
      BY <1>4, <3>1
  <2>6. CASE ExecuteDecision(Worker)
    BY <1>1, <1>2, <1>3, <1>4, <2>6
  <2>7. CASE job'[Worker] = job[Worker] /\ UNCHANGED <<delivered, dead>>
    BY <1>1, <1>4, <2>7 DEF EventOf
  <2> QED
    BY <2>1, <2>2, <2>3, <2>4, <2>5, <2>6, <2>7, WorkerSteps
<1>5. CASE x # Worker
  <2>1. x \in Requests'
    BY <1>5 DEF Jobs
  <2>2. x \in Requests
    <3>1. CASE AskHuman
      BY <2>1, <3>1, Asked DEF Idle
    <3>2. CASE ~AskHuman
      BY <2>1, <3>2, RequestsStay
    <3> QED
      BY <3>1, <3>2
  <2>3. x \in Jobs /\ EventOf(x)' = EventOf(x)
    BY <1>5, <2>2, StatesTyped, ApprovalsStay DEF EventOf, TypeInv
  <2>4. CASE AskHuman
    BY <2>2, <2>3, <2>4, Asked
  <2>5. CASE ExecuteDecision(x)
    BY <1>2, <1>3, <2>3, <2>5
  <2>6. CASE Approve(x)
    <3>1. job' = [job EXCEPT ![x] = [at |-> "ticket", ticket |-> 0, decision |-> approvals[x].decision]]
      BY <2>6 DEF Approve
    <3>2. job'[x] = [at |-> "ticket", ticket |-> 0, decision |-> approvals[x].decision]
      BY <2>3, <3>1 DEF TypeInv, TypeOK
    <3> QED
      BY <3>2
  <2>7. CASE RequestFails(x)
    BY <2>3, <2>7, Relabel DEF RequestFails
  <2>8. CASE Reject(x) \/ ReleaseApproval(x)
    <3>1. CASE Reject(x)
      BY <2>3, <3>1 DEF Reject
    <3>2. CASE ReleaseApproval(x)
      BY <2>2, <3>2, Reviewed DEF Idle
    <3> QED
      BY <2>8, <3>1, <3>2
  <2>9. CASE job'[x] = Idle \/ job'[x] = job[x]
    BY <2>3, <2>9 DEF Idle
  <2> QED
    BY <2>2, <2>4, <2>5, <2>6, <2>7, <2>8, <2>9, RequestSteps
<1> QED
  BY <1>4, <1>5

\* A job that is about to publish has a ticket opened on a decision.
LEMMA PublishLinksStep ==
  ASSUME TypeInv, PublishLinks, [Next]_vars
  PROVE  PublishLinks'
<1> SUFFICES ASSUME NEW x \in Jobs', job'[x].at = "publish"
             PROVE  /\ job'[x].ticket \in DOMAIN tickets' /\ tickets'[job'[x].ticket].by # "customer"
                    /\ tickets'[job'[x].ticket].event = EventOf(x)'
  BY DEF PublishLinks, OfCustomer
<1>1. CASE x \in Jobs /\ job'[x] = job[x] /\ EventOf(x)' = EventOf(x)
  BY <1>1, TicketsStay DEF PublishLinks, OfCustomer
<1>2. CASE ~(x \in Jobs /\ job'[x] = job[x] /\ EventOf(x)' = EventOf(x))
  BY <1>2, ComesToPublish
<1> QED
  BY <1>1, <1>2

\* What a new event is.
LEMMA NewEvents ==
  ASSUME TypeInv, PublishLinks, FilingLinks, [Next]_vars, NEW m \in DOMAIN stream', m \notin DOMAIN stream
  PROVE  /\ \A n \in DOMAIN stream' : n \in DOMAIN stream \/ n = m
         /\ \/ PublishDelayed /\ stream'[m].type = "ORDER_DELAYED" /\ stream'[m].ticket = 0
            \/ /\ PublishFiled /\ stream'[m].type = "TICKET_CREATED"
               /\ stream'[m].ticket = filing.ticket /\ stream'[m].task = 0
               /\ filing.ticket \in DOMAIN tickets /\ OfCustomer(filing.ticket) /\ EventsOf(filing.ticket) = {}
            \/ /\ stream'[m].type = "TICKET_CREATED"
               /\ stream'[m].ticket \in DOMAIN tickets /\ ~OfCustomer(stream'[m].ticket)
               /\ stream'[m].task = tickets[stream'[m].ticket].event
<1>1. ASSUME NEW row \in EventRows, stream' = Append(stream, row)
      PROVE  stream'[m] = row /\ \A n \in DOMAIN stream' : n \in DOMAIN stream \/ n = m
  <2>1. /\ stream' \in Seq(EventRows) /\ Len(stream') = Len(stream) + 1 /\ Len(stream) \in Nat
        /\ stream'[Len(stream) + 1] = row
    BY <1>1, AppendProperties, LenProperties DEF TypeInv, TypeOK
  <2>2. DOMAIN stream = 1..Len(stream) /\ DOMAIN stream' = 1..Len(stream')
    BY <2>1, LenProperties DEF TypeInv, TypeOK
  <2>3. m = Len(stream) + 1
    BY <2>1, <2>2
  <2> QED
    BY <2>1, <2>2, <2>3
<1>2. CASE PublishDelayed
  <2>1. OrderDelayed \in EventRows
    BY StatesTyped DEF TypeInv, OrderDelayed, EventRows
  <2>2. stream'[m] = OrderDelayed /\ \A n \in DOMAIN stream' : n \in DOMAIN stream \/ n = m
    BY <1>1, <1>2, <2>1 DEF PublishDelayed
  <2> QED
    BY <1>2, <2>2 DEF OrderDelayed
<1>3. CASE PublishFiled
  <2>1. TicketCreated(filing.ticket, 0) \in EventRows
    BY StatesTyped DEF TypeInv, TypeOK, TicketCreated, EventRows
  <2>2. stream'[m] = TicketCreated(filing.ticket, 0) /\ \A n \in DOMAIN stream' : n \in DOMAIN stream \/ n = m
    BY <1>1, <1>3, <2>1 DEF PublishFiled
  <2>3. filing.ticket \in DOMAIN tickets /\ OfCustomer(filing.ticket) /\ EventsOf(filing.ticket) = {}
    BY <1>3 DEF PublishFiled, FilingLinks
  <2> QED
    BY <1>3, <2>2, <2>3 DEF TicketCreated
<1>4. CASE \E x \in Jobs : PublishTicket(x) /\ stream' = Append(stream, TicketCreated(job[x].ticket, EventOf(x)))
  <2>1. PICK x \in Jobs : PublishTicket(x) /\ stream' = Append(stream, TicketCreated(job[x].ticket, EventOf(x)))
    BY <1>4
  <2>2. TicketCreated(job[x].ticket, EventOf(x)) \in EventRows
    <3>1. job[x].ticket \in 0..Len(tickets) /\ EventOf(x) \in 0..delivered
      BY StatesTyped, EventOfTyped DEF TypeInv, JobStates
    <3> QED
      BY <3>1 DEF TicketCreated, EventRows
  <2>3. stream'[m] = TicketCreated(job[x].ticket, EventOf(x))
        /\ \A n \in DOMAIN stream' : n \in DOMAIN stream \/ n = m
    BY <1>1, <2>1, <2>2
  <2>4. /\ job[x].ticket \in DOMAIN tickets /\ ~OfCustomer(job[x].ticket)
        /\ tickets[job[x].ticket].event = EventOf(x)
    BY <2>1 DEF PublishTicket, PublishLinks
  <2>5. stream'[m].type = "TICKET_CREATED" /\ stream'[m].ticket = job[x].ticket /\ stream'[m].task = EventOf(x)
    BY <2>3 DEF TicketCreated
  <2> QED
    BY <2>3, <2>4, <2>5
<1> QED
  BY <1>2, <1>3, <1>4, StreamSteps

LEMMA EventLinksStep ==
  ASSUME TypeInv, DelaysBare, Links, [Next]_vars
  PROVE  EventLinks'
<1>0. TicketLinks /\ EventLinks /\ FilingLinks /\ PublishLinks
  BY DEF Links
<1> SUFFICES ASSUME NEW m \in DOMAIN stream', stream'[m].type = "TICKET_CREATED"
             PROVE  /\ stream'[m].ticket \in DOMAIN tickets'
                    /\ stream'[m].task = tickets'[stream'[m].ticket].event
                    /\ tickets'[stream'[m].ticket].by = "customer" =>
                         \A n \in DOMAIN stream' : stream'[n].ticket = stream'[m].ticket => n = m
  BY DEF EventLinks, OfCustomer, EventsOf
<1>1. \A t \in DOMAIN tickets : /\ t \in DOMAIN tickets' /\ tickets'[t].event = tickets[t].event
                                /\ tickets'[t].by = tickets[t].by
  BY TicketsStay
<1>2. \A t \in DOMAIN tickets : t # 0
  BY LenProperties DEF TypeInv, TypeOK
<1>3. CASE m \in DOMAIN stream
  <2>1. stream'[m] = stream[m] /\ stream[m].ticket \in DOMAIN tickets /\ stream[m].task = tickets[stream[m].ticket].event
    BY <1>0, <1>3, StreamGrows DEF EventLinks
  <2>2. ASSUME tickets[stream[m].ticket].by = "customer", NEW n \in DOMAIN stream',
               stream'[n].ticket = stream[m].ticket
        PROVE  n = m
    <3>1. CASE n \in DOMAIN stream
      <4>1. stream'[n] = stream[n]
        BY <3>1, StreamGrows
      <4> QED
        BY <1>0, <1>3, <2>1, <2>2, <3>1, <4>1 DEF EventLinks, EventsOf, OfCustomer
    <3>2. CASE n \notin DOMAIN stream
      <4>1. OfCustomer(stream'[n].ticket) /\ stream'[n].ticket # 0 /\ m \in EventsOf(stream'[n].ticket)
        BY <1>2, <1>3, <2>1, <2>2 DEF OfCustomer, EventsOf
      <4> QED
        BY <1>0, <3>2, <4>1, NewEvents
    <3> QED
      BY <3>1, <3>2
  <2> QED
    BY <1>1, <2>1, <2>2
<1>4. CASE m \notin DOMAIN stream
  <2>1. /\ stream'[m].ticket \in DOMAIN tickets
        /\ stream'[m].task = tickets[stream'[m].ticket].event
        /\ OfCustomer(stream'[m].ticket) => EventsOf(stream'[m].ticket) = {}
    BY <1>0, <1>4, NewEvents DEF TicketLinks
  <2>2. \A n \in DOMAIN stream' : n = m \/ (n \in DOMAIN stream /\ stream'[n] = stream[n])
    BY <1>0, <1>4, NewEvents, StreamGrows
  <2>3. OfCustomer(stream'[m].ticket) =>
          \A n \in DOMAIN stream' : stream'[n].ticket = stream'[m].ticket => n = m
    BY <2>1, <2>2 DEF EventsOf
  <2> QED
    BY <1>1, <2>1, <2>3 DEF OfCustomer
<1> QED
  BY <1>3, <1>4

LEMMA FilingLinksStep ==
  ASSUME TypeInv, DelaysBare, Links, [Next]_vars
  PROVE  FilingLinks'
<1>0. TicketLinks /\ EventLinks /\ FilingLinks /\ PublishLinks
  BY DEF Links
<1>1. CASE FileTicket
  <2> DEFINE t == Len(tickets) + 1
  <2>1. PICK p \in FiledPriorities : tickets' = Append(tickets, Ticket("customer", 0, None, p))
    BY <1>1 DEF FileTicket
  <2>2. Ticket("customer", 0, None, p) \in TicketRows
    BY VerdictsAssumption, StatesTyped DEF Ticket, TicketRows, TypeInv
  <2>3. /\ tickets' \in Seq(TicketRows) /\ Len(tickets') = t /\ Len(tickets) \in Nat
        /\ tickets'[t] = Ticket("customer", 0, None, p)
    BY <2>1, <2>2, AppendProperties, LenProperties DEF TypeInv, TypeOK
  <2>4. t \in DOMAIN tickets' /\ tickets'[t].by = "customer" /\ filing'.ticket = t
    BY <1>1, <2>3, LenProperties DEF Ticket, FileTicket
  <2>5. \A m \in DOMAIN stream : stream[m].ticket \in 0..Len(tickets)
    <3>1. ASSUME NEW m \in DOMAIN stream
          PROVE  stream[m].ticket \in 0..Len(tickets)
      <4>1. stream \in Seq(EventRows) /\ m \in 1..Len(stream)
        BY <3>1, LenProperties DEF TypeInv, TypeOK
      <4>2. stream[m] \in EventRows
        BY <4>1, ElementOfSeq
      <4> QED
        BY <4>2 DEF EventRows
    <3> QED
      BY <3>1
  <2>6. stream' = stream
    BY <1>1 DEF FileTicket, redis
  <2>7. \A m \in DOMAIN stream : stream[m].ticket # t
    BY <2>3, <2>5
  <2> QED
    BY <2>4, <2>6, <2>7 DEF FilingLinks, OfCustomer, EventsOf
<1>2. CASE PublishFiled \/ AcknowledgeFiled \/ FilingFails \/ ApiCrash
  <2>1. filing'.at # "publish" /\ (filing'.at # "idle" => filing.at # "idle") /\ filing'.ticket = filing.ticket
    BY <1>2 DEF PublishFiled, AcknowledgeFiled, FilingFails, ApiCrash, TypeInv, TypeOK
  <2> QED
    BY <1>0, <2>1, TicketsStay DEF FilingLinks, OfCustomer
<1>3. CASE UNCHANGED filing /\ ~PublishFiled
  <2>1. filing'.at # "idle" => filing'.ticket \in DOMAIN tickets' /\ tickets'[filing'.ticket].by = "customer"
    BY <1>0, <1>3, TicketsStay DEF FilingLinks, OfCustomer
  <2>2. ASSUME filing'.at = "publish", NEW m \in DOMAIN stream', stream'[m].ticket = filing'.ticket
        PROVE  FALSE
    <3>1. filing.at = "publish" /\ filing.ticket \in DOMAIN tickets /\ OfCustomer(filing.ticket)
          /\ EventsOf(filing.ticket) = {} /\ stream'[m].ticket = filing.ticket
      BY <1>0, <1>3, <2>2 DEF FilingLinks
    <3>2. filing.ticket # 0
      BY <3>1, LenProperties DEF TypeInv, TypeOK
    <3>3. CASE m \in DOMAIN stream
      BY <3>1, <3>3, StreamGrows DEF EventsOf
    <3>4. CASE m \notin DOMAIN stream
      BY <1>0, <1>3, <3>1, <3>2, <3>4, NewEvents
    <3> QED
      BY <3>3, <3>4
  <2> QED
    BY <2>1, <2>2 DEF FilingLinks, OfCustomer, EventsOf
<1>4. UNCHANGED filing \/ FileTicket \/ PublishFiled \/ AcknowledgeFiled \/ FilingFails \/ ApiCrash
  BY DEF Next, Progress, WorkerStep, RequestStep, ExecuteDecision, vars, PublishDelayed,
     ReadNext, Investigate, AskHuman, Triage, TellCustomer, Bury, AckDead, CommitTicket, PublishTicket,
     SendEmail, Settle, Approve, Reject, RequestFails, ReleaseApproval, AttemptFails, WorkerCrash
<1> QED
  BY <1>1, <1>2, <1>3, <1>4

LEMMA LinksAlways == Spec => []Links
<1>1. Init => Links
  BY EmptySeq DEF Init, Links, TicketLinks, EventLinks, FilingLinks, PublishLinks, Jobs, Requests, Worker, Idle
<1>2. TypeInv /\ DelaysBare /\ Links /\ [Next]_vars => Links'
  BY TicketLinksStep, EventLinksStep, FilingLinksStep, PublishLinksStep DEF Links
<1> QED
  BY <1>1, <1>2, LaneAlways, Typed, PTL DEF Spec

-----------------------------------------------------------------------------
(* The execution rows and the events they came from.                       *)

DelayRuns == RunsOf("delayed_order_agent")

\* The agent investigates delays, one event after the other, each a task.
DelayRows ==
  \A i \in DelayRuns :
    /\ executions[i].event \in DOMAIN stream /\ stream[executions[i].event].type = "ORDER_DELAYED"
    /\ executions[i].task = executions[i].event /\ executions[i].ticket = 0
    /\ \A j \in DelayRuns : i <= j => executions[i].event <= executions[j].event

\* A triage is of its event's ticket, and of the task that the event carries; if
\* the ticket came out of a delay, an earlier row is the delay's.
TriageRows ==
  \A i \in RunsOf("triage_agent") :
    LET m == executions[i].event
        t == executions[i].ticket
    IN  /\ m \in DOMAIN stream /\ stream[m].type = "TICKET_CREATED"
        /\ t = stream[m].ticket
        /\ executions[i].task = IF stream[m].task = 0 THEN m ELSE stream[m].task
        /\ ~OfCustomer(t) => \E j \in DelayRuns : j < i /\ executions[j].event = tickets[t].event

\* A step adds at most one row, of an investigation or of a triage.
LEMMA ExecutionSteps ==
  ASSUME TypeInv, [Next]_vars
  PROVE  \/ UNCHANGED executions
         \/ /\ Investigate
            /\ \E d \in Decisions :
                 executions' = Append(executions, [agent |-> "delayed_order_agent", event |-> delivered,
                                                   task |-> delivered, ticket |-> 0, decision |-> d])
         \/ /\ Triage
            /\ executions' = Append(executions,
                 [agent |-> "triage_agent", event |-> delivered,
                  task |-> IF stream[delivered].task = 0 THEN delivered ELSE stream[delivered].task,
                  ticket |-> stream[delivered].ticket, decision |-> None])
<1>1. CASE Investigate
  BY <1>1 DEF Investigate
<1>2. CASE Triage
  BY <1>2 DEF Triage
<1>3. CASE ~(Investigate \/ Triage)
  BY <1>3 DEF Next, Progress, WorkerStep, RequestStep, ExecuteDecision, vars, database,
     PublishDelayed, FileTicket, PublishFiled, AcknowledgeFiled, FilingFails, ReadNext, AskHuman,
     TellCustomer, Bury, AckDead, CommitTicket, PublishTicket, SendEmail, Settle, Approve, Reject,
     RequestFails, ReleaseApproval, AttemptFails, WorkerCrash, ApiCrash
<1> QED
  BY <1>1, <1>2, <1>3

LEMMA RowAppended ==
  ASSUME TypeInv, NEW row, executions' = Append(executions, row)
  PROVE  /\ DOMAIN executions = 1..Len(executions) /\ Len(executions) \in Nat
         /\ DOMAIN executions' = DOMAIN executions \cup {Len(executions) + 1}
         /\ executions'[Len(executions) + 1] = row
         /\ \A i \in DOMAIN executions : executions'[i] = executions[i] /\ i < Len(executions) + 1
<1>1. executions \in Seq(ExecutionRows \cup {row})
  BY SeqMonotonic DEF TypeInv, TypeOK
<1>2. DOMAIN executions = 1..Len(executions) /\ Len(executions) \in Nat
  BY <1>1, LenProperties
<1>3. /\ executions' \in Seq(ExecutionRows \cup {row}) /\ Len(executions') = Len(executions) + 1
      /\ executions'[Len(executions) + 1] = row
      /\ \A i \in 1..Len(executions) : executions'[i] = executions[i]
  BY <1>1, AppendProperties
<1>4. DOMAIN executions' = 1..Len(executions')
  BY <1>3, LenProperties
<1> QED
  BY <1>2, <1>3, <1>4

LEMMA RowTypes ==
  ASSUME TypeInv
  PROVE  \A i \in DOMAIN executions :
           /\ executions[i].agent \in {"delayed_order_agent", "triage_agent"}
           /\ executions[i].event \in 1..delivered /\ executions[i].task \in 1..delivered
           /\ i \in Nat
<1> SUFFICES ASSUME NEW i \in DOMAIN executions
             PROVE  /\ executions[i].agent \in {"delayed_order_agent", "triage_agent"}
                    /\ executions[i].event \in 1..delivered /\ executions[i].task \in 1..delivered
                    /\ i \in Nat
  OBVIOUS
<1>1. executions \in Seq(ExecutionRows) /\ i \in 1..Len(executions)
  BY LenProperties DEF TypeInv, TypeOK
<1>2. executions[i] \in ExecutionRows
  BY <1>1, ElementOfSeq
<1> QED
  BY <1>1, <1>2 DEF ExecutionRows

LEMMA DelayRowsStep == ASSUME TypeInv, DelayRows, [Next]_vars PROVE DelayRows'
<1>1. \A m \in DOMAIN stream : m \in DOMAIN stream' /\ stream'[m] = stream[m]
  BY StreamGrows
<1>2. CASE UNCHANGED executions
  BY <1>1, <1>2 DEF DelayRows, DelayRuns, RunsOf
<1>3. ASSUME NEW row, executions' = Append(executions, row), row.agent # "delayed_order_agent"
      PROVE  DelayRows'
  <2>1. DelayRuns' = DelayRuns /\ \A i \in DelayRuns : executions'[i] = executions[i]
    BY <1>3, RowAppended DEF DelayRuns, RunsOf
  <2> QED
    BY <1>1, <2>1 DEF DelayRows
<1>4. CASE Investigate
  <2>1. PICK d \in Decisions :
          executions' = Append(executions, [agent |-> "delayed_order_agent", event |-> delivered,
                                            task |-> delivered, ticket |-> 0, decision |-> d])
    BY <1>4 DEF Investigate
  <2>2. PICK n : n = Len(executions) + 1
    OBVIOUS
  <2>3. /\ DOMAIN executions' = DOMAIN executions \cup {n}
        /\ executions'[n] = [agent |-> "delayed_order_agent", event |-> delivered,
                             task |-> delivered, ticket |-> 0, decision |-> d]
        /\ \A i \in DOMAIN executions : executions'[i] = executions[i] /\ i < n /\ i \in Nat
        /\ n \in Nat
    BY <2>1, <2>2, RowAppended, RowTypes
  <2>4. executions'[n].event = delivered /\ executions'[n].task = delivered /\ executions'[n].ticket = 0
    BY <2>3
  <2>5. DelayRuns' \subseteq DelayRuns \cup {n} /\ \A i \in DelayRuns : i \in DOMAIN executions
    BY <2>3 DEF DelayRuns, RunsOf
  <2>6. Busy(Worker) /\ stream[delivered].type = "ORDER_DELAYED"
    BY <1>4 DEF Investigate, Busy
  <2>7. delivered \in DOMAIN stream
    BY <2>6, InHand
  <2>8. \A i \in DelayRuns : executions'[i].event <= delivered
    BY <2>3, <2>5, RowTypes, StatesTyped DEF TypeInv
  <2>9. delivered <= delivered
    BY StatesTyped DEF TypeInv
  <2>10. ASSUME NEW i \in DelayRuns'
         PROVE  /\ executions'[i].event \in DOMAIN stream' /\ stream'[executions'[i].event].type = "ORDER_DELAYED"
                /\ executions'[i].task = executions'[i].event /\ executions'[i].ticket = 0
    BY <1>1, <2>3, <2>4, <2>5, <2>6, <2>7 DEF DelayRows
  <2>11. ASSUME NEW i \in DelayRuns', NEW j \in DelayRuns', i <= j
         PROVE  executions'[i].event <= executions'[j].event
    <3>1. CASE j = n
      BY <2>4, <2>5, <2>8, <2>9, <3>1
    <3>2. CASE j # n
      <4>1. j \in DelayRuns /\ i \in DelayRuns
        BY <2>3, <2>5, <2>11, <3>2
      <4> QED
        BY <2>3, <2>5, <2>11, <4>1 DEF DelayRows
    <3> QED
      BY <3>1, <3>2
  <2> QED
    BY <2>10, <2>11 DEF DelayRows
<1> QED
  BY <1>2, <1>3, <1>4, ExecutionSteps

LEMMA TriageRowsStep ==
  ASSUME TypeInv, Links, AuditInv, TriageRows, [Next]_vars
  PROVE  TriageRows'
<1>1. /\ \A m \in DOMAIN stream : m \in DOMAIN stream' /\ stream'[m] = stream[m]
      /\ \A t \in DOMAIN tickets : /\ t \in DOMAIN tickets' /\ tickets'[t].event = tickets[t].event
                                   /\ tickets'[t].by = tickets[t].by
      /\ \A j \in DelayRuns : j \in DelayRuns' /\ executions'[j] = executions[j]
  BY StreamGrows, TicketsStay, ExecutionsStay DEF DelayRuns
<1>2. EventLinks
  BY DEF Links
<1>3. ASSUME NEW i \in RunsOf("triage_agent"), executions'[i] = executions[i]
      PROVE  LET m == executions'[i].event
                 t == executions'[i].ticket
             IN  /\ m \in DOMAIN stream' /\ stream'[m].type = "TICKET_CREATED"
                 /\ t = stream'[m].ticket
                 /\ executions'[i].task = IF stream'[m].task = 0 THEN m ELSE stream'[m].task
                 /\ tickets'[t].by # "customer" =>
                      \E j \in DelayRuns' : j < i /\ executions'[j].event = tickets'[t].event
  <2> DEFINE m == executions[i].event
             t == executions[i].ticket
  <2>1. /\ m \in DOMAIN stream /\ stream[m].type = "TICKET_CREATED" /\ t = stream[m].ticket
        /\ executions[i].task = IF stream[m].task = 0 THEN m ELSE stream[m].task
        /\ ~OfCustomer(t) => \E j \in DelayRuns : j < i /\ executions[j].event = tickets[t].event
    BY DEF TriageRows
  <2>2. t \in DOMAIN tickets
    BY <1>2, <2>1 DEF EventLinks
  <2> QED
    BY <1>1, <1>3, <2>1, <2>2 DEF OfCustomer
<1>4. CASE UNCHANGED executions
  BY <1>3, <1>4 DEF TriageRows, RunsOf, OfCustomer
<1>5. ASSUME NEW row, executions' = Append(executions, row), row.agent # "triage_agent"
      PROVE  TriageRows'
  <2>1. RunsOf("triage_agent")' = RunsOf("triage_agent")
        /\ \A i \in RunsOf("triage_agent") : executions'[i] = executions[i]
    BY <1>5, RowAppended DEF RunsOf
  <2> QED
    BY <1>3, <2>1 DEF TriageRows, OfCustomer
<1>6. CASE Triage /\ executions' = Append(executions,
                 [agent |-> "triage_agent", event |-> delivered,
                  task |-> IF stream[delivered].task = 0 THEN delivered ELSE stream[delivered].task,
                  ticket |-> stream[delivered].ticket, decision |-> None])
  <2>1. PICK n : n = Len(executions) + 1
    OBVIOUS
  <2>2. /\ DOMAIN executions' = DOMAIN executions \cup {n}
        /\ executions'[n] = [agent |-> "triage_agent", event |-> delivered,
                  task |-> IF stream[delivered].task = 0 THEN delivered ELSE stream[delivered].task,
                  ticket |-> stream[delivered].ticket, decision |-> None]
        /\ \A i \in DOMAIN executions : executions'[i] = executions[i] /\ i < n
    BY <1>6, <2>1, RowAppended
  <2>3. /\ executions'[n].event = delivered /\ executions'[n].ticket = stream[delivered].ticket
        /\ executions'[n].task = IF stream[delivered].task = 0 THEN delivered ELSE stream[delivered].task
    BY <2>2
  <2>4. \A i \in RunsOf("triage_agent")' :
          i = n \/ (i \in RunsOf("triage_agent") /\ executions'[i] = executions[i])
    BY <2>2 DEF RunsOf
  <2>5. Busy(Worker) /\ stream[delivered].type = "TICKET_CREATED" /\ stream' = stream
    BY <1>6 DEF Triage, Busy, redis
  <2>6. delivered \in DOMAIN stream
    BY <2>5, InHand
  <2>7. PICK t : t = stream[delivered].ticket
    OBVIOUS
  <2>8. t \in DOMAIN tickets
    BY <1>2, <2>5, <2>6, <2>7 DEF EventLinks
  <2>9. tickets'[t].by # "customer" => \E j \in DelayRuns' : j < n /\ executions'[j].event = tickets'[t].event
    <3>1. SUFFICES ASSUME tickets[t].by # "customer"
                   PROVE  \E j \in DelayRuns : j < n /\ executions[j].event = tickets[t].event
      BY <1>1, <2>8
    <3>2. tickets[t].by \in {"worker", "request"}
      <4>1. tickets \in Seq(TicketRows) /\ t \in 1..Len(tickets)
        BY <2>8, LenProperties DEF TypeInv, TypeOK
      <4>2. tickets[t] \in TicketRows
        BY <4>1, ElementOfSeq
      <4> QED
        BY <3>1, <4>2 DEF TicketRows
    <3>3. Decided(tickets[t].event, tickets[t].decision)
      BY <2>8, <3>2 DEF AuditInv, TicketDecided, Granted
    <3>4. \A j \in DelayRuns : j \in DOMAIN executions
      BY DEF DelayRuns, RunsOf
    <3> QED
      BY <2>2, <3>3, <3>4 DEF Decided, DelayRuns
  <2> QED
    BY <1>3, <2>3, <2>4, <2>5, <2>6, <2>7, <2>9 DEF TriageRows, OfCustomer
<1> QED
  BY <1>4, <1>5, <1>6, ExecutionSteps

\* What a row was for tells its task, and the task what the row was for: the
\* delay that is the task, or the filed ticket whose one event is the task.
ForDelay(i) ==
  /\ Cause(i) = [delay |-> executions[i].task, ticket |-> 0]
  /\ executions[i].task # 0
  /\ stream[executions[i].task].type = "ORDER_DELAYED"
  /\ \E j \in DelayRuns : executions[j].event = executions[i].task /\ j <= i
ForCustomer(i) ==
  /\ Cause(i) = [delay |-> 0, ticket |-> executions[i].ticket]
  /\ executions[i].task = executions[i].event
  /\ executions[i].task \in EventsOf(executions[i].ticket)
  /\ stream[executions[i].task].type = "TICKET_CREATED"
  /\ \A n \in EventsOf(executions[i].ticket) : n = executions[i].task

LEMMA RowCauses ==
  ASSUME TypeInv, Links, DelayRows, TriageRows, NEW i \in DOMAIN executions
  PROVE  /\ i \in DelayRuns \/ i \in RunsOf("triage_agent")
         /\ i \in DelayRuns => ForDelay(i) /\ executions[i].task = executions[i].event
         /\ i \in RunsOf("triage_agent") /\ OfCustomer(executions[i].ticket) => ForCustomer(i)
         /\ i \in RunsOf("triage_agent") /\ ~OfCustomer(executions[i].ticket) => ForDelay(i) /\ i \notin DelayRuns
<1>1. i \in DelayRuns \/ i \in RunsOf("triage_agent")
  BY RowTypes DEF DelayRuns, RunsOf
<1>2. /\ executions[i].event \in 1..delivered /\ executions[i].task \in 1..delivered /\ i \in Nat
      /\ executions[i].event # 0 /\ executions[i].task # 0
  BY RowTypes, StatesTyped DEF TypeInv
<1>3. ASSUME i \in DelayRuns
      PROVE  ForDelay(i) /\ executions[i].task = executions[i].event
  <2>1. /\ executions[i].ticket = 0 /\ executions[i].task = executions[i].event
        /\ stream[executions[i].event].type = "ORDER_DELAYED"
    BY <1>3 DEF DelayRows
  <2>2. Cause(i) = [delay |-> executions[i].event, ticket |-> 0]
    BY <2>1 DEF Cause
  <2>3. i <= i
    BY <1>2
  <2> QED
    BY <1>2, <1>3, <2>1, <2>2, <2>3 DEF ForDelay
<1>4. ASSUME i \in RunsOf("triage_agent")
      PROVE  /\ OfCustomer(executions[i].ticket) => ForCustomer(i)
             /\ ~OfCustomer(executions[i].ticket) => ForDelay(i) /\ i \notin DelayRuns
  <2>1. PICK t, m : t = executions[i].ticket /\ m = executions[i].event
    OBVIOUS
  <2>2. /\ m \in DOMAIN stream /\ stream[m].type = "TICKET_CREATED" /\ t = stream[m].ticket
        /\ executions[i].task = IF stream[m].task = 0 THEN m ELSE stream[m].task
        /\ ~OfCustomer(t) => \E j \in DelayRuns : j < i /\ executions[j].event = tickets[t].event
    BY <1>4, <2>1 DEF TriageRows
  <2>3. /\ t \in DOMAIN tickets /\ stream[m].task = tickets[t].event
        /\ OfCustomer(t) => \A n \in EventsOf(t) : n = m
        /\ OfCustomer(t) <=> tickets[t].event = 0
    BY <2>2 DEF Links, EventLinks, TicketLinks
  <2>4. t # 0
    BY <2>3, LenProperties DEF TypeInv, TypeOK
  <2>5. i \notin DelayRuns
    BY <1>4 DEF DelayRuns, RunsOf
  <2>6. ASSUME OfCustomer(t)
        PROVE  ForCustomer(i)
    <3>1. Cause(i) = [delay |-> 0, ticket |-> t]
      BY <2>1, <2>4, <2>6 DEF Cause, OfCustomer
    <3>2. executions[i].task = m /\ m \in EventsOf(t)
      BY <2>2, <2>3, <2>6 DEF EventsOf
    <3> QED
      BY <2>1, <2>2, <2>3, <2>6, <3>1, <3>2 DEF ForCustomer
  <2>7. ASSUME ~OfCustomer(t)
        PROVE  ForDelay(i)
    <3>1. executions[i].task = tickets[t].event
      BY <2>2, <2>3, <2>7
    <3>2. Cause(i) = [delay |-> executions[i].task, ticket |-> 0]
      BY <2>1, <2>4, <2>7, <3>1 DEF Cause, OfCustomer
    <3>3. PICK j \in DelayRuns : j < i /\ executions[j].event = executions[i].task
      BY <2>2, <2>7, <3>1
    <3>4. stream[executions[i].task].type = "ORDER_DELAYED"
      BY <3>3 DEF DelayRows
    <3>5. j <= i
      <4>1. j \in DOMAIN executions
        BY DEF DelayRuns, RunsOf
      <4>2. j \in Nat
        BY <4>1, RowTypes
      <4> QED
        BY <1>2, <3>3, <4>2
    <3> QED
      BY <1>2, <3>2, <3>3, <3>4, <3>5 DEF ForDelay
  <2> QED
    BY <2>1, <2>5, <2>6, <2>7
<1> QED
  BY <1>1, <1>3, <1>4

\* A set of rows has an oldest and a newest one.
LEMMA Least ==
  ASSUME NEW S \in SUBSET Nat, S # {}
  PROVE  \E x \in S : \A y \in S : x <= y
<1>1. PICK x \in S : \A y \in S : <<y, x>> \notin OpToRel(<, Nat)
  BY NatLessThanWellFounded, WFMin
<1>2. \A y \in S : ~(y < x)
  BY <1>1 DEF OpToRel
<1> QED
  BY <1>2

LEMMA Oldest ==
  ASSUME NEW S \in SUBSET Nat, S # {}
  PROVE  Min(S) \in S
BY Least DEF Min

LEMMA Newest ==
  ASSUME NEW n \in Nat, NEW S \in SUBSET (1..n), S # {}
  PROVE  Max(S) \in S /\ \A y \in S : y <= Max(S)
<1> DEFINE D == {d \in 0..n : n - d \in S}
<1>1. D \in SUBSET Nat
  OBVIOUS
<1>2. D # {}
  <2>1. PICK y \in S : TRUE
    OBVIOUS
  <2>2. n - y \in 0..n /\ n - (n - y) = y
    BY <2>1
  <2> QED
    BY <2>1, <2>2
<1>3. PICK d \in D : \A e \in D : d <= e
  <2> HIDE DEF D
  <2> QED
    BY <1>1, <1>2, Least
<1>4. n - d \in S /\ d \in 0..n
  BY <1>3
<1>5. ASSUME NEW y \in S
      PROVE  y <= n - d
  <2>1. y \in Nat /\ n - y \in 0..n /\ n - (n - y) = y
    OBVIOUS
  <2>2. n - y \in D
    BY <2>1
  <2>3. d <= n - y
    BY <1>3, <2>2
  <2> QED
    BY <1>4, <2>1, <2>3
<1>6. \E x \in S : \A y \in S : x >= y
  <2>1. \A y \in S : n - d >= y
    BY <1>4, <1>5
  <2> QED
    BY <1>4, <2>1
<1>7. Max(S) \in S /\ \A y \in S : Max(S) >= y
  BY <1>6 DEF Max
<1> QED
  BY <1>7

LEMMA UsageHolds ==
  ASSUME TypeInv, Links, DelayRows, TriageRows
  PROVE  UsageIsPerTask
<1>1. \A i \in DOMAIN executions : ForDelay(i) \/ (ForCustomer(i) /\ i \in RunsOf("triage_agent"))
  BY RowCauses
<1>2. ASSUME NEW i \in DOMAIN executions, NEW j \in DOMAIN executions
      PROVE  executions[i].task = executions[j].task <=> Cause(i) = Cause(j)
  <2>1. CASE ForDelay(i) /\ ForDelay(j)
    BY <2>1 DEF ForDelay
  <2>2. CASE ForDelay(i) /\ ForCustomer(j)
    BY <2>2 DEF ForDelay, ForCustomer
  <2>3. CASE ForCustomer(i) /\ ForDelay(j)
    BY <2>3 DEF ForDelay, ForCustomer
  <2>4. CASE ForCustomer(i) /\ ForCustomer(j)
    BY <2>4 DEF ForCustomer, EventsOf
  <2> QED
    BY <1>1, <2>1, <2>2, <2>3, <2>4
<1>3. ASSUME NEW n \in DOMAIN executions, NEW task \in GroupIntoTasks(n), task.kind = "customer_ticket"
      PROVE  IF Cause(Min(task.runs)).delay = 0 THEN task.ticket = Cause(Min(task.runs)).ticket
             ELSE \E i \in RunsOf("delayed_order_agent") \ Scanned(n) :
                    executions[i].event = Cause(Min(task.runs)).delay
  <2>1. PICK i0 \in Scanned(n) :
          task = Task({j \in Scanned(n) : executions[j].task = executions[i0].task})
    BY <1>3 DEF GroupIntoTasks
  <2>2. PICK runs : runs = {j \in Scanned(n) : executions[j].task = executions[i0].task}
    OBVIOUS
  <2>3. task.runs = runs /\ runs \cap DelayRuns = {} /\ task.ticket = executions[Min(runs)].ticket
    BY <1>3, <2>1, <2>2 DEF Task, DelayRuns
  <2>4. runs \in SUBSET Nat /\ runs # {} /\ \A j \in runs : j \in DOMAIN executions
    BY <2>1, <2>2, RowTypes DEF Scanned
  <2>5. PICK i : i = Min(runs)
    OBVIOUS
  <2>6. i \in runs /\ i \in DOMAIN executions
    BY <2>4, <2>5, Oldest
  <2>7. CASE ForDelay(i)
    <3>1. Cause(i).delay = executions[i].task /\ executions[i].task # 0
      BY <2>7 DEF ForDelay
    <3>2. PICK j \in DelayRuns : executions[j].event = executions[i].task
      BY <2>7 DEF ForDelay
    <3>3. executions[j].task = executions[i0].task
      <4>1. j \in DOMAIN executions
        BY DEF DelayRuns, RunsOf
      <4> QED
        BY <2>2, <2>6, <3>2, <4>1, RowCauses
    <3>4. j \notin Scanned(n)
      BY <2>2, <2>3, <3>3
    <3> QED
      BY <2>3, <2>5, <3>1, <3>2, <3>4 DEF DelayRuns
  <2>8. CASE ForCustomer(i)
    <3>1. Cause(i).delay = 0 /\ Cause(i).ticket = executions[i].ticket
      BY <2>8 DEF ForCustomer
    <3> QED
      BY <2>3, <2>5, <3>1
  <2> QED
    BY <1>1, <2>6, <2>7, <2>8
<1> QED
  BY <1>2, <1>3 DEF UsageIsPerTask

LEMMA BackfillHolds ==
  ASSUME TypeInv, Links, DelayRows, TriageRows
  PROVE  BackfillFindsTask
<1> SUFFICES ASSUME NEW i \in DOMAIN executions, Backfilled(i) # executions[i].task
             PROVE  \E j \in RunsOf("delayed_order_agent") :
                      j < i /\ executions[j].event > executions[i].task
  BY DEF BackfillFindsTask
<1>1. \A j \in DelayRuns : /\ j \in DOMAIN executions /\ j \in Nat /\ executions[j].event \in Nat
                           /\ executions[j].agent = "delayed_order_agent"
  BY RowTypes, StatesTyped DEF DelayRuns, RunsOf, TypeInv
<1>2. i \in Nat /\ executions[i].task \in Nat
  BY RowTypes, StatesTyped DEF TypeInv
<1>3. CASE i \in DelayRuns
  <2>1. executions[i].agent = "delayed_order_agent" /\ executions[i].task = executions[i].event
    BY <1>1, <1>3, RowCauses
  <2> QED
    BY <2>1 DEF Backfilled
<1>4. CASE i \in RunsOf("triage_agent") /\ OfCustomer(executions[i].ticket)
  <2>1. executions[i].task = executions[i].event
    BY <1>4, RowCauses DEF ForCustomer
  <2> QED
    BY <1>4, <2>1 DEF Backfilled, OfCustomer
<1>5. CASE i \in RunsOf("triage_agent") /\ ~OfCustomer(executions[i].ticket)
  <2>1. PICK j \in DelayRuns : executions[j].event = executions[i].task /\ j <= i
    BY <1>5, RowCauses DEF ForDelay
  <2>2. j \in EarlierDelays(i)
    BY <2>1 DEF EarlierDelays, DelayRuns
  <2>3. EarlierDelays(i) \in SUBSET (1..Len(executions)) /\ Len(executions) \in Nat
    BY LenProperties DEF EarlierDelays, RunsOf, TypeInv, TypeOK
  <2>4. PICK l : l = Max(EarlierDelays(i))
    OBVIOUS
  <2>5. l \in EarlierDelays(i) /\ j <= l
    BY <2>2, <2>3, <2>4, Newest
  <2>6. l \in DelayRuns /\ l <= i
    BY <2>5 DEF EarlierDelays, DelayRuns
  <2>7. Backfilled(i) = executions[l].event
    BY <1>5, <2>2, <2>4 DEF Backfilled, OfCustomer, RunsOf
  <2>8. executions[j].event <= executions[l].event
    BY <2>5, <2>6 DEF DelayRows
  <2>9. executions[l].event > executions[i].task
    BY <1>1, <1>2, <2>1, <2>6, <2>7, <2>8
  <2>10. l < i
    BY <1>1, <1>2, <1>5, <2>6, RowCauses
  <2> QED
    BY <2>6, <2>9, <2>10 DEF DelayRuns
<1> QED
  BY <1>3, <1>4, <1>5, RowCauses

LEMMA AuditAlways == Spec => []AuditInv
<1>1. TypeInv /\ AuditInv /\ [Next]_vars => AuditInv'
  BY AuditStep
<1> QED
  BY <1>1, AuditInit, Typed, PTL DEF Spec

LEMMA RowsAlways == Spec => [](DelayRows /\ TriageRows)
<1>1. Init => DelayRows /\ TriageRows
  BY EmptySeq DEF Init, DelayRows, TriageRows, DelayRuns, RunsOf
<1>2. TypeInv /\ Links /\ AuditInv /\ DelayRows /\ TriageRows /\ [Next]_vars => (DelayRows /\ TriageRows)'
  BY DelayRowsStep, TriageRowsStep
<1> QED
  BY <1>1, <1>2, AuditAlways, LinksAlways, Typed, PTL DEF Spec

\* The usage page charges every run to what it was for, across retries, crashes,
\* approvals and other events, however few rows it scans.
THEOREM UsagePerTask == Spec => []UsageIsPerTask
<1>1. TypeInv /\ Links /\ DelayRows /\ TriageRows => UsageIsPerTask
  BY UsageHolds
<1> QED
  BY <1>1, RowsAlways, LinksAlways, Typed, PTL

\* The migration's rule goes wrong for a row only where a newer delay of the
\* order was investigated before it.
THEOREM BackfillIsRight == Spec => []BackfillFindsTask
<1>1. TypeInv /\ Links /\ DelayRows /\ TriageRows => BackfillFindsTask
  BY BackfillHolds
<1> QED
  BY <1>1, RowsAlways, LinksAlways, Typed, PTL

-----------------------------------------------------------------------------
(* What the timelines say is so.                                           *)

\* The newest run of the agent on an event.
LastRun(e, i) ==
  /\ i \in DelayRuns /\ executions[i].event = e
  /\ \A j \in DelayRuns : executions[j].event = e => j <= i

\* A decision was carried out: nothing was to do, or the ticket is there, on its
\* way to triage if it needs one, or the publish was swallowed.
Queued(t)     == EventsOf(t) # {} \/ faults["publish"] > 0
Carried(e, d) == \/ d.resolution = "NO_ACTION"
                 \/ \E t \in TicketsOf(e) : d.resolution \in TRIAGE_RESOLUTIONS => Queued(t)

\* The newest approval of an event asks for this decision.
AskedLast(e, d) ==
  \E k \in Requests : /\ approvals[k].event = e /\ approvals[k].decision = d
                      /\ \A n \in Requests : approvals[n].event = e => n <= k

\* What settling an event takes: its newest decision was left to a human or
\* carried out, its ticket triaged.
Executed(e) ==
  \E i \in DelayRuns :
    /\ LastRun(e, i)
    /\ executions[i].decision.requires_human => AskedLast(e, executions[i].decision)
    /\ ~executions[i].decision.requires_human => Carried(e, executions[i].decision)
TriagedEvent(m) == \E i \in RunsOf("triage_agent") : executions[i].event = m
Done(e) == IF stream[e].type = "ORDER_DELAYED" THEN Executed(e) ELSE TriagedEvent(e)

\* The worker acts on the newest decision about its event, and is about to
\* settle what is done.
OnNewest ==
  job[Worker].at \in {"ask", "ticket", "publish", "email"} =>
    /\ \E i \in DelayRuns : LastRun(delivered, i) /\ executions[i].decision = job[Worker].decision
    /\ job[Worker].decision.requires_human <=> job[Worker].at = "ask"
CarriesOut == job[Worker].at = "email" => Carried(delivered, job[Worker].decision)
SettlesDone ==
  /\ job[Worker].at = "settle" => Done(delivered)
  /\ job[Worker].at = "tell" => TriagedEvent(delivered)

\* Every event that was read is buried, or in the worker's hands, or done.
ReadIsDone == \A e \in 1..delivered : e \in dead \/ WorkerOn(e) \/ Done(e)

\* An approved decision is carried out, or its request is on the way, or one was
\* cut short; approvals are of delays, in the order of the stream.
RequestsAct ==
  \A k \in Requests : job[k].at \in {"ticket", "publish"} => job[k].decision = approvals[k].decision
ApprovedIsDone ==
  \A k \in Requests : approvals[k].status = "APPROVED" =>
    \/ job[k].at \in {"ticket", "publish"}
    \/ faults["api"] > 0
    \/ Carried(approvals[k].event, approvals[k].decision)
ApprovalsInOrder ==
  \A k \in Requests :
    /\ stream[approvals[k].event].type = "ORDER_DELAYED"
    /\ \A n \in Requests : k <= n => approvals[k].event <= approvals[n].event

WorkInv == OnNewest /\ CarriesOut /\ SettlesDone /\ ReadIsDone
PaperInv == RequestsAct /\ ApprovedIsDone /\ ApprovalsInOrder

\* Faults stay.
LEMMA FaultsStay ==
  ASSUME TypeInv, [Next]_vars
  PROVE  /\ faults["publish"] > 0 => faults'["publish"] > 0
         /\ faults["api"] > 0 => faults'["api"] > 0
         /\ \A k \in Requests : RequestFails(k) => faults'["api"] > 0
         /\ ApiCrash => faults'["api"] > 0
         /\ Fault("publish") => faults'["publish"] > 0
<1>1. faults \in [FaultKinds -> Nat]
  BY DEF TypeInv, TypeOK
<1>2. ASSUME NEW kind \in FaultKinds, Fault(kind)
      PROVE  /\ faults'[kind] > 0
             /\ \A other \in FaultKinds : faults[other] > 0 => faults'[other] > 0
  BY <1>1, <1>2 DEF Fault
<1>3. UNCHANGED faults \/ \E kind \in FaultKinds : Fault(kind)
  BY DEF Next, Progress, WorkerStep, RequestStep, ExecuteDecision, vars, PublishDelayed, FileTicket,
     PublishFiled, AcknowledgeFiled, FilingFails, ReadNext, Investigate, AskHuman, Triage, TellCustomer,
     Bury, AckDead, CommitTicket, PublishTicket, SendEmail, Settle, Approve, Reject, ReleaseApproval,
     ApiCrash, AttemptFails, WorkerCrash, RequestFails, FaultKinds
<1>4. "publish" \in FaultKinds /\ "api" \in FaultKinds
  BY DEF FaultKinds
<1>5. \A k \in Requests : RequestFails(k) => Fault("api")
  BY DEF RequestFails
<1>6. ApiCrash => Fault("api")
  BY DEF ApiCrash
<1> QED
  BY <1>2, <1>3, <1>4, <1>5, <1>6

LEMMA CarriedStays ==
  ASSUME TypeInv, [Next]_vars, NEW e, NEW d, Carried(e, d)
  PROVE  Carried(e, d)'
<1>1. ASSUME NEW t \in TicketsOf(e)
      PROVE  t \in TicketsOf(e)' /\ (Queued(t) => Queued(t)')
  <2>1. t \in TicketsOf(e)'
    BY TicketsStay DEF TicketsOf
  <2>2. EventsOf(t) \subseteq EventsOf(t)'
    BY StreamGrows DEF EventsOf
  <2> QED
    BY <2>1, <2>2, FaultsStay DEF Queued
<1> QED
  BY <1>1 DEF Carried

\* An event's newest run stays the newest until the worker runs the agent on it.
LEMMA LastRunStays ==
  ASSUME TypeInv, [Next]_vars, NEW e, NEW i, LastRun(e, i), Investigate => delivered # e
  PROVE  LastRun(e, i)' /\ executions'[i] = executions[i]
<1>1. \A j \in DelayRuns : j \in DelayRuns' /\ executions'[j] = executions[j]
  BY ExecutionsStay DEF DelayRuns
<1>2. ASSUME NEW j \in DelayRuns', executions'[j].event = e
      PROVE  j \in DelayRuns
  <2>1. CASE UNCHANGED executions
    BY <2>1 DEF DelayRuns, RunsOf
  <2>2. ASSUME NEW row, executions' = Append(executions, row),
               row.agent # "delayed_order_agent" \/ row.event # e
        PROVE  j \in DelayRuns
    BY <1>2, <2>2, RowAppended DEF DelayRuns, RunsOf
  <2> QED
    BY <2>1, <2>2, ExecutionSteps
<1> QED
  BY <1>1, <1>2 DEF LastRun

LEMMA AskedLastStays ==
  ASSUME TypeInv, [Next]_vars, NEW e, NEW d, AskedLast(e, d), AskHuman => delivered # e
  PROVE  AskedLast(e, d)'
<1>1. PICK k \in Requests : /\ approvals[k].event = e /\ approvals[k].decision = d
                            /\ \A n \in Requests : approvals[n].event = e => n <= k
  BY DEF AskedLast
<1>2. k \in Requests' /\ approvals'[k].event = e /\ approvals'[k].decision = d
  BY <1>1, ApprovalsStay
<1>3. ASSUME NEW n \in Requests', approvals'[n].event = e
      PROVE  n \in Requests /\ approvals[n].event = e
  BY <1>3, Asked, RequestsStay, ApprovalsStay
<1> QED
  BY <1>1, <1>2, <1>3 DEF AskedLast

LEMMA TriagedStays ==
  ASSUME TypeInv, [Next]_vars, NEW m, TriagedEvent(m)
  PROVE  TriagedEvent(m)'
<1>1. CASE UNCHANGED executions
  BY <1>1 DEF TriagedEvent, RunsOf
<1>2. ASSUME NEW row, executions' = Append(executions, row)
      PROVE  TriagedEvent(m)'
  BY <1>2, RowAppended DEF TriagedEvent, RunsOf
<1> QED
  BY <1>1, <1>2, ExecutionSteps

LEMMA DoneStays ==
  ASSUME TypeInv, [Next]_vars, NEW e \in DOMAIN stream, Done(e), Investigate \/ AskHuman => delivered # e
  PROVE  Done(e)'
<1>1. stream'[e] = stream[e]
  BY StreamGrows
<1>2. CASE stream[e].type = "ORDER_DELAYED"
  <2>1. PICK i \in DelayRuns :
          /\ LastRun(e, i)
          /\ executions[i].decision.requires_human => AskedLast(e, executions[i].decision)
          /\ ~executions[i].decision.requires_human => Carried(e, executions[i].decision)
    BY <1>2 DEF Done, Executed
  <2>2. PICK d : d = executions[i].decision
    OBVIOUS
  <2>3. LastRun(e, i)' /\ executions'[i].decision = d
    BY <2>1, <2>2, LastRunStays
  <2>4. d.requires_human => AskedLast(e, d)'
    BY <2>1, <2>2, AskedLastStays
  <2>5. ~d.requires_human => Carried(e, d)'
    BY <2>1, <2>2, CarriedStays
  <2>6. i \in DelayRuns'
    BY <2>3 DEF LastRun
  <2>7. Executed(e)'
    BY <2>3, <2>4, <2>5, <2>6 DEF Executed
  <2> QED
    BY <1>1, <1>2, <2>7 DEF Done
<1>3. CASE stream[e].type # "ORDER_DELAYED"
  BY <1>1, <1>3, TriagedStays DEF Done
<1> QED
  BY <1>2, <1>3

\* Where the worker's steps take it.
LEMMA WorkerTo ==
  ASSUME TypeInv, [Next]_vars
  PROVE  \/ Investigate
         \/ ExecuteDecision(Worker)
         \/ AskHuman /\ job'[Worker].at = "settle"
         \/ Triage /\ job'[Worker].at = "tell"
         \/ TellCustomer /\ job'[Worker].at = "settle"
         \/ job'[Worker].at \in {"start", "bury", "ackDead", "idle"}
         \/ job'[Worker] = job[Worker] /\ UNCHANGED <<delivered, dead>>
<1>1. Worker \in Jobs
  BY StatesTyped DEF TypeInv
<1>2. CASE ReadNext \/ TellCustomer \/ Bury \/ AckDead
  BY <1>1, <1>2, Relabel DEF ReadNext, TellCustomer, Bury, AckDead
<1>3. CASE AskHuman
  BY <1>1, <1>3, StatesTyped DEF AskHuman, TypeInv, JobStates
<1>4. CASE Triage
  <2>1. PICK v \in Verdicts : job' = [job EXCEPT ![Worker] =
                                 [at |-> "tell", decision |-> v, ticket |-> stream[delivered].ticket]]
    BY <1>4 DEF Triage
  <2>2. job'[Worker] = [at |-> "tell", decision |-> v, ticket |-> stream[delivered].ticket]
    BY <1>1, <2>1, Reset, Zenon
  <2> QED
    BY <1>4, <2>2
<1>5. CASE AttemptFails \/ WorkerCrash
  BY <1>1, <1>5, Reset DEF AttemptFails, WorkerCrash, Retry, GiveUp, Idle
<1> QED
  BY <1>2, <1>3, <1>4, <1>5, WorkerSteps

\* execute_decision acts on one decision to the end, about one event.
LEMMA ExecuteKeeps ==
  ASSUME TypeInv, NEW x \in Jobs, ExecuteDecision(x)
  PROVE  /\ job'[x].at # "idle" => job'[x].decision = job[x].decision
         /\ EventOf(x)' = EventOf(x)
<1>1. EventOf(x)' = EventOf(x)
  BY ExecuteMoves DEF EventOf
<1>2. CASE CommitTicket(x) /\ job[x].decision.resolution # "NO_ACTION"
  <2>1. PICK l \in {"publish", "email"} : job' = [job EXCEPT ![x].ticket = Len(tickets'), ![x].at = l]
    BY <1>2, Zenon DEF CommitTicket
  <2>2. job[x] \in JobStates /\ job \in [Jobs -> JobStates]
    BY StatesTyped DEF TypeInv, TypeOK
  <2>3. job'[x].decision = job[x].decision
    BY <2>1, <2>2 DEF JobStates
  <2> QED
    BY <1>1, <2>3
<1>3. CASE CommitTicket(x) /\ job[x].decision.resolution = "NO_ACTION"
  BY <1>1, <1>3, Relabel DEF CommitTicket
<1>4. CASE PublishTicket(x) \/ SendEmail(x)
  BY <1>1, <1>4, Relabel DEF PublishTicket, SendEmail
<1>5. CASE Settle(x)
  BY <1>1, <1>5, Reset DEF Settle, Idle
<1> QED
  BY <1>2, <1>3, <1>4, <1>5 DEF ExecuteDecision

\* Once an executor gets to the email, its decision is carried out.
LEMMA ExecutionCarries ==
  ASSUME TypeInv, PublishLinks, [Next]_vars, NEW x \in Jobs, ExecuteDecision(x), job'[x].at = "email"
  PROVE  Carried(EventOf(x), job[x].decision)'
<1> DEFINE d == job[x].decision
<1>1. d \in Decisions /\ EventOf(x) \in 1..delivered /\ job[x].at \in {"ticket", "publish"}
  BY ExecuteFrom, Executor DEF TypeInv, Ready, Busy
<1>2. PICK e, c : e = EventOf(x) /\ c = d
  OBVIOUS
<1>3. EventOf(x)' = e /\ job'[x].decision = c
  BY <1>2, ExecuteKeeps
<1>4. CASE CommitTicket(x) /\ c.resolution = "NO_ACTION"
  BY <1>2, <1>3, <1>4 DEF Carried
<1>5. CASE CommitTicket(x) /\ c.resolution # "NO_ACTION"
  <2>1. PICK t : t = Len(tickets')
    OBVIOUS
  <2>2. PICK l : /\ l = IF c.resolution \in TRIAGE_RESOLUTIONS THEN "publish" ELSE "email"
                 /\ job' = [job EXCEPT ![x].ticket = Len(tickets'), ![x].at = l]
    BY <1>2, <1>5, Zenon DEF CommitTicket
  <2>3. job[x] \in JobStates /\ job \in [Jobs -> JobStates]
    BY StatesTyped DEF TypeInv, TypeOK
  <2>4. job'[x].at = l
    BY <2>2, <2>3 DEF JobStates
  <2>5. c.resolution \notin TRIAGE_RESOLUTIONS
    BY <2>2, <2>4
  <2>6. PICK row : /\ row = Ticket(IF x = Worker THEN "worker" ELSE "request", EventOf(x), d, d.severity)
                   /\ tickets' = Append(tickets, row)
    BY <1>2, <1>5 DEF CommitTicket
  <2>7. row.by # "customer" /\ row.event = e
    BY <1>2, <2>6 DEF Ticket
  <2>8. row \in TicketRows
    BY <1>1, <2>6, DecisionFields, EventOfTyped DEF Ticket, TicketRows
  <2>9. t \in DOMAIN tickets' /\ tickets'[t] = row
    BY <2>1, <2>6, <2>8, AppendProperties, LenProperties DEF TypeInv, TypeOK
  <2>10. t \in TicketsOf(e)'
    BY <2>7, <2>9 DEF TicketsOf
  <2> QED
    BY <1>2, <1>3, <2>5, <2>10 DEF Carried
<1>6. CASE PublishTicket(x)
  <2>1. PICK t : t = job[x].ticket
    OBVIOUS
  <2>2. t \in TicketsOf(e)
    BY <1>2, <1>6, <2>1 DEF PublishLinks, PublishTicket, TicketsOf, OfCustomer
  <2>3. t \in TicketsOf(e)'
    BY <2>2, TicketsStay DEF TicketsOf
  <2>4. CASE stream' = Append(stream, TicketCreated(job[x].ticket, EventOf(x)))
    <3>1. PICK row : row = TicketCreated(job[x].ticket, EventOf(x))
      OBVIOUS
    <3>2. row.ticket = t /\ row \in EventRows
      BY <2>1, <3>1, StatesTyped, EventOfTyped DEF TypeInv, JobStates, TicketCreated, EventRows
    <3>3. Len(stream) + 1 \in DOMAIN stream' /\ stream'[Len(stream) + 1] = row
      BY <2>4, <3>1, <3>2, AppendProperties, LenProperties DEF TypeInv, TypeOK
    <3>4. Len(stream) + 1 \in EventsOf(t)'
      BY <3>2, <3>3 DEF EventsOf
    <3> QED
      BY <1>2, <1>3, <2>3, <3>4 DEF Carried, Queued
  <2>5. CASE Fault("publish")
    <3>1. faults'["publish"] > 0
      BY <2>5, FaultsStay
    <3> QED
      BY <1>2, <1>3, <2>3, <3>1 DEF Carried, Queued
  <2> QED
    BY <1>6, <2>4, <2>5 DEF PublishTicket
<1>7. CASE SendEmail(x) \/ Settle(x)
  BY <1>1, <1>7 DEF SendEmail, Settle
<1> QED
  BY <1>2, <1>4, <1>5, <1>6, <1>7 DEF ExecuteDecision

\* A run of the agent is its event's newest.
LEMMA RunIsLast ==
  ASSUME TypeInv, Investigate
  PROVE  \E i \in DelayRuns' : LastRun(delivered, i)' /\ executions'[i].decision = job'[Worker].decision
<1>1. PICK d \in Decisions :
        /\ executions' = Append(executions, [agent |-> "delayed_order_agent", event |-> delivered,
                                             task |-> delivered, ticket |-> 0, decision |-> d])
        /\ job' = [job EXCEPT ![Worker] = [at |-> IF d.requires_human THEN "ask" ELSE "ticket",
                                            decision |-> d, ticket |-> 0]]
  BY DEF Investigate
<1>2. job'[Worker] = [at |-> IF d.requires_human THEN "ask" ELSE "ticket", decision |-> d, ticket |-> 0]
  BY <1>1, StatesTyped, Reset, Zenon DEF TypeInv
<1>3. job'[Worker].decision = d
  BY <1>2
<1>4. PICK n : n = Len(executions) + 1
  OBVIOUS
<1>5. /\ DOMAIN executions' = DOMAIN executions \cup {n} /\ n \in Nat
      /\ executions'[n] = [agent |-> "delayed_order_agent", event |-> delivered,
                           task |-> delivered, ticket |-> 0, decision |-> d]
      /\ \A i \in DOMAIN executions : executions'[i] = executions[i] /\ i < n /\ i \in Nat
  BY <1>1, <1>4, RowAppended, RowTypes
<1>6. n \in DelayRuns' /\ executions'[n].event = delivered /\ executions'[n].decision = d
  BY <1>5 DEF DelayRuns, RunsOf
<1>7. \A j \in DelayRuns' : j <= n
  BY <1>5 DEF DelayRuns, RunsOf
<1>8. delivered' = delivered
  BY DEF Investigate, redis
<1> QED
  BY <1>3, <1>6, <1>7, <1>8 DEF LastRun

LEMMA OnNewestStep == ASSUME TypeInv, OnNewest, [Next]_vars PROVE OnNewest'
<1> SUFFICES ASSUME job'[Worker].at \in {"ask", "ticket", "publish", "email"}
             PROVE  /\ \E i \in DelayRuns' : LastRun(delivered, i)' /\ executions'[i].decision = job'[Worker].decision
                    /\ job'[Worker].decision.requires_human <=> job'[Worker].at = "ask"
  BY DEF OnNewest
<1>1. Worker \in Jobs
  BY StatesTyped DEF TypeInv
<1>2. CASE Investigate
  <2>1. PICK d \in Decisions : job' = [job EXCEPT ![Worker] =
                                 [at |-> IF d.requires_human THEN "ask" ELSE "ticket",
                                  decision |-> d, ticket |-> 0]]
    BY <1>2 DEF Investigate
  <2>2. job'[Worker] = [at |-> IF d.requires_human THEN "ask" ELSE "ticket",
                        decision |-> d, ticket |-> 0]
    BY <1>1, <2>1, Reset, Zenon
  <2>3. job'[Worker].decision.requires_human <=> job'[Worker].at = "ask"
    BY <2>2
  <2> QED
    BY <1>2, <2>3, RunIsLast
<1>3. ASSUME ~Investigate, UNCHANGED delivered, job[Worker].at \in {"ask", "ticket", "publish", "email"},
             job'[Worker].decision = job[Worker].decision, job'[Worker].at = "ask" <=> job[Worker].at = "ask"
      PROVE  /\ \E i \in DelayRuns' : LastRun(delivered, i)' /\ executions'[i].decision = job'[Worker].decision
             /\ job'[Worker].decision.requires_human <=> job'[Worker].at = "ask"
  <2>1. PICK i \in DelayRuns : LastRun(delivered, i) /\ executions[i].decision = job[Worker].decision
    BY <1>3 DEF OnNewest
  <2>2. PICK e : e = delivered
    OBVIOUS
  <2>3. LastRun(e, i)' /\ executions'[i] = executions[i]
    BY <1>3, <2>1, <2>2, LastRunStays
  <2>4. i \in DelayRuns' /\ LastRun(delivered, i)'
    BY <1>3, <2>2, <2>3 DEF LastRun
  <2> QED
    BY <1>3, <2>1, <2>3, <2>4 DEF OnNewest
<1>4. CASE ExecuteDecision(Worker)
  <2>1. job[Worker].at \in {"ticket", "publish"} /\ job'[Worker].at \in {"publish", "email"}
    BY <1>1, <1>4, ExecuteMoves, ExecuteFrom
  <2>2. job'[Worker].decision = job[Worker].decision /\ UNCHANGED delivered
    BY <1>1, <1>4, <2>1, ExecuteMoves, ExecuteKeeps
  <2>3. ~Investigate
    BY <2>1 DEF Investigate
  <2> QED
    BY <1>3, <2>1, <2>2, <2>3
<1>5. CASE ~Investigate /\ job'[Worker] = job[Worker] /\ UNCHANGED <<delivered, dead>>
  BY <1>3, <1>5
<1> QED
  BY <1>2, <1>4, <1>5, WorkerTo

LEMMA CarriesOutStep == ASSUME TypeInv, PublishLinks, CarriesOut, [Next]_vars PROVE CarriesOut'
<1> SUFFICES ASSUME job'[Worker].at = "email"
             PROVE  Carried(delivered, job[Worker].decision)'
  BY DEF CarriesOut
<1>1. Worker \in Jobs
  BY StatesTyped DEF TypeInv
<1>2. CASE Investigate
  <2>1. PICK d \in Decisions : job' = [job EXCEPT ![Worker] =
                                 [at |-> IF d.requires_human THEN "ask" ELSE "ticket",
                                  decision |-> d, ticket |-> 0]]
    BY <1>2 DEF Investigate
  <2>2. job'[Worker] = [at |-> IF d.requires_human THEN "ask" ELSE "ticket",
                        decision |-> d, ticket |-> 0]
    BY <1>1, <2>1, Reset, Zenon
  <2> QED
    BY <2>2
<1>3. CASE ExecuteDecision(Worker)
  BY <1>1, <1>3, ExecutionCarries DEF EventOf
<1>4. CASE job'[Worker] = job[Worker] /\ UNCHANGED <<delivered, dead>>
  <2>1. PICK e, d : e = delivered /\ d = job[Worker].decision
    OBVIOUS
  <2>2. Carried(e, d)'
    BY <1>4, <2>1, CarriedStays DEF CarriesOut
  <2> QED
    BY <1>4, <2>1, <2>2
<1> QED
  BY <1>2, <1>3, <1>4, WorkerTo

LEMMA TriageIsDone == ASSUME TypeInv, Triage PROVE TriagedEvent(delivered)'
<1>1. PICK row : /\ row = [agent |-> "triage_agent", event |-> delivered,
                           task |-> IF stream[delivered].task = 0 THEN delivered ELSE stream[delivered].task,
                           ticket |-> stream[delivered].ticket, decision |-> None]
                 /\ executions' = Append(executions, row)
  BY DEF Triage
<1>2. row.agent = "triage_agent" /\ row.event = delivered
  BY <1>1
<1>3. Len(executions) + 1 \in DOMAIN executions' /\ executions'[Len(executions) + 1] = row
  BY <1>1, RowAppended
<1>4. delivered' = delivered
  BY DEF Triage, redis
<1> QED
  BY <1>2, <1>3, <1>4 DEF TriagedEvent, RunsOf

\* What was asked is the newest of its event.
LEMMA AskedIsLast == ASSUME TypeInv, AskHuman PROVE AskedLast(delivered, job[Worker].decision)'
<1>1. PICK n : n = Len(approvals) + 1
  OBVIOUS
<1>2. /\ n \in Requests' /\ approvals'[n].event = delivered
      /\ approvals'[n].decision = job[Worker].decision
  BY <1>1, Asked
<1>3. \A k \in Requests' : k <= n
  <2>1. Requests = 1..Len(approvals) /\ Len(approvals) \in Nat
    BY LenProperties DEF TypeInv, TypeOK, Requests
  <2>2. Requests' = Requests \cup {n}
    BY <1>1, Asked
  <2> QED
    BY <1>1, <2>1, <2>2
<1>4. job'[Worker].decision = job[Worker].decision /\ delivered' = delivered
  BY StatesTyped DEF AskHuman, TypeInv, JobStates, redis
<1> QED
  BY <1>2, <1>3, <1>4 DEF AskedLast

LEMMA SettlesDoneStep ==
  ASSUME TypeInv, Lane, OnNewest, CarriesOut, SettlesDone, [Next]_vars
  PROVE  SettlesDone'
<1>1. Worker \in Jobs
  BY StatesTyped DEF TypeInv
<1>2. ASSUME Busy(Worker)
      PROVE  delivered \in DOMAIN stream /\ stream'[delivered] = stream[delivered]
  BY <1>2, InHand, StreamGrows
<1>3. CASE Investigate
  <2>1. PICK d \in Decisions : job' = [job EXCEPT ![Worker] =
                                 [at |-> IF d.requires_human THEN "ask" ELSE "ticket",
                                  decision |-> d, ticket |-> 0]]
    BY <1>3 DEF Investigate
  <2>2. job'[Worker] = [at |-> IF d.requires_human THEN "ask" ELSE "ticket",
                        decision |-> d, ticket |-> 0]
    BY <1>1, <2>1, Reset, Zenon
  <2> QED
    BY <2>2 DEF SettlesDone
<1>4. CASE AskHuman
  <2>1. PICK d, e : d = job[Worker].decision /\ e = delivered
    OBVIOUS
  <2>2. job[Worker].at = "ask" /\ d.requires_human /\ stream[e].type = "ORDER_DELAYED"
    BY <1>4, <2>1 DEF AskHuman, OnNewest, Lane
  <2>3. PICK i \in DelayRuns : LastRun(e, i) /\ executions[i].decision = d
    BY <2>1, <2>2 DEF OnNewest
  <2>4. ~Investigate
    BY <2>2 DEF Investigate
  <2>5. LastRun(e, i)' /\ executions'[i] = executions[i]
    BY <2>3, <2>4, LastRunStays
  <2>6. job'[Worker].decision = d /\ delivered' = e /\ job'[Worker].at = "settle"
    BY <1>1, <1>4, <2>1, StatesTyped DEF AskHuman, TypeInv, JobStates, redis
  <2>7. AskedLast(e, d)'
    BY <1>4, <2>1, <2>6, AskedIsLast
  <2>8. Executed(e)'
    BY <2>2, <2>3, <2>5, <2>7 DEF Executed, LastRun
  <2>9. Done(delivered)'
    BY <1>2, <2>1, <2>2, <2>6, <2>8 DEF Done, Busy
  <2> QED
    BY <2>6, <2>9 DEF SettlesDone
<1>5. CASE ExecuteDecision(Worker) /\ job'[Worker].at = "settle"
  <2>1. PICK d, e : d = job[Worker].decision /\ e = delivered
    OBVIOUS
  <2>2. job[Worker].at = "email" /\ delivered' = e
    BY <1>1, <1>5, <2>1, ExecuteMoves, ExecuteFrom
  <2>3. ~d.requires_human /\ stream[e].type = "ORDER_DELAYED" /\ Carried(e, d)
    BY <2>1, <2>2 DEF OnNewest, Lane, CarriesOut
  <2>4. PICK i \in DelayRuns : LastRun(e, i) /\ executions[i].decision = d
    BY <2>1, <2>2 DEF OnNewest
  <2>5. ~Investigate
    BY <2>2 DEF Investigate
  <2>6. LastRun(e, i)' /\ executions'[i] = executions[i]
    BY <2>4, <2>5, LastRunStays
  <2>7. Carried(e, d)'
    BY <2>3, CarriedStays
  <2>8. Executed(e)'
    BY <2>3, <2>4, <2>6, <2>7 DEF Executed, LastRun
  <2>9. Done(delivered)'
    BY <1>2, <2>1, <2>2, <2>3, <2>8 DEF Done, Busy
  <2> QED
    BY <1>5, <2>9 DEF SettlesDone
<1>6. CASE ExecuteDecision(Worker) /\ job'[Worker].at # "settle"
  BY <1>1, <1>6, ExecuteMoves DEF SettlesDone
<1>7. CASE Triage /\ job'[Worker].at = "tell"
  BY <1>7, TriageIsDone DEF SettlesDone
<1>8. CASE TellCustomer /\ job'[Worker].at = "settle"
  <2>1. PICK e : e = delivered
    OBVIOUS
  <2>2. TriagedEvent(e) /\ stream[e].type = "TICKET_CREATED" /\ delivered' = e
    BY <1>8, <2>1 DEF TellCustomer, SettlesDone, Lane, redis
  <2>3. TriagedEvent(e)'
    BY <2>2, TriagedStays
  <2>4. Done(delivered)'
    BY <1>2, <1>8, <2>1, <2>2, <2>3 DEF Done, TellCustomer, Busy
  <2> QED
    BY <1>8, <2>4 DEF SettlesDone
<1>9. CASE job'[Worker].at \in {"start", "bury", "ackDead", "idle"}
  BY <1>9 DEF SettlesDone
<1>10. CASE job'[Worker] = job[Worker] /\ UNCHANGED <<delivered, dead>>
  <2>1. PICK e : e = delivered
    OBVIOUS
  <2>2. ASSUME job[Worker].at = "settle"
        PROVE  Done(e)'
    BY <1>2, <2>1, <2>2, DoneStays DEF Investigate, AskHuman, SettlesDone, Busy
  <2>3. ASSUME job[Worker].at = "tell"
        PROVE  TriagedEvent(e)'
    BY <2>1, <2>3, TriagedStays DEF SettlesDone
  <2> QED
    BY <1>10, <2>1, <2>2, <2>3 DEF SettlesDone
<1> QED
  BY <1>3, <1>4, <1>5, <1>6, <1>7, <1>8, <1>9, <1>10, WorkerTo

\* An event stays buried, in hand or done; one that is read is in hand.
LEMMA ReadIsDoneStep ==
  ASSUME TypeInv, Lane, SettlesDone, ReadIsDone, [Next]_vars
  PROVE  ReadIsDone'
<1> SUFFICES ASSUME NEW e \in 1..delivered'
             PROVE  e \in dead' \/ WorkerOn(e)' \/ Done(e)'
  BY DEF ReadIsDone
<1>1. Worker \in Jobs /\ delivered \in Nat /\ e \in Nat /\ dead \subseteq dead'
  BY StatesTyped, TypeStep, DeadStay DEF TypeInv
<1>2. CASE e \in 1..delivered
  <2>1. e \in DOMAIN stream
    BY <1>2, StatesTyped, LenProperties DEF TypeInv, TypeOK
  <2>2. CASE WorkerOn(e)
    <3>1. CASE job[Worker].at = "settle"
      BY <2>1, <2>2, <3>1, DoneStays DEF WorkerOn, SettlesDone, Investigate, AskHuman
    <3> QED
      BY <2>2, <3>1, HandStays DEF WorkerOn
  <2>3. CASE Done(e) /\ ~WorkerOn(e)
    BY <2>1, <2>3, DoneStays DEF WorkerOn, Investigate, AskHuman, Busy
  <2> QED
    BY <1>1, <1>2, <2>2, <2>3 DEF ReadIsDone
<1>3. CASE e \notin 1..delivered
  <2>1. ReadNext
    BY <1>1, <1>3, WorkerSteps, ExecuteMoves DEF Investigate, AskHuman, Triage, TellCustomer, Bury, AckDead,
       AttemptFails, WorkerCrash, redis
  <2>2. delivered' = delivered + 1 /\ job'[Worker].at = "start"
    BY <1>1, <2>1, Relabel DEF ReadNext
  <2>3. e = delivered'
    BY <1>1, <1>3, <2>2
  <2> QED
    BY <2>2, <2>3 DEF WorkerOn, Busy
<1> QED
  BY <1>2, <1>3

LEMMA RequestsActStep == ASSUME TypeInv, RequestsAct, [Next]_vars PROVE RequestsAct'
<1> SUFFICES ASSUME NEW k \in Requests', job'[k].at \in {"ticket", "publish"}
             PROVE  job'[k].decision = approvals'[k].decision
  BY DEF RequestsAct
<1>1. CASE AskHuman
  BY <1>1, Asked DEF RequestsAct, Idle
<1>2. CASE ~AskHuman
  <2>1. k \in Requests /\ k \in Jobs /\ approvals'[k].decision = approvals[k].decision
    BY <1>2, RequestsStay, ApprovalsStay, StatesTyped DEF TypeInv
  <2>2. CASE job'[k] = job[k]
    BY <2>1, <2>2 DEF RequestsAct
  <2>3. CASE ExecuteDecision(k)
    <3>1. job'[k].at = "publish" /\ job[k].at \in {"ticket", "publish"}
      BY <2>1, <2>3, ExecuteMoves, ExecuteFrom
    <3> QED
      BY <2>1, <2>3, <3>1, ExecuteKeeps DEF RequestsAct
  <2>4. CASE Approve(k)
    <3>1. job'[k] = [at |-> "ticket", ticket |-> 0, decision |-> approvals[k].decision]
      BY <2>1, <2>4, Reset DEF Approve
    <3> QED
      BY <2>1, <3>1
  <2>5. CASE Reject(k) \/ ReleaseApproval(k)
    BY <2>1, <2>2, <2>5, Reviewed DEF Idle
  <2>6. CASE RequestFails(k)
    BY <2>1, <2>6, Relabel DEF RequestFails
  <2>7. CASE job'[k] = Idle
    BY <2>7 DEF Idle
  <2> QED
    BY <1>2, <2>1, <2>2, <2>3, <2>4, <2>5, <2>6, <2>7, RequestSteps
<1> QED
  BY <1>1, <1>2

\* An approval is on the way while its request is, and the request leaves it
\* carried out, given back, or counted as a fault.
LEMMA ApprovedIsDoneStep ==
  ASSUME TypeInv, PublishLinks, RequestsAct, ApprovedIsDone, [Next]_vars
  PROVE  ApprovedIsDone'
<1> SUFFICES ASSUME NEW k \in Requests', approvals'[k].status = "APPROVED",
                    ~(faults'["api"] > 0), job'[k].at \notin {"ticket", "publish"}
             PROVE  Carried(approvals[k].event, approvals[k].decision)'
  BY DEF ApprovedIsDone
<1>1. k \in Requests
  BY Asked, RequestsStay
<1>2. PICK e, d : e = approvals[k].event /\ d = approvals[k].decision
  OBVIOUS
<1>3. approvals'[k].event = e /\ approvals'[k].decision = d
  BY <1>1, <1>2, ApprovalsStay
<1>4. k \in Jobs /\ k # Worker /\ approvals \in Seq(ApprovalRows) /\ approvals[k] \in ApprovalRows
  BY <1>1, StatesTyped, ElementOfSeq DEF TypeInv, TypeOK, Worker
<1>5. ASSUME Carried(e, d)
      PROVE  Carried(approvals[k].event, approvals[k].decision)'
  <2>1. Carried(e, d)'
    BY <1>5, CarriedStays
  <2> QED
    BY <1>3, <2>1
<1>6. CASE job'[k] = job[k] /\ approvals'[k] = approvals[k]
  BY <1>1, <1>2, <1>5, <1>6, FaultsStay DEF ApprovedIsDone
<1>7. CASE AskHuman
  BY <1>1, <1>6, <1>7, Asked
<1>8. CASE ExecuteDecision(k) /\ ~AskHuman
  <2>1. approvals'[k] = approvals[k]
    BY <1>4, <1>8, ExecuteMoves
  <2>2. CASE job'[k].at = "email"
    <3>1. Carried(EventOf(k), job[k].decision)'
      BY <1>4, <1>8, <2>2, ExecutionCarries
    <3>2. job[k].at \in {"ticket", "publish"}
      BY <1>4, <1>8, <2>2, ExecuteFrom
    <3>3. job'[k].decision = d
      BY <1>1, <1>2, <1>4, <1>8, <2>2, <3>2, ExecuteKeeps DEF RequestsAct
    <3>4. EventOf(k)' = e
      BY <1>3, <1>4 DEF EventOf, Worker
    <3> QED
      BY <1>3, <3>1, <3>3, <3>4
  <2>3. CASE job'[k].at \in {"settle", "idle"}
    <3>1. job[k].at \in {"email", "settle"}
      BY <1>4, <1>8, <2>3, ExecuteFrom
    <3> QED
      BY <1>1, <1>2, <1>5, <2>1, <3>1, FaultsStay DEF ApprovedIsDone
  <2> QED
    BY <1>4, <1>8, <2>2, <2>3, ExecuteMoves
<1>9. CASE Approve(k)
  <2>1. job'[k] = [at |-> "ticket", ticket |-> 0, decision |-> approvals[k].decision]
    BY <1>4, <1>9, Reset DEF Approve
  <2> QED
    BY <2>1
<1>10. CASE Reject(k)
  <2>1. approvals' = [approvals EXCEPT ![k].status = "REJECTED"]
    BY <1>10 DEF Reject, Claim
  <2> QED
    BY <1>1, <1>4, <2>1 DEF ApprovalRows, Requests
<1>11. CASE RequestFails(k) \/ ApiCrash
  BY <1>1, <1>11, FaultsStay
<1>12. CASE ReleaseApproval(k)
  <2>1. approvals' = [approvals EXCEPT ![k].status =
                        IF approvals[k].status = "APPROVED" THEN "PENDING" ELSE approvals[k].status]
    BY <1>12 DEF ReleaseApproval
  <2> QED
    BY <1>1, <1>4, <2>1 DEF ApprovalRows, Requests
<1> QED
  BY <1>1, <1>6, <1>7, <1>8, <1>9, <1>10, <1>11, <1>12, RequestSteps

LEMMA ApprovalsInOrderStep ==
  ASSUME TypeInv, Lane, ApprovalsInOrder, [Next]_vars
  PROVE  ApprovalsInOrder'
<1>1. \A k \in Requests : approvals[k].event \in 1..delivered /\ approvals[k].event \in DOMAIN stream
  BY EventsRead, StatesTyped, LenProperties DEF TypeInv, TypeOK
<1>2. \A k \in Requests : stream'[approvals'[k].event].type = "ORDER_DELAYED"
  BY <1>1, StreamGrows, ApprovalsStay DEF ApprovalsInOrder
<1>3. CASE AskHuman
  <2>1. PICK n : n = Len(approvals) + 1
    OBVIOUS
  <2>2. Requests' = Requests \cup {n} /\ approvals'[n].event = delivered
    BY <1>3, <2>1, Asked
  <2>3. Requests = 1..Len(approvals) /\ Len(approvals) \in Nat /\ delivered \in Nat
    BY StatesTyped, LenProperties DEF TypeInv, TypeOK, Requests
  <2>4. stream[delivered].type = "ORDER_DELAYED" /\ delivered \in DOMAIN stream
    BY <1>3, InHand DEF AskHuman, Lane, Busy
  <2>5. stream'[approvals'[n].event].type = "ORDER_DELAYED"
    BY <2>2, <2>4, StreamGrows
  <2>6. ASSUME NEW k \in Requests', NEW m \in Requests', k <= m
        PROVE  approvals'[k].event <= approvals'[m].event
    <3>1. CASE m = n
      BY <1>1, <2>2, <2>3, <3>1, ApprovalsStay
    <3>2. CASE m # n
      <4>1. k \in Requests /\ m \in Requests
        BY <2>1, <2>2, <2>3, <2>6, <3>2
      <4> QED
        BY <2>6, <4>1, ApprovalsStay DEF ApprovalsInOrder
    <3> QED
      BY <3>1, <3>2
  <2> QED
    BY <1>2, <2>2, <2>5, <2>6 DEF ApprovalsInOrder
<1>4. CASE ~AskHuman
  BY <1>2, <1>4, RequestsStay, ApprovalsStay DEF ApprovalsInOrder
<1> QED
  BY <1>3, <1>4

LEMMA WorkAlways == Spec => [](WorkInv /\ PaperInv)
<1>1. Init => WorkInv /\ PaperInv
  BY EmptySeq DEF Init, WorkInv, PaperInv, OnNewest, CarriesOut, SettlesDone, ReadIsDone, RequestsAct,
     ApprovedIsDone, ApprovalsInOrder, Requests, Worker, Idle
<1>2. TypeInv /\ Lane /\ Links /\ WorkInv /\ PaperInv /\ [Next]_vars => (WorkInv /\ PaperInv)'
  BY OnNewestStep, CarriesOutStep, SettlesDoneStep, ReadIsDoneStep, RequestsActStep, ApprovedIsDoneStep,
     ApprovalsInOrderStep DEF WorkInv, PaperInv, Links
<1> QED
  BY <1>1, <1>2, LaneAlways, LinksAlways, Typed, PTL DEF Spec

LEMMA NewestRows ==
  ASSUME NEW n \in Nat, NEW S \in SUBSET (1..n)
  PROVE  /\ NewestRow(S) = 0 <=> S = {}
         /\ S # {} => NewestRow(S) \in S /\ \A y \in S : y <= NewestRow(S)
<1>1. S # {} => Max(S) \in S /\ \A y \in S : y <= Max(S)
  BY Newest
<1>2. CASE S = {}
  BY <1>2 DEF NewestRow
<1>3. CASE S # {}
  <2>1. NewestRow(S) = Max(S)
    BY <1>3 DEF NewestRow
  <2>2. Max(S) \in 1..n
    BY <1>1, <1>3
  <2> QED
    BY <1>1, <1>3, <2>1, <2>2
<1> QED
  BY <1>2, <1>3

\* The rows the timeline picks.
LEMMA Picked ==
  ASSUME TypeInv
  PROVE  /\ Latest # 0 => Latest \in Delays /\ \A e \in Delays : e <= Latest
         /\ Approval = 0 <=> Requests = {}
         /\ Approval # 0 => Approval \in Requests /\ \A k \in Requests : k <= Approval
<1>1. /\ Len(stream) \in Nat /\ Delays \in SUBSET (1..Len(stream))
      /\ Len(approvals) \in Nat /\ Requests = 1..Len(approvals)
  BY LenProperties DEF TypeInv, TypeOK, Delays, Requests
<1>2. Latest # 0 => Latest \in Delays /\ \A e \in Delays : e <= Latest
  BY <1>1, NewestRows DEF Latest
<1>3. /\ Approval = 0 <=> Requests = {}
      /\ Approval # 0 => Approval \in Requests /\ \A k \in Requests : k <= Approval
  BY <1>1, NewestRows DEF Approval, Requests
<1> QED
  BY <1>2, <1>3

LEMMA PickedRuns ==
  ASSUME TypeInv, NEW e
  PROVE  /\ DelayRun(e) # 0 => LastRun(e, DelayRun(e))
         /\ \A i : LastRun(e, i) => DelayRun(e) = i
         /\ \A i \in RunsOf("triage_agent") : TriageRun # 0
<1> DEFINE S == {i \in DelayRuns : executions[i].event = e}
<1>1. DOMAIN executions = 1..Len(executions) /\ Len(executions) \in Nat
  BY LenProperties DEF TypeInv, TypeOK
<1>2. S \in SUBSET (1..Len(executions)) /\ DelayRun(e) = NewestRow(S)
  BY <1>1 DEF DelayRun, DelayRuns, RunsOf
<1>3. /\ DelayRun(e) = 0 <=> S = {}
      /\ S # {} => DelayRun(e) \in S /\ \A y \in S : y <= DelayRun(e)
  <2>1. PICK T, n : T = S /\ n = Len(executions)
    OBVIOUS
  <2>2. n \in Nat /\ T \in SUBSET (1..n) /\ DelayRun(e) = NewestRow(T)
    BY <1>1, <1>2, <2>1
  <2>3. /\ NewestRow(T) = 0 <=> T = {}
        /\ T # {} => NewestRow(T) \in T /\ \A y \in T : y <= NewestRow(T)
    BY <2>2, NewestRows, Zenon
  <2> QED
    BY <2>1, <2>2, <2>3
<1>4. ASSUME NEW i, LastRun(e, i)
      PROVE  DelayRun(e) = i
  <2>1. i \in S /\ \A y \in S : y <= i
    BY <1>4 DEF LastRun
  <2>2. DelayRun(e) <= i /\ i <= DelayRun(e) /\ i \in Nat /\ DelayRun(e) \in Nat
    BY <1>1, <1>2, <1>3, <2>1
  <2> QED
    BY <2>2
<1>5. DelayRun(e) # 0 => LastRun(e, DelayRun(e))
  BY <1>3 DEF LastRun
<1>6. \A i \in RunsOf("triage_agent") : TriageRun # 0
  <2>1. RunsOf("triage_agent") \in SUBSET (1..Len(executions))
    BY <1>1 DEF RunsOf
  <2> QED
    BY <1>1, <2>1, NewestRows DEF TriageRun
<1> QED
  BY <1>4, <1>5, <1>6

\* What a state on the timeline reports.
LEMMA Reports ==
  ASSUME NEW e, NEW reading, NEW d, d = executions[DelayRun(e)].decision,
         NEW state, state = Timeline(e, reading).state
  PROVE  /\ DelayRun(e) = 0 => state \in {"failed", "in_progress"}
         /\ DelayRun(e) # 0 =>
              /\ state = "awaiting_approval" =>
                   d.requires_human /\ (Approval = 0 \/ approvals[Approval].status = "PENDING")
              /\ state = "complete" =>
                   \/ Approval # 0 /\ approvals[Approval].status = "REJECTED"
                   \/ d.requires_human => Approval # 0 /\ approvals[Approval].status \notin {"PENDING", "REJECTED"}
              /\ state = "in_progress" =>
                   /\ d.requires_human => Approval # 0 /\ approvals[Approval].status \notin {"PENDING", "REJECTED"}
                   /\ d.resolution \in TRIAGE_RESOLUTIONS
                   /\ TriageRun = 0 /\ DeadLetters("TICKET_CREATED", reading) = {}
<1> DEFINE status == IF Approval = 0 THEN "PENDING" ELSE approvals[Approval].status
<1>1. CASE DelayRun(e) = 0
  <2>1. AgentStage(e, reading).state \in {"failed", "in_progress"}
    BY DEF AgentStage, Stage
  <2>2. Timeline(e, reading) = AgentStage(e, reading)
    BY <1>1 DEF Timeline
  <2> QED
    BY <1>1, <2>1, <2>2
<1>2. CASE DelayRun(e) # 0
  <2>1. PICK st : st = status
    OBVIOUS
  <2>2. /\ Approval = 0 => st = "PENDING"
        /\ Approval # 0 => st = approvals[Approval].status
    BY <2>1
  <2>3. /\ TriageStage(reading).state \in {"complete", "failed", "in_progress"}
        /\ TriageStage(reading).state = "in_progress" => TriageRun = 0 /\ DeadLetters("TICKET_CREATED", reading) = {}
    BY DEF TriageStage, Stage
  <2>4. /\ ActionsStage(d, reading).state \in {"complete", "failed", "in_progress"}
        /\ ActionsStage(d, reading).state = "in_progress" =>
             d.resolution \in TRIAGE_RESOLUTIONS /\ TriageRun = 0 /\ DeadLetters("TICKET_CREATED", reading) = {}
    BY <2>3 DEF ActionsStage, Stage
  <2>6. CASE d.requires_human /\ st = "PENDING"
    <3>1. state = "awaiting_approval"
      BY <1>2, <2>1, <2>6 DEF Timeline, Stage
    <3> QED
      BY <1>2, <2>2, <2>6, <3>1
  <2>7. CASE d.requires_human /\ st = "REJECTED"
    <3>1. state = "complete"
      BY <1>2, <2>1, <2>7 DEF Timeline, Stage
    <3> QED
      BY <1>2, <2>2, <2>7, <3>1
  <2>8. CASE d.requires_human => st \notin {"PENDING", "REJECTED"}
    <3>1. state = ActionsStage(d, reading).state
      BY <1>2, <2>1, <2>8 DEF Timeline
    <3> QED
      BY <1>2, <2>2, <2>4, <2>8, <3>1
  <2> QED
    BY <2>6, <2>7, <2>8
<1> QED
  BY <1>1, <1>2

\* The latest delay, read, not buried and out of the worker's hands: its newest
\* decision was carried out, or the newest approval is of it.
LEMMA LatestDone ==
  ASSUME TypeInv, WorkInv, PaperInv, Latest # 0, Latest <= delivered, Latest \notin dead, ~WorkerOn(Latest),
         NEW d, d = executions[DelayRun(Latest)].decision
  PROVE  /\ DelayRun(Latest) # 0
         /\ ~d.requires_human => Carried(Latest, d)
         /\ d.requires_human =>
              /\ Approval # 0 /\ approvals[Approval].event = Latest
              /\ approvals[Approval].status \in {"PENDING", "APPROVED", "REJECTED"}
              /\ approvals[Approval].status = "APPROVED" => RequestOn(Latest) \/ CutShort \/ Carried(Latest, d)
<1>1. /\ Latest \in DOMAIN stream /\ stream[Latest].type = "ORDER_DELAYED" /\ Latest \in 1..delivered
      /\ \A e \in Delays : e <= Latest
  BY Picked, StatesTyped, LenProperties DEF Delays, TypeInv, TypeOK
<1>2. Executed(Latest)
  BY <1>1 DEF WorkInv, ReadIsDone, Done
<1>3. PICK i \in DelayRuns :
        /\ LastRun(Latest, i)
        /\ executions[i].decision.requires_human => AskedLast(Latest, executions[i].decision)
        /\ ~executions[i].decision.requires_human => Carried(Latest, executions[i].decision)
  BY <1>2 DEF Executed
<1>4. DelayRun(Latest) = i /\ i # 0
  BY <1>3, PickedRuns, RowTypes, LenProperties DEF DelayRuns, RunsOf, TypeInv, TypeOK
<1>5. ASSUME d.requires_human
      PROVE  /\ Approval # 0 /\ approvals[Approval].event = Latest
             /\ approvals[Approval].status \in {"PENDING", "APPROVED", "REJECTED"}
             /\ approvals[Approval].status = "APPROVED" => RequestOn(Latest) \/ CutShort \/ Carried(Latest, d)
  <2>1. PICK k \in Requests : /\ approvals[k].event = Latest /\ approvals[k].decision = d
                              /\ \A n \in Requests : approvals[n].event = Latest => n <= k
    BY <1>3, <1>4, <1>5 DEF AskedLast
  <2>2. Approval \in Requests /\ k <= Approval /\ Approval # 0
    BY <2>1, Picked
  <2>3. approvals[Approval].event \in Delays
    BY <2>2, EventsRead, StatesTyped, LenProperties DEF PaperInv, ApprovalsInOrder, Delays, TypeInv, TypeOK
  <2>4. approvals[Approval].event <= Latest /\ Latest <= approvals[Approval].event
    BY <1>1, <2>1, <2>2, <2>3 DEF PaperInv, ApprovalsInOrder
  <2>5. approvals[Approval].event = Latest
    BY <1>1, <2>2, <2>4, EventsRead, StatesTyped DEF TypeInv
  <2>6. Approval = k
    <3>1. Approval <= k /\ k <= Approval
      BY <2>1, <2>2, <2>5
    <3>2. Approval \in Nat /\ k \in Nat
      BY <2>1, <2>2, StatesTyped, LenProperties DEF TypeInv, TypeOK
    <3> QED
      BY <3>1, <3>2
  <2>7. approvals[k] \in ApprovalRows
    BY StatesTyped, ElementOfSeq DEF TypeInv, TypeOK
  <2>8. ASSUME approvals[k].status = "APPROVED"
        PROVE  RequestOn(Latest) \/ CutShort \/ Carried(Latest, d)
    BY <2>1, <2>6, <2>8, <2>2 DEF PaperInv, ApprovedIsDone, RequestOn, CutShort, Busy
  <2> QED
    BY <2>2, <2>5, <2>6, <2>7, <2>8 DEF ApprovalRows
<1> QED
  BY <1>3, <1>4, <1>5

\* A run of the latest delay shows that it was read.
LEMMA RunIsRead == ASSUME TypeInv, NEW e, DelayRun(e) # 0 PROVE e <= delivered
BY PickedRuns, RowTypes DEF LastRun, DelayRuns, RunsOf

LEMMA AwaitingHolds == ASSUME TypeInv, WorkInv, PaperInv PROVE AwaitingMeansWaiting
<1> SUFFICES ASSUME NEW reading \in Readings, LatestState(reading) = "awaiting_approval",
                    Latest \notin dead, ~WorkerOn(Latest)
             PROVE  /\ Approval # 0 /\ approvals[Approval].event = Latest
                    /\ approvals[Approval].status = "PENDING"
  BY DEF AwaitingMeansWaiting
<1>1. Latest # 0 /\ LatestState(reading) = Timeline(Latest, reading).state
  BY DEF LatestState
<1>2. PICK d : d = executions[DelayRun(Latest)].decision
  OBVIOUS
<1>3. DelayRun(Latest) # 0 /\ d.requires_human /\ (Approval = 0 \/ approvals[Approval].status = "PENDING")
  BY <1>1, <1>2, Reports
<1> QED
  BY <1>1, <1>2, <1>3, LatestDone, RunIsRead

LEMMA CompleteHolds == ASSUME TypeInv, WorkInv, PaperInv PROVE CompleteMeansDone
<1> SUFFICES ASSUME NEW reading \in Readings, LatestState(reading) = "complete",
                    Latest \notin dead, ~WorkerOn(Latest),
                    ~RequestOn(Latest), ~CutShort
             PROVE  \/ approvals # <<>> /\ approvals[Approval].status = "REJECTED"
                    \/ executions[DelayRun(Latest)].decision.resolution = "NO_ACTION"
                    \/ TicketsOf(Latest) # {}
  BY DEF CompleteMeansDone
<1>1. Latest # 0 /\ LatestState(reading) = Timeline(Latest, reading).state
  BY DEF LatestState
<1>2. PICK d : d = executions[DelayRun(Latest)].decision
  OBVIOUS
<1>3. DelayRun(Latest) # 0
  BY <1>1, <1>2, Reports
<1>4. CASE Approval # 0 /\ approvals[Approval].status = "REJECTED"
  <2>1. approvals # <<>>
    BY <1>4, Picked, EmptySeq DEF Requests
  <2> QED
    BY <1>4, <2>1
<1>5. CASE d.requires_human => Approval # 0 /\ approvals[Approval].status \notin {"PENDING", "REJECTED"}
  <2>1. Carried(Latest, d)
    BY <1>1, <1>2, <1>3, <1>5, LatestDone, RunIsRead
  <2> QED
    BY <1>2, <2>1 DEF Carried
<1> QED
  BY <1>1, <1>2, <1>3, <1>4, <1>5, Reports

LEMMA InProgressHolds ==
  ASSUME TypeInv, DelaysBare, WorkInv, PaperInv
  PROVE  InProgressMeansWork
<1> SUFFICES ASSUME NEW reading \in Readings, LatestState(reading) = "in_progress",
                    ~(Latest > delivered), Latest \notin dead, ~WorkerOn(Latest),
                    ~RequestOn(Latest), ~CutShort, ~(faults["publish"] > 0)
             PROVE  \E t \in TicketsOf(Latest) : \E m \in EventsOf(t) :
                      m > delivered \/ WorkerOn(m) \/ m \in dead \ reading.letters
  BY DEF InProgressMeansWork
<1>1. Latest # 0 /\ LatestState(reading) = Timeline(Latest, reading).state
  BY DEF LatestState
<1>2. PICK d : d = executions[DelayRun(Latest)].decision
  OBVIOUS
<1>3. Latest <= delivered /\ delivered \in Nat
  BY <1>1, Picked, StatesTyped, LenProperties DEF Delays, TypeInv, TypeOK
<1>4. DelayRun(Latest) # 0
  BY <1>1, <1>2, <1>3, LatestDone
<1>5. /\ d.requires_human => Approval # 0 /\ approvals[Approval].status \notin {"PENDING", "REJECTED"}
      /\ d.resolution \in TRIAGE_RESOLUTIONS
      /\ TriageRun = 0 /\ DeadLetters("TICKET_CREATED", reading) = {}
  BY <1>1, <1>2, <1>4, Reports
<1>6. Carried(Latest, d)
  BY <1>1, <1>2, <1>3, <1>5, LatestDone
<1>7. PICK t \in TicketsOf(Latest) : EventsOf(t) # {}
  BY <1>5, <1>6 DEF Carried, Queued, TRIAGE_RESOLUTIONS
<1>8. PICK m \in EventsOf(t) : TRUE
  BY <1>7
<1>9. m \in DOMAIN stream /\ m \in Nat /\ m # 0 /\ stream[m].type = "TICKET_CREATED"
  <2>1. t # 0
    BY LenProperties DEF TicketsOf, TypeInv, TypeOK
  <2>2. m \in 1..Len(stream) /\ stream \in Seq(EventRows) /\ stream[m].ticket = t /\ Len(stream) \in Nat
    BY LenProperties DEF EventsOf, TypeInv, TypeOK
  <2>3. stream[m] \in EventRows
    BY <2>2, ElementOfSeq
  <2> QED
    BY <2>1, <2>2, <2>3, LenProperties DEF EventRows, DelaysBare, EventsOf
<1>10. CASE m <= delivered
  <2>1. m \notin reading.letters
    BY <1>5, <1>9 DEF DeadLetters
  <2>2. ~TriagedEvent(m)
    BY <1>5, PickedRuns DEF TriagedEvent
  <2>3. m \in dead \/ WorkerOn(m)
    BY <1>3, <1>9, <1>10, <2>2 DEF WorkInv, ReadIsDone, Done
  <2> QED
    BY <1>7, <1>8, <2>1, <2>3
<1> QED
  BY <1>3, <1>7, <1>8, <1>9, <1>10

\* "Awaiting approval" is so: a reviewer can act on the newest approval, which
\* is the latest delay's, or the worker is on the event, or it is a dead letter.
THEOREM AwaitingIsTrue == Spec => []AwaitingMeansWaiting
<1>1. TypeInv /\ WorkInv /\ PaperInv => AwaitingMeansWaiting
  BY AwaitingHolds
<1> QED
  BY <1>1, WorkAlways, Typed, PTL

\* "Complete" is so: rejected, nothing to do, or the ticket is there, unless
\* someone is still on it, gave it up or was cut short.
THEOREM CompleteIsTrue == Spec => []CompleteMeansDone
<1>1. TypeInv /\ WorkInv /\ PaperInv => CompleteMeansDone
  BY CompleteHolds
<1> QED
  BY <1>1, WorkAlways, Typed, PTL

\* "In progress" is so: an event is queued, or someone is at work, unless a
\* fault took the work away.
THEOREM InProgressIsTrue == Spec => []InProgressMeansWork
<1>1. TypeInv /\ DelaysBare /\ WorkInv /\ PaperInv => InProgressMeansWork
  BY InProgressHolds
<1> QED
  BY <1>1, WorkAlways, LaneAlways, Typed, PTL
-----------------------------------------------------------------------------
(* The pipeline implements EventDelivery.                                  *)

Log  == [m \in DOMAIN stream |-> m]
Left == {m \in DOMAIN stream : m > delivered \/ WorkerOn(m)}
Rows == {e \in DOMAIN stream : Handled(e)}

\* Rows are of events that were read, and they stay.
LEMMA HandledIsRead ==
  ASSUME TypeInv, NEW e, Handled(e), e # 0
  PROVE  e \in 1..delivered
BY EventsRead, RowTypes, StatesTyped DEF Handled, RunsOf, TypeInv

LEMMA HandledStays ==
  ASSUME TypeInv, [Next]_vars, NEW e, Handled(e)
  PROVE  Handled(e)'
<1>1. CASE \E k \in Requests : approvals[k].event = e
  BY <1>1, ApprovalsStay DEF Handled
<1>2. CASE \E t \in DOMAIN tickets : tickets[t].by = "worker" /\ tickets[t].event = e
  BY <1>2, TicketsStay DEF Handled
<1>3. CASE \E i \in RunsOf("delayed_order_agent") :
             /\ executions[i].event = e /\ executions[i].decision.resolution = "NO_ACTION"
             /\ ~executions[i].decision.requires_human
  BY <1>3, ExecutionsStay DEF Handled
<1>4. CASE TriagedEvent(e)
  <2>1. TriagedEvent(e)'
    BY <1>4, TriagedStays
  <2> QED
    BY <2>1 DEF TriagedEvent, Handled
<1> QED
  BY <1>1, <1>2, <1>3, <1>4 DEF Handled, TriagedEvent

\* An event comes to have rows by the worker's doing, while it is in hand.
LEMMA HandledSteps ==
  ASSUME TypeInv, [Next]_vars, NEW e, Handled(e)', ~Handled(e)
  PROVE  /\ e = delivered /\ Busy(Worker)
         /\ Investigate \/ AskHuman \/ Triage \/ CommitTicket(Worker)
<1>1. CASE \E k \in Requests' : approvals'[k].event = e
  <2>1. PICK k \in Requests' : approvals'[k].event = e
    BY <1>1
  <2>2. k \notin Requests
    BY <2>1, ApprovalsStay DEF Handled
  <2>3. AskHuman
    BY <2>2, RequestsStay
  <2> QED
    BY <2>1, <2>2, <2>3, Asked DEF AskHuman, Busy
<1>2. CASE \E t \in DOMAIN tickets' : tickets'[t].by = "worker" /\ tickets'[t].event = e
  <2>1. PICK t \in DOMAIN tickets' : tickets'[t].by = "worker" /\ tickets'[t].event = e
    BY <1>2
  <2>2. t \notin DOMAIN tickets
    BY <2>1, TicketsStay DEF Handled
  <2>3. CommitTicket(Worker) /\ e = delivered
    BY <2>1, <2>2, NewTickets, Zenon DEF EventOf
  <2> QED
    BY <2>3 DEF CommitTicket, Busy
<1>3. CASE \E i \in DOMAIN executions' :
             /\ executions'[i].event = e
             /\ \/ executions'[i].agent = "triage_agent"
                \/ /\ executions'[i].agent = "delayed_order_agent"
                   /\ executions'[i].decision.resolution = "NO_ACTION"
                   /\ ~executions'[i].decision.requires_human
  <2>1. PICK i \in DOMAIN executions' :
             /\ executions'[i].event = e
             /\ \/ executions'[i].agent = "triage_agent"
                \/ /\ executions'[i].agent = "delayed_order_agent"
                   /\ executions'[i].decision.resolution = "NO_ACTION"
                   /\ ~executions'[i].decision.requires_human
    BY <1>3
  <2>2. ASSUME NEW row, executions' = Append(executions, row), row.event = delivered,
               Investigate \/ Triage
        PROVE  e = delivered
    BY <2>1, <2>2, RowAppended DEF Handled, RunsOf
  <2>3. ~UNCHANGED executions
    BY <2>1 DEF Handled, RunsOf
  <2>4. Investigate \/ Triage
    BY <2>3, ExecutionSteps
  <2>5. e = delivered
    BY <2>2, <2>3, <2>4, ExecutionSteps
  <2> QED
    BY <2>4, <2>5 DEF Investigate, Triage, Busy
<1> QED
  BY <1>1, <1>2, <1>3 DEF Handled, RunsOf

\* What is done has its rows.
LEMMA DoneIsHandled ==
  ASSUME TypeInv, AuditInv, NEW e, Done(e)
  PROVE  Handled(e)
<1>1. CASE TriagedEvent(e)
  BY <1>1 DEF TriagedEvent, Handled
<1>2. CASE Executed(e)
  <2>1. PICK i \in DelayRuns :
          /\ LastRun(e, i)
          /\ executions[i].decision.requires_human => AskedLast(e, executions[i].decision)
          /\ ~executions[i].decision.requires_human => Carried(e, executions[i].decision)
    BY <1>2 DEF Executed
  <2>2. CASE executions[i].decision.requires_human
    BY <2>1, <2>2 DEF AskedLast, Handled
  <2>3. CASE ~executions[i].decision.requires_human /\ executions[i].decision.resolution = "NO_ACTION"
    BY <2>1, <2>3 DEF LastRun, DelayRuns, Handled
  <2>4. CASE \E t \in TicketsOf(e) : TRUE
    <3>1. PICK t \in DOMAIN tickets : tickets[t].event = e /\ tickets[t].by # "customer"
      BY <2>4 DEF TicketsOf
    <3>2. tickets[t].by \in {"worker", "request"}
      <4>1. tickets \in Seq(TicketRows) /\ t \in 1..Len(tickets)
        BY <3>1, LenProperties DEF TypeInv, TypeOK
      <4>2. tickets[t] \in TicketRows
        BY <4>1, ElementOfSeq
      <4> QED
        BY <3>1, <4>2 DEF TicketRows
    <3>3. tickets[t].by = "request" => \E k \in Requests : approvals[k].event = e
      BY <3>1 DEF AuditInv, TicketDecided, Granted
    <3> QED
      BY <3>1, <3>2, <3>3 DEF Handled
  <2> QED
    BY <2>1, <2>2, <2>3, <2>4 DEF Carried
<1> QED
  BY <1>1, <1>2 DEF Done

\* How the log grows.
LEMMA LogSteps ==
  ASSUME TypeInv, [Next]_vars
  PROVE  \/ UNCHANGED stream
         \/ /\ Log' = Append(Log, Len(Log) + 1) /\ DOMAIN stream' = DOMAIN stream \cup {Len(Log) + 1}
            /\ Len(Log) + 1 \notin DOMAIN stream /\ Len(Log) + 1 > delivered /\ Len(Log) \in Nat
            /\ PublishDelayed \/ PublishFiled \/ \E x \in Jobs : PublishTicket(x)
<1>1. /\ stream \in Seq(EventRows) /\ Len(stream) \in Nat /\ DOMAIN stream = 1..Len(stream)
      /\ delivered \in 0..Len(stream)
  BY LenProperties DEF TypeInv, TypeOK
<1>2. Log \in Seq(Nat) /\ Len(Log) = Len(stream)
  <2>1. Log \in [1..Len(stream) -> Nat]
    BY <1>1 DEF Log
  <2> QED
    BY <1>1, <2>1, IsASeq, LenProperties
<1>3. ASSUME NEW row, stream' = Append(stream, row)
      PROVE  /\ Log' = Append(Log, Len(Log) + 1)
             /\ DOMAIN stream' = DOMAIN stream \cup {Len(Log) + 1}
             /\ Len(Log) + 1 \notin DOMAIN stream /\ Len(Log) + 1 > delivered
  <2>1. stream \in Seq(EventRows \cup {row})
    BY <1>1, SeqMonotonic
  <2>2. stream' \in Seq(EventRows \cup {row}) /\ Len(stream') = Len(stream) + 1
    BY <1>3, <2>1, AppendProperties
  <2>3. DOMAIN stream' = 1..(Len(stream) + 1)
    BY <2>2, LenProperties
  <2>4. PICK n : n = Len(stream)
    OBVIOUS
  <2>5. Log' = [m \in 1..(n + 1) |-> m] /\ Log = [m \in 1..n |-> m] /\ n \in Nat
    BY <1>1, <2>3, <2>4 DEF Log
  <2>6. /\ Append(Log, n + 1) \in Seq(Nat) /\ Len(Append(Log, n + 1)) = n + 1
        /\ \A i \in 1..n : Append(Log, n + 1)[i] = Log[i]
        /\ Append(Log, n + 1)[n + 1] = n + 1
    BY <1>2, <2>4, <2>5, AppendProperties
  <2>7. Log' \in [1..(n + 1) -> Nat]
    BY <2>5
  <2>8. Log' \in Seq(Nat) /\ Len(Log') = n + 1
    BY <2>5, <2>7, IsASeq, LenProperties
  <2>9. \A i \in 1..(n + 1) : Log'[i] = Append(Log, n + 1)[i]
    BY <2>5, <2>6
  <2>10. Log' = Append(Log, n + 1)
    BY <2>6, <2>8, <2>9, SeqEqual
  <2> QED
    BY <1>1, <1>2, <2>3, <2>4, <2>10
<1>4. CASE PublishDelayed \/ PublishFiled
  BY <1>2, <1>1, <1>3, <1>4 DEF PublishDelayed, PublishFiled
<1>5. CASE \E x \in Jobs : PublishTicket(x) /\ stream' = Append(stream, TicketCreated(job[x].ticket, EventOf(x)))
  BY <1>2, <1>1, <1>3, <1>5
<1> QED
  BY <1>4, <1>5, StreamSteps

\* What a step does to the event in hand.
LEMMA HandSteps ==
  ASSUME TypeInv, [Next]_vars
  PROVE  \/ UNCHANGED <<delivered, dead>> /\ (Busy(Worker)' <=> Busy(Worker))
         \/ ReadNext \/ Bury \/ AckDead \/ Settle(Worker)
<1>1. Worker \in Jobs
  BY StatesTyped DEF TypeInv
<1>2. CASE Investigate
  <2>1. PICK d \in Decisions : job' = [job EXCEPT ![Worker] =
                                 [at |-> IF d.requires_human THEN "ask" ELSE "ticket",
                                  decision |-> d, ticket |-> 0]]
    BY <1>2 DEF Investigate
  <2>2. job'[Worker] = [at |-> IF d.requires_human THEN "ask" ELSE "ticket",
                        decision |-> d, ticket |-> 0]
    BY <1>1, <2>1, Reset, Zenon
  <2>3. job'[Worker].at \in {"ask", "ticket"}
    BY <2>2
  <2> QED
    BY <1>2, <2>3 DEF Investigate, redis, Busy
<1>3. CASE Triage
  <2>1. PICK v \in Verdicts : job' = [job EXCEPT ![Worker] =
                                 [at |-> "tell", decision |-> v, ticket |-> stream[delivered].ticket]]
    BY <1>3 DEF Triage
  <2>2. job'[Worker] = [at |-> "tell", decision |-> v, ticket |-> stream[delivered].ticket]
    BY <1>1, <2>1, Reset, Zenon
  <2> QED
    BY <1>3, <2>2 DEF Triage, redis, Busy
<1>4. CASE AskHuman
  BY <1>1, <1>4, StatesTyped DEF AskHuman, redis, Busy, TypeInv, JobStates
<1>5. CASE TellCustomer
  BY <1>1, <1>5, Relabel DEF TellCustomer, redis, Busy
<1>6. CASE CommitTicket(Worker) \/ PublishTicket(Worker) \/ SendEmail(Worker)
  <2>1. ExecuteDecision(Worker)
    BY <1>6 DEF ExecuteDecision
  <2>2. job[Worker].at # "settle" /\ Busy(Worker)
    BY <1>6 DEF CommitTicket, PublishTicket, SendEmail, Busy
  <2> QED
    BY <1>1, <2>1, <2>2, ExecuteMoves, ExecuteFrom DEF Busy
<1>7. CASE AttemptFails \/ WorkerCrash
  BY <1>1, <1>7, Reset DEF AttemptFails, WorkerCrash, Retry, GiveUp, Idle, Busy, redis
<1>8. CASE job'[Worker] = job[Worker] /\ UNCHANGED <<delivered, dead>>
  BY <1>8 DEF Busy
<1> QED
  BY <1>2, <1>3, <1>4, <1>5, <1>6, <1>7, <1>8, WorkerSteps DEF ExecuteDecision

\* An event newly published has no rows and is left to do.
LEMMA PublishRefines ==
  ASSUME TypeInv, Lane, [Next]_vars, ~UNCHANGED stream
  PROVE  \E e \in Nat : Delivery!Publish(e)
<1>1. PICK n : n = Len(Log) + 1
  OBVIOUS
<1>2. /\ Log' = Append(Log, n) /\ DOMAIN stream' = DOMAIN stream \cup {n}
      /\ n \notin DOMAIN stream /\ n > delivered /\ n \in Nat
      /\ PublishDelayed \/ PublishFiled \/ \E x \in Jobs : PublishTicket(x)
  BY <1>1, LogSteps
<1>3. UNCHANGED <<executions, approvals, tickets, delivered, dead>>
  BY <1>2 DEF PublishDelayed, PublishFiled, PublishTicket, database
<1>4. Busy(Worker)' <=> Busy(Worker)
  <2>1. ~(Bury \/ ReadNext \/ AckDead \/ Settle(Worker))
    BY DEF Bury, ReadNext, AckDead, Settle, redis
  <2> QED
    BY <2>1, HandSteps
<1>5. \A e : Handled(e)' <=> Handled(e)
  BY <1>3 DEF Handled, Requests, RunsOf
<1>6. ~Handled(n)
  <2>1. delivered \in Nat
    BY StatesTyped DEF TypeInv
  <2> QED
    BY <1>2, <2>1, HandledIsRead
<1>7. Rows' = Rows
  BY <1>2, <1>5, <1>6 DEF Rows
<1>8. n # delivered /\ delivered' = delivered
  <2>1. delivered \in Nat
    BY StatesTyped DEF TypeInv
  <2> QED
    BY <1>2, <1>3, <2>1
<1>9. Left' = Left \cup {n}
  BY <1>2, <1>4, <1>8 DEF Left, WorkerOn
<1>10. n \notin Delivery!Published
  <2>1. /\ stream \in Seq(EventRows) /\ DOMAIN stream = 1..Len(stream) /\ Len(stream) \in Nat
    BY LenProperties DEF TypeInv, TypeOK
  <2>2. Len(Log) = Len(stream)
    BY <2>1, IsASeq, LenProperties DEF Log
  <2> QED
    BY <1>2, <2>1, <2>2 DEF Delivery!Published, Log
<1> QED
  BY <1>1, <1>2, <1>3, <1>7, <1>9, <1>10 DEF Delivery!Publish, Log, Left, Rows

\* Positions are the events.
LEMMA LogIs ==
  ASSUME TypeInv
  PROVE  /\ Delivery!Published = DOMAIN stream /\ DOMAIN stream \subseteq Nat
         /\ \A m \in DOMAIN stream : Log[m] = m
<1>1. /\ stream \in Seq(EventRows) /\ DOMAIN stream = 1..Len(stream) /\ Len(stream) \in Nat
  BY LenProperties DEF TypeInv, TypeOK
<1>2. Log \in [1..Len(stream) -> Nat]
  BY <1>1 DEF Log
<1>3. Len(Log) = Len(stream)
  BY <1>1, <1>2, IsASeq, LenProperties
<1> QED
  BY <1>1, <1>3 DEF Delivery!Published, Log

\* Rows for the event in hand are its processing.
LEMMA RowsRefine ==
  ASSUME TypeInv, [Next]_vars, UNCHANGED stream, Rows' # Rows
  PROVE  \E e \in Nat : Delivery!Succeed(e)
<1>1. Rows \subseteq Rows'
  BY HandledStays DEF Rows
<1>2. PICK e \in DOMAIN stream : Handled(e)' /\ ~Handled(e)
  BY <1>1 DEF Rows
<1>3. e = delivered /\ Busy(Worker) /\ (Investigate \/ AskHuman \/ Triage \/ CommitTicket(Worker))
  BY <1>2, HandledSteps
<1>4. Rows' = Rows \cup {e}
  <2>1. \A m \in DOMAIN stream : Handled(m)' /\ ~Handled(m) => m = e
    BY <1>3, HandledSteps
  <2>2. \A m \in DOMAIN stream : Handled(m) => Handled(m)'
    BY HandledStays
  <2> QED
    BY <1>2, <2>1, <2>2 DEF Rows
<1>5. UNCHANGED <<delivered, dead>> /\ (Busy(Worker)' <=> Busy(Worker))
  <2>1. job[Worker].at \notin {"idle", "bury", "ackDead", "settle"}
    BY <1>3 DEF Investigate, AskHuman, Triage, CommitTicket
  <2>2. ~(ReadNext \/ Bury \/ AckDead \/ Settle(Worker))
    BY <2>1 DEF ReadNext, Bury, AckDead, Settle, Busy
  <2> QED
    BY <2>2, HandSteps
<1>6. Left' = Left /\ Log' = Log /\ dead' = dead
  BY <1>5 DEF Left, Log, WorkerOn
<1> QED
  BY <1>2, <1>4, <1>6, LogIs DEF Delivery!Succeed, Rows, Left, Log

\* A settled event has its rows, one given up is a dead letter: it is closed.
LEMMA CloseRefines ==
  ASSUME TypeInv, Lane, AuditInv, WorkInv, [Next]_vars, AckDead \/ Settle(Worker)
  PROVE  \E m \in Left : Delivery!Close(m)
<1>1. Worker \in Jobs /\ delivered \in Nat
  BY StatesTyped DEF TypeInv
<1>2. Busy(Worker) /\ ~Busy(Worker)' /\ UNCHANGED <<redis, database>>
  BY <1>1, Relabel, Reset DEF AckDead, Settle, Busy, Idle
<1>3. delivered \in Left
  BY <1>2, InHand DEF Left, WorkerOn
<1>4. delivered \in Rows \cup dead
  <2>1. CASE AckDead
    BY <2>1 DEF AckDead, Lane
  <2>2. CASE Settle(Worker)
    BY <1>2, <2>2, InHand, DoneIsHandled DEF Settle, WorkInv, SettlesDone, Rows
  <2> QED
    BY <2>1, <2>2
<1>5. Log[delivered] = delivered
  BY <1>2, InHand, LogIs
<1>6. Left' = Left \ {delivered}
  BY <1>1, <1>2 DEF Left, WorkerOn, redis
<1>7. Log' = Log /\ Rows' = Rows /\ dead' = dead
  BY <1>2 DEF Log, Rows, Handled, RunsOf, Requests, redis, database
<1> QED
  BY <1>3, <1>4, <1>5, <1>6, <1>7 DEF Delivery!Close, Log, Left, Rows

\* Every step is one of the promise, or none of its business.
LEMMA PipelineStep ==
  ASSUME TypeInv, Lane, AuditInv, WorkInv, [Next]_vars
  PROVE  [Delivery!Next]_(Delivery!vars)
<1>1. CASE ~UNCHANGED stream
  BY <1>1, PublishRefines DEF Delivery!Next
<1>2. CASE UNCHANGED stream /\ Rows' # Rows
  BY <1>2, RowsRefine DEF Delivery!Next
<1>3. CASE UNCHANGED stream /\ Rows' = Rows /\ Bury
  <2>1. Worker \in Jobs /\ delivered \in Nat
    BY StatesTyped DEF TypeInv
  <2>2. Busy(Worker) /\ Busy(Worker)' /\ delivered' = delivered /\ dead' = dead \cup {delivered}
    BY <1>3, <2>1, Relabel DEF Bury, Busy
  <2>3. Left' = Left /\ Log' = Log
    BY <1>3, <2>2 DEF Left, Log, WorkerOn
  <2>4. Delivery!Bury(delivered)
    BY <1>3, <2>2, <2>3, InHand, LogIs DEF Delivery!Bury, Log, Left, Rows
  <2> QED
    BY <2>1, <2>4 DEF Delivery!Next
<1>4. CASE UNCHANGED stream /\ Rows' = Rows /\ ReadNext
  <2>1. Worker \in Jobs /\ delivered \in Nat /\ DOMAIN stream \subseteq Nat
    BY StatesTyped, LogIs DEF TypeInv
  <2>2. ~Busy(Worker) /\ Busy(Worker)' /\ delivered' = delivered + 1 /\ dead' = dead
    BY <1>4, <2>1, Relabel DEF ReadNext, Busy
  <2>3. \A m \in DOMAIN stream : m > delivered <=> m > delivered + 1 \/ delivered + 1 = m
    BY <2>1
  <2>4. Left' = Left /\ Log' = Log
    BY <1>4, <2>2, <2>3 DEF Left, Log, WorkerOn
  <2> QED
    BY <1>4, <2>2, <2>4 DEF Delivery!vars, Log, Left, Rows
<1>5. CASE AckDead \/ Settle(Worker)
  BY <1>5, CloseRefines DEF Delivery!Next, Left
<1>6. CASE /\ UNCHANGED stream /\ Rows' = Rows
           /\ UNCHANGED <<delivered, dead>> /\ (Busy(Worker)' <=> Busy(Worker))
  <2>1. Left' = Left /\ Log' = Log
    BY <1>6 DEF Left, Log, WorkerOn
  <2> QED
    BY <1>6, <2>1 DEF Delivery!vars, Log, Left, Rows
<1> QED
  BY <1>1, <1>2, <1>3, <1>4, <1>5, <1>6, HandSteps

LEMMA PipelineInit == Init => Delivery!Init
<1> SUFFICES ASSUME Init PROVE Delivery!Init
  OBVIOUS
<1>1. stream = <<>> /\ DOMAIN stream = {} /\ dead = {}
  BY DEF Init
<1>2. Log = <<>>
  <2>1. Log = stream
    BY <1>1 DEF Log
  <2> QED
    BY <1>1, <2>1
<1> QED
  BY <1>1, <1>2 DEF Delivery!Init, Log

\* Every published event, a delay, a customer's ticket or one the pipeline
\* opened, is left open until its rows are in the database or it is a dead
\* letter, across retries and worker crashes; no other event gets any.
THEOREM PipelineImplementsDelivery == Spec => ImplementsDelivery
<1>1. TypeInv /\ Lane /\ AuditInv /\ WorkInv /\ [Next]_vars => [Delivery!Next]_(Delivery!vars)
  BY PipelineStep
<1> QED
  BY <1>1, PipelineInit, LaneAlways, AuditAlways, WorkAlways, Typed, PTL
     DEF Spec, ImplementsDelivery, Delivery!Spec
=============================================================================
