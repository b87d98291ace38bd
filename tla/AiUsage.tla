------------------------------ MODULE AiUsage ------------------------------
(***************************************************************************)
(* What AI runs are accounted to: get_usage of api/admin.py groups the     *)
(* newest execution rows of CustomerOperations into tasks, by the task_id  *)
(* that travels with the events; the migration that added the column found *)
(* the task of older rows by a rule of thumb.                              *)
(***************************************************************************)
EXTENDS OrderTimeline

\* The newest n rows; the page takes TASK_SCAN_LIMIT of them.
Scanned(n) == {i \in DOMAIN executions : i > Len(executions) - n}

\* A delay's task is its own event; a filed ticket's is the event of its triage.
Task(runs) ==
  LET delayed == runs \cap RunsOf("delayed_order_agent") # {} IN
  [kind   |-> IF delayed THEN "delayed_order" ELSE "customer_ticket",
   ticket |-> IF delayed THEN 0 ELSE executions[Min(runs)].ticket,
   runs   |-> runs]

\* _group_into_tasks, over the newest n rows
GroupIntoTasks(n) ==
  {Task({j \in Scanned(n) : executions[j].task = executions[i].task}) : i \in Scanned(n)}

\* Planted bug: the order's latest delay, whenever it was.
LatestDelay(i) == RunsOf("delayed_order_agent")

\* The delay runs a triage run may belong to, all of the same order.
EarlierDelays(i) == {j \in RunsOf("delayed_order_agent") : j <= i}

\* _backfill_task_ids: a triage of a ticket that has an agent's subject joins
\* the latest earlier delay run of the order.
Backfilled(i) ==
  IF /\ executions[i].agent = "triage_agent"
     /\ tickets[executions[i].ticket].by # "customer"
     /\ EarlierDelays(i) # {}
    THEN executions[Max(EarlierDelays(i))].event
    ELSE executions[i].event

-----------------------------------------------------------------------------

\* What a run was really for: a delay, or a ticket a customer filed.
Cause(i) ==
  LET t == executions[i].ticket IN
  CASE t = 0                                -> [delay |-> executions[i].event, ticket |-> 0]
    [] t # 0 /\ tickets[t].by = "customer" -> [delay |-> 0, ticket |-> t]
    [] t # 0 /\ tickets[t].by # "customer" -> [delay |-> tickets[t].event, ticket |-> 0]

\* The usage page charges a run to what it was for, though it ran after other
\* events, retries, crashes or a reviewer's approval: two runs are of one task
\* exactly if they were for the same.  However few rows it scans, it shows a
\* delay's task as a customer's ticket only if the run that investigated the
\* delay is too old to be among them.
UsageIsPerTask ==
  /\ \A i, j \in DOMAIN executions :
       executions[i].task = executions[j].task <=> Cause(i) = Cause(j)
  /\ \A n \in DOMAIN executions : \A task \in GroupIntoTasks(n) :
       LET cause == Cause(Min(task.runs)) IN
       task.kind = "customer_ticket" =>
         IF cause.delay = 0 THEN task.ticket = cause.ticket
         ELSE \E i \in RunsOf("delayed_order_agent") \ Scanned(n) :
                executions[i].event = cause.delay

\* The migration's rule gives a row another task than events carry today only if
\* a newer delay of the order was investigated in between.
BackfillFindsTask ==
  \A i \in DOMAIN executions :
    Backfilled(i) # executions[i].task =>
      \E j \in RunsOf("delayed_order_agent") :
        j < i /\ executions[j].event > executions[i].task
=============================================================================
