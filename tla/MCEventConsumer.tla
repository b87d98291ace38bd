-------------------------- MODULE MCEventConsumer --------------------------
(***************************************************************************)
(* TLC instances of EventConsumer: the deployed single worker, and two     *)
(* workers of which one dies for good.                                     *)
(***************************************************************************)
EXTENDS EventConsumer

CONSTANT Survivor  \* the worker that never dies

ASSUME SurvivorAssumption == Survivor \in Workers

\* The longest log a run can build: every event once and all its replays.
Positions == 1..(Cardinality(Events) * (MaxReplays + 1))

\* The survivor neither crashes nor hangs; another worker starts before the
\* first delivery or not at all, so once dead it stays dead.  An action
\* constraint of the run.
SurvivorLives ==
  /\ pc[Survivor] # "down" => pc'[Survivor] \notin {"down", "hung"}
  /\ delivered > 0 => \A w \in Workers \ {Survivor} : pc[w] = "down" => pc'[w] = "down"

\* Time passes: a pending entry nobody works on becomes stale.
SurvivorSpec ==
  /\ Spec
  /\ WF_vars(Start(Survivor))
  /\ \A w \in Workers : WF_vars(Worker(w))
  /\ \A m \in Positions : WF_vars(m \in pel /\ Age(m))

\* Entries that left the pending list with their event neither processed nor
\* dead-lettered, an event that may hang its worker left aside.
Unsettled ==
  {m \in (1..delivered) \ pel : log[m] \notin Hanging /\ ~Settled(log[m])}

\* An entry a dead or hung worker left pending is taken over by a worker that
\* lives on, and acknowledged (reclaim_stale_messages); and once two workers
\* that raced for a claim are through, an entry the loser acknowledged
\* (handle_message) is lost only to a crash of the winner, one per crash.
PendingEventuallySettled ==
  \A m \in Positions :
    (m \in pel) ~> (m \notin pel /\ Cardinality(Unsettled) <= crashes)
=============================================================================
