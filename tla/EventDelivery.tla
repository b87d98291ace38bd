--------------------------- MODULE EventDelivery ---------------------------
(***************************************************************************)
(* What the event pipeline promises a publisher, with no worker in it:     *)
(* events appended to a log stay open until each one has been processed or *)
(* put on the dead-letter stream, and work is only done for events that    *)
(* were published.  EventConsumer implements this with Redis streams, a    *)
(* pending list, claims and a worker process that may crash.               *)
(***************************************************************************)
EXTENDS Naturals, Sequences

CONSTANT Events

VARIABLES log,        \* the published events, in stream order
          open,       \* positions of the log nobody has closed yet
          processed,  \* events that were processed to the end
          dead        \* events on the dead-letter stream

vars == <<log, open, processed, dead>>

Published == {log[m] : m \in 1..Len(log)}

Init == /\ log = <<>>
        /\ open = {}
        /\ processed = {}
        /\ dead = {}

\* Publish a new event, or publish a dead-lettered one again.
Publish(e) == /\ e \in Published => e \in dead
              /\ log' = Append(log, e)
              /\ open' = open \cup {Len(log) + 1}
              /\ UNCHANGED <<processed, dead>>

Succeed(e) == /\ e \in Published
              /\ processed' = processed \cup {e}
              /\ UNCHANGED <<log, open, dead>>

Bury(e) == /\ e \in Published
           /\ dead' = dead \cup {e}
           /\ UNCHANGED <<log, open, processed>>

\* A position is closed only once its event is settled one way or the other.
Close(m) == /\ m \in open
            /\ log[m] \in processed \cup dead
            /\ open' = open \ {m}
            /\ UNCHANGED <<log, processed, dead>>

Next == \/ \E e \in Events : Publish(e) \/ Succeed(e) \/ Bury(e)
        \/ \E m \in open : Close(m)

Spec == Init /\ [][Next]_vars
=============================================================================
