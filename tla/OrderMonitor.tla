---------------------------- MODULE OrderMonitor ----------------------------
(***************************************************************************)
(* services/order_monitor.py and create_delayed_order of demo_service.py:  *)
(* API requests that publish ORDER_DELAYED for orders past due.  A Redis   *)
(* key per order and day, the slot, is what keeps overlapping monitor runs *)
(* from publishing an order twice on a day.  A demo request creates an     *)
(* order, publishes it itself and only then sets the same key.             *)
(***************************************************************************)
EXTENDS Naturals, FiniteSets

CONSTANTS Orders,
          Demos,            \* those of Orders that a demo request creates
          Runs,             \* requests to POST /orders/monitor/delayed
          Limit,            \* their limit parameter
          MaxDays,          \* bound: days
          MaxFailures,      \* bound: publish_event raises in a run, which survives it
          MaxDeaths         \* bound: requests ended by a crash or an exception

ASSUME OrdersAssumption == Orders # {} /\ Demos \subseteq Orders
ASSUME BoundsAssumption == /\ Limit \in Nat \ {0}
                           /\ MaxDays \in Nat \ {0}
                           /\ MaxFailures \in Nat
                           /\ MaxDeaths \in Nat

VARIABLES
  today,
  delayed,    \* orders in the database, past due and not closed
  slots,      \* the delayed_order:<id>:<day> keys in Redis
  sent,       \* ORDER_DELAYED events of the monitor, by order and day
  announced,  \* demo orders whose own ORDER_DELAYED is on the stream
  pc, day, found, todo, inHand, count,  \* the monitor runs
  demo, demoDay,                        \* the demo requests
  faults      \* failures and deaths so far

run    == <<pc, day, found, todo, inHand, count>>
shared == <<today, delayed, slots, sent, announced>>
vars   == <<shared, run, demo, demoDay, faults>>

Days   == 1..MaxDays
Labels == {"idle", "pick", "publish", "giveBack", "ok", "failed"}
Stages == {"idle", "publish", "mark", "ok", "failed"}

Slot(m) == <<inHand[m], day[m]>>

\* Run m has taken a slot and not settled it yet.
Busy(m) == pc[m] \in {"publish", "giveBack"}

\* Whose event is on the stream: the monitor's, or the demo request's own.
Published(s) == \/ sent[s] > 0
                \/ s[1] \in announced /\ demoDay[s[1]] = s[2]
InProgress(s) == \E m \in Runs : Busy(m) /\ Slot(m) = s

NoFaults == [kind \in {"failure", "death"} |-> 0]
Goto(m, label) == pc' = [pc EXCEPT ![m] = label]
Fault(kind, bound) == /\ faults[kind] < bound
                      /\ faults' = [faults EXCEPT ![kind] = @ + 1]

TypeOK ==
  /\ today \in Days
  /\ delayed \subseteq Orders
  /\ slots \subseteq Orders \X Days
  /\ sent \in [Orders \X Days -> Nat]
  /\ announced \subseteq Demos
  /\ pc \in [Runs -> Labels]
  /\ day \in [Runs -> Days]
  /\ found \in [Runs -> SUBSET Orders]
  /\ todo \in [Runs -> SUBSET Orders]
  /\ inHand \in [Runs -> Orders]
  /\ count \in [Runs -> Nat]
  /\ demo \in [Demos -> Stages]
  /\ demoDay \in [Demos -> Days]
  /\ faults \in [{"failure", "death"} -> Nat]

Init ==
  /\ today = 1
  /\ delayed = {}
  /\ slots = {}
  /\ sent = [s \in Orders \X Days |-> 0]
  /\ announced = {}
  /\ pc = [m \in Runs |-> "idle"]
  /\ day = [m \in Runs |-> 1]
  /\ found = [m \in Runs |-> {}]
  /\ todo = [m \in Runs |-> {}]
  /\ inHand = [m \in Runs |-> CHOOSE o \in Orders : TRUE]
  /\ count = [m \in Runs |-> 0]
  /\ demo = [o \in Demos |-> "idle"]
  /\ demoDay = [o \in Demos |-> 1]
  /\ faults = NoFaults

-----------------------------------------------------------------------------
(* Time: midnight, an order passing its due date, a key's 86400 seconds. *)

Midnight ==
  /\ today < MaxDays
  /\ today' = today + 1
  /\ UNCHANGED <<delayed, slots, sent, announced, run, demo, demoDay, faults>>

BecomeLate(o) ==
  /\ o \notin Demos \cup delayed
  /\ delayed' = delayed \cup {o}
  /\ UNCHANGED <<today, slots, sent, announced, run, demo, demoDay, faults>>

\* A key outlives the day in its name; no request takes a day.
ExpireSlot(s) ==
  /\ s[2] < today
  /\ \A m \in Runs : day[m] = s[2] => pc[m] \in {"idle", "ok", "failed"}
  /\ \A o \in Demos : demoDay[o] = s[2] => demo[o] \notin {"publish", "mark"}
  /\ slots' = slots \ {s}
  /\ UNCHANGED <<today, delayed, sent, announced, run, demo, demoDay, faults>>

-----------------------------------------------------------------------------
(* detect_delayed_orders *)

\* The query; the database returns the orders in no particular order.
StartRun(m) ==
  /\ pc[m] = "idle"
  /\ day' = [day EXCEPT ![m] = today]
  /\ found' = [found EXCEPT ![m] = delayed]
  /\ todo' = [todo EXCEPT ![m] = delayed]
  /\ Goto(m, "pick")
  /\ UNCHANGED <<shared, inHand, count, demo, demoDay, faults>>

\* Planted bugs: take the slot whether or not it is free; stop at the first
\* order that was published already.
TakeAnySlot(m) ==
  /\ pc[m] = "pick" /\ count[m] < Limit
  /\ \E o \in todo[m] :
       /\ todo' = [todo EXCEPT ![m] = @ \ {o}]
       /\ slots' = slots \cup {<<o, day[m]>>}
       /\ inHand' = [inHand EXCEPT ![m] = o]
       /\ Goto(m, "publish")
  /\ UNCHANGED <<today, delayed, sent, announced, day, found, count, demo, demoDay, faults>>
StopAtTaken(m) ==
  /\ pc[m] = "pick" /\ count[m] < Limit
  /\ \E o \in todo[m] :
       \/ /\ <<o, day[m]>> \notin slots
          /\ todo' = [todo EXCEPT ![m] = @ \ {o}]
          /\ slots' = slots \cup {<<o, day[m]>>}
          /\ inHand' = [inHand EXCEPT ![m] = o]
          /\ Goto(m, "publish")
       \/ /\ <<o, day[m]>> \in slots
          /\ todo' = [todo EXCEPT ![m] = {}]
          /\ UNCHANGED <<slots, inHand, pc>>
  /\ UNCHANGED <<today, delayed, sent, announced, day, found, count, demo, demoDay, faults>>

\* SET NX: an order whose slot is free is taken, any other is passed over.
TakeSlot(m) ==
  /\ pc[m] = "pick" /\ count[m] < Limit
  /\ \E o \in todo[m] :
       /\ todo' = [todo EXCEPT ![m] = @ \ {o}]
       /\ \/ /\ <<o, day[m]>> \notin slots
             /\ slots' = slots \cup {<<o, day[m]>>}
             /\ inHand' = [inHand EXCEPT ![m] = o]
             /\ Goto(m, "publish")
          \/ /\ <<o, day[m]>> \in slots
             /\ UNCHANGED <<slots, inHand, pc>>
  /\ UNCHANGED <<today, delayed, sent, announced, day, found, count, demo, demoDay, faults>>

PublishOrder(m) ==
  /\ pc[m] = "publish"
  /\ sent' = [sent EXCEPT ![Slot(m)] = @ + 1]
  /\ count' = [count EXCEPT ![m] = @ + 1]
  /\ Goto(m, "pick")
  /\ UNCHANGED <<today, delayed, slots, announced, day, found, todo, inHand, demo, demoDay, faults>>

\* publish_event raises; the event may be on the stream all the same.
PublishRaises(m) ==
  /\ pc[m] = "publish"
  /\ Fault("failure", MaxFailures)
  /\ UNCHANGED sent \/ sent' = [sent EXCEPT ![Slot(m)] = @ + 1]
  /\ Goto(m, "giveBack")
  /\ UNCHANGED <<today, delayed, slots, announced, day, found, todo, inHand, count, demo, demoDay>>

\* Planted bug: a failed publish keeps its slot.
KeepSlot(m) ==
  /\ pc[m] = "giveBack"
  /\ Goto(m, "failed")
  /\ UNCHANGED <<shared, day, found, todo, inHand, count, demo, demoDay, faults>>

GiveBack(m) ==
  /\ pc[m] = "giveBack"
  /\ slots' = slots \ {Slot(m)}
  /\ Goto(m, "failed")
  /\ UNCHANGED <<today, delayed, sent, announced, day, found, todo, inHand, count, demo, demoDay, faults>>

FinishRun(m) ==
  /\ pc[m] = "pick"
  /\ todo[m] = {} \/ count[m] >= Limit
  /\ Goto(m, "ok")
  /\ UNCHANGED <<shared, day, found, todo, inHand, count, demo, demoDay, faults>>

\* The request ends where it stands: the API crashed, or Redis failed outside
\* the try block (the delete of the key included).
RunDies(m) ==
  /\ pc[m] \in {"pick", "publish", "giveBack"}
  /\ Fault("death", MaxDeaths)
  /\ Goto(m, "failed")
  /\ UNCHANGED <<shared, day, found, todo, inHand, count, demo, demoDay>>

-----------------------------------------------------------------------------
(* create_delayed_order *)

CreateDemo(o) ==
  /\ demo[o] = "idle"
  /\ delayed' = delayed \cup {o}
  /\ demo' = [demo EXCEPT ![o] = "publish"]
  /\ demoDay' = [demoDay EXCEPT ![o] = today]
  /\ UNCHANGED <<today, slots, sent, announced, run, faults>>

PublishDemo(o) ==
  /\ demo[o] = "publish"
  /\ announced' = announced \cup {o}
  /\ demo' = [demo EXCEPT ![o] = "mark"]
  /\ UNCHANGED <<today, delayed, slots, sent, run, demoDay, faults>>

\* Planted bug: no key.
ForgetMark(o) ==
  /\ demo[o] = "mark"
  /\ demo' = [demo EXCEPT ![o] = "ok"]
  /\ UNCHANGED <<shared, run, demoDay, faults>>

\* A plain SET, whoever may hold the slot.
MarkDemo(o) ==
  /\ demo[o] = "mark"
  /\ slots' = slots \cup {<<o, demoDay[o]>>}
  /\ demo' = [demo EXCEPT ![o] = "ok"]
  /\ UNCHANGED <<today, delayed, sent, announced, run, demoDay, faults>>

\* A crash, or a Redis call that raised; the SET may have been applied.
DemoDies(o) ==
  /\ demo[o] \in {"publish", "mark"}
  /\ Fault("death", MaxDeaths)
  /\ demo' = [demo EXCEPT ![o] = "failed"]
  /\ \/ UNCHANGED slots
     \/ demo[o] = "mark" /\ slots' = slots \cup {<<o, demoDay[o]>>}
  /\ UNCHANGED <<today, delayed, sent, announced, run, demoDay>>

-----------------------------------------------------------------------------

DetectDelayedOrders(m) ==
  \/ StartRun(m) \/ TakeSlot(m) \/ PublishOrder(m) \/ PublishRaises(m)
  \/ GiveBack(m) \/ FinishRun(m) \/ RunDies(m)

CreateDelayedOrder(o) == CreateDemo(o) \/ PublishDemo(o) \/ MarkDemo(o) \/ DemoDies(o)

Next == \/ Midnight
        \/ \E o \in Orders : BecomeLate(o)
        \/ \E s \in slots : ExpireSlot(s)
        \/ \E m \in Runs : DetectDelayedOrders(m)
        \/ \E o \in Demos : CreateDelayedOrder(o)

Spec == Init /\ [][Next]_vars

-----------------------------------------------------------------------------

\* However monitor runs overlap, within a day or across midnight, they publish
\* an order at most once a day, but for publishes that raised (the slot is
\* given back although the event may be on the stream).
OncePerDay == \A s \in Orders \X Days : sent[s] <= 1 + faults["failure"]

\* An order keeps a slot that silences it for the day, with no event sent and
\* nobody about to send one, only if a request died holding the slot.
SilentOnlyByDeath ==
  \A s \in slots : Published(s) \/ InProgress(s) \/ faults["death"] > 0

\* A run that reports fewer events than its limit leaves no order it found
\* unpublished: each was published that day, or is by a run still at it.
RunCovers ==
  \A m \in Runs : pc[m] = "ok" /\ count[m] < Limit =>
    \A o \in found[m] :
      \/ Published(<<o, day[m]>>)
      \/ InProgress(<<o, day[m]>>)
      \/ faults # NoFaults

\* The demo request publishes its order before it sets the order's key, so a
\* run may take the order up in between.  That is the only window, and it costs
\* one event at most: a run takes up a demo's order only while the request has
\* not returned (the comment above the SET in create_delayed_order) and only if
\* no run sent its event that day, unless a publish that raised gave the key back.
RunsRespectDemos ==
  [][\A o \in Demos : LET s == <<o, demoDay[o]>> IN
       ~InProgress(s) /\ InProgress(s)' =>
         \/ demo[o] # "ok" /\ sent[s] = 0
         \/ faults["failure"] > 0]_vars

=============================================================================
