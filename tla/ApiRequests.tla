---------------------------- MODULE ApiRequests ----------------------------
(***************************************************************************)
(* The API server: requests run side by side, each through its route's     *)
(* dependencies and then its handler.  Those of the simulator cost LLM     *)
(* calls, and pass the rate limiter of RateLimiter before the handlers of  *)
(* ShopRequests; the others go to their handlers directly.                 *)
(***************************************************************************)
EXTENDS RateLimiter, ShopRequests

CONSTANTS Callers,        \* their addresses
          Seeded,         \* a customer of the seed script
          Quantities,     \* of an item of an order
          Ids             \* of customers and orders that requests name

ASSUME ApiAssumption == Clients = Requests /\ Scopes = Demos \X Callers
ASSUME SeededAssumption == Seeded \in Addresses

vars == <<limiterVars, shopVars>>

\* What requests ask for.  A demo request may name its customer by address, by
\* id (an order's) or not at all.
Kinds == {"customer", "product", "order", "shipment"} \cup Demos
Operations ==
  [kind : {"customer"}, address : Addresses]
    \cup [kind : {"product"}]
    \cup [kind : {"order"}, customer : Ids, quantity : Quantities]
    \cup [kind : {"shipment"}, order : Ids, tracking : Trackings]
    \cup [kind : {"demo_order"}, address : Addresses \cup {None}, customer : Ids \cup {None}]
    \cup [kind : {"demo_ticket"}, address : Addresses \cup {None}, order : Ids \cup {None}]

Asked == [k \in Kinds |-> {o \in Operations : o.kind = k}]
Unlimited == {o \in Operations : o.kind \notin Demos}

SeedStatuses == {"CONFIRMED", "PROCESSING", "SHIPPED", "DELIVERED"}
OrderRows == [customer : Nat, status : {"PENDING"} \cup SeedStatuses]
Memories == [address : Addresses, seen : Nat]
              \cup [order : Nat, tracking : Trackings, seen : Nat]
              \cup [customer : Nat, address : Addresses \cup {None}, seen : Nat]

ASSUME NoneAssumption == None \notin Addresses /\ None \notin Ids /\ None \notin Memories

TypeOK ==
  /\ LimiterTypeOK
  /\ customers \in Seq(Addresses)
  /\ products \in BOOLEAN
  /\ orders \in Seq(OrderRows)
  /\ shipments \in Seq([order : Nat, tracking : Trackings \cup {Generated}])
  /\ tickets \subseteq Orders
  /\ pc \in [Requests -> {"new"} \cup Waiting \cup Ended]
  /\ local \in [Requests -> Memories \cup {None}]
  /\ \A r \in Requests : pc[r] \in Waiting <=> local[r] # None

\* create_shipments: the seed script ships what it made SHIPPED or DELIVERED.
SeedShipments(status) ==
  IF status \in {"SHIPPED", "DELIVERED"}
    THEN {<<[order |-> 1, tracking |-> t]>> : t \in Trackings} ELSE {<<>>}

\* The database is empty, or has been seeded: a customer, products, an order.
Seed ==
  /\ customers = <<Seeded>>
  /\ products = TRUE
  /\ \E s \in SeedStatuses :
       /\ orders = <<[customer |-> 1, status |-> s]>>
       /\ shipments \in SeedShipments(s)

Init ==
  /\ LimiterInit
  /\ \/ customers = <<>> /\ products = FALSE /\ orders = <<>> /\ shipments = <<>>
     \/ Seed
  /\ tickets = {}
  /\ pc = [r \in Requests |-> "new"]
  /\ local = [r \in Requests |-> None]

\* The dependency of a demo route.
Limited(r) == Limit(r) /\ UNCHANGED shopVars

\* The handler of another route begins at once, that of a demo route if the
\* limiter admits the request.
Begin(r) ==
  /\ \/ stage[r] = "new" /\ \E o \in Unlimited : Open(r, o)
     \/ stage[r] = "admitted" /\ \E o \in Asked[scope[r][1]] : Open(r, o)
  /\ UNCHANGED limiterVars

Continue(r) == Proceed(r) /\ UNCHANGED limiterVars

TimePasses == Tick /\ UNCHANGED shopVars

\* The API process dies: transactions are rolled back, counters stay.
ApiDies ==
  LET underWay(r) == pc[r] \in Waiting \/ (stage[r] = "admitted" /\ pc[r] = "new") IN
  /\ Fault
  /\ stage' = Abandoned
  /\ pc' = [r \in Requests |-> IF underWay(r) THEN "died" ELSE pc[r]]
  /\ local' = [r \in Requests |-> None]
  /\ UNCHANGED <<now, scope, window, counted, counters, rows>>

\* Every request has its answer: nothing is left to do.
Answered(r) == stage[r] \in {"refused", "failed"} \/ pc[r] \in Ended
AllAnswered == (\A r \in Requests : Answered(r)) /\ UNCHANGED vars

Next ==
  \/ \E r \in Requests : Limited(r) \/ Begin(r) \/ Continue(r)
  \/ TimePasses
  \/ ApiDies
  \/ AllAnswered

Spec == Init /\ [][Next]_vars

-----------------------------------------------------------------------------

\* The customers who read the mail sent to a.
InMailbox(a) == {i \in Customers : Mailbox(customers[i]) = Mailbox(a)}

\* A request that a unique constraint turns into a 500 was beaten to it by a
\* row inserted after it looked: what was there when it looked gets a 400.  And
\* an address the simulator adds matches no mailbox of a customer it could have
\* seen, only one that was inserted after it looked.
ConflictsAreRaces ==
  [][\A r \in Requests :
       LET mine == local[r] IN
       /\ (pc[r] = "ship" /\ pc'[r] = "conflict") =>
            \E i \in Shipped(mine.order) \cup TrackedAs(mine.tracking) : i > mine.seen
       /\ (pc[r] \in {"insert", "flush"} /\ pc'[r] = "conflict") =>
            \E i \in Rows(mine.address) : i > mine.seen
       /\ (pc[r] = "commit" /\ mine.customer = 0 /\ pc'[r] = "ok") =>
            \A i \in InMailbox(mine.address) : i > mine.seen]_vars

\* An order is SHIPPED or DELIVERED exactly if it has a shipment, whichever
\* requests race for it or die, and no order or tracking number has two.
ShippedTogether ==
  /\ \A o \in Orders : /\ orders[o].status \in {"SHIPPED", "DELIVERED"} <=> Shipped(o) # {}
                       /\ Cardinality(Shipped(o)) <= 1
  /\ \A t \in Trackings : Cardinality(TrackedAs(t)) <= 1

\* A demo ticket filed with an address only, in whatever case, finds the order
\* an earlier demo order or the shop put under that mailbox.  It is refused
\* though there is one only if the mailbox has come to have two customers.
TicketFindsItsOrder ==
  [][\A r \in Requests : pc[r] = "new" /\ pc'[r] = "refused" =>
       \A a \in Addresses :
         LET o == [kind |-> "demo_ticket", address |-> a, order |-> None] IN
         (stage[r] = "admitted" /\ scope[r][1] = o.kind /\ FileTicket(r, o)) =>
           \/ \A i \in InMailbox(a) : OrdersOf(i) = {}
           \/ Cardinality(InMailbox(a)) > 1]_vars
=============================================================================
