---------------------------- MODULE ShopRequests ----------------------------
(***************************************************************************)
(* The routes that insert customers, products, orders, shipments and       *)
(* tickets (api/customers.py, products.py, orders.py, shipments.py,        *)
(* demo.py with demo_service.py), handled side by side.  Each looks for a  *)
(* row, finds none and inserts one, in one transaction; in between others  *)
(* commit, and what decides then is a unique constraint of models/.        *)
(***************************************************************************)
EXTENDS Naturals, Sequences, FiniteSets

CONSTANTS Clients,        \* requests
          Addresses,      \* e-mail addresses as customers type them
          Mailbox(_),     \* the address in lower case
          Trackings,      \* tracking numbers an operator enters
          None,           \* parameter not given
          Generated       \* the tracking number of a demo shipment, a new uuid

VARIABLES
  customers,  \* the addresses of the rows, in the order of their ids
  products,   \* is there a product?
  orders,     \* [customer, status]
  shipments,  \* [order, tracking]
  tickets,    \* the orders that tickets were filed for
  pc,         \* where each request is, or how it ended
  local       \* what its handler remembers meanwhile

rows     == <<customers, products, orders, shipments, tickets>>
shopVars == <<rows, pc, local>>

Customers == DOMAIN customers
Orders    == DOMAIN orders

\* "refused" is a 4xx the handler raises, "conflict" a 500: the IntegrityError
\* of a unique constraint, which no handler catches.
Waiting == {"insert", "flush", "commit", "ship"}
Ended   == {"ok", "refused", "conflict", "died"}
Demos   == {"demo_order", "demo_ticket"}

Answer(r, how) ==
  /\ pc' = [pc EXCEPT ![r] = how]
  /\ local' = [local EXCEPT ![r] = None]

Remember(r, where, what) ==
  /\ pc' = [pc EXCEPT ![r] = where]
  /\ local' = [local EXCEPT ![r] = what]

Rows(a)      == {i \in Customers : customers[i] = a}
Shipped(o)   == {i \in DOMAIN shipments : shipments[i].order = o}
TrackedAs(t) == {i \in DOMAIN shipments : shipments[i].tracking = t /\ t # Generated}

\* Planted bug: the demo looks for the address as it is typed.
ExactMatches(a) == Rows(a)

\* _find_customer: lower case against lower case.
Matches(a) == {i \in Customers : Mailbox(customers[i]) = Mailbox(a)}

\* A demo request that has flushed a new customer holds that address in the
\* unique index until it commits; another insert of it waits.
Locked(r, a) == \E q \in Clients \ {r} :
  pc[q] = "commit" /\ local[q].customer = 0 /\ local[q].address = a

-----------------------------------------------------------------------------

\* create_customer: the look, then the insert with its commit.  "seen" is
\* history, here and below: the rows there were at the look.
CheckCustomer(r, o) ==
  /\ pc[r] = "new" /\ o.kind = "customer"
  /\ IF Rows(o.address) # {}
       THEN Answer(r, "refused")
       ELSE Remember(r, "insert", [address |-> o.address, seen |-> Len(customers)])
  /\ UNCHANGED rows

InsertCustomer(r) ==
  /\ pc[r] = "insert"
  /\ ~Locked(r, local[r].address)
  /\ IF Rows(local[r].address) = {}
       THEN customers' = Append(customers, local[r].address) /\ Answer(r, "ok")
       ELSE UNCHANGED customers /\ Answer(r, "conflict")
  /\ UNCHANGED <<products, orders, shipments, tickets>>

\* create_product
CreateProduct(r, o) ==
  /\ pc[r] = "new" /\ o.kind = "product"
  /\ products' = TRUE
  /\ Answer(r, "ok")
  /\ UNCHANGED <<customers, orders, shipments, tickets>>

\* create_order
CreateOrder(r, o) ==
  /\ pc[r] = "new" /\ o.kind = "order"
  /\ IF o.customer \in Customers /\ o.quantity > 0 /\ products
       THEN /\ orders' = Append(orders, [customer |-> o.customer, status |-> "PENDING"])
            /\ Answer(r, "ok")
       ELSE UNCHANGED orders /\ Answer(r, "refused")
  /\ UNCHANGED <<customers, products, shipments, tickets>>

\* create_shipment: the three looks, then the insert and the order's status in
\* one commit.  Rows are only added, so the looks are one: if all let the request
\* pass, each would have at the first; if one refuses, all may look when it does.
CheckShipment(r, o) ==
  /\ pc[r] = "new" /\ o.kind = "shipment"
  /\ IF o.order \notin Orders \/ Shipped(o.order) # {} \/ TrackedAs(o.tracking) # {}
       THEN Answer(r, "refused")
       ELSE Remember(r, "ship", [order |-> o.order, tracking |-> o.tracking,
                                 seen |-> Len(shipments)])
  /\ UNCHANGED rows

InsertRow(r) ==
  IF Shipped(local[r].order) = {} /\ TrackedAs(local[r].tracking) = {}
    THEN /\ shipments' = Append(shipments, [order |-> local[r].order,
                                            tracking |-> local[r].tracking])
         /\ Answer(r, "ok")
    ELSE UNCHANGED shipments /\ Answer(r, "conflict")

MarkShipped(o) == orders' = [orders EXCEPT ![o].status = "SHIPPED"]

\* Planted bug: the status is committed before the shipment.
StatusFirst(r) ==
  /\ pc[r] = "ship"
  /\ MarkShipped(local[r].order)
  /\ InsertRow(r)
  /\ UNCHANGED <<customers, products, tickets>>

InsertShipment(r) ==
  /\ pc[r] = "ship"
  /\ InsertRow(r)
  /\ IF pc'[r] = "ok" THEN MarkShipped(local[r].order) ELSE UNCHANGED orders
  /\ UNCHANGED <<customers, products, tickets>>

-----------------------------------------------------------------------------
(* The simulator. *)

\* create_delayed_order finds its customer: by address (_get_or_create_customer,
\* which takes any match), by id, or any (_random_row).
FindCustomer(r, o) ==
  LET a == o.address
      c == o.customer
      candidates == IF a # None THEN Matches(a)
                    ELSE IF c # None THEN {c} \cap Customers ELSE Customers
      Work(where, i) == Remember(r, where,
        [customer |-> i, address |-> IF i = 0 THEN a ELSE None, seen |-> Len(customers)]) IN
  /\ pc[r] = "new" /\ o.kind = "demo_order"
  /\ \/ /\ a = None \/ c = None
        /\ \E i \in candidates : Work("commit", i)
     \/ /\ a # None /\ c = None /\ candidates = {}
        /\ Work("flush", 0)
     \/ /\ (a # None /\ c # None) \/ (a = None /\ candidates = {})
        /\ Answer(r, "refused")
  /\ UNCHANGED rows

\* The new customer is flushed, not committed.
FlushCustomer(r) ==
  /\ pc[r] = "flush"
  /\ ~Locked(r, local[r].address)
  /\ IF Rows(local[r].address) = {}
       THEN pc' = [pc EXCEPT ![r] = "commit"] /\ UNCHANGED local
       ELSE Answer(r, "conflict")
  /\ UNCHANGED rows

\* Without a product everything is rolled back; with one the order, with or
\* without a shipment, is committed together with a new customer.
CommitDemoOrder(r) ==
  LET known    == local[r].customer
      customer == IF known = 0 THEN Len(customers) + 1 ELSE known IN
  /\ pc[r] = "commit"
  /\ \/ /\ ~products
        /\ Answer(r, "refused")
        /\ UNCHANGED <<customers, orders, shipments>>
     \/ /\ products
        /\ Answer(r, "ok")
        /\ customers' = IF known = 0 THEN Append(customers, local[r].address) ELSE customers
        /\ \/ /\ orders' = Append(orders, [customer |-> customer, status |-> "PROCESSING"])
              /\ UNCHANGED shipments
           \/ /\ orders' = Append(orders, [customer |-> customer, status |-> "SHIPPED"])
              /\ shipments' = Append(shipments,
                                     [order |-> Len(orders) + 1, tracking |-> Generated])
  /\ UNCHANGED <<products, tickets>>

OrdersOf(i) == {o \in Orders : orders[o].customer = i}

Latest(S) == {o \in S : \A p \in S : p <= o}

\* The orders of customer i that request o may mean.
Meant(o, i) ==
  IF o.order # None THEN {o.order} \cap OrdersOf(i)
  ELSE IF o.address # None THEN Latest(OrdersOf(i)) ELSE OrdersOf(i)

\* create_customer_ticket: the order given, which must belong to the customer
\* with the address if that is given too; or the customer's latest; or any.
FileTicket(r, o) ==
  LET customer == IF o.address # None THEN Matches(o.address) ELSE Customers
      meant    == UNION {Meant(o, i) : i \in customer} IN
  /\ pc[r] = "new" /\ o.kind = "demo_ticket"
  /\ \/ \E p \in meant : tickets' = tickets \cup {p} /\ Answer(r, "ok")
     \/ /\ \/ meant = {}
           \/ o.address # None /\ \E i \in customer : Meant(o, i) = {}
        /\ Answer(r, "refused")
        /\ UNCHANGED tickets
  /\ UNCHANGED <<customers, products, orders, shipments>>

\* A handler's first step, on request o.
Open(r, o) ==
  \/ CheckCustomer(r, o) \/ CreateProduct(r, o) \/ CreateOrder(r, o)
  \/ CheckShipment(r, o) \/ FindCustomer(r, o) \/ FileTicket(r, o)

\* Its later ones.
Proceed(r) ==
  InsertCustomer(r) \/ InsertShipment(r) \/ FlushCustomer(r) \/ CommitDemoOrder(r)
=============================================================================
