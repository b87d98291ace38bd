------------------------- MODULE OrderMonitorProofs -------------------------
(***************************************************************************)
(* For any number of orders, days, overlapping monitor runs and demo       *)
(* requests: the slots keep the runs from publishing an order twice a day, *)
(* and no order is silenced by a slot nobody is responsible for.           *)
(***************************************************************************)
EXTENDS OrderMonitor, TLAPS

Active(m) == pc[m] \in {"pick", "publish", "giveBack"}

\* A slot that a run may still take: it is free, and its day is not over or is
\* the day of a run in progress.
Takeable(s) == /\ s \notin slots
               /\ s[2] >= today \/ \E m \in Runs : Active(m) /\ day[m] = s[2]

\* Whoever is about to publish has the slot, alone, and is the first to.
Exclusive ==
  /\ \A m \in Runs : Busy(m) => Slot(m) \in slots /\ sent[Slot(m)] <= faults["failure"]
  /\ \A m, n \in Runs : m # n /\ Busy(m) /\ Busy(n) => Slot(m) # Slot(n)

\* No event was sent for a slot that can still be taken, failures apart.
TakeableUnsent == \A s \in Orders \X Days : Takeable(s) => sent[s] <= faults["failure"]

\* A demo order is announced before it is marked, and after it is created.
DemoOrder ==
  \A o \in Demos : /\ demo[o] = "mark" => o \in announced
                   /\ o \in announced => demo[o] # "idle"

IInv == /\ TypeOK
        /\ Exclusive
        /\ TakeableUnsent
        /\ OncePerDay
        /\ DemoOrder
        /\ SilentOnlyByDeath

LEMMA TypeStep == TypeOK /\ [Next]_vars => TypeOK'
<1> SUFFICES ASSUME TypeOK, [Next]_vars
             PROVE  TypeOK'
  OBVIOUS
<1> USE OrdersAssumption, BoundsAssumption
    DEF TypeOK, Labels, Stages, Goto, Fault, run, shared, vars
<1>1. ASSUME Midnight
      PROVE  TypeOK'
  BY <1>1 DEF Midnight, Days
<1>2. ASSUME NEW o \in Orders, BecomeLate(o)
      PROVE  TypeOK'
  BY <1>2 DEF BecomeLate
<1>3. ASSUME NEW s \in slots, ExpireSlot(s)
      PROVE  TypeOK'
  BY <1>3 DEF ExpireSlot
<1>4. ASSUME NEW m \in Runs, StartRun(m)
      PROVE  TypeOK'
  BY <1>4 DEF StartRun, Slot
<1>5. ASSUME NEW m \in Runs, TakeSlot(m)
      PROVE  TypeOK'
  BY <1>5 DEF TakeSlot, Slot
<1>6. ASSUME NEW m \in Runs, PublishOrder(m)
      PROVE  TypeOK'
  BY <1>6 DEF PublishOrder, Slot
<1>7. ASSUME NEW m \in Runs, PublishRaises(m)
      PROVE  TypeOK'
  <2>1. sent' \in [Orders \X Days -> Nat]
    <3>1. sent' = sent \/ sent' = [sent EXCEPT ![Slot(m)] = @ + 1]
      BY <1>7 DEF PublishRaises
    <3>2. Slot(m) \in Orders \X Days
      BY DEF Slot
    <3>3. sent[Slot(m)] + 1 \in Nat
      BY <3>2
    <3>4. QED
      BY <3>1, <3>3
  <2>2. pc' \in [Runs -> Labels] /\ faults' \in [{"failure", "death"} -> Nat]
    BY <1>7 DEF PublishRaises
  <2>3. UNCHANGED <<today, delayed, slots, announced, day, found, todo, inHand, count, demo, demoDay>>
    BY <1>7 DEF PublishRaises
  <2>4. QED
    BY <2>1, <2>2, <2>3
<1>8. ASSUME NEW m \in Runs, GiveBack(m)
      PROVE  TypeOK'
  BY <1>8 DEF GiveBack, Slot
<1>9. ASSUME NEW m \in Runs, FinishRun(m)
      PROVE  TypeOK'
  BY <1>9 DEF FinishRun, Slot
<1>10. ASSUME NEW m \in Runs, RunDies(m)
      PROVE  TypeOK'
  BY <1>10 DEF RunDies, Slot
<1>11. ASSUME NEW o \in Demos, CreateDemo(o)
      PROVE  TypeOK'
  BY <1>11 DEF CreateDemo, Slot
<1>12. ASSUME NEW o \in Demos, PublishDemo(o)
      PROVE  TypeOK'
  BY <1>12 DEF PublishDemo, Slot
<1>13. ASSUME NEW o \in Demos, MarkDemo(o)
      PROVE  TypeOK'
  BY <1>13 DEF MarkDemo, Slot
<1>14. ASSUME NEW o \in Demos, DemoDies(o)
      PROVE  TypeOK'
  BY <1>14 DEF DemoDies, Slot
<1>15. CASE UNCHANGED vars
  BY <1>15
<1>16. QED
  BY <1>1, <1>2, <1>3, <1>4, <1>5, <1>6, <1>7, <1>8, <1>9, <1>10, <1>11, <1>12, <1>13, <1>14, <1>15
     DEF Next, DetectDelayedOrders, CreateDelayedOrder

LEMMA TypeInit == Init => TypeOK
  BY OrdersAssumption, BoundsAssumption
     DEF Init, TypeOK, Labels, Stages, Days, NoFaults

\* Type correctness.
THEOREM TypeCorrect == Spec => []TypeOK
<1>1. QED
  BY TypeInit, TypeStep, PTL DEF Spec
-----------------------------------------------------------------------------

\* Counting one more event touches one counter.
LEMMA Counted ==
  ASSUME NEW S, NEW f \in [S -> Nat], NEW x \in S
  PROVE  \A u \in S : LET g == [f EXCEPT ![x] = @ + 1] IN
           g[u] <= f[u] + 1 /\ (u # x => g[u] = f[u])
  OBVIOUS

LEMMA InvStep == IInv /\ [Next]_vars => IInv'
<1> SUFFICES ASSUME IInv, [Next]_vars
             PROVE  IInv'
  OBVIOUS
<1> USE OrdersAssumption, BoundsAssumption DEF TypeOK, Busy, Slot, Goto, Fault, run, shared, vars
<1> DEFINE Rest == /\ Exclusive'
                   /\ TakeableUnsent'
                   /\ OncePerDay'
                   /\ DemoOrder'
                   /\ SilentOnlyByDeath'
<1>1. /\ TypeOK /\ TypeOK' /\ Exclusive /\ TakeableUnsent
      /\ OncePerDay /\ DemoOrder /\ SilentOnlyByDeath
  BY TypeStep DEF IInv
<1>2. ASSUME Midnight
      PROVE  Rest
  <2>1. Exclusive'
    BY <1>1, <1>2 DEF Midnight, Exclusive
  <2>2. TakeableUnsent'
    <3> SUFFICES ASSUME NEW t \in Orders \X Days, Takeable(t)'
                 PROVE  (sent[t] <= faults["failure"])'
      BY DEF TakeableUnsent
    <3> t[2] \in Nat /\ today \in Nat
      BY <1>1 DEF Days
    <3>1. Takeable(t)
      BY <1>1, <1>2 DEF Midnight, Takeable, Active
    <3>2. QED
      BY <1>1, <1>2, <3>1 DEF Midnight, TakeableUnsent
  <2>3. OncePerDay'
    BY <1>1, <1>2 DEF Midnight, OncePerDay, TakeableUnsent, Exclusive, Takeable, Active
  <2>4. DemoOrder'
    BY <1>1, <1>2 DEF Midnight, DemoOrder
  <2>5. SilentOnlyByDeath'
    BY <1>1, <1>2 DEF Midnight, SilentOnlyByDeath, Published, InProgress, Exclusive, DemoOrder
  <2>6. QED
    BY <2>1, <2>2, <2>3, <2>4, <2>5
<1>3. ASSUME NEW o \in Orders, BecomeLate(o)
      PROVE  Rest
  <2>1. Exclusive'
    BY <1>1, <1>3 DEF BecomeLate, Exclusive
  <2>2. TakeableUnsent'
    BY <1>1, <1>3 DEF BecomeLate, TakeableUnsent, Takeable, Active
  <2>3. OncePerDay'
    BY <1>1, <1>3 DEF BecomeLate, OncePerDay, TakeableUnsent, Exclusive, Takeable, Active
  <2>4. DemoOrder'
    BY <1>1, <1>3 DEF BecomeLate, DemoOrder
  <2>5. SilentOnlyByDeath'
    BY <1>1, <1>3 DEF BecomeLate, SilentOnlyByDeath, Published, InProgress, Exclusive, DemoOrder
  <2>6. QED
    BY <2>1, <2>2, <2>3, <2>4, <2>5
<1>4. ASSUME NEW s \in slots, ExpireSlot(s)
      PROVE  Rest
  <2>1. Exclusive'
    BY <1>1, <1>4 DEF ExpireSlot, Exclusive
  <2>2. TakeableUnsent'
    <3> SUFFICES ASSUME NEW t \in Orders \X Days, Takeable(t)'
                 PROVE  (sent[t] <= faults["failure"])'
      BY DEF TakeableUnsent
    <3> t[2] \in Nat /\ today \in Nat
      BY <1>1 DEF Days
    <3>1. t # s
      BY <1>1, <1>4 DEF ExpireSlot, Takeable, Active, Days
    <3>2. Takeable(t)
      BY <1>4, <3>1 DEF ExpireSlot, Takeable, Active
    <3>3. QED
      BY <1>1, <1>4, <3>2 DEF ExpireSlot, TakeableUnsent
  <2>3. OncePerDay'
    BY <1>1, <1>4 DEF ExpireSlot, OncePerDay, TakeableUnsent, Exclusive, Takeable, Active
  <2>4. DemoOrder'
    BY <1>1, <1>4 DEF ExpireSlot, DemoOrder
  <2>5. SilentOnlyByDeath'
    BY <1>1, <1>4 DEF ExpireSlot, SilentOnlyByDeath, Published, InProgress, Exclusive, DemoOrder
  <2>6. QED
    BY <2>1, <2>2, <2>3, <2>4, <2>5
<1>5. ASSUME NEW m \in Runs, StartRun(m)
      PROVE  Rest
  <2>1. Exclusive'
    BY <1>1, <1>5 DEF StartRun, Exclusive
  <2>2. TakeableUnsent'
    <3> SUFFICES ASSUME NEW t \in Orders \X Days, Takeable(t)'
                 PROVE  (sent[t] <= faults["failure"])'
      BY DEF TakeableUnsent
    <3> t[2] \in Nat /\ today \in Nat
      BY <1>1 DEF Days
    <3>1. Takeable(t)
      BY <1>1, <1>5 DEF StartRun, Takeable, Active
    <3>2. QED
      BY <1>1, <1>5, <3>1 DEF StartRun, TakeableUnsent
  <2>3. OncePerDay'
    BY <1>1, <1>5 DEF StartRun, OncePerDay, TakeableUnsent, Exclusive, Takeable, Active
  <2>4. DemoOrder'
    BY <1>1, <1>5 DEF StartRun, DemoOrder
  <2>5. SilentOnlyByDeath'
    BY <1>1, <1>5 DEF StartRun, SilentOnlyByDeath, Published, InProgress, Exclusive, DemoOrder
  <2>6. QED
    BY <2>1, <2>2, <2>3, <2>4, <2>5
<1>6. ASSUME NEW m \in Runs, TakeSlot(m)
      PROVE  Rest
  <2>1. Exclusive'
    <3>1. PICK o \in todo[m] :
             \/ /\ <<o, day[m]>> \notin slots
                /\ slots' = slots \cup {<<o, day[m]>>}
                /\ inHand' = [inHand EXCEPT ![m] = o]
                /\ pc' = [pc EXCEPT ![m] = "publish"]
             \/ /\ <<o, day[m]>> \in slots
                /\ UNCHANGED <<slots, inHand, pc>>
      BY <1>6 DEF TakeSlot
    <3>2. pc[m] = "pick" /\ UNCHANGED <<sent, day, faults>>
      BY <1>6 DEF TakeSlot
    <3>3. CASE <<o, day[m]>> \in slots
      BY <1>1, <3>1, <3>2, <3>3 DEF Exclusive
    <3>4. CASE <<o, day[m]>> \notin slots
      <4>1. o \in Orders /\ <<o, day[m]>> \in Orders \X Days
        BY <1>1
      <4>2. Takeable(<<o, day[m]>>)
        BY <3>2, <3>4 DEF Takeable, Active
      <4>3. sent[<<o, day[m]>>] <= faults["failure"]
        BY <1>1, <4>1, <4>2 DEF TakeableUnsent
      <4>4. Slot(m)' = <<o, day[m]>> /\ \A n \in Runs \ {m} : Slot(n)' = Slot(n)
        BY <1>1, <3>1, <3>2, <3>4
      <4>5. \A n \in Runs \ {m} : Busy(n)' = Busy(n)
        BY <1>1, <3>1, <3>4
      <4>6. \A n \in Runs \ {m} : Busy(n) => Slot(n) # <<o, day[m]>>
        BY <1>1, <3>4 DEF Exclusive
      <4>7. QED
        <5>1. \A n \in Runs : (Busy(n) => Slot(n) \in slots /\ sent[Slot(n)] <= faults["failure"])'
          BY <1>1, <3>1, <3>2, <3>4, <4>3, <4>4, <4>5 DEF Exclusive
        <5>2. ASSUME NEW n \in Runs, NEW k \in Runs, n # k, Busy(n)', Busy(k)'
              PROVE  Slot(n)' # Slot(k)'
          <6>1. CASE n # m /\ k # m
            BY <5>2, <6>1, <1>1, <4>4, <4>5 DEF Exclusive
          <6>2. CASE n = m \/ k = m
            BY <5>2, <6>2, <4>4, <4>5, <4>6
          <6>3. QED
            BY <6>1, <6>2
        <5>3. QED
          BY <5>1, <5>2 DEF Exclusive
    <3>5. QED
      BY <3>3, <3>4
  <2>2. TakeableUnsent'
    BY <1>1, <1>6 DEF TakeSlot, TakeableUnsent, Takeable, Active
  <2>3. OncePerDay'
    BY <1>1, <1>6 DEF TakeSlot, OncePerDay, TakeableUnsent, Exclusive, Takeable, Active
  <2>4. DemoOrder'
    BY <1>1, <1>6 DEF TakeSlot, DemoOrder
  <2>5. SilentOnlyByDeath'
    BY <1>1, <1>6 DEF TakeSlot, SilentOnlyByDeath, Published, InProgress, Exclusive, DemoOrder
  <2>6. QED
    BY <2>1, <2>2, <2>3, <2>4, <2>5
<1>7. ASSUME NEW m \in Runs, PublishOrder(m)
      PROVE  Rest
  <2>1. Exclusive'
    BY <1>1, <1>7 DEF PublishOrder, Exclusive
  <2>2. TakeableUnsent'
    <3> SUFFICES ASSUME NEW t \in Orders \X Days, Takeable(t)'
                 PROVE  (sent[t] <= faults["failure"])'
      BY DEF TakeableUnsent
    <3> t[2] \in Nat /\ today \in Nat
      BY <1>1 DEF Days
    <3>1. Slot(m) \in slots /\ t # Slot(m)
      BY <1>1, <1>7 DEF PublishOrder, Takeable, Exclusive
    <3>2. Takeable(t)
      BY <1>1, <1>7 DEF PublishOrder, Takeable, Active
    <3>3. sent'[t] = sent[t]
      BY <1>1, <1>7, <3>1 DEF PublishOrder
    <3>4. QED
      BY <1>1, <1>7, <3>2, <3>3 DEF PublishOrder, TakeableUnsent
  <2>3. OncePerDay'
    BY <1>1, <1>7 DEF PublishOrder, OncePerDay, TakeableUnsent, Exclusive, Takeable, Active
  <2>4. DemoOrder'
    BY <1>1, <1>7 DEF PublishOrder, DemoOrder
  <2>5. SilentOnlyByDeath'
    BY <1>1, <1>7 DEF PublishOrder, SilentOnlyByDeath, Published, InProgress, Exclusive, DemoOrder
  <2>6. QED
    BY <2>1, <2>2, <2>3, <2>4, <2>5
<1>8. ASSUME NEW m \in Runs, PublishRaises(m)
      PROVE  Rest
  <2>1. /\ faults' = [faults EXCEPT !["failure"] = @ + 1]
        /\ faults'["failure"] = faults["failure"] + 1
    BY <1>1, <1>8 DEF PublishRaises
  <2>2. \A u \in Orders \X Days : sent'[u] <= sent[u] + 1 /\ (u # Slot(m) => sent'[u] = sent[u])
    <3>1. PICK x \in Orders \X Days : x = Slot(m)
      BY <1>1
    <3>2. CASE sent' = sent
      BY <1>1, <3>2
    <3>3. CASE sent' = [sent EXCEPT ![x] = @ + 1]
      <4>1. sent \in [Orders \X Days -> Nat]
        BY <1>1
      <4>2. \A u \in Orders \X Days : sent'[u] <= sent[u] + 1 /\ (u # x => sent'[u] = sent[u])
        BY ONLY <3>3, <4>1, Counted
      <4>3. QED
        BY <3>1, <4>2
    <3>4. QED
      BY <1>8, <3>1, <3>2, <3>3 DEF PublishRaises
  <2>3. Exclusive'
    <3>1. \A n \in Runs : /\ Slot(n)' = Slot(n) /\ Slot(n) \in Orders \X Days
                          /\ Busy(n)' <=> Busy(n)
      BY <1>1, <1>8 DEF PublishRaises
    <3>2. \A n \in Runs : Busy(n) => sent'[Slot(n)] <= faults'["failure"]
      <4> SUFFICES ASSUME NEW n \in Runs, Busy(n)
                   PROVE  sent'[Slot(n)] <= faults'["failure"]
        OBVIOUS
      <4> DEFINE before == sent[Slot(n)]
                 after  == sent'[Slot(n)]
      <4>1. before \in Nat /\ after \in Nat /\ faults["failure"] \in Nat
        BY <1>1, <3>1
      <4>2. before <= faults["failure"] /\ after <= before + 1
        BY <1>1, <2>2, <3>1 DEF Exclusive
      <4>3. QED
        BY <2>1, <4>1, <4>2
    <3>3. slots' = slots
      BY <1>8 DEF PublishRaises
    <3>4. QED
      <4>1. \A n \in Runs : (Busy(n) => Slot(n) \in slots /\ sent[Slot(n)] <= faults["failure"])'
        BY <1>1, <3>1, <3>2, <3>3 DEF Exclusive
      <4>2. ASSUME NEW n \in Runs, NEW k \in Runs, n # k, Busy(n)', Busy(k)'
            PROVE  Slot(n)' # Slot(k)'
        <5>1. Busy(n) /\ Busy(k)
          BY <1>1, <1>8, <4>2 DEF PublishRaises
        <5>2. Slot(n) # Slot(k)
          BY <1>1, <4>2, <5>1 DEF Exclusive
        <5>3. inHand' = inHand /\ day' = day
          BY <1>8 DEF PublishRaises
        <5>4. QED
          BY <5>2, <5>3
      <4>3. QED
        BY <4>1, <4>2 DEF Exclusive
  <2>4. TakeableUnsent'
    <3> SUFFICES ASSUME NEW t \in Orders \X Days, Takeable(t)'
                 PROVE  (sent[t] <= faults["failure"])'
      BY DEF TakeableUnsent
    <3> t[2] \in Nat /\ today \in Nat
      BY <1>1 DEF Days
    <3>1. Takeable(t)
      BY <1>1, <1>8 DEF PublishRaises, Takeable, Active
    <3>2. sent[t] <= faults["failure"] /\ sent[t] \in Nat /\ sent'[t] \in Nat
      BY <1>1, <3>1 DEF TakeableUnsent
    <3>3. sent'[t] <= sent[t] + 1 /\ faults["failure"] \in Nat
      BY <1>1, <2>2
    <3>4. QED
      BY <2>1, <3>2, <3>3
  <2>5. OncePerDay'
    <3>1. \A u \in Orders \X Days : sent[u] \in Nat /\ sent[u] <= 1 + faults["failure"]
      BY <1>1 DEF OncePerDay
    <3>2. \A u \in Orders \X Days : sent'[u] \in Nat
      BY <1>1
    <3>3. faults["failure"] \in Nat
      BY <1>1
    <3>4. \A u \in Orders \X Days : sent'[u] <= 1 + faults'["failure"]
      BY <2>1, <2>2, <3>1, <3>2, <3>3
    <3>5. QED
      BY <3>4 DEF OncePerDay
  <2>6. DemoOrder'
    BY <1>1, <1>8 DEF PublishRaises, DemoOrder
  <2>7. SilentOnlyByDeath'
    BY <1>1, <1>8 DEF PublishRaises, SilentOnlyByDeath, Published, InProgress, Exclusive, DemoOrder
  <2>8. QED
    BY <2>3, <2>4, <2>5, <2>6, <2>7
<1>9. ASSUME NEW m \in Runs, GiveBack(m)
      PROVE  Rest
  <2>1. Exclusive'
    BY <1>1, <1>9 DEF GiveBack, Exclusive
  <2>2. TakeableUnsent'
    <3> SUFFICES ASSUME NEW t \in Orders \X Days, Takeable(t)'
                 PROVE  (sent[t] <= faults["failure"])'
      BY DEF TakeableUnsent
    <3> t[2] \in Nat /\ today \in Nat
      BY <1>1 DEF Days
    <3>1. CASE t = Slot(m)
      BY <1>1, <1>9, <3>1 DEF GiveBack, Exclusive
    <3>2. CASE t # Slot(m)
      <4>1. Takeable(t)
        BY <1>1, <1>9, <3>2 DEF GiveBack, Takeable, Active
      <4>2. QED
        BY <1>1, <1>9, <4>1 DEF GiveBack, TakeableUnsent
    <3>3. QED
      BY <3>1, <3>2
  <2>3. OncePerDay'
    BY <1>1, <1>9 DEF GiveBack, OncePerDay, TakeableUnsent, Exclusive, Takeable, Active
  <2>4. DemoOrder'
    BY <1>1, <1>9 DEF GiveBack, DemoOrder
  <2>5. SilentOnlyByDeath'
    BY <1>1, <1>9 DEF GiveBack, SilentOnlyByDeath, Published, InProgress, Exclusive, DemoOrder
  <2>6. QED
    BY <2>1, <2>2, <2>3, <2>4, <2>5
<1>10. ASSUME NEW m \in Runs, FinishRun(m)
       PROVE  Rest
  <2>1. Exclusive'
    BY <1>1, <1>10 DEF FinishRun, Exclusive
  <2>2. TakeableUnsent'
    BY <1>1, <1>10 DEF FinishRun, TakeableUnsent, Takeable, Active
  <2>3. OncePerDay'
    BY <1>1, <1>10 DEF FinishRun, OncePerDay, TakeableUnsent, Exclusive, Takeable, Active
  <2>4. DemoOrder'
    BY <1>1, <1>10 DEF FinishRun, DemoOrder
  <2>5. SilentOnlyByDeath'
    BY <1>1, <1>10 DEF FinishRun, SilentOnlyByDeath, Published, InProgress, Exclusive, DemoOrder
  <2>6. QED
    BY <2>1, <2>2, <2>3, <2>4, <2>5
<1>11. ASSUME NEW m \in Runs, RunDies(m)
       PROVE  Rest
  <2>1. Exclusive'
    BY <1>1, <1>11 DEF RunDies, Exclusive
  <2>2. TakeableUnsent'
    BY <1>1, <1>11 DEF RunDies, TakeableUnsent, Takeable, Active
  <2>3. OncePerDay'
    BY <1>1, <1>11 DEF RunDies, OncePerDay, TakeableUnsent, Exclusive, Takeable, Active
  <2>4. DemoOrder'
    BY <1>1, <1>11 DEF RunDies, DemoOrder
  <2>5. SilentOnlyByDeath'
    BY <1>1, <1>11 DEF RunDies, SilentOnlyByDeath, Published, InProgress, Exclusive, DemoOrder
  <2>6. QED
    BY <2>1, <2>2, <2>3, <2>4, <2>5
<1>12. ASSUME NEW o \in Demos, CreateDemo(o)
       PROVE  Rest
  <2>1. Exclusive'
    BY <1>1, <1>12 DEF CreateDemo, Exclusive
  <2>2. TakeableUnsent'
    BY <1>1, <1>12 DEF CreateDemo, TakeableUnsent, Takeable, Active
  <2>3. OncePerDay'
    BY <1>1, <1>12 DEF CreateDemo, OncePerDay, TakeableUnsent, Exclusive, Takeable, Active
  <2>4. DemoOrder'
    BY <1>1, <1>12 DEF CreateDemo, DemoOrder
  <2>5. SilentOnlyByDeath'
    BY <1>1, <1>12 DEF CreateDemo, SilentOnlyByDeath, Published, InProgress, Exclusive, DemoOrder
  <2>6. QED
    BY <2>1, <2>2, <2>3, <2>4, <2>5
<1>13. ASSUME NEW o \in Demos, PublishDemo(o)
       PROVE  Rest
  <2>1. Exclusive'
    BY <1>1, <1>13 DEF PublishDemo, Exclusive
  <2>2. TakeableUnsent'
    BY <1>1, <1>13 DEF PublishDemo, TakeableUnsent, Takeable, Active
  <2>3. OncePerDay'
    BY <1>1, <1>13 DEF PublishDemo, OncePerDay, TakeableUnsent, Exclusive, Takeable, Active
  <2>4. DemoOrder'
    BY <1>1, <1>13 DEF PublishDemo, DemoOrder
  <2>5. SilentOnlyByDeath'
    BY <1>1, <1>13 DEF PublishDemo, SilentOnlyByDeath, Published, InProgress, Exclusive, DemoOrder
  <2>6. QED
    BY <2>1, <2>2, <2>3, <2>4, <2>5
<1>14. ASSUME NEW o \in Demos, MarkDemo(o)
       PROVE  Rest
  <2>1. Exclusive'
    BY <1>1, <1>14 DEF MarkDemo, Exclusive
  <2>2. TakeableUnsent'
    BY <1>1, <1>14 DEF MarkDemo, TakeableUnsent, Takeable, Active
  <2>3. OncePerDay'
    BY <1>1, <1>14 DEF MarkDemo, OncePerDay, TakeableUnsent, Exclusive, Takeable, Active
  <2>4. DemoOrder'
    BY <1>1, <1>14 DEF MarkDemo, DemoOrder
  <2>5. SilentOnlyByDeath'
    BY <1>1, <1>14 DEF MarkDemo, SilentOnlyByDeath, Published, InProgress, Exclusive, DemoOrder
  <2>6. QED
    BY <2>1, <2>2, <2>3, <2>4, <2>5
<1>15. ASSUME NEW o \in Demos, DemoDies(o)
       PROVE  Rest
  <2>1. Exclusive'
    BY <1>1, <1>15 DEF DemoDies, Exclusive
  <2>2. TakeableUnsent'
    BY <1>1, <1>15 DEF DemoDies, TakeableUnsent, Takeable, Active
  <2>3. OncePerDay'
    BY <1>1, <1>15 DEF DemoDies, OncePerDay, TakeableUnsent, Exclusive, Takeable, Active
  <2>4. DemoOrder'
    BY <1>1, <1>15 DEF DemoDies, DemoOrder
  <2>5. SilentOnlyByDeath'
    BY <1>1, <1>15 DEF DemoDies, SilentOnlyByDeath, Published, InProgress, Exclusive, DemoOrder
  <2>6. QED
    BY <2>1, <2>2, <2>3, <2>4, <2>5
<1>16. ASSUME UNCHANGED vars
      PROVE  Rest
  <2>1. Exclusive'
    BY <1>1, <1>16 DEF run, Exclusive
  <2>2. TakeableUnsent'
    BY <1>1, <1>16 DEF run, TakeableUnsent, Takeable, Active
  <2>3. OncePerDay'
    BY <1>1, <1>16 DEF run, OncePerDay, TakeableUnsent, Exclusive, Takeable, Active
  <2>4. DemoOrder'
    BY <1>1, <1>16 DEF run, DemoOrder
  <2>5. SilentOnlyByDeath'
    BY <1>1, <1>16 DEF run, SilentOnlyByDeath, Published, InProgress, Exclusive, DemoOrder
  <2>6. QED
    BY <2>1, <2>2, <2>3, <2>4, <2>5
<1>17. QED
  BY <1>1, <1>2, <1>3, <1>4, <1>5, <1>6, <1>7, <1>8, <1>9, <1>10, <1>11, <1>12, <1>13, <1>14, <1>15, <1>16
     DEF Next, DetectDelayedOrders, CreateDelayedOrder, IInv

LEMMA InvAlways == Spec => []IInv
<1>1. Init => IInv
  BY TypeInit
     DEF Init, IInv, TypeOK, Exclusive, TakeableUnsent, OncePerDay, DemoOrder,
         SilentOnlyByDeath, Busy, NoFaults
<1>2. QED
  BY <1>1, InvStep, PTL DEF Spec

\* However many monitor runs overlap, an order is published at most once a day,
\* publishes that raised apart.
THEOREM PublishedOncePerDay == Spec => []OncePerDay
<1>1. IInv => OncePerDay
  BY DEF IInv
<1>2. QED
  BY <1>1, InvAlways, PTL

\* No slot silences an order unless a request died.
THEOREM NobodySilenced == Spec => []SilentOnlyByDeath
<1>1. IInv => SilentOnlyByDeath
  BY DEF IInv
<1>2. QED
  BY <1>1, InvAlways, PTL
-----------------------------------------------------------------------------
(* What a run passed over or published, and what a demo request marked. *)

\* The order of slot s has its event, or a run is at it, or something failed.
Covered(s) == Published(s) \/ InProgress(s) \/ faults # NoFaults

PassedCovered ==
  \A m \in Runs : /\ \A o \in found[m] \ todo[m] : Covered(<<o, day[m]>>)
                  /\ pc[m] = "ok" /\ count[m] < Limit => todo[m] = {}

\* A run gives a slot back only after a publish that raised.
GivenBack == \A m \in Runs : pc[m] = "giveBack" => faults["failure"] > 0

\* A finished demo request has its slot; it can expire only when no run can
\* come to it any more.
Marked ==
  \A o \in Demos : demo[o] = "ok" =>
    \/ <<o, demoDay[o]>> \in slots
    \/ faults["failure"] > 0
    \/ demoDay[o] < today /\ \A m \in Runs : Active(m) => day[m] # demoDay[o]

\* No run knows the order of a demo request that has not started.
Uncreated ==
  \A o \in Demos : demo[o] = "idle" =>
    /\ o \notin delayed
    /\ \A m \in Runs : o \notin todo[m] /\ ~(Busy(m) /\ inHand[m] = o)

LEMMA FaultShows ==
  ASSUME TypeOK, NEW kind \in {"failure", "death"}, NEW bound, Fault(kind, bound)
  PROVE  faults' # NoFaults
BY DEF TypeOK, Fault, NoFaults

LEMMA FaultsShow ==
  ASSUME TypeOK, [Next]_vars
  PROVE  \/ faults' = faults
         \/ faults' # NoFaults
<1>1. ASSUME NEW m \in Runs, PublishRaises(m) \/ RunDies(m)
      PROVE  faults' # NoFaults
  BY <1>1, FaultShows DEF PublishRaises, RunDies
<1>2. ASSUME NEW o \in Demos, DemoDies(o)
      PROVE  faults' # NoFaults
  BY <1>2, FaultShows DEF DemoDies
<1>3. QED
  BY <1>1, <1>2, Zenon DEF Next, DetectDelayedOrders, CreateDelayedOrder, Midnight, BecomeLate, ExpireSlot,
     StartRun, TakeSlot, PublishOrder, GiveBack, FinishRun, CreateDemo, PublishDemo, MarkDemo, vars

\* Counters of events only grow.
LEMMA FailuresGrow ==
  ASSUME TypeOK, [Next]_vars
  PROVE  faults'["failure"] >= faults["failure"]
<1>1. faults["failure"] \in Nat
  BY DEF TypeOK
<1>2. \/ faults' = faults
      \/ \E kind \in {"failure", "death"} : faults' = [faults EXCEPT ![kind] = @ + 1]
  BY Zenon DEF Next, DetectDelayedOrders, CreateDelayedOrder, Midnight, BecomeLate, ExpireSlot, StartRun,
     TakeSlot, PublishOrder, PublishRaises, GiveBack, FinishRun, RunDies, CreateDemo, PublishDemo,
     MarkDemo, DemoDies, Fault, vars
<1>3. QED
  BY <1>1, <1>2 DEF TypeOK

LEMMA GivenBackStep == TypeOK /\ GivenBack /\ [Next]_vars => GivenBack'
<1> SUFFICES ASSUME TypeOK, GivenBack, [Next]_vars, NEW m \in Runs, pc'[m] = "giveBack"
             PROVE  faults'["failure"] > 0
  BY DEF GivenBack
<1>1. CASE pc[m] = "giveBack"
  <2>1. faults["failure"] \in Nat /\ faults'["failure"] \in Nat /\ faults["failure"] > 0
    BY <1>1, TypeStep DEF TypeOK, GivenBack
  <2>2. QED
    BY <2>1, FailuresGrow
<1>2. CASE pc[m] # "giveBack"
  <2>1. PublishRaises(m)
    <3>1. UNCHANGED pc \/ \E n \in Runs : DetectDelayedOrders(n)
      BY Zenon DEF Next, Midnight, BecomeLate, ExpireSlot, CreateDelayedOrder, CreateDemo, PublishDemo,
         MarkDemo, DemoDies, run, vars
    <3>2. QED
      BY <1>2, <3>1 DEF DetectDelayedOrders, StartRun, TakeSlot, PublishOrder, GiveBack, FinishRun,
         RunDies, PublishRaises, Goto, TypeOK
  <2>2. QED
    BY <2>1 DEF PublishRaises, Fault, TypeOK
<1>3. QED
  BY <1>1, <1>2

LEMMA SentGrows ==
  ASSUME TypeOK, [Next]_vars, NEW s \in Orders \X Days
  PROVE  sent[s] <= sent'[s]
<1>1. ASSUME NEW m \in Runs, sent' = [sent EXCEPT ![Slot(m)] = @ + 1]
      PROVE  sent[s] <= sent'[s]
  BY <1>1 DEF TypeOK, Slot
<1>2. sent' = sent \/ \E m \in Runs : sent' = [sent EXCEPT ![Slot(m)] = @ + 1]
  BY Zenon DEF Next, DetectDelayedOrders, CreateDelayedOrder, Midnight, BecomeLate, ExpireSlot,
     StartRun, TakeSlot, PublishOrder, PublishRaises, GiveBack, FinishRun, RunDies, CreateDemo,
     PublishDemo, MarkDemo, DemoDies, shared, vars
<1>3. QED
  BY <1>1, <1>2 DEF TypeOK

\* What a demo request announced stays so, on the day it did.
LEMMA AnnouncedStays ==
  ASSUME IInv, [Next]_vars, NEW o \in announced
  PROVE  o \in announced' /\ demoDay'[o] = demoDay[o]
<1>1. o \in Demos /\ demo[o] # "idle"
  BY DEF IInv, TypeOK, DemoOrder
<1>2. demoDay' = demoDay \/ \E d \in Demos : demo[d] = "idle" /\ demoDay' = [demoDay EXCEPT ![d] = today]
  BY Zenon DEF Next, DetectDelayedOrders, CreateDelayedOrder, Midnight, BecomeLate, ExpireSlot,
     StartRun, TakeSlot, PublishOrder, PublishRaises, GiveBack, FinishRun, RunDies, CreateDemo,
     PublishDemo, MarkDemo, DemoDies, vars
<1>3. announced' = announced \/ \E d \in Demos : announced' = announced \cup {d}
  BY Zenon DEF Next, DetectDelayedOrders, CreateDelayedOrder, Midnight, BecomeLate, ExpireSlot,
     StartRun, TakeSlot, PublishOrder, PublishRaises, GiveBack, FinishRun, RunDies, CreateDemo,
     PublishDemo, MarkDemo, DemoDies, shared, vars
<1>4. QED
  BY <1>1, <1>2, <1>3 DEF IInv, TypeOK

LEMMA PublishedStays ==
  ASSUME IInv, [Next]_vars, NEW s \in Orders \X Days, Published(s)
  PROVE  Published(s)'
<1>1. CASE sent[s] > 0
  <2>1. sent[s] \in Nat /\ sent'[s] \in Nat
    BY TypeStep DEF IInv, TypeOK
  <2>2. QED
    BY <1>1, <2>1, SentGrows DEF IInv, Published
<1>2. CASE s[1] \in announced /\ demoDay[s[1]] = s[2]
  BY <1>2, AnnouncedStays DEF Published
<1>3. QED
  BY <1>1, <1>2 DEF Published

\* A run at a slot stays there until its event is sent, or something fails.
LEMMA InProgressStays ==
  ASSUME IInv, GivenBack, [Next]_vars, NEW s \in Orders \X Days, InProgress(s)
  PROVE  Covered(s)'
<1> USE DEF Goto, run, shared, vars
<1>1. PICK m \in Runs : Busy(m) /\ Slot(m) = s
  BY DEF InProgress
<1>2. TypeOK
  BY DEF IInv
<1>3. CASE PublishOrder(m)
  <2>1. sent'[s] = sent[s] + 1 /\ sent[s] \in Nat
    BY <1>1, <1>2, <1>3 DEF PublishOrder, TypeOK
  <2>2. QED
    BY <2>1 DEF Covered, Published
<1>4. CASE PublishRaises(m) \/ RunDies(m)
  BY <1>2, <1>4, FaultShows DEF PublishRaises, RunDies, Covered
<1>5. CASE GiveBack(m)
  BY <1>1, <1>5, FailuresGrow DEF GiveBack, GivenBack, Covered, NoFaults
<1>6. CASE ~(PublishOrder(m) \/ PublishRaises(m) \/ RunDies(m) \/ GiveBack(m))
  <2>1. pc'[m] = pc[m] /\ inHand'[m] = inHand[m] /\ day'[m] = day[m]
    <3>1. ASSUME NEW n \in Runs, DetectDelayedOrders(n)
          PROVE  pc'[m] = pc[m] /\ inHand'[m] = inHand[m] /\ day'[m] = day[m]
      <4>1. CASE n = m
        BY <1>1, <1>6, <3>1, <4>1 DEF DetectDelayedOrders, Busy, StartRun, TakeSlot, FinishRun
      <4>2. CASE n # m
        BY <1>2, <3>1, <4>2 DEF DetectDelayedOrders, StartRun, TakeSlot, PublishOrder, PublishRaises,
           GiveBack, FinishRun, RunDies, TypeOK
      <4>3. QED
        BY <4>1, <4>2
    <3>2. QED
      BY <3>1 DEF Next, CreateDelayedOrder, Midnight, BecomeLate, ExpireSlot, CreateDemo, PublishDemo,
         MarkDemo, DemoDies
  <2>2. QED
    BY <1>1, <2>1 DEF Covered, InProgress, Busy, Slot
<1>7. QED
  BY <1>3, <1>4, <1>5, <1>6

LEMMA CoveredStays ==
  ASSUME IInv, GivenBack, [Next]_vars, NEW s \in Orders \X Days, Covered(s)
  PROVE  Covered(s)'
BY PublishedStays, InProgressStays, FaultsShow DEF Covered, IInv

\* A step of run m: what it stops carrying is covered.
LEMMA PassedStep == IInv /\ GivenBack /\ PassedCovered /\ [Next]_vars => PassedCovered'
<1> SUFFICES ASSUME IInv, GivenBack, PassedCovered, [Next]_vars, NEW m \in Runs
             PROVE  /\ \A o \in found'[m] \ todo'[m] : Covered(<<o, day[m]>>)'
                    /\ pc'[m] = "ok" /\ count'[m] < Limit => todo'[m] = {}
  BY DEF PassedCovered
<1> USE DEF Goto, run, shared, vars
<1>1. TypeOK /\ TypeOK'
  BY TypeStep DEF IInv
<1>2. ASSUME UNCHANGED <<found, todo, day>>
      PROVE  \A o \in found'[m] \ todo'[m] : Covered(<<o, day[m]>>)'
  <2> SUFFICES ASSUME NEW o \in found[m] \ todo[m]
               PROVE  Covered(<<o, day[m]>>)'
    BY <1>2
  <2>1. PICK s \in Orders \X Days : s = <<o, day[m]>>
    BY <1>1 DEF TypeOK
  <2>2. Covered(s)'
    BY <2>1, CoveredStays DEF PassedCovered
  <2>3. QED
    BY <1>2, <2>1, <2>2, Zenon
<1>3. ASSUME pc'[m] = pc[m], UNCHANGED <<found, todo, day>>, count'[m] >= count[m]
      PROVE  pc'[m] = "ok" /\ count'[m] < Limit => todo'[m] = {}
  <2>1. count[m] \in Nat /\ count'[m] \in Nat /\ Limit \in Nat
    BY <1>1, BoundsAssumption DEF TypeOK
  <2>2. pc[m] = "ok" /\ count[m] < Limit => todo[m] = {}
    BY DEF PassedCovered
  <2>3. QED
    BY <1>3, <2>1, <2>2
<1>4. CASE StartRun(m)
  BY <1>1, <1>4 DEF StartRun, TypeOK
<1>5. CASE TakeSlot(m)
  <2>1. PICK o \in todo[m] :
          /\ todo' = [todo EXCEPT ![m] = @ \ {o}]
          /\ \/ /\ <<o, day[m]>> \notin slots
                /\ inHand' = [inHand EXCEPT ![m] = o]
                /\ pc' = [pc EXCEPT ![m] = "publish"]
             \/ /\ <<o, day[m]>> \in slots
                /\ UNCHANGED <<slots, inHand, pc>>
    BY <1>5 DEF TakeSlot
  <2>2. pc[m] = "pick" /\ UNCHANGED <<day, found, sent, announced, demoDay, faults>>
    BY <1>5 DEF TakeSlot
  <2>3. PICK s \in Orders \X Days : s = <<o, day[m]>>
    BY <1>1 DEF TypeOK
  <2>4. Covered(s)'
    <3>1. CASE s \in slots
      <4>1. SilentOnlyByDeath
        BY DEF IInv
      <4>2. faults["death"] > 0 => faults # NoFaults
        BY DEF NoFaults
      <4>3. Covered(s)
        BY <3>1, <4>1, <4>2 DEF SilentOnlyByDeath, Covered
      <4>4. QED
        BY <4>3, CoveredStays
    <3>2. CASE s \notin slots
      <4>1. Busy(m)' /\ Slot(m)' = s
        BY <1>1, <2>1, <2>2, <2>3, <3>2 DEF Busy, Slot, TypeOK
      <4>2. QED
        BY <4>1 DEF Covered, InProgress
    <3>3. QED
      BY <3>1, <3>2
  <2>5. ASSUME NEW p \in found'[m] \ todo'[m]
        PROVE  Covered(<<p, day[m]>>)'
    <3>1. CASE p = o
      BY <2>2, <2>3, <2>4, <3>1, Zenon
    <3>2. CASE p # o
      <4>1. p \in found[m] \ todo[m]
        BY <1>1, <2>1, <2>2, <2>5, <3>2 DEF TypeOK
      <4>2. PICK u \in Orders \X Days : u = <<p, day[m]>>
        BY <1>1, <4>1 DEF TypeOK
      <4>3. Covered(u)'
        BY <4>1, <4>2, CoveredStays DEF PassedCovered
      <4>4. QED
        BY <2>2, <4>2, <4>3, Zenon
    <3>3. QED
      BY <3>1, <3>2
  <2>6. pc'[m] \in {"pick", "publish"}
    BY <1>1, <2>1, <2>2 DEF TypeOK
  <2>7. QED
    BY <2>5, <2>6
<1>6. CASE PublishOrder(m)
  <2>1. pc'[m] = "pick" /\ UNCHANGED <<found, todo, day>>
    BY <1>1, <1>6 DEF PublishOrder, TypeOK
  <2>2. QED
    BY <1>2, <2>1
<1>7. CASE PublishRaises(m) \/ RunDies(m)
  <2>1. pc'[m] \in {"giveBack", "failed"} /\ UNCHANGED <<found, todo, day>>
    BY <1>1, <1>7 DEF PublishRaises, RunDies, TypeOK
  <2>2. QED
    BY <1>2, <2>1
<1>8. CASE GiveBack(m)
  <2>1. pc'[m] = "failed" /\ UNCHANGED <<found, todo, day>>
    BY <1>1, <1>8 DEF GiveBack, TypeOK
  <2>2. QED
    BY <1>2, <2>1
<1>9. CASE FinishRun(m)
  <2>1. pc'[m] = "ok" /\ UNCHANGED <<found, todo, day, count>> /\ (todo[m] = {} \/ count[m] >= Limit)
    BY <1>1, <1>9 DEF FinishRun, TypeOK
  <2>2. count[m] \in Nat
    BY <1>1 DEF TypeOK
  <2>3. QED
    BY <1>2, <2>1, <2>2, BoundsAssumption
<1>10. ASSUME NEW n \in Runs \ {m}, DetectDelayedOrders(n)
       PROVE  /\ \A o \in found'[m] \ todo'[m] : Covered(<<o, day[m]>>)'
              /\ pc'[m] = "ok" /\ count'[m] < Limit => todo'[m] = {}
  <2>1. /\ pc'[m] = pc[m] /\ found'[m] = found[m] /\ todo'[m] = todo[m] /\ day'[m] = day[m]
        /\ count'[m] = count[m]
    BY <1>1, <1>10 DEF DetectDelayedOrders, StartRun, TakeSlot, PublishOrder, PublishRaises, GiveBack,
       FinishRun, RunDies, TypeOK
  <2>2. ASSUME NEW o \in found'[m] \ todo'[m]
        PROVE  Covered(<<o, day[m]>>)'
    <3>1. PICK s \in Orders \X Days : s = <<o, day[m]>>
      BY <1>1, <2>1 DEF TypeOK
    <3>2. Covered(s)'
      BY <2>1, <3>1, CoveredStays DEF PassedCovered
    <3>3. QED
      BY <2>1, <3>1, <3>2, Zenon
  <2>3. QED
    BY <2>1, <2>2 DEF PassedCovered
<1>11. CASE UNCHANGED run
  <2>1. UNCHANGED <<found, todo, day, pc, count>>
    BY <1>11
  <2>2. count'[m] >= count[m]
    BY <1>1, <2>1 DEF TypeOK
  <2>3. QED
    BY <1>2, <1>3, <2>1, <2>2
<1>12. UNCHANGED run \/ \E n \in Runs : DetectDelayedOrders(n)
  BY Zenon DEF Next, Midnight, BecomeLate, ExpireSlot, CreateDelayedOrder, CreateDemo, PublishDemo,
     MarkDemo, DemoDies
<1>13. QED
  BY <1>4, <1>5, <1>6, <1>7, <1>8, <1>9, <1>10, <1>11, <1>12 DEF DetectDelayedOrders

\* A run that reports fewer events than its limit left no order it found
\* without an event and without anyone about to send one.
THEOREM RunsCover == Spec => []RunCovers
<1>1. Init => GivenBack /\ PassedCovered
  BY DEF Init, GivenBack, PassedCovered
<1>2. IInv => TypeOK
  BY DEF IInv
<1>3. IInv /\ PassedCovered => RunCovers
  BY DEF IInv, TypeOK, PassedCovered, RunCovers, Covered
<1>4. QED
  BY <1>1, <1>2, <1>3, GivenBackStep, PassedStep, InvAlways, PTL DEF Spec

LEMMA MarkedStep == IInv /\ GivenBack /\ Marked /\ [Next]_vars => Marked'
<1> SUFFICES ASSUME IInv, GivenBack, Marked, [Next]_vars
             PROVE  Marked'
  OBVIOUS
<1> USE DEF Goto, run, shared, vars, Active
<1>1. TypeOK /\ TypeOK'
  BY TypeStep DEF IInv
<1>3. ASSUME Midnight
      PROVE  Marked'
  <2>1. \A p \in Demos : demoDay[p] \in Nat /\ today \in Nat
    BY <1>1 DEF TypeOK, Days
  <2>2. QED
    BY <1>3, <2>1 DEF Midnight, Marked
<1>4. ASSUME NEW p \in Orders, BecomeLate(p)
      PROVE  Marked'
  BY <1>4 DEF BecomeLate, Marked
<1>5. ASSUME NEW s \in slots, ExpireSlot(s)
      PROVE  Marked'
  <2>1. UNCHANGED <<demo, demoDay, today, day, pc, faults>> /\ slots' = slots \ {s}
    BY <1>5 DEF ExpireSlot
  <2>2. \A p \in Demos : s = <<p, demoDay[p]>> =>
          demoDay[p] < today /\ \A m \in Runs : Active(m) => day[m] # demoDay[p]
    BY <1>5 DEF ExpireSlot
  <2>3. QED
    BY <2>1, <2>2 DEF Marked
<1>6. ASSUME NEW m \in Runs, DetectDelayedOrders(m)
      PROVE  Marked'
  <2>1. UNCHANGED <<demo, demoDay, today>>
    BY <1>6 DEF DetectDelayedOrders, StartRun, TakeSlot, PublishOrder, PublishRaises, GiveBack, FinishRun, RunDies
  <2>2. CASE StartRun(m)
    <3>1. UNCHANGED <<slots, faults>> /\ day' = [day EXCEPT ![m] = today] /\ pc' = [pc EXCEPT ![m] = "pick"]
      BY <2>2 DEF StartRun
    <3>2. \A p \in Demos : demoDay[p] \in Nat /\ today \in Nat
      BY <1>1 DEF TypeOK, Days
    <3>3. ASSUME NEW p \in Demos, demoDay[p] < today, \A n \in Runs : Active(n) => day[n] # demoDay[p]
          PROVE  \A n \in Runs : Active(n)' => day'[n] # demoDay[p]
      BY <1>1, <3>1, <3>2, <3>3 DEF TypeOK
    <3>4. QED
      BY <2>1, <3>1, <3>3 DEF Marked
  <2>3. CASE GiveBack(m)
    <3>1. faults'["failure"] > 0
      BY <2>3 DEF GiveBack, GivenBack
    <3>2. QED
      BY <3>1 DEF Marked
  <2>4. CASE PublishRaises(m) \/ RunDies(m)
    <3>1. UNCHANGED <<day, slots>>
      BY <2>4 DEF PublishRaises, RunDies
    <3>2. \A n \in Runs : Active(n)' => Active(n)
      BY <1>1, <2>4 DEF PublishRaises, RunDies, TypeOK
    <3>3. faults["failure"] > 0 => faults'["failure"] > 0
      BY <1>1, FailuresGrow DEF TypeOK
    <3>4. QED
      BY <2>1, <3>1, <3>2, <3>3 DEF Marked
  <2>5. CASE TakeSlot(m) \/ PublishOrder(m) \/ FinishRun(m)
    <3>1. UNCHANGED <<day, faults>> /\ slots \subseteq slots'
      BY <2>5 DEF TakeSlot, PublishOrder, FinishRun
    <3>2. \A n \in Runs : Active(n)' => Active(n)
      BY <1>1, <2>5 DEF TakeSlot, PublishOrder, FinishRun, TypeOK
    <3>3. QED
      BY <2>1, <3>1, <3>2 DEF Marked
  <2>6. QED
    BY <1>6, <2>2, <2>3, <2>4, <2>5 DEF DetectDelayedOrders
<1>7. ASSUME NEW d \in Demos, CreateDelayedOrder(d)
      PROVE  Marked'
  <2>1. UNCHANGED <<today, run>>
    BY <1>7 DEF CreateDelayedOrder, CreateDemo, PublishDemo, MarkDemo, DemoDies
  <2>2. CASE DemoDies(d)
    <3>1. slots \subseteq slots' /\ UNCHANGED demoDay
      BY <2>2 DEF DemoDies
    <3>2. \A p \in Demos : demo'[p] = "ok" => demo[p] = "ok"
      BY <1>1, <2>2 DEF DemoDies, TypeOK
    <3>3. faults["failure"] > 0 => faults'["failure"] > 0
      BY <1>1, FailuresGrow DEF TypeOK
    <3>4. QED
      BY <2>1, <3>1, <3>2, <3>3 DEF Marked
  <2>3. CASE CreateDemo(d) \/ PublishDemo(d) \/ MarkDemo(d)
    <3>1. slots \subseteq slots' /\ UNCHANGED faults
      BY <2>3 DEF CreateDemo, PublishDemo, MarkDemo
    <3>2. \A p \in Demos \ {d} : demo'[p] = demo[p] /\ demoDay'[p] = demoDay[p]
      BY <1>1, <2>3 DEF CreateDemo, PublishDemo, MarkDemo, TypeOK
    <3>3. demo'[d] = "ok" => <<d, demoDay'[d]>> \in slots'
      BY <1>1, <2>3 DEF CreateDemo, PublishDemo, MarkDemo, TypeOK
    <3>4. QED
      BY <2>1, <3>1, <3>2, <3>3 DEF Marked
  <2>4. QED
    BY <1>7, <2>2, <2>3 DEF CreateDelayedOrder
<1>8. ASSUME UNCHANGED vars
      PROVE  Marked'
  BY <1>8 DEF Marked
<1>9. QED
  BY <1>3, <1>4, <1>5, <1>6, <1>7, <1>8 DEF Next

LEMMA UncreatedStep == TypeOK /\ Uncreated /\ [Next]_vars => Uncreated'
<1> SUFFICES ASSUME TypeOK, Uncreated, [Next]_vars, NEW o \in Demos, demo'[o] = "idle"
             PROVE  /\ o \notin delayed'
                    /\ \A m \in Runs : o \notin todo'[m] /\ ~(Busy(m)' /\ inHand'[m] = o)
  BY DEF Uncreated
<1> USE DEF Goto, run, shared, vars, Busy
<1>1. TypeOK'
  BY TypeStep
<1>2. demo[o] = "idle"
  <2>1. UNCHANGED demo \/ \E d \in Demos : CreateDelayedOrder(d)
    BY Zenon DEF Next, Midnight, BecomeLate, ExpireSlot, DetectDelayedOrders, StartRun, TakeSlot,
       PublishOrder, PublishRaises, GiveBack, FinishRun, RunDies
  <2>2. QED
    BY <2>1 DEF CreateDelayedOrder, CreateDemo, PublishDemo, MarkDemo, DemoDies, TypeOK
<1>3. o \notin delayed /\ \A m \in Runs : o \notin todo[m] /\ ~(Busy(m) /\ inHand[m] = o)
  BY <1>2 DEF Uncreated
<1>4. ASSUME NEW n \in Runs, DetectDelayedOrders(n)
      PROVE  /\ o \notin delayed'
             /\ \A m \in Runs : o \notin todo'[m] /\ ~(Busy(m)' /\ inHand'[m] = o)
  <2>1. UNCHANGED delayed
    BY <1>4 DEF DetectDelayedOrders, StartRun, TakeSlot, PublishOrder, PublishRaises, GiveBack, FinishRun, RunDies
  <2>2. ASSUME NEW m \in Runs
        PROVE  o \notin todo'[m] /\ ~(Busy(m)' /\ inHand'[m] = o)
    <3>1. CASE TakeSlot(n)
      BY <1>3, <3>1 DEF TakeSlot, TypeOK
    <3>2. CASE ~TakeSlot(n)
      <4>1. o \notin todo'[m] /\ UNCHANGED inHand
        BY <1>3, <1>4, <3>2 DEF DetectDelayedOrders, StartRun, PublishOrder, PublishRaises, GiveBack,
           FinishRun, RunDies, TypeOK
      <4>2. Busy(m)' => Busy(m)
        BY <1>4, <3>2 DEF DetectDelayedOrders, StartRun, PublishOrder, PublishRaises, GiveBack,
           FinishRun, RunDies, TypeOK
      <4>3. QED
        BY <1>3, <4>1, <4>2
    <3>3. QED
      BY <3>1, <3>2
  <2>3. QED
    BY <1>3, <2>1, <2>2
<1>5. ASSUME NEW d \in Demos, CreateDelayedOrder(d)
      PROVE  o \notin delayed' /\ UNCHANGED run
  BY <1>2, <1>3, <1>5 DEF CreateDelayedOrder, CreateDemo, PublishDemo, MarkDemo, DemoDies, TypeOK
<1>6. CASE \/ Midnight
           \/ \E p \in Orders : BecomeLate(p)
           \/ \E s \in slots : ExpireSlot(s)
           \/ UNCHANGED vars
  BY <1>3, <1>6 DEF Midnight, BecomeLate, ExpireSlot
<1>7. QED
  BY <1>3, <1>4, <1>5, <1>6 DEF Next

\* The step behind DemosRespected.
LEMMA DemoRespectedStep ==
  ASSUME IInv, Uncreated, Marked, [Next]_vars, NEW o \in Demos,
         ~(demo[o] # "ok" /\ sent[<<o, demoDay[o]>>] = 0), ~(faults["failure"] > 0),
         ~InProgress(<<o, demoDay[o]>>)
  PROVE  ~InProgress(<<o, demoDay[o]>>)'
<1> USE DEF Goto, run, shared, vars
<1>1. TypeOK /\ TypeOK'
  BY TypeStep DEF IInv
<1> SUFFICES ASSUME NEW m \in Runs, Busy(m)', inHand'[m] = o, day'[m] = demoDay'[o]
             PROVE  FALSE
  BY DEF InProgress, Slot
<1>2. demoDay'[o] = demoDay[o]
  <2>1. demoDay' = demoDay \/ \E d \in Demos : CreateDemo(d)
    BY Zenon DEF Next, DetectDelayedOrders, CreateDelayedOrder, Midnight, BecomeLate, ExpireSlot,
       StartRun, TakeSlot, PublishOrder, PublishRaises, GiveBack, FinishRun, RunDies,
       PublishDemo, MarkDemo, DemoDies
  <2>2. ~CreateDemo(o)
    BY DEF CreateDemo, Uncreated, Busy
  <2>3. ASSUME NEW d \in Demos, CreateDemo(d)
        PROVE  demoDay'[o] = demoDay[o]
    BY <1>1, <2>2, <2>3 DEF CreateDemo, TypeOK
  <2>4. QED
    BY <2>1, <2>3
<1>3. ~(Busy(m) /\ inHand[m] = o /\ day[m] = demoDay[o])
  BY DEF InProgress, Slot
<1>4. ~TakeSlot(m)
  <2> SUFFICES ASSUME TakeSlot(m)
               PROVE  FALSE
    OBVIOUS
  <2>1. day'[m] = day[m] /\ pc[m] = "pick"
    BY DEF TakeSlot
  <2>2. <<o, demoDay[o]>> \notin slots
    BY <1>1, <1>2, <2>1 DEF TakeSlot, TypeOK, Busy
  <2>3. day[m] = demoDay[o] /\ Active(m)
    BY <1>2, <2>1 DEF Active
  <2>4. demo[o] # "ok"
    BY <2>2, <2>3 DEF Marked
  <2>5. sent[<<o, demoDay[o]>>] = 0
    <3>1. <<o, demoDay[o]>> \in Orders \X Days
      BY <1>1, OrdersAssumption DEF TypeOK
    <3>2. Takeable(<<o, demoDay[o]>>)
      BY <2>2, <2>3 DEF Takeable
    <3>3. sent[<<o, demoDay[o]>>] <= faults["failure"]
      BY <3>1, <3>2 DEF IInv, TakeableUnsent
    <3>4. QED
      BY <1>1, <3>1, <3>3 DEF TypeOK
  <2>6. QED
    BY <2>4, <2>5
<1>5. ASSUME NEW n \in Runs, DetectDelayedOrders(n)
      PROVE  FALSE
  <2>1. CASE n = m
    BY <1>1, <1>2, <1>3, <1>4, <1>5, <2>1 DEF DetectDelayedOrders, StartRun, PublishOrder, PublishRaises, GiveBack,
       FinishRun, RunDies, TypeOK, Busy
  <2>2. CASE n # m
    BY <1>1, <1>2, <1>3, <1>5, <2>2 DEF DetectDelayedOrders, StartRun, TakeSlot, PublishOrder, PublishRaises, GiveBack,
       FinishRun, RunDies, TypeOK, Busy
  <2>3. QED
    BY <2>1, <2>2
<1>6. CASE UNCHANGED run
  BY <1>2, <1>3, <1>6 DEF Busy
<1>7. QED
  BY <1>5, <1>6, Zenon DEF Next, Midnight, BecomeLate, ExpireSlot, CreateDelayedOrder, CreateDemo, PublishDemo,
     MarkDemo, DemoDies

\* A run takes a demo request's order up only while the request has not
\* returned, and only if no run sent its event that day, unless a publish that
\* raised gave the order's key back.
THEOREM DemosRespected == Spec => RunsRespectDemos
<1>1. Init => GivenBack /\ Marked /\ Uncreated
  BY DEF Init, GivenBack, Marked, Uncreated, Busy
<1>2. IInv => TypeOK
  BY DEF IInv
<1>3. IInv /\ Uncreated /\ Marked /\ [Next]_vars =>
        \A o \in Demos : LET s == <<o, demoDay[o]>> IN
          ~InProgress(s) /\ InProgress(s)' =>
            \/ demo[o] # "ok" /\ sent[s] = 0
            \/ faults["failure"] > 0
  BY DemoRespectedStep
<1>4. QED
  BY <1>1, <1>2, <1>3, GivenBackStep, MarkedStep, UncreatedStep, InvAlways, PTL DEF Spec, RunsRespectDemos
=============================================================================
