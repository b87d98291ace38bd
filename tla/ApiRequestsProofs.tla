-------------------------- MODULE ApiRequestsProofs --------------------------
(***************************************************************************)
(* For any number of requests, callers and keys: however requests overlap, *)
(* fail and die, the rate limiter lets no more through than it may, an     *)
(* order is shipped exactly if it has its one shipment, and a request that *)
(* a unique constraint stops was beaten to its row.                        *)
(***************************************************************************)
EXTENDS ApiRequests, FiniteSetTheorems, WellFoundedInduction, TLAPS

\* What a step is to the limiter, and what it is to the shop.
LimiterDies == /\ Fault
               /\ stage' = Abandoned
               /\ UNCHANGED <<now, scope, window, counted, counters>>
LimiterStep == \/ \E r \in Requests : Limit(r)
               \/ Tick
               \/ LimiterDies
               \/ UNCHANGED limiterVars

ShopDies == /\ \E S \in SUBSET Requests : pc' = [r \in Requests |-> IF r \in S THEN "died" ELSE pc[r]]
            /\ \A r \in Requests : pc[r] \in Waiting => pc'[r] = "died"
            /\ local' = [r \in Requests |-> None]
            /\ UNCHANGED rows
ShopStep == \/ \E r \in Requests : (\E o \in Operations : Open(r, o)) \/ Proceed(r)
            \/ ShopDies
            \/ UNCHANGED shopVars

\* A request that has arrived counts for somebody.
Scoped == \A r \in Requests : stage[r] # "new" => scope[r] \in Scopes

LEMMA StepSplits == Scoped /\ [Next]_vars => LimiterStep /\ ShopStep
<1> SUFFICES ASSUME Scoped, [Next]_vars
             PROVE  LimiterStep /\ ShopStep
  OBVIOUS
<1> USE DEF vars, LimiterStep, ShopStep
<1>1. ASSUME NEW r \in Requests, Limited(r)
      PROVE  LimiterStep /\ ShopStep
  BY <1>1, Zenon DEF Limited
<1>2. ASSUME NEW r \in Requests, Begin(r)
      PROVE  LimiterStep /\ ShopStep
  <2>1. Unlimited \subseteq Operations
    BY DEF Unlimited
  <2>2. stage[r] = "admitted" => Asked[scope[r][1]] \subseteq Operations
    <3> SUFFICES ASSUME stage[r] = "admitted"
                 PROVE  Asked[scope[r][1]] \subseteq Operations
      OBVIOUS
    <3>1. scope[r] \in Demos \X Callers
      BY ApiAssumption DEF Scoped
    <3>2. scope[r][1] \in Kinds
      BY <3>1 DEF Kinds
    <3>3. QED
      BY <3>2 DEF Asked
  <2>3. QED
    BY <1>2, <2>1, <2>2 DEF Begin
<1>3. ASSUME NEW r \in Requests, Continue(r)
      PROVE  LimiterStep /\ ShopStep
  BY <1>3, Zenon DEF Continue
<1>4. CASE TimePasses
  BY <1>4, Zenon DEF TimePasses
<1>5. CASE ApiDies
  <2>1. LimiterDies
    BY <1>5, Zenon DEF ApiDies, LimiterDies
  <2>2. ShopDies
    <3> DEFINE S == {r \in Requests : pc[r] \in Waiting \/ (stage[r] = "admitted" /\ pc[r] = "new")}
    <3>1. pc' = [r \in Requests |-> IF r \in S THEN "died" ELSE pc[r]]
      BY <1>5 DEF ApiDies
    <3>2. \A r \in Requests : pc[r] \in Waiting => pc'[r] = "died"
      BY <3>1
    <3>3. local' = [r \in Requests |-> None] /\ UNCHANGED rows
      BY <1>5 DEF ApiDies
    <3>4. QED
      BY <3>1, <3>2, <3>3 DEF ShopDies
  <2>3. QED
    BY <2>1, <2>2
<1>6. CASE AllAnswered \/ UNCHANGED vars
  BY <1>6, Zenon DEF AllAnswered
<1>7. QED
  BY <1>1, <1>2, <1>3, <1>4, <1>5, <1>6 DEF Next

-----------------------------------------------------------------------------
(* The rate limiter. *)

\* Windows of the clock.
LEMMA Division ==
  ASSUME NEW n \in Nat
  PROVE  /\ n \div Window \in Nat
         /\ Window * (n \div Window) <= n
         /\ n < Window * (n \div Window) + Window
         /\ \A q \in Nat : q * Window <= n /\ n < q * Window + Window => n \div Window = q
BY LimitAssumption

LEMMA WindowsOfTheClock ==
  ASSUME NEW n \in 0..MaxTime
  PROVE  n \div Window \in Windows
<1>1. MaxTime \in Nat /\ Window \in Nat \ {0}
  BY LimitAssumption, LimiterBounds
<1>2. n \div Window <= MaxTime \div Window /\ n \div Window \in Nat /\ MaxTime \div Window \in Nat
  BY <1>1
<1>3. QED
  BY <1>2 DEF Windows

\* A request that counts for window w read the clock in it or later.
Stamps == \A r \in Requests : stage[r] # "new" => Window * window[r] <= now

\* No counter expires before its window is over.
ExpiryLate == \A k \in Keys : expiry[k] # 0 => expiry[k] >= Window * k[2] + Window

\* Only a request between its INCR and its EXPIRE, or one that ended there,
\* leaves a counter that does not expire.
Unexpiring ==
  \A k \in Keys : hits[k] > 0 /\ expiry[k] = 0 =>
    \E r \in Requests : Key(r) = k /\ stage[r] \in {"first", "failed"}

\* The requests let through in window k[2] that counted for it in time; the
\* counter has them all until the window is over.
Through(k) == {r \in Requests : /\ stage[r] \in {"first", "admitted"}
                                /\ Key(r) = k
                                /\ counted[r] \div Window = k[2]}
ThroughCounted ==
  \A k \in Keys : /\ IsFiniteSet(Through(k))
                  /\ Cardinality(Through(k)) <= MaxRequests
                  /\ now < Window * k[2] + Window => Cardinality(Through(k)) <= hits[k]

Arrived == {r \in Requests : stage[r] # "new"}

LimiterInv == /\ LimiterTypeOK
              /\ Scoped
              /\ Stamps
              /\ ExpiryLate
              /\ Unexpiring
              /\ ThroughCounted
              /\ IsFiniteSet(Arrived)

LEMMA KeyType ==
  ASSUME LimiterTypeOK, Scoped, NEW r \in Requests, stage[r] # "new"
  PROVE  Key(r) \in Keys /\ Key(r)[2] = window[r] /\ window[r] \in Windows
BY DEF LimiterTypeOK, Scoped, Key, Keys

LEMMA VerdictType ==
  ASSUME NEW n \in Nat
  PROVE  Verdict(n) \in {"admitted", "refused"} /\ (Verdict(n) = "admitted" <=> n <= MaxRequests)
BY LimitAssumption DEF Verdict

LEMMA LimiterTypeStep == LimiterTypeOK /\ Scoped /\ LimiterStep => (LimiterTypeOK /\ Scoped)'
<1> SUFFICES ASSUME LimiterTypeOK, Scoped, LimiterStep
             PROVE  (LimiterTypeOK /\ Scoped)'
  OBVIOUS
<1> USE DEF LimiterTypeOK, Scoped, counters
<1>1. ASSUME NEW r \in Requests, Stamp(r)
      PROVE  (LimiterTypeOK /\ Scoped)'
  <2>1. now \div Window \in Windows
    BY WindowsOfTheClock
  <2>2. QED
    BY <1>1, <2>1 DEF Stamp, Stages
<1>2. ASSUME NEW r \in Requests, Count(r)
      PROVE  (LimiterTypeOK /\ Scoped)'
  <2>1. Key(r) \in Keys /\ hits[Key(r)] + 1 \in Nat
    BY <1>2, KeyType DEF Count
  <2>2. Verdict(hits[Key(r)] + 1) \in Stages
    BY <2>1, VerdictType DEF Stages
  <2>3. stage' \in [Requests -> Stages] /\ \A q \in Requests : stage'[q] # "new" => stage[q] # "new"
    BY <1>2, <2>2 DEF Count, Stages
  <2>4. QED
    BY <1>2, <2>1, <2>3 DEF Count
<1>3. ASSUME NEW r \in Requests, Expire(r)
      PROVE  (LimiterTypeOK /\ Scoped)'
  <2>1. Verdict(1) \in Stages
    BY VerdictType DEF Stages
  <2>2. now + Window \in Nat
    BY LimitAssumption, LimiterBounds
  <2>3. QED
    BY <1>3, <2>1, <2>2 DEF Expire
<1>4. ASSUME NEW r \in Requests, RedisRaises(r)
      PROVE  (LimiterTypeOK /\ Scoped)'
  <2>1. hits' \in [Keys -> Nat]
    BY <1>4 DEF RedisRaises
  <2>2. now + Window \in Nat
    BY LimitAssumption, LimiterBounds
  <2>3. expiry' \in [Keys -> Nat]
    BY <1>4, <2>2 DEF RedisRaises
  <2>4. QED
    BY <1>4, <2>1, <2>3 DEF RedisRaises, Fault, Stages
<1>5. CASE Tick
  BY <1>5, LimiterBounds DEF Tick
<1>6. CASE LimiterDies
  BY <1>6 DEF LimiterDies, Abandoned, Fault, Stages
<1>7. CASE UNCHANGED limiterVars
  BY <1>7 DEF limiterVars
<1>8. QED
  BY <1>1, <1>2, <1>3, <1>4, <1>5, <1>6, <1>7 DEF LimiterStep, Limit

LEMMA StampsStep == LimiterTypeOK /\ Scoped /\ Stamps /\ LimiterStep => Stamps'
<1> SUFFICES ASSUME LimiterTypeOK, Scoped, Stamps, LimiterStep, NEW q \in Requests, stage'[q] # "new"
             PROVE  Window * window'[q] <= now'
  BY DEF Stamps
<1>1. now \in Nat /\ now' \in Nat /\ now <= now' /\ Window \in Nat
  <2>1. now' = now \/ now' = now + 1
    BY DEF LimiterStep, Limit, Stamp, Count, Expire, RedisRaises, Tick, LimiterDies, limiterVars
  <2>2. QED
    BY <2>1, LimitAssumption DEF LimiterTypeOK
<1>2. CASE stage[q] # "new" /\ window'[q] = window[q]
  <2>1. Window * window[q] <= now /\ Window * window[q] \in Nat
    BY <1>1, <1>2 DEF Stamps, LimiterTypeOK, Windows
  <2>2. QED
    BY <1>1, <1>2, <2>1
<1>3. CASE Stamp(q)
  <2>1. window'[q] = now \div Window
    BY <1>3 DEF Stamp, LimiterTypeOK
  <2>2. QED
    BY <1>1, <1>3, <2>1, Division DEF Stamp
<1>4. (stage[q] # "new" /\ window'[q] = window[q]) \/ Stamp(q)
  BY DEF LimiterTypeOK, LimiterStep, Limit, Stamp, Count, Expire, RedisRaises, Tick, LimiterDies, Abandoned,
     limiterVars
<1>5. QED
  BY <1>2, <1>3, <1>4

LEMMA ExpiryStep == LimiterTypeOK /\ Scoped /\ Stamps /\ ExpiryLate /\ LimiterStep => ExpiryLate'
<1> SUFFICES ASSUME LimiterTypeOK, Scoped, Stamps, ExpiryLate, LimiterStep, NEW k \in Keys, expiry'[k] # 0
             PROVE  expiry'[k] >= Window * k[2] + Window
  BY DEF ExpiryLate
<1>1. CASE expiry'[k] = expiry[k]
  BY <1>1 DEF ExpiryLate
<1>2. ASSUME NEW r \in Requests, stage[r] = "first", k = Key(r),
             expiry' = [expiry EXCEPT ![Key(r)] = now + Window]
      PROVE  expiry'[k] >= Window * k[2] + Window
  <2>1. expiry'[k] = now + Window /\ k[2] = window[r]
    BY <1>2, KeyType DEF LimiterTypeOK
  <2>2. Window * window[r] <= now /\ now \in Nat /\ Window \in Nat /\ Window * window[r] \in Nat
    BY <1>2, LimitAssumption DEF Stamps, LimiterTypeOK, Windows
  <2>3. expiry'[k] = now + Window /\ Window * k[2] = Window * window[r]
    BY <2>1
  <2>4. QED
    BY <2>2, <2>3
<1>3. \/ expiry'[k] = expiry[k]
      \/ \E r \in Requests : /\ stage[r] = "first" /\ k = Key(r)
                             /\ expiry' = [expiry EXCEPT ![Key(r)] = now + Window]
  BY DEF LimiterTypeOK, LimiterStep, Limit, Stamp, Count, Expire, RedisRaises, Tick, LimiterDies, limiterVars,
     counters
<1>4. QED
  BY <1>1, <1>2, <1>3

LEMMA UnexpiringStep == LimiterTypeOK /\ Scoped /\ Unexpiring /\ LimiterStep => Unexpiring'
<1> SUFFICES ASSUME LimiterTypeOK, Scoped, Unexpiring, LimiterStep,
                    NEW k \in Keys, hits'[k] > 0, expiry'[k] = 0
             PROVE  \E r \in Requests : Key(r)' = k /\ stage'[r] \in {"first", "failed"}
  BY DEF Unexpiring
<1> USE DEF counters
<1>1. hits[k] \in Nat /\ now \in Nat /\ Window \in Nat \ {0}
  BY LimitAssumption DEF LimiterTypeOK
<1>2. ASSUME hits[k] > 0, expiry[k] = 0,
             \A r \in Requests : stage[r] \in {"first", "failed"} =>
               \/ stage'[r] \in {"first", "failed"} /\ scope'[r] = scope[r] /\ window'[r] = window[r]
               \/ Key(r) # k
      PROVE  \E r \in Requests : Key(r)' = k /\ stage'[r] \in {"first", "failed"}
  <2>1. PICK r \in Requests : Key(r) = k /\ stage[r] \in {"first", "failed"}
    BY <1>2 DEF Unexpiring
  <2>2. QED
    BY <1>2, <2>1 DEF Key
<1>3. ASSUME NEW r \in Requests, Stamp(r)
      PROVE  \E q \in Requests : Key(q)' = k /\ stage'[q] \in {"first", "failed"}
  BY <1>2, <1>3 DEF Stamp, LimiterTypeOK
<1>4. ASSUME NEW r \in Requests, Count(r)
      PROVE  \E q \in Requests : Key(q)' = k /\ stage'[q] \in {"first", "failed"}
  <2>1. Key(r) \in Keys
    BY <1>4, KeyType DEF Count
  <2>2. CASE hits[k] > 0
    <3>1. UNCHANGED <<scope, window, expiry>> /\ stage[r] = "stamped"
          /\ \A q \in Requests \ {r} : stage'[q] = stage[q]
      BY <1>4 DEF Count, LimiterTypeOK
    <3>2. QED
      BY <1>2, <2>2, <3>1
  <2>3. CASE hits[k] = 0
    <3>1. Key(r) = k
      BY <1>4, <2>1, <2>3 DEF Count, LimiterTypeOK
    <3>2. stage'[r] = "first" /\ Key(r)' = Key(r)
      BY <1>4, <2>3, <3>1 DEF Count, LimiterTypeOK, Key
    <3>3. QED
      BY <3>1, <3>2
  <2>4. QED
    BY <1>1, <2>2, <2>3
<1>5. ASSUME NEW r \in Requests, Expire(r)
      PROVE  \E q \in Requests : Key(q)' = k /\ stage'[q] \in {"first", "failed"}
  <2>1. Key(r) # k
    BY <1>1, <1>5 DEF Expire, LimiterTypeOK
  <2>2. QED
    BY <1>2, <1>5, <2>1 DEF Expire, LimiterTypeOK
<1>6. ASSUME NEW r \in Requests, RedisRaises(r)
      PROVE  \E q \in Requests : Key(q)' = k /\ stage'[q] \in {"first", "failed"}
  <2>1. /\ UNCHANGED <<scope, window>> /\ stage'[r] = "failed"
        /\ \A q \in Requests \ {r} : stage'[q] = stage[q]
    BY <1>6 DEF RedisRaises, LimiterTypeOK
  <2>2. CASE hits[k] > 0
    <3>1. expiry[k] = 0
      <4>1. CASE UNCHANGED expiry
        BY <4>1
      <4>2. CASE expiry' = [expiry EXCEPT ![Key(r)] = now + Window]
        BY <1>1, <4>2 DEF LimiterTypeOK
      <4>3. QED
        BY <1>6, <4>1, <4>2 DEF RedisRaises
    <3>2. QED
      BY <1>2, <2>1, <2>2, <3>1
  <2>3. CASE hits[k] = 0
    <3>1. Key(r) = k
      BY <1>6, <2>3 DEF RedisRaises, LimiterTypeOK
    <3>2. QED
      BY <2>1, <3>1 DEF Key
  <2>4. QED
    BY <1>1, <2>2, <2>3
<1>7. CASE Tick
  <2>1. UNCHANGED <<stage, scope, window>>
    BY <1>7 DEF Tick
  <2>2. hits[k] > 0 /\ expiry[k] = 0
    BY <1>7 DEF Tick
  <2>3. QED
    BY <1>2, <2>1, <2>2
<1>8. CASE LimiterDies
  BY <1>2, <1>8 DEF LimiterDies, Abandoned
<1>9. CASE UNCHANGED limiterVars
  BY <1>2, <1>9 DEF limiterVars
<1>10. QED
  BY <1>3, <1>4, <1>5, <1>6, <1>7, <1>8, <1>9 DEF LimiterStep, Limit

LEMMA ArrivedStep == LimiterTypeOK /\ IsFiniteSet(Arrived) /\ LimiterStep => IsFiniteSet(Arrived)'
<1> SUFFICES ASSUME LimiterTypeOK, IsFiniteSet(Arrived), LimiterStep
             PROVE  IsFiniteSet(Arrived')
  OBVIOUS
<1>1. Arrived' \in SUBSET Arrived \/ \E r \in Requests : Arrived' \in SUBSET (Arrived \cup {r})
  <2>1. ASSUME NEW r \in Requests, Limit(r)
        PROVE  Arrived' \subseteq Arrived \cup {r}
    BY <2>1 DEF LimiterTypeOK, Limit, Stamp, Count, Expire, RedisRaises, Arrived
  <2>2. CASE Tick \/ LimiterDies \/ UNCHANGED limiterVars
    BY <2>2 DEF Tick, LimiterDies, Abandoned, limiterVars, Arrived
  <2>3. QED
    BY <2>1, <2>2 DEF LimiterStep
<1>2. \A r \in Requests : IsFiniteSet(Arrived \cup {r})
  BY FS_AddElement
<1>3. QED
  BY <1>1, <1>2, FS_Subset

\* Nothing is let through for k in this step.
LEMMA NotThrough ==
  ASSUME LimiterInv, NEW k \in Keys, Through(k)' \subseteq Through(k),
         now' < Window * k[2] + Window => now < Window * k[2] + Window /\ hits[k] <= hits'[k],
         hits'[k] \in Nat
  PROVE  /\ IsFiniteSet(Through(k)')
         /\ Cardinality(Through(k)') <= MaxRequests
         /\ now' < Window * k[2] + Window => Cardinality(Through(k)') <= hits'[k]
<1> DEFINE T == Through(k)
<1>1. PICK U : U = Through(k)'
  OBVIOUS
<1>2. /\ IsFiniteSet(T) /\ Cardinality(T) <= MaxRequests
      /\ now < Window * k[2] + Window => Cardinality(T) <= hits[k]
  BY DEF LimiterInv, ThroughCounted
<1>3. U \in SUBSET T
  BY <1>1
<1> HIDE DEF T
<1>4. IsFiniteSet(U) /\ Cardinality(U) <= Cardinality(T)
  BY <1>2, <1>3, FS_Subset
<1>5. Cardinality(U) \in Nat /\ Cardinality(T) \in Nat /\ hits[k] \in Nat
  BY <1>2, <1>4, FS_CardinalityType DEF LimiterInv, LimiterTypeOK
<1>6. QED
  BY <1>1, <1>2, <1>4, <1>5, LimitAssumption

LEMMA ThroughStep == LimiterInv /\ LimiterStep => ThroughCounted'
<1> SUFFICES ASSUME LimiterInv, LimiterStep, NEW k \in Keys
             PROVE  /\ IsFiniteSet(Through(k)')
                    /\ Cardinality(Through(k)') <= MaxRequests
                    /\ now' < Window * k[2] + Window => Cardinality(Through(k)') <= hits'[k]
  BY DEF ThroughCounted
<1> USE DEF counters
<1>1. LimiterTypeOK /\ Scoped /\ Stamps /\ ExpiryLate /\ LimiterTypeOK'
  BY LimiterTypeStep DEF LimiterInv
<1>2. /\ hits[k] \in Nat /\ hits'[k] \in Nat /\ now \in Nat /\ Window \in Nat \ {0}
      /\ k[2] \in Nat /\ Window * k[2] \in Nat
  <2>1. /\ hits[k] \in Nat /\ hits'[k] \in Nat /\ now \in Nat /\ k[2] \in Nat
    BY <1>1 DEF LimiterTypeOK, Keys, Windows
  <2>2. QED
    BY <2>1, LimitAssumption
<1>3. ASSUME NEW r \in Requests, Stamp(r)
      PROVE  Through(k)' \subseteq Through(k) /\ now' = now /\ hits' = hits
  BY <1>1, <1>3 DEF Stamp, LimiterTypeOK, Through, Key
<1>4. ASSUME NEW r \in Requests, Expire(r)
      PROVE  Through(k)' \subseteq Through(k) /\ now' = now /\ hits' = hits
  BY <1>1, <1>4 DEF Expire, LimiterTypeOK, Through, Key
<1>5. ASSUME NEW r \in Requests, RedisRaises(r)
      PROVE  Through(k)' \subseteq Through(k) /\ now' = now /\ hits[k] <= hits'[k]
  <2>1. hits' = hits \/ hits' = [hits EXCEPT ![Key(r)] = hits[Key(r)] + 1]
    BY <1>5 DEF RedisRaises
  <2>2. hits[k] <= hits'[k]
    <3>1. hits \in [Keys -> Nat]
      BY <1>1 DEF LimiterTypeOK
    <3>2. hits'[k] = hits[k] \/ hits'[k] = hits[k] + 1
      BY <2>1, <3>1
    <3>3. QED
      BY <1>2, <3>2
  <2>3. QED
    BY <1>1, <1>5, <2>2 DEF RedisRaises, LimiterTypeOK, Through, Key
<1>6. CASE Tick
  <2>1. Through(k)' \subseteq Through(k) /\ now' = now + 1
    BY <1>6 DEF Tick, Through, Key
  <2>2. now' < Window * k[2] + Window => hits'[k] = hits[k]
    BY <1>1, <1>2, <1>6 DEF Tick, ExpiryLate, LimiterTypeOK
  <2>3. QED
    BY <1>2, <2>1, <2>2, NotThrough
<1>7. CASE LimiterDies
  <2>1. Through(k)' \subseteq Through(k) /\ now' = now /\ hits' = hits
    BY <1>7 DEF LimiterDies, Abandoned, Through, Key
  <2>2. QED
    BY <1>2, <2>1, NotThrough
<1>8. CASE UNCHANGED limiterVars
  <2>1. Through(k)' = Through(k) /\ now' = now /\ hits' = hits
    BY <1>8 DEF limiterVars, Through, Key
  <2>2. QED
    BY <1>2, <2>1, NotThrough
<1>9. ASSUME NEW r \in Requests, Count(r)
      PROVE  /\ IsFiniteSet(Through(k)')
             /\ Cardinality(Through(k)') <= MaxRequests
             /\ now' < Window * k[2] + Window => Cardinality(Through(k)') <= hits'[k]
  <2>1. Key(r) \in Keys /\ Key(r)[2] = window[r] /\ Window * window[r] <= now /\ window[r] \in Nat
    BY <1>1, <1>9, KeyType DEF Count, Stamps, Windows
  <2>2. /\ stage[r] = "stamped" /\ UNCHANGED <<now, scope, window>> /\ counted'[r] = now
        /\ \A q \in Requests \ {r} : stage'[q] = stage[q] /\ counted'[q] = counted[q]
        /\ hits' = [hits EXCEPT ![Key(r)] = @ + 1]
    BY <1>1, <1>9 DEF Count, LimiterTypeOK
  <2>3. \A q \in Requests : Key(q)' = Key(q)
    BY <2>2 DEF Key
  <2>4. hits[k] <= hits'[k]
    BY <1>1, <2>2 DEF LimiterTypeOK
  <2>5. CASE Key(r) = k /\ now \div Window = k[2] /\ stage'[r] \in {"first", "admitted"}
    <3> DEFINE T == Through(k)
    <3>1. Through(k)' = T \cup {r} /\ r \notin T
      BY <2>2, <2>3, <2>5 DEF Through
    <3>2. hits'[k] = hits[k] + 1 /\ now < Window * k[2] + Window
      BY <1>1, <1>2, <2>1, <2>2, <2>5, Division DEF LimiterTypeOK
    <3>3. IsFiniteSet(T) /\ Cardinality(T) <= hits[k]
      BY <3>2 DEF LimiterInv, ThroughCounted
    <3> HIDE DEF T
    <3>4. IsFiniteSet(T \cup {r}) /\ Cardinality(T \cup {r}) = Cardinality(T) + 1 /\ Cardinality(T) \in Nat
      BY <3>1, <3>3, FS_AddElement, FS_CardinalityType
    <3>5. hits[k] + 1 <= MaxRequests
      <4>1. CASE hits[k] = 0
        BY <4>1, LimitAssumption
      <4>2. CASE hits[k] # 0
        <5>1. stage'[r] = Verdict(hits[k] + 1)
          BY <1>1, <1>9, <2>5, <4>2 DEF Count, LimiterTypeOK
        <5>2. Verdict(hits[k] + 1) = "admitted"
          BY <1>2, <2>5, <5>1, VerdictType
        <5>3. QED
          BY <1>2, <5>2, VerdictType
      <4>3. QED
        BY <4>1, <4>2
    <3>6. QED
      BY <1>2, <3>1, <3>2, <3>3, <3>4, <3>5, LimitAssumption
  <2>6. CASE ~(Key(r) = k /\ now \div Window = k[2] /\ stage'[r] \in {"first", "admitted"})
    <3>1. Through(k)' \subseteq Through(k)
      BY <2>2, <2>3, <2>6 DEF Through
    <3>2. QED
      BY <1>2, <2>2, <2>4, <3>1, NotThrough
  <2>7. QED
    BY <2>5, <2>6
<1>10. QED
  BY <1>2, <1>3, <1>4, <1>5, <1>6, <1>7, <1>8, <1>9, NotThrough DEF LimiterStep, Limit

LEMMA LimiterStepInv == LimiterInv /\ LimiterStep => LimiterInv'
BY LimiterTypeStep, StampsStep, ExpiryStep, UnexpiringStep, ThroughStep, ArrivedStep DEF LimiterInv

LEMMA LimiterInitInv == LimiterInit => LimiterInv
<1> SUFFICES ASSUME LimiterInit
             PROVE  LimiterInv
  OBVIOUS
<1>1. MaxTime \in Nat /\ MaxTime \div Window \in Nat /\ 0 \in Windows
  BY LimitAssumption, LimiterBounds DEF Windows
<1>2. LimiterTypeOK
  BY <1>1 DEF LimiterInit, LimiterTypeOK, Stages
<1>3. Scoped /\ Stamps /\ ExpiryLate /\ Unexpiring
  BY DEF LimiterInit, Scoped, Stamps, ExpiryLate, Unexpiring
<1>4. Arrived = {} /\ \A k \in Keys : Through(k) = {}
  BY DEF LimiterInit, Arrived, Through
<1>5. \A k \in Keys : hits[k] \in Nat
  BY <1>2 DEF LimiterTypeOK
<1>6. IsFiniteSet(Arrived) /\ ThroughCounted
  BY <1>4, <1>5, FS_EmptySet, LimitAssumption DEF ThroughCounted
<1>7. QED
  BY <1>2, <1>3, <1>6 DEF LimiterInv

LEMMA LimiterAlways == Spec => []LimiterInv
<1>1. Init => LimiterInv
  BY LimiterInitInv DEF Init
<1>2. LimiterInv /\ [Next]_vars => LimiterInv'
  BY StepSplits, LimiterStepInv DEF LimiterInv
<1>3. QED
  BY <1>1, <1>2, PTL DEF Spec

\* What is let through for one window is bounded, and so is any part of it.
LEMMA ThroughBounded ==
  ASSUME LimiterInv, NEW s \in Scopes, NEW w \in Windows,
         NEW S \in SUBSET Admitted(s), \A q \in S : window[q] = w
  PROVE  IsFiniteSet(S) /\ Cardinality(S) \in Nat /\ Cardinality(S) <= MaxRequests
<1> DEFINE k == <<s, w>>
           T == Through(k)
<1>1. k \in Keys
  BY DEF Keys
<1>2. S \in SUBSET T
  BY DEF Admitted, Through, Key
<1>3. IsFiniteSet(T) /\ Cardinality(T) <= MaxRequests
  BY <1>1 DEF LimiterInv, ThroughCounted
<1> HIDE DEF T
<1>4. IsFiniteSet(S) /\ Cardinality(S) <= Cardinality(T)
  BY <1>2, <1>3, FS_Subset
<1>5. Cardinality(S) \in Nat /\ Cardinality(T) \in Nat
  BY <1>3, <1>4, FS_CardinalityType
<1>6. QED
  BY <1>3, <1>4, <1>5, LimitAssumption

\* A caller gets at most MaxRequests through in a window, and at most twice as
\* many in any stretch of time as long as one.
THEOREM LimitRespected == Spec => []LimitHolds
<1>1. LimiterInv => LimitHolds
  <2> SUFFICES ASSUME LimiterInv, NEW s \in Scopes, NEW r \in Admitted(s)
               PROVE  /\ Cardinality({q \in Admitted(s) : window[q] = window[r]}) <= MaxRequests
                      /\ Cardinality({q \in Admitted(s) : counted[q] - counted[r] \in 0..(Window - 1)})
                           <= 2 * MaxRequests
    BY DEF LimitHolds
  <2> DEFINE near == {q \in Admitted(s) : counted[q] - counted[r] \in 0..(Window - 1)}
             here == {q \in near : window[q] = window[r]}
             next == near \ here
  <2>1. LimiterTypeOK /\ window[r] \in Windows /\ r \in Requests
    BY DEF LimiterInv, LimiterTypeOK, Admitted
  <2>2. Cardinality({q \in Admitted(s) : window[q] = window[r]}) <= MaxRequests
    BY <2>1, ThroughBounded
  <2>3. IsFiniteSet(here) /\ Cardinality(here) \in Nat /\ Cardinality(here) <= MaxRequests
    BY <2>1, ThroughBounded
  <2>4. \A q \in next : window[q] = window[r] + 1
    <3> SUFFICES ASSUME NEW q \in next
                 PROVE  window[q] = window[r] + 1
      OBVIOUS
    <3>1. q \in Requests /\ counted[q] \in Nat /\ counted[r] \in Nat
      BY <2>1 DEF LimiterTypeOK, Admitted
    <3>2. window[q] = counted[q] \div Window /\ window[r] = counted[r] \div Window /\ window[q] # window[r]
      BY DEF Admitted
    <3>3. counted[r] <= counted[q] /\ counted[q] - counted[r] < Window
      BY <3>1, LimitAssumption
    <3> HIDE DEF next
    <3>4. counted[q] \div Window = counted[r] \div Window \/ counted[q] \div Window = counted[r] \div Window + 1
      BY <3>1, <3>3, LimitAssumption
    <3>5. QED
      BY <3>2, <3>4
  <2>5. IsFiniteSet(next) /\ Cardinality(next) \in Nat /\ Cardinality(next) <= MaxRequests
    <3>1. CASE next = {}
      BY <3>1, FS_EmptySet, LimitAssumption
    <3>2. CASE next # {}
      <4>1. PICK q \in next : TRUE
        BY <3>2
      <4>2. window[r] + 1 \in Windows
        BY <2>1, <2>4, <4>1 DEF LimiterTypeOK, Admitted
      <4>3. QED
        BY <2>4, <4>2, ThroughBounded
    <3>3. QED
      BY <3>1, <3>2
  <2>6. here \cup next = near /\ here \cap next = {}
    OBVIOUS
  <2>7. Cardinality(near) <= 2 * MaxRequests
    <3> HIDE DEF near, here, next
    <3>1. Cardinality(near) = Cardinality(here) + Cardinality(next) - Cardinality(here \cap next)
      BY <2>3, <2>5, <2>6, FS_Union
    <3>2. Cardinality(here \cap next) = 0
      BY <2>6, FS_EmptySet
    <3>3. QED
      BY <2>3, <2>5, <3>1, <3>2, LimitAssumption
  <2>8. QED
    BY <2>2, <2>7
<1>2. QED
  BY <1>1, LimiterAlways, PTL

\* A counter that never expires is the doing of a request that failed or died.
THEOREM LeaksExplained == Spec => []LeakedOnlyByFault
<1>1. LimiterInv => LeakedOnlyByFault
  <2> SUFFICES ASSUME LimiterInv
               PROVE  LeakedOnlyByFault
    OBVIOUS
  <2> DEFINE leaked == {k \in Keys : /\ hits[k] > 0
                                     /\ expiry[k] = 0
                                     /\ ~\E r \in Requests : stage[r] = "first" /\ Key(r) = k}
             failed == {r \in Requests : stage[r] = "failed"}
             theirs == {Key(r) : r \in failed}
  <2>1. failed \in SUBSET Arrived /\ IsFiniteSet(Arrived)
    BY DEF LimiterInv, Arrived
  <2>2. IsFiniteSet(failed)
    BY <2>1, FS_Subset
  <2>3. leaked \in SUBSET theirs
    BY DEF LimiterInv, Unexpiring
  <2> HIDE DEF leaked, failed
  <2>4. IsFiniteSet(theirs) /\ Cardinality(theirs) <= Cardinality(failed)
    <3> DEFINE f == [r \in failed |-> Key(r)]
    <3>1. f \in Surjection(failed, theirs)
      BY DEF Surjection
    <3>2. QED
      BY <2>2, <3>1, FS_Surjection
  <2>5. IsFiniteSet(leaked) /\ Cardinality(leaked) <= Cardinality(theirs)
    <3> HIDE DEF theirs
    <3>1. QED
      BY <2>3, <2>4, FS_Subset
  <2>6. Cardinality(leaked) \in Nat /\ Cardinality(theirs) \in Nat /\ Cardinality(failed) \in Nat
    BY <2>2, <2>4, <2>5, FS_CardinalityType
  <2>7. Cardinality(leaked) <= Cardinality(failed)
    BY <2>4, <2>5, <2>6
  <2>8. QED
    BY <2>7 DEF LeakedOnlyByFault, leaked, failed
<1>2. QED
  BY <1>1, LimiterAlways, PTL

-----------------------------------------------------------------------------
(* The handlers: what a request remembers, and what its steps do to the rows. *)

\* What a handler holds on to between its steps.
Held ==
  \A r \in Requests :
    /\ pc[r] = "insert" => local[r] \in [address : Addresses, seen : Nat]
    /\ pc[r] = "ship" => local[r] \in [order : Orders, tracking : Trackings, seen : Nat]
    /\ pc[r] \in {"flush", "commit"} =>
         /\ local[r] \in [customer : Nat, address : Addresses \cup {None}, seen : Nat]
         /\ local[r].customer = 0 => local[r].address \in Addresses
    /\ pc[r] = "flush" => local[r].customer = 0
    /\ pc[r] \notin Waiting => local[r] = None

ShipmentRows == [order : Nat, tracking : Trackings \cup {Generated}]
RowsTypeOK ==
  /\ customers \in Seq(Addresses)
  /\ products \in BOOLEAN
  /\ orders \in Seq(OrderRows)
  /\ shipments \in Seq(ShipmentRows)
  /\ tickets \subseteq Orders
LocalIsAFunction == local = [r \in Requests |-> local[r]]
ShopTypeOK == /\ RowsTypeOK
              /\ pc \in [Requests -> {"new"} \cup Waiting \cup Ended]
              /\ DOMAIN local = Requests /\ LocalIsAFunction
              /\ Held

\* Rows are added at the end and stay what they are, an order's status apart.
Grown(s, t) == /\ Len(s) <= Len(t)
               /\ \A i \in DOMAIN s : i \in DOMAIN t /\ t[i] = s[i]
RowsGrow == /\ RowsTypeOK'
            /\ Grown(customers, customers')
            /\ Grown(shipments, shipments')
            /\ Orders \subseteq Orders'

LEMMA Appended ==
  ASSUME NEW S, NEW s \in Seq(S), NEW x \in S
  PROVE  /\ Append(s, x) \in Seq(S)
         /\ Len(s) \in Nat /\ Len(Append(s, x)) = Len(s) + 1
         /\ DOMAIN s = 1..Len(s) /\ DOMAIN Append(s, x) = 1..(Len(s) + 1)
         /\ Append(s, x)[Len(s) + 1] = x
         /\ \A i \in 1..Len(s) : Append(s, x)[i] = s[i]
         /\ Grown(s, Append(s, x)) /\ Grown(s, s)
BY DEF Grown

LEMMA OperationTypes ==
  ASSUME NEW o \in Operations
  PROVE  /\ o.kind = "customer" => o.address \in Addresses
         /\ o.kind = "shipment" => o.tracking \in Trackings
         /\ o.kind = "demo_order" => o.address \in Addresses \cup {None} /\ o.customer \in Ids \cup {None}
         /\ o.kind = "demo_ticket" => o.address \in Addresses \cup {None} /\ o.order \in Ids \cup {None}
BY DEF Operations

LEMMA OpenGrows ==
  ASSUME ShopTypeOK, NEW r \in Requests, NEW o \in Operations, Open(r, o)
  PROVE  RowsGrow
<1> USE DEF ShopTypeOK, RowsTypeOK, RowsGrow, rows, Orders
<1>1. Grown(customers, customers) /\ Grown(shipments, shipments)
  BY DEF Grown
<1>2. CASE CreateProduct(r, o)
  BY <1>1, <1>2 DEF CreateProduct
<1>3. CASE CreateOrder(r, o)
  <2>1. CASE orders' = orders
    BY <1>1, <1>3, <2>1 DEF CreateOrder
  <2>2. CASE orders' # orders
    <3>1. o.customer \in Customers /\ orders' = Append(orders, [customer |-> o.customer, status |-> "PENDING"])
          /\ UNCHANGED <<customers, products, shipments, tickets>>
      BY <1>3, <2>2 DEF CreateOrder
    <3>2. [customer |-> o.customer, status |-> "PENDING"] \in OrderRows
      BY <3>1 DEF OrderRows, Customers
    <3>3. orders' \in Seq(OrderRows) /\ DOMAIN orders \subseteq DOMAIN orders'
      BY <3>1, <3>2, Appended
    <3>4. QED
      BY <1>1, <3>1, <3>3
  <2>3. QED
    BY <2>1, <2>2
<1>4. CASE FileTicket(r, o)
  <2>1. UNCHANGED <<customers, products, orders, shipments>>
    BY <1>4 DEF FileTicket
  <2>2. tickets' = tickets \/ \E p \in Orders : tickets' = tickets \cup {p}
    <3>1. \A i : Meant(o, i) \subseteq DOMAIN orders
      BY DEF Meant, OrdersOf, Latest
    <3>2. QED
      BY <1>4, <3>1 DEF FileTicket
  <2>3. QED
    BY <1>1, <2>1, <2>2
<1>5. CASE CheckCustomer(r, o) \/ CheckShipment(r, o) \/ FindCustomer(r, o)
  <2>1. UNCHANGED rows
    BY <1>5 DEF CheckCustomer, CheckShipment, FindCustomer
  <2>2. QED
    BY <1>1, <2>1
<1>6. QED
  BY <1>2, <1>3, <1>4, <1>5 DEF Open

\* The two ways in which a shipment comes to be.
ShipsOrder(r) ==
  LET o == local[r].order IN
  /\ pc[r] = "ship" /\ o \in Orders
  /\ Shipped(o) = {} /\ TrackedAs(local[r].tracking) = {}
  /\ shipments' = Append(shipments, [order |-> o, tracking |-> local[r].tracking])
  /\ orders' = [orders EXCEPT ![o].status = "SHIPPED"]
  /\ UNCHANGED <<customers, products, tickets>>

\* What a commit of a demo order adds.
AddsOrder(r) ==
  \E c \in Nat :
    /\ \/ /\ orders' = Append(orders, [customer |-> c, status |-> "PROCESSING"])
          /\ UNCHANGED shipments
       \/ /\ orders' = Append(orders, [customer |-> c, status |-> "SHIPPED"])
          /\ shipments' = Append(shipments, [order |-> Len(orders) + 1, tracking |-> Generated])
    /\ customers' = customers \/ \E a \in Addresses : customers' = Append(customers, a)
    /\ UNCHANGED <<products, tickets>>

LEMMA ProceedDoes ==
  ASSUME ShopTypeOK, NEW r \in Requests, Proceed(r)
  PROVE  \/ UNCHANGED rows
         \/ /\ \E a \in Addresses : customers' = Append(customers, a)
            /\ UNCHANGED <<products, orders, shipments, tickets>>
         \/ ShipsOrder(r)
         \/ AddsOrder(r)
<1> USE DEF ShopTypeOK, rows
<1>1. CASE InsertCustomer(r)
  BY <1>1 DEF InsertCustomer, Held
<1>2. CASE InsertShipment(r)
  <2>1. CASE UNCHANGED shipments
    <3>1. pc'[r] # "ok"
      BY <1>2, <2>1 DEF InsertShipment, InsertRow, Answer, RowsTypeOK
    <3>2. QED
      BY <1>2, <2>1, <3>1 DEF InsertShipment
  <2>2. CASE shipments' # shipments
    <3>1. pc'[r] = "ok"
      BY <1>2, <2>2 DEF InsertShipment, InsertRow, Answer
    <3>2. local[r].order \in Orders
      BY <1>2 DEF InsertShipment, Held
    <3>3. QED
      BY <1>2, <2>2, <3>1, <3>2 DEF InsertShipment, InsertRow, MarkShipped, ShipsOrder
  <2>3. QED
    BY <2>1, <2>2
<1>3. CASE FlushCustomer(r)
  BY <1>3 DEF FlushCustomer
<1>4. CASE CommitDemoOrder(r)
  <2>1. local[r].customer \in Nat /\ (local[r].customer = 0 => local[r].address \in Addresses)
    BY <1>4 DEF CommitDemoOrder, Held
  <2>2. Len(customers) \in Nat
    BY DEF RowsTypeOK
  <2>3. CASE products
    <3> DEFINE c == IF local[r].customer = 0 THEN Len(customers) + 1 ELSE local[r].customer
    <3>1. c \in Nat
      BY <2>1, <2>2
    <3>2. customers' = customers \/ \E a \in Addresses : customers' = Append(customers, a)
      BY <1>4, <2>1, <2>3 DEF CommitDemoOrder
    <3>3. /\ \/ /\ orders' = Append(orders, [customer |-> c, status |-> "PROCESSING"])
                /\ UNCHANGED shipments
             \/ /\ orders' = Append(orders, [customer |-> c, status |-> "SHIPPED"])
                /\ shipments' = Append(shipments, [order |-> Len(orders) + 1, tracking |-> Generated])
          /\ UNCHANGED <<products, tickets>>
      BY <1>4, <2>3 DEF CommitDemoOrder
    <3> HIDE DEF c
    <3>4. QED
      BY <3>1, <3>2, <3>3 DEF AddsOrder
  <2>4. CASE ~products
    BY <1>4, <2>4 DEF CommitDemoOrder
  <2>5. QED
    BY <2>3, <2>4
<1>5. QED
  BY <1>1, <1>2, <1>3, <1>4 DEF Proceed

LEMMA ProceedGrows ==
  ASSUME ShopTypeOK, NEW r \in Requests, Proceed(r)
  PROVE  RowsGrow
<1> USE DEF ShopTypeOK, RowsTypeOK, RowsGrow, rows, Orders
<1>1. /\ Grown(customers, customers) /\ Grown(shipments, shipments)
      /\ Len(orders) \in Nat /\ DOMAIN orders = 1..Len(orders)
  BY DEF Grown
<1>2. CASE UNCHANGED rows
  BY <1>1, <1>2
<1>3. ASSUME NEW a \in Addresses, customers' = Append(customers, a)
      PROVE  customers' \in Seq(Addresses) /\ Grown(customers, customers')
  BY <1>3, Appended
<1>4. CASE /\ \E a \in Addresses : customers' = Append(customers, a)
           /\ UNCHANGED <<products, orders, shipments, tickets>>
  BY <1>1, <1>3, <1>4
<1>5. CASE ShipsOrder(r)
  <2> DEFINE o == local[r].order
             row == [order |-> o, tracking |-> local[r].tracking]
  <2>1. o \in DOMAIN orders /\ o \in Nat /\ local[r].tracking \in Trackings
    BY <1>1, <1>5 DEF ShipsOrder, Held
  <2>2. row \in ShipmentRows
    BY <2>1 DEF ShipmentRows
  <2>3. shipments' = Append(shipments, row)
    BY <1>5 DEF ShipsOrder
  <2>4. shipments' \in Seq(ShipmentRows) /\ Grown(shipments, shipments')
    BY <2>2, <2>3, Appended
  <2>5. orders' \in Seq(OrderRows) /\ DOMAIN orders' = DOMAIN orders
    <3>1. orders' = [orders EXCEPT ![o] = [orders[o] EXCEPT !.status = "SHIPPED"]]
      BY <1>5 DEF ShipsOrder
    <3>2. [orders[o] EXCEPT !.status = "SHIPPED"] \in OrderRows
      <4>1. \A x \in OrderRows : [x EXCEPT !.status = "SHIPPED"] \in OrderRows
        BY DEF OrderRows, SeedStatuses
      <4>2. QED
        BY <2>1, <4>1
    <3>3. QED
      BY <2>1, <3>1, <3>2
  <2>6. QED
    BY <1>1, <1>5, <2>4, <2>5 DEF ShipsOrder
<1>6. CASE AddsOrder(r)
  <2>1. PICK c \in Nat :
          /\ \/ /\ orders' = Append(orders, [customer |-> c, status |-> "PROCESSING"])
                /\ UNCHANGED shipments
             \/ /\ orders' = Append(orders, [customer |-> c, status |-> "SHIPPED"])
                /\ shipments' = Append(shipments, [order |-> Len(orders) + 1, tracking |-> Generated])
          /\ customers' = customers \/ \E a \in Addresses : customers' = Append(customers, a)
          /\ UNCHANGED <<products, tickets>>
    BY <1>6 DEF AddsOrder
  <2>2. \A s \in {"PROCESSING", "SHIPPED"} : [customer |-> c, status |-> s] \in OrderRows
    BY DEF OrderRows, SeedStatuses
  <2>3. [order |-> Len(orders) + 1, tracking |-> Generated] \in ShipmentRows
    BY <1>1 DEF ShipmentRows
  <2>4. orders' \in Seq(OrderRows) /\ DOMAIN orders \subseteq DOMAIN orders'
    <3>1. PICK s \in {"PROCESSING", "SHIPPED"} : orders' = Append(orders, [customer |-> c, status |-> s])
      BY <2>1
    <3>2. [customer |-> c, status |-> s] \in OrderRows /\ orders \in Seq(OrderRows)
      BY <2>2
    <3> HIDE DEF ShopTypeOK, RowsTypeOK
    <3>3. QED
      BY <3>1, <3>2, Appended
  <2>5. shipments' \in Seq(ShipmentRows) /\ Grown(shipments, shipments')
    <3> DEFINE row == [order |-> Len(orders) + 1, tracking |-> Generated]
    <3>1. UNCHANGED shipments \/ shipments' = Append(shipments, row)
      BY <2>1
    <3>2. row \in ShipmentRows /\ shipments \in Seq(ShipmentRows)
      BY <2>3
    <3> HIDE DEF ShopTypeOK, RowsTypeOK, row
    <3>3. CASE UNCHANGED shipments
      BY <1>1, <3>2, <3>3
    <3>4. CASE shipments' = Append(shipments, row)
      BY <3>2, <3>4, Appended
    <3>5. QED
      BY <3>1, <3>3, <3>4
  <2>6. customers' \in Seq(Addresses) /\ Grown(customers, customers')
    BY <1>1, <1>3, <2>1
  <2>7. QED
    BY <2>1, <2>4, <2>5, <2>6
<1>7. QED
  BY <1>2, <1>4, <1>5, <1>6, ProceedDoes

LEMMA RowsStep == ShopTypeOK /\ ShopStep => RowsGrow
<1>1. UNCHANGED rows /\ RowsTypeOK => RowsGrow
  BY DEF rows, RowsGrow, RowsTypeOK, Grown, Orders
<1>2. QED
  BY <1>1, OpenGrows, ProceedGrows DEF ShopStep, ShopDies, shopVars, ShopTypeOK

\* What becomes of a request in a step of its own or of another: it goes on as
\* it was, or ends, or remembers what it has looked for and not found.
Looked(r) ==
  \/ /\ pc'[r] = "insert"
     /\ local'[r] \in [address : Addresses, seen : {Len(customers)}]
     /\ Rows(local'[r].address) = {}
  \/ /\ pc'[r] = "ship"
     /\ local'[r] \in [order : Orders, tracking : Trackings, seen : {Len(shipments)}]
     /\ Shipped(local'[r].order) \cup TrackedAs(local'[r].tracking) = {}
  \/ /\ pc'[r] \in {"flush", "commit"}
     /\ local'[r] \in [customer : Nat, address : Addresses \cup {None}, seen : {Len(customers)}]
     /\ pc'[r] = "flush" => /\ local'[r].customer = 0 /\ local'[r].address \in Addresses
                            /\ Matches(local'[r].address) = {}
     /\ pc'[r] = "commit" => local'[r].customer # 0
Moves(r) ==
  \/ pc'[r] = pc[r] /\ local'[r] = local[r]
  \/ pc'[r] \in Ended /\ local'[r] = None
  \/ pc[r] = "flush" /\ pc'[r] = "commit" /\ local'[r] = local[r]
  \/ UNCHANGED rows /\ Looked(r)

LEMMA OpenMoves ==
  ASSUME ShopTypeOK, NEW r \in Requests, NEW o \in Operations, Open(r, o)
  PROVE  Moves(r)
<1> USE DEF ShopTypeOK, Moves, Ended, rows, Answer
<1>1. CASE CreateProduct(r, o) \/ CreateOrder(r, o) \/ FileTicket(r, o)
  BY <1>1 DEF CreateProduct, CreateOrder, FileTicket
<1>2. CASE CheckCustomer(r, o)
  BY <1>2, OperationTypes DEF CheckCustomer, Remember, Looked
<1>3. CASE CheckShipment(r, o)
  BY <1>3, OperationTypes DEF CheckShipment, Remember, Looked
<1>4. CASE FindCustomer(r, o)
  <2>1. UNCHANGED rows /\ o.address \in Addresses \cup {None} /\ 0 \notin Customers /\ Customers \subseteq Nat
    BY <1>4, OperationTypes DEF FindCustomer, Customers, RowsTypeOK
  <2> DEFINE Work(where, i) == Remember(r, where,
               [customer |-> i, address |-> IF i = 0 THEN o.address ELSE None, seen |-> Len(customers)])
  <2>2. \/ \E i \in Customers : Work("commit", i)
        \/ o.address # None /\ Matches(o.address) = {} /\ Work("flush", 0)
        \/ Answer(r, "refused")
    <3>1. o.address # None => Matches(o.address) \subseteq Customers
      BY DEF Matches
    <3>2. {o.customer} \cap Customers \subseteq Customers
      OBVIOUS
    <3>3. QED
      BY <1>4, <3>1, <3>2 DEF FindCustomer
  <2>3. ASSUME NEW i \in Customers, Work("commit", i)
        PROVE  Moves(r)
    <3>1. i # 0 /\ i \in Nat
      BY <2>1
    <3>2. Remember(r, "commit", [customer |-> i, address |-> None, seen |-> Len(customers)])
      BY <2>3, <3>1
    <3>3. pc'[r] = "commit" /\ local'[r] = [customer |-> i, address |-> None, seen |-> Len(customers)]
      BY <3>2 DEF Remember
    <3>4. QED
      BY <2>1, <3>1, <3>3 DEF Looked
  <2>4. CASE o.address # None /\ Matches(o.address) = {} /\ Work("flush", 0)
    <3>1. Remember(r, "flush", [customer |-> 0, address |-> o.address, seen |-> Len(customers)])
      BY <2>4
    <3>2. pc'[r] = "flush" /\ local'[r] = [customer |-> 0, address |-> o.address, seen |-> Len(customers)]
      BY <3>1 DEF Remember
    <3>3. o.address \in Addresses /\ Matches(o.address) = {}
      BY <2>1, <2>4
    <3>4. QED
      BY <2>1, <3>2, <3>3 DEF Looked
  <2>5. CASE Answer(r, "refused")
    BY <2>5
  <2>6. QED
    BY <2>2, <2>3, <2>4, <2>5
<1>5. QED
  BY <1>1, <1>2, <1>3, <1>4 DEF Open

LEMMA ProceedMoves ==
  ASSUME ShopTypeOK, NEW r \in Requests, Proceed(r)
  PROVE  Moves(r)
BY DEF ShopTypeOK, Moves, Ended, Answer, Proceed, InsertCustomer, InsertShipment, InsertRow, FlushCustomer, CommitDemoOrder

LEMMA OthersStay ==
  ASSUME ShopTypeOK, NEW r \in Requests, NEW q \in Requests \ {r},
         Proceed(r) \/ \E o \in Operations : Open(r, o)
  PROVE  pc'[q] = pc[q] /\ local'[q] = local[q]
<1>1. \A how : Answer(r, how) => pc'[q] = pc[q] /\ local'[q] = local[q]
  BY DEF ShopTypeOK, Answer
<1>2. \A where, what : Remember(r, where, what) => pc'[q] = pc[q] /\ local'[q] = local[q]
  BY DEF ShopTypeOK, Remember
<1>3. CASE Proceed(r)
  BY <1>1, <1>3 DEF ShopTypeOK, Proceed, InsertCustomer, InsertShipment, InsertRow, FlushCustomer, CommitDemoOrder
<1>4. ASSUME NEW o \in Operations, Open(r, o)
      PROVE  pc'[q] = pc[q] /\ local'[q] = local[q]
  BY <1>1, <1>2, <1>4 DEF Open, CheckCustomer, CreateProduct, CreateOrder, CheckShipment, FindCustomer, FileTicket
<1>5. QED
  BY <1>3, <1>4

LEMMA MovesStep ==
  ASSUME ShopTypeOK, ShopStep, NEW r \in Requests
  PROVE  Moves(r)
<1>1. CASE ShopDies
  <2>1. pc'[r] = "died" \/ (pc'[r] = pc[r] /\ pc[r] \notin Waiting)
    BY <1>1 DEF ShopDies
  <2>2. local'[r] = None /\ (pc[r] \notin Waiting => local[r] = None)
    BY <1>1 DEF ShopDies, ShopTypeOK, Held
  <2>3. QED
    BY <2>1, <2>2 DEF Moves, Ended
<1>2. CASE UNCHANGED shopVars
  BY <1>2 DEF shopVars, Moves
<1>3. ASSUME NEW q \in Requests, (\E o \in Operations : Open(q, o)) \/ Proceed(q)
      PROVE  Moves(r)
  BY <1>3, OpenMoves, ProceedMoves, OthersStay DEF Moves
<1>4. QED
  BY <1>1, <1>2, <1>3 DEF ShopStep

LEMMA ShopTypeStep == ShopTypeOK /\ ShopStep => ShopTypeOK'
<1> SUFFICES ASSUME ShopTypeOK, ShopStep
             PROVE  ShopTypeOK'
  OBVIOUS
<1>1. RowsTypeOK' /\ Orders \subseteq Orders'
  BY RowsStep DEF RowsGrow
<1>2. pc' \in [Requests -> {"new"} \cup Waiting \cup Ended] /\ DOMAIN local' = Requests /\ LocalIsAFunction'
  <2> USE DEF ShopTypeOK, LocalIsAFunction, Waiting, Ended
  <2>1. \A q, how : Answer(q, how) /\ how \in Ended =>
          pc' \in [Requests -> {"new"} \cup Waiting \cup Ended] /\ DOMAIN local' = Requests /\ LocalIsAFunction'
    BY DEF Answer
  <2>2. \A q, where, what : Remember(q, where, what) /\ where \in Waiting =>
          pc' \in [Requests -> {"new"} \cup Waiting \cup Ended] /\ DOMAIN local' = Requests /\ LocalIsAFunction'
    BY DEF Remember
  <2>3. ASSUME NEW q \in Requests, NEW o \in Operations, Open(q, o)
        PROVE  pc' \in [Requests -> {"new"} \cup Waiting \cup Ended] /\ DOMAIN local' = Requests /\ LocalIsAFunction'
    BY <2>1, <2>2, <2>3 DEF Open, CheckCustomer, CreateProduct, CreateOrder, CheckShipment, FindCustomer, FileTicket
  <2>4. ASSUME NEW q \in Requests, Proceed(q)
        PROVE  pc' \in [Requests -> {"new"} \cup Waiting \cup Ended] /\ DOMAIN local' = Requests /\ LocalIsAFunction'
    BY <2>1, <2>4 DEF Proceed, InsertCustomer, InsertShipment, InsertRow, FlushCustomer, CommitDemoOrder
  <2>5. CASE ShopDies
    BY <2>5 DEF ShopDies
  <2>6. CASE UNCHANGED shopVars
    BY <2>6 DEF shopVars
  <2>7. QED
    BY <2>3, <2>4, <2>5, <2>6 DEF ShopStep
<1>3. Held'
  <2> SUFFICES ASSUME NEW r \in Requests
               PROVE  /\ pc'[r] = "insert" => local'[r] \in [address : Addresses, seen : Nat]
                      /\ pc'[r] = "ship" => local'[r] \in [order : Orders', tracking : Trackings, seen : Nat]
                      /\ pc'[r] \in {"flush", "commit"} =>
                           /\ local'[r] \in [customer : Nat, address : Addresses \cup {None}, seen : Nat]
                           /\ local'[r].customer = 0 => local'[r].address \in Addresses
                      /\ pc'[r] = "flush" => local'[r].customer = 0
                      /\ pc'[r] \notin Waiting => local'[r] = None
    BY DEF Held
  <2>1. Moves(r) /\ Held
    BY MovesStep DEF ShopTypeOK
  <2>2. CASE pc'[r] = pc[r] /\ local'[r] = local[r]
    BY <1>1, <2>1, <2>2 DEF Held
  <2>3. CASE pc'[r] \in Ended /\ local'[r] = None
    BY <2>3 DEF Ended, Waiting
  <2>4. CASE pc[r] = "flush" /\ pc'[r] = "commit" /\ local'[r] = local[r]
    BY <2>1, <2>4 DEF Held, Waiting
  <2>5. CASE UNCHANGED rows /\ Looked(r)
    <3>1. Len(customers) \in Nat /\ Len(shipments) \in Nat /\ Orders' = Orders
      BY <2>5 DEF ShopTypeOK, RowsTypeOK, rows, Orders
    <3>2. CASE pc'[r] = "insert" /\ local'[r] \in [address : Addresses, seen : {Len(customers)}]
      BY <3>1, <3>2 DEF Waiting
    <3>3. CASE pc'[r] = "ship" /\ local'[r] \in [order : Orders, tracking : Trackings, seen : {Len(shipments)}]
      BY <3>1, <3>3 DEF Waiting
    <3>4. CASE /\ pc'[r] \in {"flush", "commit"}
               /\ local'[r] \in [customer : Nat, address : Addresses \cup {None}, seen : {Len(customers)}]
               /\ pc'[r] = "flush" => /\ local'[r].customer = 0 /\ local'[r].address \in Addresses
                                      /\ Matches(local'[r].address) = {}
               /\ pc'[r] = "commit" => local'[r].customer # 0
      BY <3>1, <3>4 DEF Waiting
    <3>5. QED
      BY <2>5, <3>2, <3>3, <3>4 DEF Looked
  <2>6. QED
    BY <2>1, <2>2, <2>3, <2>4, <2>5 DEF Moves
<1>4. QED
  BY <1>1, <1>2, <1>3 DEF ShopTypeOK

\* What a request has not found when it looked has been inserted since.
LooksHold ==
  \A r \in Requests :
    /\ pc[r] = "insert" =>
         /\ local[r].seen <= Len(customers)
         /\ \A i \in Rows(local[r].address) : i > local[r].seen
    /\ pc[r] = "ship" =>
         /\ local[r].seen <= Len(shipments)
         /\ \A i \in Shipped(local[r].order) \cup TrackedAs(local[r].tracking) : i > local[r].seen
    /\ pc[r] \in {"flush", "commit"} /\ local[r].customer = 0 =>
         /\ local[r].seen <= Len(customers)
         /\ \A i \in Matches(local[r].address) : i > local[r].seen

\* A row with an address, order or tracking number that was not there is new.
LEMMA FoundIsNew ==
  ASSUME ShopTypeOK, RowsGrow, NEW n \in Nat
  PROVE  /\ n <= Len(customers) => n <= Len(customers')
         /\ n <= Len(shipments) => n <= Len(shipments')
         /\ \A a : n <= Len(customers) /\ (\A i \in Rows(a) : i > n) => \A i \in Rows(a)' : i > n
         /\ \A a : n <= Len(customers) /\ (\A i \in Matches(a) : i > n) => \A i \in Matches(a)' : i > n
         /\ \A o : n <= Len(shipments) /\ (\A i \in Shipped(o) : i > n) => \A i \in Shipped(o)' : i > n
         /\ \A t : n <= Len(shipments) /\ (\A i \in TrackedAs(t) : i > n) => \A i \in TrackedAs(t)' : i > n
<1>1. /\ Len(customers) \in Nat /\ DOMAIN customers = 1..Len(customers)
      /\ Len(customers') \in Nat /\ DOMAIN customers' = 1..Len(customers')
      /\ Len(shipments) \in Nat /\ DOMAIN shipments = 1..Len(shipments)
      /\ Len(shipments') \in Nat /\ DOMAIN shipments' = 1..Len(shipments')
  BY DEF ShopTypeOK, RowsGrow, RowsTypeOK
<1>2. /\ Len(customers) <= Len(customers') /\ \A i \in DOMAIN customers : customers'[i] = customers[i]
      /\ Len(shipments) <= Len(shipments') /\ \A i \in DOMAIN shipments : shipments'[i] = shipments[i]
  BY DEF RowsGrow, Grown
<1> HIDE DEF ShopTypeOK, RowsGrow
<1>3. QED
  BY <1>1, <1>2 DEF Rows, Matches, Shipped, TrackedAs, Customers

LEMMA LooksStep == ShopTypeOK /\ LooksHold /\ ShopStep => LooksHold'
<1> SUFFICES ASSUME ShopTypeOK, LooksHold, ShopStep, NEW r \in Requests
             PROVE  /\ pc'[r] = "insert" =>
                         /\ local'[r].seen <= Len(customers')
                         /\ \A i \in Rows(local[r].address)' : i > local'[r].seen
                    /\ pc'[r] = "ship" =>
                         /\ local'[r].seen <= Len(shipments')
                         /\ \A i \in Shipped(local[r].order)' \cup TrackedAs(local[r].tracking)' :
                              i > local'[r].seen
                    /\ pc'[r] \in {"flush", "commit"} /\ local'[r].customer = 0 =>
                         /\ local'[r].seen <= Len(customers')
                         /\ \A i \in Matches(local[r].address)' : i > local'[r].seen
  BY DEF LooksHold
<1>1. Moves(r) /\ RowsGrow /\ Held
  BY MovesStep, RowsStep DEF ShopTypeOK
<1>2. CASE pc'[r] \in {"insert", "ship", "flush", "commit"} /\ local'[r] = local[r]
           /\ (pc'[r] = pc[r] \/ (pc[r] = "flush" /\ pc'[r] = "commit"))
  <2>1. PICK a, o, t, n, c : a = local[r].address /\ o = local[r].order /\ t = local[r].tracking
                             /\ n = local[r].seen /\ c = local[r].customer
    OBVIOUS
  <2>2. n \in Nat
    BY <1>1, <1>2, <2>1 DEF Held
  <2>3. /\ pc'[r] = "insert" => n <= Len(customers) /\ \A i \in Rows(a) : i > n
        /\ pc'[r] = "ship" => n <= Len(shipments) /\ \A i \in Shipped(o) \cup TrackedAs(t) : i > n
        /\ pc'[r] \in {"flush", "commit"} /\ c = 0 =>
             n <= Len(customers) /\ \A i \in Matches(a) : i > n
    BY <1>2, <2>1 DEF LooksHold
  <2>4. Rows(a)' = Rows(local[r].address)' /\ Matches(a)' = Matches(local[r].address)'
        /\ Shipped(o)' = Shipped(local[r].order)' /\ TrackedAs(t)' = TrackedAs(local[r].tracking)'
    BY <1>2, <2>1 DEF Rows, Matches, Shipped, TrackedAs, Customers
  <2>5. /\ local'[r].seen = n /\ local'[r].customer = c
    BY <1>2, <2>1
  <2>6. QED
    BY <1>1, <2>2, <2>3, <2>4, <2>5, FoundIsNew
<1>3. CASE UNCHANGED rows /\ Looked(r)
  <2>1. /\ Len(customers) \in Nat /\ Len(shipments) \in Nat
        /\ customers' = customers /\ shipments' = shipments
    BY <1>3 DEF ShopTypeOK, RowsTypeOK, rows
  <2>2. Rows(local[r].address)' = Rows(local'[r].address) /\ Matches(local[r].address)' = Matches(local'[r].address)
        /\ Shipped(local[r].order)' = Shipped(local'[r].order) /\ TrackedAs(local[r].tracking)' = TrackedAs(local'[r].tracking)
    BY <2>1 DEF Rows, Matches, Shipped, TrackedAs, Customers
  <2>3. CASE pc'[r] = "insert" /\ local'[r] \in [address : Addresses, seen : {Len(customers)}]
             /\ Rows(local'[r].address) = {}
    BY <2>1, <2>2, <2>3
  <2>4. CASE pc'[r] = "ship" /\ local'[r] \in [order : Orders, tracking : Trackings, seen : {Len(shipments)}]
             /\ Shipped(local'[r].order) \cup TrackedAs(local'[r].tracking) = {}
    BY <2>1, <2>2, <2>4
  <2>5. CASE /\ pc'[r] \in {"flush", "commit"}
             /\ local'[r] \in [customer : Nat, address : Addresses \cup {None}, seen : {Len(customers)}]
             /\ pc'[r] = "flush" => /\ local'[r].customer = 0 /\ local'[r].address \in Addresses
                                    /\ Matches(local'[r].address) = {}
             /\ pc'[r] = "commit" => local'[r].customer # 0
    BY <2>1, <2>2, <2>5
  <2>6. QED
    BY <1>3, <2>3, <2>4, <2>5 DEF Looked
<1>4. CASE pc'[r] \notin {"insert", "ship", "flush", "commit"}
  BY <1>4
<1>5. CASE pc'[r] \in {"insert", "ship", "flush", "commit"}
  <2>1. \/ local'[r] = local[r] /\ (pc'[r] = pc[r] \/ (pc[r] = "flush" /\ pc'[r] = "commit"))
        \/ UNCHANGED rows /\ Looked(r)
    <3>1. pc'[r] \notin Ended
      BY <1>5 DEF Ended
    <3>2. QED
      BY <1>1, <3>1, Zenon DEF Moves
  <2>2. QED
    BY <1>2, <1>3, <1>5, <2>1, Zenon
<1>6. QED
  BY <1>4, <1>5

-----------------------------------------------------------------------------
(* Orders and their shipments. *)

OneEach ==
  /\ \A i \in DOMAIN shipments : shipments[i].order \in Orders
  /\ \A i, j \in DOMAIN shipments :
       \/ shipments[i].order = shipments[j].order
       \/ shipments[i].tracking = shipments[j].tracking /\ shipments[i].tracking # Generated
       => i = j
  /\ \A o \in Orders : orders[o].status \in {"SHIPPED", "DELIVERED"} <=> Shipped(o) # {}

LEMMA OpenDoes ==
  ASSUME NEW r \in Requests, NEW o \in Operations, Open(r, o)
  PROVE  /\ UNCHANGED shipments
         /\ \/ UNCHANGED orders
            \/ \E c : orders' = Append(orders, [customer |-> c, status |-> "PENDING"])
BY DEF Open, CheckCustomer, CreateProduct, CreateOrder, CheckShipment, FindCustomer, FileTicket, rows

\* The order that a step adds has the shipment that it adds, or none.
LEMMA OrderAdded ==
  ASSUME ShopTypeOK, OneEach, NEW c, NEW s \in {"PENDING", "PROCESSING", "SHIPPED"},
         orders' = Append(orders, [customer |-> c, status |-> s]),
         IF s = "SHIPPED"
           THEN shipments' = Append(shipments, [order |-> Len(orders) + 1, tracking |-> Generated])
           ELSE UNCHANGED shipments
  PROVE  OneEach'
<1>0. PICK n, k : n = Len(orders) + 1 /\ k = Len(shipments) + 1
  OBVIOUS
<1>1. /\ Len(orders) \in Nat /\ DOMAIN orders = 1..Len(orders)
      /\ Len(shipments) \in Nat /\ DOMAIN shipments = 1..Len(shipments)
      /\ n \notin Orders /\ k \notin DOMAIN shipments
  BY <1>0 DEF ShopTypeOK, RowsTypeOK, Orders
<1>2. /\ Orders' = Orders \cup {n}
      /\ orders'[n].status = s
      /\ \A o \in Orders : orders'[o] = orders[o]
  BY <1>0, <1>1 DEF ShopTypeOK, RowsTypeOK, Orders
<1>3. \A i \in DOMAIN shipments : shipments[i].order \in Orders /\ shipments[i].order # n
  BY <1>1 DEF OneEach
<1>4. CASE s = "SHIPPED"
  <2>1. /\ DOMAIN shipments' = DOMAIN shipments \cup {k}
        /\ shipments'[k].order = n /\ shipments'[k].tracking = Generated
        /\ \A i \in DOMAIN shipments : shipments'[i] = shipments[i]
    BY <1>0, <1>1, <1>4 DEF ShopTypeOK, RowsTypeOK
  <2>2. \A o \in Orders : Shipped(o)' = Shipped(o)
    BY <1>1, <2>1 DEF Shipped
  <2>3. Shipped(n)' # {}
    BY <2>1 DEF Shipped
  <2>4. QED
    <3>1. \A i \in DOMAIN shipments' : shipments'[i].order \in Orders'
      BY <1>2, <1>3, <2>1
    <3>2. \A i, j \in DOMAIN shipments' :
            \/ shipments'[i].order = shipments'[j].order
            \/ shipments'[i].tracking = shipments'[j].tracking /\ shipments'[i].tracking # Generated
            => i = j
      BY <1>3, <2>1 DEF OneEach
    <3>3. \A o \in Orders' : orders'[o].status \in {"SHIPPED", "DELIVERED"} <=> Shipped(o)' # {}
      BY <1>2, <1>4, <2>2, <2>3 DEF OneEach
    <3>4. QED
      BY <3>1, <3>2, <3>3 DEF OneEach
<1>5. CASE s # "SHIPPED"
  <2>1. UNCHANGED shipments /\ s \notin {"SHIPPED", "DELIVERED"}
    BY <1>5
  <2>2. \A o : Shipped(o)' = Shipped(o)
    BY <2>1 DEF Shipped
  <2>3. Shipped(n)' = {}
    BY <1>3, <2>1 DEF Shipped
  <2>4. QED
    BY <1>2, <1>3, <2>1, <2>2, <2>3 DEF OneEach
<1>6. QED
  BY <1>4, <1>5

LEMMA OneEachStep == ShopTypeOK /\ OneEach /\ ShopStep => OneEach'
<1> SUFFICES ASSUME ShopTypeOK, OneEach, ShopStep
             PROVE  OneEach'
  OBVIOUS
<1>1. CASE UNCHANGED <<orders, shipments>>
  BY <1>1 DEF OneEach, Orders, Shipped
<1>2. ASSUME NEW r \in Requests, NEW o \in Operations, Open(r, o)
      PROVE  OneEach'
  <2>1. CASE UNCHANGED orders
    BY <1>1, <1>2, <2>1, OpenDoes
  <2>2. CASE orders' # orders
    <3>1. PICK c : orders' = Append(orders, [customer |-> c, status |-> "PENDING"])
      BY <1>2, <2>2, OpenDoes
    <3>2. UNCHANGED shipments
      BY <1>2, OpenDoes
    <3>3. QED
      BY <3>1, <3>2, OrderAdded
  <2>3. QED
    BY <2>1, <2>2
<1>3. ASSUME NEW r \in Requests, ShipsOrder(r)
      PROVE  OneEach'
  <2>1. PICK o, t, k : o = local[r].order /\ t = local[r].tracking /\ k = Len(shipments) + 1
    OBVIOUS
  <2>2. /\ o \in Orders /\ Shipped(o) = {} /\ TrackedAs(t) = {}
        /\ shipments' = Append(shipments, [order |-> o, tracking |-> t])
        /\ orders' = [orders EXCEPT ![o] = [orders[o] EXCEPT !.status = "SHIPPED"]]
    BY <1>3, <2>1 DEF ShipsOrder
  <2>3. /\ DOMAIN shipments' = DOMAIN shipments \cup {k}
        /\ k \notin DOMAIN shipments
        /\ shipments'[k].order = o /\ shipments'[k].tracking = t
        /\ \A i \in DOMAIN shipments : shipments'[i] = shipments[i]
    BY <2>1, <2>2 DEF ShopTypeOK, RowsTypeOK
  <2>4. /\ Orders' = Orders
        /\ orders'[o].status = "SHIPPED"
        /\ \A p \in Orders \ {o} : orders'[p] = orders[p]
    <3>1. orders \in Seq(OrderRows) /\ DOMAIN orders' = DOMAIN orders
      BY <2>2 DEF ShopTypeOK, RowsTypeOK
    <3>2. orders[o] \in OrderRows
      BY <2>2, <3>1 DEF Orders
    <3>3. [orders[o] EXCEPT !.status = "SHIPPED"].status = "SHIPPED"
      BY <3>2 DEF OrderRows
    <3>4. QED
      BY <2>2, <3>1, <3>3 DEF Orders
  <2>5. \A p \in Orders \ {o} : Shipped(p)' = Shipped(p)
    BY <2>3 DEF Shipped
  <2>6. Shipped(o)' # {}
    BY <2>3 DEF Shipped
  <2>7. \A i \in DOMAIN shipments : /\ shipments[i].order # o
                                    /\ shipments[i].tracking = t => t = Generated
    BY <2>2 DEF Shipped, TrackedAs
  <2>8. \A i \in DOMAIN shipments' : shipments'[i].order \in Orders'
    BY <2>2, <2>3, <2>4 DEF OneEach
  <2>9. \A i, j \in DOMAIN shipments' :
          \/ shipments'[i].order = shipments'[j].order
          \/ shipments'[i].tracking = shipments'[j].tracking /\ shipments'[i].tracking # Generated
          => i = j
    BY <2>3, <2>7 DEF OneEach
  <2>10. \A p \in Orders' : orders'[p].status \in {"SHIPPED", "DELIVERED"} <=> Shipped(p)' # {}
    BY <2>4, <2>5, <2>6 DEF OneEach
  <2>11. QED
    BY <2>8, <2>9, <2>10 DEF OneEach
<1>4. ASSUME NEW r \in Requests, AddsOrder(r)
      PROVE  OneEach'
  <2>1. PICK c \in Nat :
          \/ /\ orders' = Append(orders, [customer |-> c, status |-> "PROCESSING"])
             /\ UNCHANGED shipments
          \/ /\ orders' = Append(orders, [customer |-> c, status |-> "SHIPPED"])
             /\ shipments' = Append(shipments, [order |-> Len(orders) + 1, tracking |-> Generated])
    BY <1>4 DEF AddsOrder
  <2>2. CASE orders' = Append(orders, [customer |-> c, status |-> "PROCESSING"]) /\ UNCHANGED shipments
    BY <2>2, OrderAdded
  <2>3. CASE /\ orders' = Append(orders, [customer |-> c, status |-> "SHIPPED"])
             /\ shipments' = Append(shipments, [order |-> Len(orders) + 1, tracking |-> Generated])
    BY <2>3, OrderAdded
  <2>4. QED
    BY <2>1, <2>2, <2>3
<1>5. ASSUME NEW r \in Requests, Proceed(r)
      PROVE  OneEach'
  BY <1>1, <1>3, <1>4, <1>5, ProceedDoes DEF rows
<1>6. QED
  BY <1>1, <1>2, <1>5 DEF ShopStep, ShopDies, shopVars, rows

-----------------------------------------------------------------------------
(* The whole server. *)

ShopInv == ShopTypeOK /\ LooksHold /\ OneEach

LEMMA ShopInitInv == Init => ShopInv
<1> SUFFICES ASSUME Init
             PROVE  ShopInv
  OBVIOUS
<1>1. /\ pc = [r \in Requests |-> "new"] /\ local = [r \in Requests |-> None] /\ tickets = {}
  BY DEF Init
<1>2. Held /\ LooksHold
  BY <1>1 DEF Held, LooksHold, Waiting
<1>3. pc \in [Requests -> {"new"} \cup Waiting \cup Ended] /\ DOMAIN local = Requests /\ LocalIsAFunction
  BY <1>1 DEF LocalIsAFunction
<1>4. CASE customers = <<>> /\ products = FALSE /\ orders = <<>> /\ shipments = <<>>
  <2>1. RowsTypeOK /\ Orders = {} /\ DOMAIN shipments = {}
    <3>1. DOMAIN <<>> = {} /\ (\A S : <<>> \in Seq(S))
      OBVIOUS
    <3>2. QED
      BY <1>1, <1>4, <3>1 DEF RowsTypeOK, Orders
  <2>2. OneEach
    BY <2>1 DEF OneEach
  <2>3. QED
    BY <1>2, <1>3, <2>1, <2>2 DEF ShopInv, ShopTypeOK
<1>5. CASE Seed
  <2>1. PICK s \in SeedStatuses : /\ orders = <<[customer |-> 1, status |-> s]>>
                                  /\ shipments \in SeedShipments(s)
    BY <1>5 DEF Seed
  <2>2. customers \in Seq(Addresses) /\ products \in BOOLEAN
    BY <1>5, SeededAssumption DEF Seed
  <2>3. [customer |-> 1, status |-> s] \in OrderRows
    BY <2>1 DEF OrderRows
  <2>4. /\ orders \in Seq(OrderRows) /\ Orders = {1} /\ orders[1].status = s
    BY <2>1, <2>3 DEF Orders
  <2>5. CASE s \in {"SHIPPED", "DELIVERED"}
    <3>1. PICK t \in Trackings : shipments = <<[order |-> 1, tracking |-> t]>>
      BY <2>1, <2>5 DEF SeedShipments
    <3>2. [order |-> 1, tracking |-> t] \in ShipmentRows
      BY DEF ShipmentRows
    <3>3. shipments \in Seq(ShipmentRows) /\ DOMAIN shipments = {1} /\ shipments[1].order = 1
      BY <3>1, <3>2
    <3>4. OneEach
      BY <2>4, <2>5, <3>3 DEF OneEach, Shipped
    <3>5. QED
      BY <1>1, <1>2, <1>3, <2>2, <2>4, <3>3, <3>4 DEF ShopInv, ShopTypeOK, RowsTypeOK
  <2>6. CASE s \notin {"SHIPPED", "DELIVERED"}
    <3>1. shipments = <<>>
      BY <2>1, <2>6 DEF SeedShipments
    <3>2. shipments \in Seq(ShipmentRows) /\ OneEach
      BY <2>4, <2>6, <3>1 DEF OneEach, Shipped
    <3>3. QED
      BY <1>1, <1>2, <1>3, <2>2, <2>4, <3>2 DEF ShopInv, ShopTypeOK, RowsTypeOK
  <2>7. QED
    BY <2>5, <2>6
<1>6. QED
  BY <1>4, <1>5 DEF Init

LEMMA ShopAlways == Spec => [](LimiterInv /\ ShopInv)
<1>1. Init => LimiterInv /\ ShopInv
  BY LimiterInitInv, ShopInitInv DEF Init
<1>2. LimiterInv /\ ShopInv /\ [Next]_vars => (LimiterInv /\ ShopInv)'
  BY StepSplits, LimiterStepInv, ShopTypeStep, LooksStep, OneEachStep DEF LimiterInv, ShopInv
<1>3. QED
  BY <1>1, <1>2, PTL DEF Spec

\* Rows, requests and counters are what they are declared to be, and a handler
\* remembers something exactly while it has another step to do.
THEOREM ApiTypes == Spec => []TypeOK
<1>1. LimiterInv /\ ShopInv => TypeOK
  <2> SUFFICES ASSUME LimiterInv, ShopInv
               PROVE  TypeOK
    OBVIOUS
  <2>1. \A r \in Requests : pc[r] \in Waiting => local[r] \in Memories
    <3> SUFFICES ASSUME NEW r \in Requests, pc[r] \in Waiting
                 PROVE  local[r] \in Memories
      OBVIOUS
    <3>1. Orders \subseteq Nat
      BY DEF ShopInv, ShopTypeOK, RowsTypeOK, Orders
    <3>2. CASE pc[r] = "insert"
      BY <3>2 DEF ShopInv, ShopTypeOK, Held, Memories
    <3>3. CASE pc[r] = "ship"
      BY <3>1, <3>3 DEF ShopInv, ShopTypeOK, Held, Memories
    <3>4. CASE pc[r] \in {"flush", "commit"}
      BY <3>4 DEF ShopInv, ShopTypeOK, Held, Memories
    <3>5. QED
      BY <3>2, <3>3, <3>4 DEF Waiting
  <2>2. \A r \in Requests : pc[r] \notin Waiting => local[r] = None
    BY DEF ShopInv, ShopTypeOK, Held
  <2>3. local \in [Requests -> Memories \cup {None}]
    <3>1. local = [r \in Requests |-> local[r]]
      BY DEF ShopInv, ShopTypeOK, LocalIsAFunction
    <3>2. QED
      BY <2>1, <2>2, <3>1
  <2>4. \A r \in Requests : pc[r] \in Waiting <=> local[r] # None
    BY <2>1, <2>2, NoneAssumption
  <2>5. QED
    BY <2>3, <2>4 DEF TypeOK, LimiterInv, ShopInv, ShopTypeOK, RowsTypeOK, ShipmentRows
<1>2. QED
  BY <1>1, ShopAlways, PTL

LEMMA AtMostOne ==
  ASSUME NEW S, \A x, y \in S : x = y
  PROVE  Cardinality(S) <= 1
<1>1. CASE S = {}
  BY <1>1, FS_EmptySet
<1>2. CASE S # {}
  <2>1. PICK x : S = {x}
    BY <1>2
  <2>2. QED
    BY <2>1, FS_Singleton
<1>3. QED
  BY <1>1, <1>2

\* An order is SHIPPED or DELIVERED exactly if it has its one shipment, and no
\* tracking number is given out twice.
THEOREM OrdersShipTogether == Spec => []ShippedTogether
<1>1. ShopInv => ShippedTogether
  <2> SUFFICES ASSUME ShopInv
               PROVE  ShippedTogether
    OBVIOUS
  <2>1. \A o \in Orders : orders[o].status \in {"SHIPPED", "DELIVERED"} <=> Shipped(o) # {}
    BY DEF ShopInv, OneEach
  <2>2. \A o \in Orders : \A x, y \in Shipped(o) : x = y
    BY DEF ShopInv, OneEach, Shipped
  <2>3. \A t \in Trackings : \A x, y \in TrackedAs(t) : x = y
    BY DEF ShopInv, OneEach, TrackedAs
  <2>4. QED
    BY <2>1, <2>2, <2>3, AtMostOne DEF ShippedTogether
<1>2. QED
  BY <1>1, ShopAlways, PTL

\* The step in which a request ends with a conflict is its insert, which finds
\* what the unique constraint found.
LEMMA ConflictFinds ==
  ASSUME ShopTypeOK, ShopStep, NEW r \in Requests, pc[r] \in Waiting, pc'[r] = "conflict"
  PROVE  /\ pc[r] = "ship" => Shipped(local[r].order) \cup TrackedAs(local[r].tracking) # {}
         /\ pc[r] \in {"insert", "flush"} => Rows(local[r].address) # {}
<1>1. CASE Proceed(r)
  BY <1>1 DEF ShopTypeOK, Proceed, InsertCustomer, InsertShipment, InsertRow, FlushCustomer, CommitDemoOrder,
              Answer, Waiting
<1>2. ASSUME NEW o \in Operations, Open(r, o)
      PROVE  FALSE
  BY <1>2 DEF Open, CheckCustomer, CreateProduct, CreateOrder, CheckShipment, FindCustomer, FileTicket, Waiting
<1>3. ASSUME NEW q \in Requests \ {r}, (\E o \in Operations : Open(q, o)) \/ Proceed(q)
      PROVE  FALSE
  BY <1>3, OthersStay DEF Waiting
<1>4. ~ShopDies /\ ~UNCHANGED shopVars
  BY DEF ShopDies, shopVars, Waiting
<1>5. QED
  BY <1>1, <1>2, <1>3, <1>4 DEF ShopStep

\* A request that a unique constraint stops was beaten by a row inserted after
\* it looked, and an address the simulator adds is no mailbox it could have seen.
THEOREM ConflictsExplained == Spec => ConflictsAreRaces
<1> DEFINE Step ==
      \A r \in Requests :
        LET mine == local[r] IN
        /\ (pc[r] = "ship" /\ pc'[r] = "conflict") =>
             \E i \in Shipped(mine.order) \cup TrackedAs(mine.tracking) : i > mine.seen
        /\ (pc[r] \in {"insert", "flush"} /\ pc'[r] = "conflict") =>
             \E i \in Rows(mine.address) : i > mine.seen
        /\ (pc[r] = "commit" /\ mine.customer = 0 /\ pc'[r] = "ok") =>
             \A i \in InMailbox(mine.address) : i > mine.seen
<1>1. LimiterInv /\ ShopInv /\ [Next]_vars => [Step]_vars
  <2> SUFFICES ASSUME LimiterInv, ShopInv, [Next]_vars, NEW r \in Requests
               PROVE  /\ (pc[r] = "ship" /\ pc'[r] = "conflict") =>
                           \E i \in Shipped(local[r].order) \cup TrackedAs(local[r].tracking) :
                             i > local[r].seen
                      /\ (pc[r] \in {"insert", "flush"} /\ pc'[r] = "conflict") =>
                           \E i \in Rows(local[r].address) : i > local[r].seen
                      /\ (pc[r] = "commit" /\ local[r].customer = 0 /\ pc'[r] = "ok") =>
                           \A i \in InMailbox(local[r].address) : i > local[r].seen
    OBVIOUS
  <2>1. ShopStep /\ ShopTypeOK /\ LooksHold
    BY StepSplits DEF LimiterInv, ShopInv
  <2>2. CASE pc[r] = "ship" /\ pc'[r] = "conflict"
    BY <2>1, <2>2, ConflictFinds DEF LooksHold, Waiting
  <2>3. CASE pc[r] \in {"insert", "flush"} /\ pc'[r] = "conflict"
    <3>1. Rows(local[r].address) # {}
      BY <2>1, <2>3, ConflictFinds DEF Waiting
    <3>2. Rows(local[r].address) \subseteq Matches(local[r].address)
      BY DEF Rows, Matches
    <3>3. pc[r] = "flush" => local[r].customer = 0
      BY <2>1 DEF ShopTypeOK, Held
    <3>4. \A i \in Rows(local[r].address) : i > local[r].seen
      BY <2>1, <2>3, <3>2, <3>3 DEF LooksHold
    <3>5. QED
      BY <2>3, <3>1, <3>4
  <2>4. CASE pc[r] = "commit" /\ local[r].customer = 0 /\ pc'[r] = "ok"
    BY <2>1, <2>4 DEF LooksHold, InMailbox, Matches
  <2>5. QED
    BY <2>2, <2>3, <2>4
<1>2. QED
  BY <1>1, ShopAlways, PTL DEF Spec, ConflictsAreRaces

\* A nonempty set of ids has a greatest one.
LEMMA Greatest ==
  ASSUME NEW n \in Nat, NEW S \in SUBSET (1..n), S # {}
  PROVE  Latest(S) # {}
<1> DEFINE R == {ss \in Nat \X Nat : ss[1] < ss[2]}
           T == {n - p : p \in S}
<1>1. IsWellFoundedOn(R, Nat)
  <2>1. R = OpToRel(<, Nat)
    BY DEF OpToRel
  <2>2. QED
    BY <2>1, NatLessThanWellFounded
<1>2. T \subseteq Nat /\ T # {}
  <2>1. PICK p \in S : TRUE
    OBVIOUS
  <2>2. n - p \in T
    BY <2>1
  <2>3. \A q \in S : n - q \in Nat
    OBVIOUS
  <2>4. QED
    BY <2>2, <2>3
<1>3. \E x \in T : \A y \in T : <<y, x>> \notin R
  <2> HIDE DEF R, T
  <2>1. QED
    BY <1>1, <1>2, WFMin
<1>4. PICK o \in S : \A y \in T : <<y, n - o>> \notin R
  BY <1>3
<1>5. ASSUME NEW p \in S
      PROVE  p <= o
  <2>1. <<n - p, n - o>> \notin R
    BY <1>4
  <2>2. n - p \in Nat /\ n - o \in Nat
    OBVIOUS
  <2>3. ~(n - p < n - o)
    BY <2>1, <2>2
  <2>4. QED
    BY <2>3
<1>6. QED
  BY <1>5 DEF Latest

LEMMA InitialSegment ==
  ASSUME NEW n \in Nat, NEW S \in SUBSET (1..n)
  PROVE  IsFiniteSet(S)
<1>1. 1 \in Int /\ n \in Int
  OBVIOUS
<1>2. IsFiniteSet(1..n)
  BY <1>1, FS_Interval
<1>3. QED
  BY <1>2, FS_Subset

\* A demo ticket filed with an address only is refused because no customer of
\* that mailbox has an order, or because the mailbox has two customers.
THEOREM TicketsFindTheirOrder == Spec => TicketFindsItsOrder
<1> DEFINE Found(r, a) ==
      LET o == [kind |-> "demo_ticket", address |-> a, order |-> None] IN
      (stage[r] = "admitted" /\ scope[r][1] = o.kind /\ FileTicket(r, o)) =>
        \/ \A i \in InMailbox(a) : OrdersOf(i) = {}
        \/ Cardinality(InMailbox(a)) > 1
<1>1. ShopInv /\ [Next]_vars =>
        [\A r \in Requests : pc[r] = "new" /\ pc'[r] = "refused" => \A a \in Addresses : Found(r, a)]_vars
  <2> SUFFICES ASSUME ShopInv, NEW r \in Requests, pc'[r] = "refused", NEW a \in Addresses, NEW o,
                      o = [kind |-> "demo_ticket", address |-> a, order |-> None], FileTicket(r, o)
               PROVE  \/ \A i \in InMailbox(a) : OrdersOf(i) = {}
                      \/ Cardinality(InMailbox(a)) > 1
    BY Zenon
  <2>1. /\ o.address = a /\ o.address # None /\ o.order = None
        /\ InMailbox(a) = Matches(a)
    BY NoneAssumption DEF InMailbox, Matches
  <2>2. pc \in [Requests -> {"new"} \cup Waiting \cup Ended] /\ customers \in Seq(Addresses) /\ orders \in Seq(OrderRows)
    BY DEF ShopInv, ShopTypeOK, RowsTypeOK
  <2>3. \A i : Meant(o, i) = Latest(OrdersOf(i))
    BY <2>1 DEF Meant
  <2>4. \A i : Meant(o, i) = {} => OrdersOf(i) = {}
    <3>1. \A i : OrdersOf(i) \in SUBSET (1..Len(orders)) /\ Len(orders) \in Nat
      BY <2>2 DEF OrdersOf, Orders
    <3>2. QED
      BY <2>3, <3>1, Greatest
  <2>5. ~Answer(r, "ok")
    BY <2>2 DEF Answer
  <2>6. \/ \A i \in InMailbox(a) : Meant(o, i) = {}
        \/ \E i \in InMailbox(a) : Meant(o, i) = {}
    BY <2>1, <2>5 DEF FileTicket
  <2>7. CASE \A i \in InMailbox(a) : Meant(o, i) = {}
    BY <2>4, <2>7
  <2>8. ASSUME NEW i \in InMailbox(a), NEW j \in InMailbox(a), Meant(o, i) = {}, OrdersOf(j) # {}
        PROVE  Cardinality(InMailbox(a)) > 1
    <3>1. i # j
      BY <2>4, <2>8
    <3>2. IsFiniteSet(InMailbox(a))
      <4>1. InMailbox(a) \in SUBSET (1..Len(customers)) /\ Len(customers) \in Nat
        BY <2>2 DEF InMailbox, Customers
      <4>2. QED
        BY <4>1, InitialSegment
    <3>3. {i, j} \subseteq InMailbox(a) /\ IsFiniteSet({i}) /\ Cardinality({i}) = 1 /\ j \notin {i}
      BY <3>1, FS_Singleton
    <3>4. Cardinality({i} \cup {j}) = 2
      <4>1. Cardinality({i} \cup {j}) = Cardinality({i}) + 1
        BY <3>3, FS_AddElement, Zenon
      <4>2. QED
        BY <3>3, <4>1
    <3>5. {i, j} = {i} \cup {j}
      OBVIOUS
    <3>6. Cardinality({i, j}) <= Cardinality(InMailbox(a)) /\ Cardinality(InMailbox(a)) \in Nat
      BY <3>2, <3>3, FS_Subset, FS_CardinalityType
    <3>7. QED
      BY <3>4, <3>5, <3>6
  <2>9. QED
    BY <2>6, <2>7, <2>8
<1>2. QED
  BY <1>1, ShopAlways, PTL DEF Spec, TicketFindsItsOrder
=============================================================================
