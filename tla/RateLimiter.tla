---------------------------- MODULE RateLimiter ----------------------------
(***************************************************************************)
(* core/security.py, rate_limit: the dependency that counts a caller's     *)
(* requests to a route in a Redis key per fixed window of time and refuses *)
(* those past the maximum.  A request reads the clock, then INCRs the key  *)
(* of that window, then gives a key it was first to touch its EXPIRE: three*)
(* steps between which time passes, other requests run and the API dies.   *)
(***************************************************************************)
EXTENDS Integers, FiniteSets

CONSTANTS Requests,
          Scopes,         \* <<key_prefix, address of a caller>>
          MaxRequests,    \* max_requests
          Window,         \* window_seconds, in units of the clock
          MaxTime,        \* bound: how long the clock runs
          MaxFaults       \* bound: failed Redis calls and deaths of the API

ASSUME LimitAssumption == MaxRequests \in Nat \ {0} /\ Window \in Nat \ {0}
ASSUME LimiterBounds == MaxTime \in Nat /\ MaxFaults \in Nat

VARIABLES
  now,       \* time.time()
  stage,     \* where each request is in the dependency
  scope,     \* whom it counts for, <<>> until it arrives
  window,    \* the window it read from the clock
  counted,   \* history: when its INCR ran
  hits,      \* the counters in Redis; 0 is no key
  expiry,    \* when a counter expires; 0 is never
  faults

counters    == <<hits, expiry>>
limiterVars == <<now, stage, scope, window, counted, counters, faults>>

Windows == 0..(MaxTime \div Window)
Keys    == Scopes \X Windows
Stages  == {"new", "stamped", "first", "admitted", "refused", "failed"}

Key(r) == <<scope[r], window[r]>>

LimiterTypeOK ==
  /\ now \in 0..MaxTime
  /\ stage \in [Requests -> Stages]
  /\ scope \in [Requests -> Scopes \cup {<<>>}]
  /\ window \in [Requests -> Windows]
  /\ counted \in [Requests -> 0..MaxTime]
  /\ hits \in [Keys -> Nat]
  /\ expiry \in [Keys -> Nat]
  /\ faults \in Nat

LimiterInit ==
  /\ now = 0
  /\ stage = [r \in Requests |-> "new"]
  /\ scope = [r \in Requests |-> <<>>]
  /\ window = [r \in Requests |-> 0]
  /\ counted = [r \in Requests |-> 0]
  /\ hits = [k \in Keys |-> 0]
  /\ expiry = [k \in Keys |-> 0]
  /\ faults = 0

Fault == faults < MaxFaults /\ faults' = faults + 1

-----------------------------------------------------------------------------

\* A request arrives and reads the clock: int(time.time()) // window_seconds.
Stamp(r) ==
  /\ stage[r] = "new"
  /\ \E s \in Scopes : scope' = [scope EXCEPT ![r] = s]
  /\ window' = [window EXCEPT ![r] = now \div Window]
  /\ stage' = [stage EXCEPT ![r] = "stamped"]
  /\ UNCHANGED <<now, counted, counters, faults>>

\* Planted bug: one request too many.
LooseVerdict(current) == IF current > MaxRequests + 1 THEN "refused" ELSE "admitted"

Verdict(current) == IF current > MaxRequests THEN "refused" ELSE "admitted"

\* INCR, and the verdict unless an EXPIRE has to come first.
Count(r) ==
  /\ stage[r] = "stamped"
  /\ hits' = [hits EXCEPT ![Key(r)] = @ + 1]
  /\ counted' = [counted EXCEPT ![r] = now]
  /\ stage' = [stage EXCEPT ![r] =
       IF hits[Key(r)] = 0 THEN "first" ELSE Verdict(hits[Key(r)] + 1)]
  /\ UNCHANGED <<now, scope, window, expiry, faults>>

\* Planted bug: a counter is left without one.
ExpireNever(r) ==
  /\ stage[r] = "first"
  /\ stage' = [stage EXCEPT ![r] = Verdict(1)]
  /\ UNCHANGED <<now, scope, window, counted, counters, faults>>

Expire(r) ==
  /\ stage[r] = "first"
  /\ expiry' = [expiry EXCEPT ![Key(r)] = now + Window]
  /\ stage' = [stage EXCEPT ![r] = Verdict(1)]
  /\ UNCHANGED <<now, scope, window, counted, hits, faults>>

\* A Redis call raises, its command applied or not: the request fails (500).
RedisRaises(r) ==
  /\ Fault
  /\ stage[r] \in {"stamped", "first"}
  /\ stage' = [stage EXCEPT ![r] = "failed"]
  /\ \/ stage[r] = "stamped" /\ hits' = [hits EXCEPT ![Key(r)] = @ + 1] /\ UNCHANGED expiry
     \/ stage[r] = "first" /\ expiry' = [expiry EXCEPT ![Key(r)] = now + Window] /\ UNCHANGED hits
     \/ UNCHANGED counters
  /\ UNCHANGED <<now, scope, window, counted>>

\* The API process dies, and with it every request that is under way.
Abandoned == [r \in Requests |->
  IF stage[r] \in {"stamped", "first"} THEN "failed" ELSE stage[r]]

\* The clock moves on, and Redis drops the keys whose time has come.
Tick ==
  LET gone == {k \in Keys : expiry[k] # 0 /\ expiry[k] <= now + 1} IN
  /\ now < MaxTime
  /\ now' = now + 1
  /\ hits' = [k \in Keys |-> IF k \in gone THEN 0 ELSE hits[k]]
  /\ expiry' = [k \in Keys |-> IF k \in gone THEN 0 ELSE expiry[k]]
  /\ UNCHANGED <<stage, scope, window, counted, faults>>

Limit(r) == Stamp(r) \/ Count(r) \/ Expire(r) \/ RedisRaises(r)

-----------------------------------------------------------------------------

\* Requests let through, those aside that were held up between reading the
\* clock and counting until their window was over.
Admitted(s) == {r \in Requests : /\ stage[r] = "admitted"
                                 /\ scope[r] = s
                                 /\ counted[r] \div Window = window[r]}

\* A caller gets at most max_requests through in a window, and at most twice
\* as many in any stretch of time as long as a window, whatever the border of
\* windows it spans, whichever requests fail or die, and whenever keys expire.
LimitHolds ==
  \A s \in Scopes : \A r \in Admitted(s) :
    /\ Cardinality({q \in Admitted(s) : window[q] = window[r]}) <= MaxRequests
    /\ Cardinality({q \in Admitted(s) : counted[q] - counted[r] \in 0..(Window - 1)})
         <= 2 * MaxRequests

\* A counter that will never expire has a request behind it that failed or died
\* between its INCR and its EXPIRE, and each such request leaves one at most.
LeakedOnlyByFault ==
  Cardinality({k \in Keys : /\ hits[k] > 0
                            /\ expiry[k] = 0
                            /\ ~\E r \in Requests : stage[r] = "first" /\ Key(r) = k})
    <= Cardinality({r \in Requests : stage[r] = "failed"})
=============================================================================
