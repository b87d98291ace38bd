--------------------------- MODULE MCApiRequests ---------------------------
EXTENDS ApiRequests, TLC

\* One mailbox, typed in two ways.
Lower == "jane@x.org"
Upper == "Jane@x.org"
MCAddresses == {Lower, Upper}
MCMailbox(a) == Lower

MCScopes == Demos \X Callers
MCIds == {1, 2}
MCQuantities == {0, 1}

\* Bound: handlers run in the first moment only, and then the clock stands;
\* after a fault, two of them.
AtHandlers == Cardinality({r \in Requests : pc[r] # "new"})
Bound == AtHandlers = 0 \/ (now = 0 /\ (faults = 0 \/ AtHandlers <= 2))

Symmetric == {p @@ t : p \in Permutations(Requests),
                       t \in Permutations(Trackings)}
=============================================================================
