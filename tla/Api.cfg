SPECIFICATION Spec
CONSTANTS
  Requests = {r1, r2, r3}
  Clients = {r1, r2, r3}
  Callers = {c1}
  Scopes <- MCScopes
  Addresses <- MCAddresses
  Mailbox <- MCMailbox
  Seeded <- Lower
  Quantities <- MCQuantities
  Ids <- MCIds
  Trackings = {t1, t2}
  None = None
  Generated = Generated
  MaxRequests = 1
  Window = 2
  MaxTime = 2
  MaxFaults = 1
CONSTRAINT Bound
SYMMETRY Symmetric
INVARIANTS LimitHolds LeakedOnlyByFault ShippedTogether
PROPERTIES ConflictsAreRaces TicketFindsItsOrder
