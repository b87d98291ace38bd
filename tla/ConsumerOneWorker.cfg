SPECIFICATION FairSpec
CONSTANTS
  Events = {e1, e2}
  Workers = {w1}
  Survivor = w1
  Hanging = {}
  MAX_RETRIES = 2
  MaxReplays = 1
  MaxCrashes = 2
  MaxRedisErrors = 2
INVARIANTS
  OneAtATime
  NoEventLost
  SkipsOnlyProcessed
  DuplicatesHaveACause
  ProcessedNotBuried
PROPERTIES
  ImplementsDelivery
  EveryEventSettled
CHECK_DEADLOCK FALSE
