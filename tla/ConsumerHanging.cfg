SPECIFICATION FairSpec
CONSTANTS
  Events = {e1, e2}
  Workers = {w1}
  Survivor = w1
  Hanging = {e1}
  MAX_RETRIES = 3
  MaxReplays = 0
  MaxCrashes = 0
  MaxRedisErrors = 0
PROPERTY
  EveryEventSettled
CHECK_DEADLOCK FALSE
