SPECIFICATION Spec
CONSTANTS
  Events = {e1}
  Workers = {w1, w2}
  Survivor = w1
  Hanging = {}
  MAX_RETRIES = 3
  MaxReplays = 0
  MaxCrashes = 0
  MaxRedisErrors = 0
INVARIANT
  OneHandlerPerEvent
CHECK_DEADLOCK FALSE
