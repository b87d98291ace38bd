SPECIFICATION SurvivorSpec
CONSTANTS
  Events = {e1, e2}
  Workers = {w1, w2}
  Survivor = w1
  Hanging = {e1}
  MAX_RETRIES = 2
  MaxReplays = 0
  MaxCrashes = 1
  MaxRedisErrors = 0
ACTION_CONSTRAINT
  SurvivorLives
PROPERTIES
  PendingEventuallySettled
CHECK_DEADLOCK FALSE
