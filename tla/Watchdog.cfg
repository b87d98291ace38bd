SPECIFICATION Spec
CONSTANTS
  Beat = 3
  Cap = 180
  TTL = 12
  Block = 1
  Rest = 3
  Claim = 240
  Interval = 6
  Timeout = 1
  Retries = 3
  StartPeriod = 60
  Heal = 3
  MaxFaults = 2
INVARIANT ClaimOutlivesWork
PROPERTIES RestartsHaveACause NoRestartLoop
