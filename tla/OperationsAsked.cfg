SPECIFICATION Spec
CONSTANTS
  Decisions <- MCDecisions
  Verdicts <- MCVerdicts
  FiledPriorities <- MCFiledPriorities
  None = None
  MAX_RETRIES = 2
  MaxInputs = 1
  Budget = 4
CHECK_DEADLOCK FALSE
INVARIANTS ApprovalMissingOnlyInInstant
