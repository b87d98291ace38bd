SPECIFICATION Spec
CONSTANTS
  Decisions <- MCDecisions
  Verdicts <- MCVerdicts
  FiledPriorities <- MCFiledPriorities
  None = None
  MAX_RETRIES = 1
  MaxInputs = 2
  Budget = 5
CHECK_DEADLOCK FALSE
INVARIANTS AwaitingMeansWaiting CompleteMeansDone InProgressMeansWork
           ActionsAreAudited EffectsHaveACause ResolvedIsTold
           UsageIsPerTask 
PROPERTIES TicketsOnlyEscalate TimelinesSettle
