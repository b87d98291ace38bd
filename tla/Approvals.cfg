SPECIFICATION Spec
CONSTANTS
  Approvals = {a1, a2, a3}
  Requests = {r1, r2, r3}
  Ticketed = {a1, a2}
  Triaged = {a1}
  Emailed = {a1, a3}
  MaxFailures = 2
  MaxCrashes = 1
SYMMETRY RequestSymmetry
INVARIANTS
  OneWinner
  EffectsHaveACause
  StuckOnlyByFault
PROPERTIES
  AnswerStands
CHECK_DEADLOCK FALSE
