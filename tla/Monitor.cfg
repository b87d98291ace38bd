SPECIFICATION Spec
CONSTANTS
  Orders = {o1, o2, d1}
  Demos = {d1}
  Runs = {m1, m2}
  Limit = 2
  MaxDays = 2
  MaxFailures = 1
  MaxDeaths = 1
SYMMETRY RunSymmetry
INVARIANTS
  OncePerDay
  SilentOnlyByDeath
  RunCovers
PROPERTIES
  RunsRespectDemos
CHECK_DEADLOCK FALSE
