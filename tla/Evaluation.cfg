SPECIFICATION EvalSpec
CONSTANTS
  MAX_TOOL_ITERATIONS = 2
  None = None
  Size <- MCSize
  Limits <- MCLimits
  MaxRetries = 1
  Expected <- MCExpected
  Share <- MCShare
  MaxKills = 1
INVARIANTS AutoOnlyIfComplete CallsCounted AskedAgainOnlyForCause ResumesUnlessCut GatesHonest
PROPERTY EvaluationEnds
VIEW MCView
