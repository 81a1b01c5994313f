SPECIFICATION UseFairSpec
CONSTANTS
  Apps = {a1, a2}
  None = None
  Capacity = 1
  MaxRuns = 0
  MaxCalls = 5
  MaxSamples = 2
CHECK_DEADLOCK FALSE
PROPERTIES
  WaitAnswersForOwnRun
  ReadsOwnRun
  UsesContract
  CloseReleases
