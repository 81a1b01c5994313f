SPECIFICATION Spec
CONSTANTS
  a1 = a1
  a2 = a2
  Apps = {a1, a2}
  None = None
  Capacity = 1
  MaxRuns = 2
  MaxCalls = 5
  MaxSamples = 2
SYMMETRY AppSymmetry
CHECK_DEADLOCK FALSE
INVARIANTS
  StopLeavesNoCallback
  NoSilentEnd
  ClosedMeansFault
  CleanStart
PROPERTY OwnRunOnly
