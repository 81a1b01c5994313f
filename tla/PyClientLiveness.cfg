SPECIFICATION FairSpec
CONSTANTS
  a1 = a1
  a2 = a2
  Apps = {a1, a2}
  None = None
  Capacity = 1
  MaxRuns = 2
  MaxCalls = 3
  MaxSamples = 1
CHECK_DEADLOCK FALSE
PROPERTIES
  StopCallReturns
  StartCallReturns
  FaultEndsCallbackRun
