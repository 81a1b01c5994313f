SPECIFICATION FairSpec
CONSTANTS
  c1 = c1
  c2 = c2
  Callers = {c1, c2}
  Worker = w
  Nobody = nobody
  MaxCalls = 3
CHECK_DEADLOCK FALSE
PROPERTIES
  StopReturns
  StartReturns
  StopReleasesStart
  SelfStopEnds
