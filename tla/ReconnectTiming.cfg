SPECIFICATION Spec
CONSTANTS
  Resolution = 2
  ClockMax = 9
  MaxDelay = 8
  MaxFailures = 4
CHECK_DEADLOCK FALSE
INVARIANTS
  BackoffSchedule
  StopLatency
