SPECIFICATION Spec
CONSTANTS
  Platforms = {"posix", "windows"}
  Timeouts = {3, 5, 9}
  Millisecond = 2
  IntMax = 4
  Slice = 2
  MaxSessions = 3
  MaxTime = 16
CHECK_DEADLOCK FALSE
INVARIANTS
  OwnDescriptor
  DeadlineKept
  PromptShutdown
