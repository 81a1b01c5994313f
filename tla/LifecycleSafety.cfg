SPECIFICATION Spec
CONSTANTS
  c1 = c1
  c2 = c2
  Callers = {c1, c2}
  Worker = w
  Nobody = nobody
  MaxCalls = 6
SYMMETRY CallerSymmetry
CHECK_DEADLOCK FALSE
INVARIANTS
  TypeOK
  OneOwner
  StopIsSynchronous
  NoStreamAfterStop
  PromptStop
  QuietAfterExit
  HealthCoherent
PROPERTIES
  WaitTruthful
  ImplementsContract
