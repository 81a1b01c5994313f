SPECIFICATION Spec
CONSTANTS
  Modulus = 16
  RestartLowMax = 3
  Threshold = 2
  Window = 3
  MaxAdvance = 2
  k1 = k1
  k2 = k2
  Scenarios <- AllScenarios
CHECK_DEADLOCK FALSE
INVARIANTS
  LostExact
  DeliveredFresh
  Explained
  RevisionIdentifies
