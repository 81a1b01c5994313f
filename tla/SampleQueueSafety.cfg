SPECIFICATION UseSpec
CONSTANTS
  Readers = {r1, r2}
  Capacity = 2
  MaxPushes = 6
  MaxCloses = 3
INVARIANTS
  Conservation
PROPERTIES
  CloseReachesReaders
  WindowRefinement
