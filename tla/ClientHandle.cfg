SPECIFICATION FairSpec
CONSTANTS
  c1 = c1
  c2 = c2
  c3 = c3
  Clients = {c1, c2, c3}
  App = App
  None = None
  MayDestroy <- Destruction
CHECK_DEADLOCK FALSE
INVARIANTS
  OutlivesWorker
PROPERTIES
  EventuallyFreed
