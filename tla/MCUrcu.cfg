CONSTANTS
  r1 = r1
  u1 = u1
  u2 = u2
  NoThread = NoThread
  Readers <- OneReader
  Updaters <- TwoUpdaters
  HasMembarrier = TRUE
  Attempts = 1
  MaxNest = 2
  MaxBuf = 1
SPECIFICATION BatchSpec
INVARIANTS
  WaitNodeAlive
  WakesWaiting
  WaiterHasWaker
PROPERTIES
  ImplementsRcu
  SyncReturns
