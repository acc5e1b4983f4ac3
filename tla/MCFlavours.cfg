CONSTANTS
  r1 = r1
  r2 = r2
  u1 = u1
  q1 = q1
  q2 = q2
  q3 = q3
  b1 = b1
  b2 = b2
  NoThread = NoThread
  Readers <- TwoReaders
  Updaters <- OneUpdater
  HasMembarrier = TRUE
  Attempts = 2
  MaxNest = 1
  MaxBuf = 2
SYMMETRY Symmetry
SPECIFICATION FlavoursSpec
INVARIANTS
  TypeOK
  GracePeriodGuarantee
  ListsRestored
  SleeperHasWaker
  QsbrSleeperHasWaker
  BpGracePeriodGuarantee
  ReadersKept
PROPERTIES
  QsbrImplementsRcu
