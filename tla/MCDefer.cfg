CONSTANTS
  t1 = t1
  t2 = t2
  r1 = r1
  tid_defer = tid_defer
  NoThread = NoThread
  Threads <- TwoThreads
  Callers <- OneThread
  Readers <- OneReader
  MaxHead = 8
  Callbacks <- MixedCallbacks
  Size = 4
  Modulus = 8
  DQ_FCT_MARK = 6
SPECIFICATION PlanSpec
INVARIANTS
  RunsOldest
  Asserts
  DeferThreadHasWaker
PROPERTIES
  DrainedOnReturn
