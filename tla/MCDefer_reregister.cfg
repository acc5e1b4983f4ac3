CONSTANTS
  t1 = t1
  t2 = t2
  r1 = r1
  tid_defer = tid_defer
  NoThread = NoThread
  Threads <- TwoThreads
  Callers <- NoThreads
  Readers <- OneReader
  MaxHead = 8
  Callbacks <- OneCallback
  Size = 4
  Modulus = 8
  DQ_FCT_MARK = 6
SPECIFICATION PlanSpec
INVARIANTS
  RegistersClean
