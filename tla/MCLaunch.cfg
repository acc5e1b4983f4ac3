CONSTANTS
  t1 = t1
  t2 = t2
  Threads = {t1, t2}
  Worker = worker
  Cpus = {1}
  NULL = NULL
  Plans <- ChainPlans
  MaxSize = 4
  CommitOrder = 1
  Threshold = 0
  MaxOps = 0
  MaxQueue = 1
SPECIFICATION FairSpec
PROPERTY ResizeHappens
CHECK_DEADLOCK FALSE
