CONSTANTS
  t1 = t1
  t2 = t2
  b1 = b1
  b2 = b2
  Clients = {t1, t2}
  Readers = {}
  Cbs = {b1, b2}
  Crdps = {c1, c2}
  NULL = NULL
  Plans <- ForkPlans
SPECIFICATION FairSpec
PROPERTY ForkProceeds
CHECK_DEADLOCK FALSE
