CONSTANTS
  Subjects = {"call_rcu", "workqueue", "resize", "wfcqueue"}
  Small = TRUE
  t1 = t1
  t2 = t2
  c1 = c1
  c2 = c2
  r1 = r1
  n1 = n1
  n2 = n2
  n3 = n3
  n4 = n4
  n5 = n5
  b1 = b1
  b2 = b2
  worker = worker
  END = END
  NULL = NULL
SPECIFICATION FairSpec
PROPERTIES
  WorkGetsDone
  CallsReturn
CHECK_DEADLOCK FALSE
