CONSTANTS
  Queues = {q}
  Threads = {t1, t2}
  Nodes = {n1, n2}
  Dummies = {d1, d2, d3}
  Reuse = TRUE
  NULL = NULL
SPECIFICATION Spec
INVARIANT NeverEmpty
CHECK_DEADLOCK FALSE
