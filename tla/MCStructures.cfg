CONSTANTS
  t1 = t1
  t2 = t2
  t3 = t3
  n1 = n1
  n2 = n2
  n3 = n3
  d1 = d1
  d2 = d2
  d3 = d3
  NULL = NULL
  END = END
SYMMETRY Symmetry
SPECIFICATION Spec
INVARIANTS
  HandedBackForGood
  ReleasedForGood
  OrdersHold
  SleepersGetWoken
PROPERTIES
  QueuesImplementFifo
  StacksImplementLifo
  TraversalComplete
  ImplementsAtomicWord
CHECK_DEADLOCK FALSE
