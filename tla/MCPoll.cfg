CONSTANTS
  r1 = r1
  r2 = r2
  a = a
  b = b
  c = c
  t1 = t1
  tid_defer = tid_defer
  NoThread = NoThread
  Readers <- TwoReaders
  Users <- ThreeUsers
  Half = 2
SPECIFICATION BothSpec
INVARIANTS
  PollSound
  NoHandleStranded
PROPERTIES
  PollReturnsTrue
  DeferProgress
