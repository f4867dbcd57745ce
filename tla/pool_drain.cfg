SPECIFICATION Spec
CONSTANTS
  c1 = c1
  c2 = c2
  k1 = k1
  k2 = k2
  d1 = d1
  Clients = {c1, c2}
  Impatient = {}
  Takers = {}
  Conns = {k1, k2}
  Drainers = {d1}
  Warmers = {}
  Maint = m
  None = none
  Closed = closed
  MinIdle = 1
  MaxSize = 1
  TestOnCheckout = TRUE
  WarmTarget = 0
  UsizeMax = 15
  QueueBound = 2
SYMMETRY Symmetry
INVARIANTS Whereabouts
PROPERTIES DrainWaits
CHECK_DEADLOCK FALSE
