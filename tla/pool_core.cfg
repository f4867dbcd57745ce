SPECIFICATION Spec
CONSTANTS
  c1 = c1
  c2 = c2
  k1 = k1
  k2 = k2
  Clients = {c1, c2}
  Impatient = {c1, c2}
  Takers = {c1, c2}
  Conns = {k1, k2}
  Drainers = {}
  Warmers = {}
  Maint = m
  None = none
  Closed = closed
  MinIdle = 1
  MaxSize = 1
  TestOnCheckout = TRUE
  WarmTarget = 0
  UsizeMax = 15
  QueueBound = 2
SYMMETRY Symmetry
INVARIANTS CountExact CapacityHeld InUseExact WaiterCountExact OneOwner WaitersReachable
PROPERTIES FirstComeFirstServed ImplementsContract
