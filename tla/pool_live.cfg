SPECIFICATION FairSpec
CONSTANTS
  c1 = c1
  c2 = c2
  k1 = k1
  w1 = w1
  Clients = {c1, c2}
  Impatient = {}
  Takers = {c1, c2}
  Conns = {k1}
  Drainers = {}
  Warmers = {w1}
  Maint = m
  None = none
  Closed = closed
  MinIdle = 0
  MaxSize = 1
  TestOnCheckout = FALSE
  WarmTarget = 1
  UsizeMax = 15
  QueueBound = 2
PROPERTIES GetReturns
