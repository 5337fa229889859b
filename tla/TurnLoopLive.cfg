SPECIFICATION FairSpec
CONSTANTS
  m1 = m1
  w1 = w1
  w2 = w2
  p1 = p1
  c1 = c1
  None = None
  Message = {m1}
  Waiter = {}
  Pick = {p1}
  Compact = {}
  Heavy = {m1}
  Escaped = {}
  Capacity = 1
  MaxConns = 2
  Gated = FALSE
  Speaks = FALSE
  Injects = TRUE
  MayEnd = TRUE
PROPERTIES
  EveryItemEnds
  PumpEndsWithSession
CHECK_DEADLOCK FALSE
