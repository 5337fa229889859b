SPECIFICATION Spec
CONSTANTS
  m1 = m1
  w1 = w1
  w2 = w2
  p1 = p1
  c1 = c1
  None = None
  Message = {m1}
  Waiter = {}
  Pick = {}
  Compact = {}
  Heavy = {}
  Escaped = {}
  Capacity = 2
  MaxConns = 1
  Gated = TRUE
  Speaks = TRUE
  Injects = TRUE
  MayEnd = FALSE
PROPERTIES
  ClaimRefusesQueued
CHECK_DEADLOCK FALSE
