SPECIFICATION Spec
CONSTANTS
  m1 = m1
  w1 = w1
  w2 = w2
  p1 = p1
  c1 = c1
  None = None
  Message = {m1}
  Waiter = {}
  Pick = {}
  Compact = {c1}
  Heavy = {}
  Escaped = {}
  Capacity = 2
  MaxConns = 2
  Gated = TRUE
  Speaks = TRUE
  Injects = TRUE
  MayEnd = FALSE
INVARIANTS
  CompactionNeverOverlapsATurn
CHECK_DEADLOCK FALSE
