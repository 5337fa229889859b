SPECIFICATION Spec
CONSTANTS
  m1 = m1
  w1 = w1
  w2 = w2
  p1 = p1
  c1 = c1
  None = None
  Message = {}
  Waiter = {w1, w2}
  Pick = {}
  Compact = {c1}
  Heavy = {w2}
  Escaped = {w1}
  Capacity = 2
  MaxConns = 2
  Gated = TRUE
  Speaks = TRUE
  Injects = TRUE
  MayEnd = FALSE
INVARIANTS
  TypeOK
  OneTokenHolder
  DeadConnWakesPump
  BridgeRunsOnlyTheTurn
  AnsweredByItsOwn
  PendingReplyHasRoom
PROPERTIES
  ServiceSpec
CHECK_DEADLOCK FALSE
