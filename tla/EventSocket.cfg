SPECIFICATION FairSpec
CONSTANTS
  s1 = s1
  s2 = s2
  Sub = {s1, s2}
  NoSub = NoSub
  Buffer = 1
  MaxLines = 3
  Coord = {1, 3}

INVARIANTS TypeOK SendsOnlyToOpen WakeHasRoom NoLostWakeup CoordinationKept InOrder
PROPERTIES CoordinationReaches
CHECK_DEADLOCK FALSE
