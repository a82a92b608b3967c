SPECIFICATION Spec
CONSTANTS
  Conns = {c1, c2}
  NoConn = none
  Bound = {c1}
  MaxReplies = 2
  MaxSaid = 3
  MaxFaults = 1
  MaxBarges = 1
INVARIANTS
  OneMouth
  SpokenInOrder
  BargeIsABoundary
  CutToldOnce
  RepliesInOrder
CHECK_DEADLOCK FALSE
PROPERTIES
  QueuesDrain
