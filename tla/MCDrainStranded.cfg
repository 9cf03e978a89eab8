SPECIFICATION Spec
CONSTANTS
  c1 = c1
  c2 = c2
  f1 = f1
  f2 = f2
  i1 = i1
  i2 = i2
  w1 = w1
  w2 = w2
  NoRun = NoRun
  NoTurn = NoTurn
  Messages <- LateMessages
  KindOf <- LateKinds
  RestoredRows <- NoRows
  Removable <- Nothing
  Promotable <- Nothing
  Stoppable <- Nothing
  Workers <- TwoLoops
  Poison <- Nothing
  MaxPending = 3
  MaxDepth = 3
CHECK_DEADLOCK FALSE
INVARIANT
  QueueIsDriven
