SPECIFICATION LiveSpec
CONSTANTS
  c1 = c1
  c2 = c2
  f1 = f1
  f2 = f2
  i1 = i1
  i2 = i2
  w1 = w1
  w2 = w2
  NoRun = NoRun
  NoTurn = NoTurn
  Messages <- FlowMessages
  KindOf <- FlowKinds
  RestoredRows <- FlowRows
  Removable <- FlowRemovable
  Promotable <- FlowPromotable
  Stoppable <- FlowStoppable
  Workers <- TwoLoops
  Poison <- FlowPoison
  MaxPending = 2
  MaxDepth = 2
CHECK_DEADLOCK FALSE
INVARIANTS
  TypeOK
  OneTurnAtATime
  SingleFlight
  FollowupsNeverVanish
PROPERTIES
  
  ImplementsSession
