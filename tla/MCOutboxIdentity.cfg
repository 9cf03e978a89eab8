SPECIFICATION Spec
CONSTANTS
  NumEvents = 2
  Earlier = 1
  Notices <- TwoNotices
  QueueCap = 1
  BusCap = 1
  HighCap = 1
  ReplayLimit = 2
  MaxFaults = 0
  MaxConnects = 1
CHECK_DEADLOCK FALSE
INVARIANTS
  LiveFramesAreTheirRows
