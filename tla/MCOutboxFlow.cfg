SPECIFICATION FairSpec
CONSTANTS
  NumEvents = 3
  Earlier = 1
  Notices <- TwoNotices
  QueueCap = 1
  BusCap = 1
  HighCap = 1
  ReplayLimit = 2
  MaxFaults = 1
  MaxConnects = 2
CHECK_DEADLOCK FALSE
INVARIANTS
  TypeOK
  CursorHasItsRow
PROPERTIES
  RowsAppearInOrder
  OwedRowsAreDelivered
