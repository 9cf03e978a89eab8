SPECIFICATION Spec
CONSTANTS
  s1 = s1
  m1 = m1
  m2 = m2
  m3 = m3
  f1 = f1
  f2 = f2
  Sessions <- OneSession
  Messages <- ThreeMessages
  SessionOf <- AllToOne
  Stored <- TwoStored
  Flushers <- TwoFlushers
  Closer = Closer
  Ticker = Ticker
  Edited = Edited
  None = None
  Unreadable = Unreadable
  MaxPending = 2
  Lifetime = 1
  MaxClock = 1
  MaxOps = 2
  MaxFaults = 2
SYMMETRY Goroutines
CHECK_DEADLOCK FALSE
INVARIANTS
  TypeOK
  FlushComing
  SettledMeansDurable
  RestoredMark
  CloseIsDurable
PROPERTIES
  RowsLeaveOnlyWhenTaken
