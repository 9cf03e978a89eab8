SPECIFICATION Spec
CONSTANTS
  NumEvents = 3
  Earlier = 1
  Notices = {}
  QueueCap = 1
  BusCap = 1
  HighCap = 2
  ReplayLimit = 3
  MaxFaults = 1
  MaxConnects = 2
CHECK_DEADLOCK FALSE
PROPERTIES
  ReplayCoversTheSwept
