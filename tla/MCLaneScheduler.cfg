SPECIFICATION FairSpec
CONSTANTS
  t1 = t1
  t2 = t2
  t3 = t3
  t4 = t4
  t5 = t5
  Turns <- CronTurns
  EntryOf <- CronEntry
  TeamOwned <- NoTeam
  Limit <- DefaultLimits
INVARIANTS
  TypeOK
  SlotAccounting
  QueueIsBlockedTurns
  NoLostWakeup
PROPERTIES
  ImplementsGate
  QueueMoves
  CancelReturns
