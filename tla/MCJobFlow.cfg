SPECIFICATION FairSpec
CONSTANTS
  r1 = r1
  r2 = r2
  Jobs = {j1}
  Kinds = {"turn", "graph", "cron"}
  Sweeps <- TwoRounds
  Cancellers = {u1}
  MaxFaults = 2
CHECK_DEADLOCK FALSE
INVARIANTS
  TypeOK
  NoFalseSuccess
PROPERTIES
  SweepsKeepTheEnd
  OnlyStaleRowsAreTaken
  EveryJobSettles
