SPECIFICATION Spec
CONSTANTS
  r1 = r1
  r2 = r2
  Jobs = {j1}
  Kinds = {"turn"}
  Sweeps <- TwoRounds
  Cancellers = {}
  MaxFaults = 0
CHECK_DEADLOCK FALSE
PROPERTIES
  LiveTurnsKeepTheirJob
