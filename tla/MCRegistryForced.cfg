SPECIFICATION Spec
CONSTANTS
  d1 = d1
  q1 = q1
  r1 = r1
  stop1 = stop1
  stop2 = stop2
  pause1 = pause1
  unpause1 = unpause1
  sweep1 = sweep1
  NoRun = NoRun
  NoTurn = NoTurn
  Turns <- DirectAndResume
  TurnKind <- DirectAndResumeKinds
  Callers <- StopsAndSweep
  CallerKind <- StopsAndSweepKinds
  GateWired = FALSE
SYMMETRY AlikeStops
INVARIANTS
  SlotCoversLiveRun
  NoCancelOverwritten
PROPERTIES
  IntentReachesRun
CHECK_DEADLOCK FALSE
