SPECIFICATION Spec
CONSTANTS
  d1 = d1
  q1 = q1
  r1 = r1
  stop1 = stop1
  stop2 = stop2
  pause1 = pause1
  unpause1 = unpause1
  sweep1 = sweep1
  NoRun = NoRun
  NoTurn = NoTurn
  Turns <- DirectAndQueued
  TurnKind <- DirectAndQueuedKinds
  Callers <- StopAndPause
  CallerKind <- StopAndPauseKinds
  GateWired = TRUE
INVARIANTS
  TypeOK
  AtMostOneRun
  CancelStopsItsRun
  QuiescentSlotFree
CHECK_DEADLOCK FALSE
