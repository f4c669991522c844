SPECIFICATION Spec
CONSTANTS
  w1 = w1 w2 = w2 w3 = w3 c1 = c1
  Workers = {w1}
  Callers = {c1}
  NoActor = NoActor
  Async = FALSE
  SpawnMayFail = TRUE
  Counts <- OneOrTwo
  BatchSize = 2
  Timed = TRUE
  MaxEntries = 1
  MaxGen = 2
CHECK_DEADLOCK FALSE
INVARIANT BatchAdmitted
PROPERTIES PauseHolds CancelEnds CoopReturns
