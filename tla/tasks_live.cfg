SPECIFICATION Spec
CONSTANTS
  w1 = w1 w2 = w2 w3 = w3 c1 = c1
  Workers = {w1}
  Callers = {}
  NoActor = NoActor
  Async = TRUE
  SpawnMayFail = FALSE
  Counts <- OneOrTwo
  BatchSize = 2
  Timed = TRUE
  MaxEntries = 2
  MaxGen = 2
CHECK_DEADLOCK FALSE
PROPERTIES CancelEnds WorkerEnds
