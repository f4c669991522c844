SPECIFICATION Safety
CONSTANTS
  w1 = w1 w2 = w2 w3 = w3 c1 = c1
  Workers = {w1, w2}
  Callers = {}
  NoActor = NoActor
  Async = TRUE
  SpawnMayFail = FALSE
  Counts <- OneOrTwo
  BatchSize = 1
  Timed = FALSE
  MaxEntries = 1
  MaxGen = 2
CHECK_DEADLOCK FALSE
SYMMETRY WorkerSymmetry
INVARIANTS LeaseMatches OutcomeTruthful
