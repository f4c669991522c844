SPECIFICATION Spec
CONSTANTS
  w1 = w1 w2 = w2
  Workers = {w1, w2}
  NoWorker = NoWorker
CHECK_DEADLOCK FALSE
INVARIANTS LeaseMatches JoinedIsReleased
PROPERTIES FirstReasonKept CancelEnds OwnersEnd
