SPECIFICATION Spec
CONSTANTS
  r1 = r1 r2 = r2
  Calls = {1, 2}
  Replicas = {r1, r2}
  NoCall = 0
CHECK_DEADLOCK FALSE
INVARIANTS SuccessHasQuorum FailureIsFinal ReplicasFollow WorkIsTracked
PROPERTIES CallEnds TurnPasses DropCancels
