SPECIFICATION Spec
CONSTANTS
  t1 = t1
  t2 = t2
  t3 = t3
  Threads = {t1, t2, t3}
  k1 = k1
  k2 = k2
  v1 = v1
  v2 = v2
  Keys = {k1, k2}
  Vals = {v1, v2}
  Nil = Nil
  NoShard = NoShard
  NoTask = NoTask
  Calls <- CallsOfMapCalls
  OtherCalls <- CallsBeyondMapCalls
  Hash <- SplitHash
  MaxCount = 2
  Scenarios <- SmallMaps
  Mixes <- MixOf
  MaxDrops = 1
SYMMETRY TaskSymmetry
CHECK_DEADLOCK FALSE
INVARIANTS NoWedge RoutingExcludes MapWhole LimitsOrPending
PROPERTY Linearizable
