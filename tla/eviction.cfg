SPECIFICATION Spec
CONSTANTS
  t1 = t1 t2 = t2 k1 = k1 k2 = k2
  Threads = {t1, t2}
  Keys = {k1, k2}
  Nil = Nil
  Weights = {1, 2}
  Configs <- MCConfigs
  ShardCount = 2
  Layouts <- MCLayouts
  Operations <- MCOperations
  MaxCalls = 3
  MaxTroubles = 1
CHECK_DEADLOCK FALSE
SYMMETRY ThreadSymmetry
INVARIANTS TypeOK MetadataExact LimitsOrPending PassEnforces
PROPERTY OldestGoesFirst
