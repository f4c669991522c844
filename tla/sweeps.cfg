SPECIFICATION Spec
CONSTANTS
  t1 = t1 t2 = t2 k1 = k1 k2 = k2 v1 = v1 v2 = v2
  Threads = {t1, t2}
  Keys = {k1, k2}
  Vals = {v1}
  Nil = Nil NoShard = NoShard NoThread = NoThread Clean = Clean
  Hash <- SplitHash
  Counts <- TwoCounts
  InitialCount = 1
  Mode = "Cached"
  MaxEpoch = 2
  Calls <- SweepMix
SYMMETRY ThreadSymmetry
INVARIANTS LenExact CacheCoherent
PROPERTY Linearizable
