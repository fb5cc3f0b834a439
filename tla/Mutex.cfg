CONSTANTS
  G = {g1, g2, g3}
  Addr = {m}
  mu = m
  MaxCount = 1
  MaxSpin = 1
  MaxQuick = 2
SPECIFICATION MutexFairSpec
INVARIANTS MutexTypeOK MutualExclusion NoThrow WaitersExact
PROPERTIES ImplementsLocker LockAvailable
