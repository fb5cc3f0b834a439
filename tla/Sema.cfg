CONSTANTS
  G = {g1, g2, g3}
  Addr = {a1, a2}
  MaxCount = 2
SPECIFICATION SemaFairSpec
INVARIANTS SemaTypeOK ParkedOnce NoLostWakeup NwaitExact
PROPERTIES ImplementsSemaphore SleepersServed
CHECK_DEADLOCK FALSE
