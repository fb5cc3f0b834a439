CONSTANTS
  t1 = t1
  t2 = t2
  p1 = p1
  p2 = p2
  Timers <- MCTimers
  Ps <- MCPs
  Gs = {g1, g2, g3}
  period <- MCperiod
  MaxTime = 2
  MaxCalls = 4
  None = None
SPECIFICATION Spec
SYMMETRY Symmetry
INVARIANTS TimerStructure NothingOverlooked
PROPERTIES ImplementsTimers
CHECK_DEADLOCK FALSE
