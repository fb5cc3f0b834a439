CONSTANTS
  Users = {"r", "w"}
  MaxTime = 1
  MaxInt = 2
  Durations <- MCDurations
  MaxSets = 2
  MaxArrivals = 1
  MaxOpens = 2
  None = None
SPECIFICATION Spec
INVARIANTS PollStructure
PROPERTIES NoEarlyTimeout
CHECK_DEADLOCK FALSE
