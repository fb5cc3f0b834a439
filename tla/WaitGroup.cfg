CONSTANTS
  G = {g1, g2, g3, g4}
  Addr = {wg}
  wgSem = wg
  MaxDelta = 2
  MaxCount = 1
SPECIFICATION WGFairSpec
INVARIANTS WGStructure NoPanic
PROPERTIES WaitsForZero AllReleased
CHECK_DEADLOCK FALSE
