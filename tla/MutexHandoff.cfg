CONSTANTS
  G = {g1, g2, g3}
  Addr = {m}
  mu = m
  MaxCount = 1
  MaxSpin = 0
  MaxQuick = 1
SPECIFICATION MutexSpec
PROPERTY DirectHandoff
