CONSTANTS
  g1 = g1
  g2 = g2
  g3 = g3
  u = u
  b = b
  G = {g1, g2, g3}
  C <- MCC
  cap <- MCcap
  Order <- MCOrder
  Ops <- MCOps
SPECIFICATION Spec
SYMMETRY Symmetry
INVARIANTS ChanStructure LockProgress ReceiveFailsJustly WakeupPending
PROPERTIES ImplementsChannel
CHECK_DEADLOCK FALSE
