CONSTANTS
  G = {g1, g2, g3}
  W = 8
  MaxLag = 4
SPECIFICATION FairSpec
INVARIANTS TypeOK NobodyStranded
PROPERTIES ImplementsCondVar NobodyPassedOver CalledReturn
CHECK_DEADLOCK FALSE
