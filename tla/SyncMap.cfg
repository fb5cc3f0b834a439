CONSTANTS
  g1 = g1
  g2 = g2
  g3 = g3
  Gs <- MCGs
  Does <- MCDoes
  Keys = {k1, k2}
  Vals = {stored, inserted}
  stored = stored
  inserted = inserted
  Slots = {1, 2, 3, 4}
  Nil = Nil
  Expunged = Expunged
  NoEntry = NoEntry
SPECIFICATION Spec
SYMMETRY Symmetry
INVARIANTS MapStructure
PROPERTIES ImplementsMap
