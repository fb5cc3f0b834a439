CONSTANTS
  P = P
  Cs = {c1, c2}
  Vals = {v1, v2, v3}
  Once = {v1, v2, v3}
  None = None
  Cleaned = Cleaned
  Elts = {1, 2, 3}
  W = 4
  initSize = 1
  dequeueLimit = 2
SPECIFICATION Spec
SYMMETRY Symmetry
INVARIANTS ChainStructure
PROPERTIES ImplementsDeque
