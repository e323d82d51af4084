CONSTANTS
  Requests = {w1, w2, w3, w4}
  Shifts = {s1, s2}
  Registers = {r1}
  Cashiers = {c1, c2}
  None = None
  Amounts = {1, 2}
  Float = 1
SPECIFICATION Spec
INVARIANTS
  OneOpenUnlessOverlap
  
PROPERTY ClosedFiguresStand
SYMMETRY Symmetry
CHECK_DEADLOCK FALSE
