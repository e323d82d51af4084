CONSTANTS
  Asks = {a1, a2, a3}
  Actions = {u1, u2}
  None = None
  Purposes = {p1, p2}
  MaxTries = 2
SPECIFICATION Spec
INVARIANTS
  NoExtraGuesses
  TokenUsedOnce
  FailedActionKeepsToken
SYMMETRY Symmetry
CHECK_DEADLOCK FALSE
