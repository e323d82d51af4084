CONSTANTS
  Requests = {r1, r2}
  None = None
  Lines <- MCLines
  Quantity <- MCQuantity
  MaxTimes = 2
  MaxDay = 2
  OpeningCredit = 1
SPECIFICATION Spec
INVARIANTS
  CreditedOnceUnlessStale
  StatusTellsReturns
  StoreCreditExplained
  
SYMMETRY RequestSymmetry
CHECK_DEADLOCK FALSE
