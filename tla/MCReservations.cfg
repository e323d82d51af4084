CONSTANTS
  Ids = {r1, r2}
  Requests = {w1, w2}
  Sweeper = Sweeper
  None = None
  Kinds = {"create", "checkout", "cancel", "update", "shelf"}
  Qty = {1, 2}
  MaxCartLines = 2
  Opening = 2
SPECIFICATION FairSpec
INVARIANTS
  HoldsBackedUnlessCaused
  FulfilledOnce
PROPERTY OverdueIsSwept
CHECK_DEADLOCK FALSE

