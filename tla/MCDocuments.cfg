CONSTANTS
  Requests = {w1, w2, w3, w4, w5}
  Products = {p1, p2}
  Kinds = {"transfer", "return", "count", "conflict"}
  OpeningStock = 2
  Missing = {0, 1}
  MaxQty = 1
  MaxSold = 1
SPECIFICATION Spec
INVARIANTS
  StockFollowsStatus
  CountSetsTheShelf
PROPERTY FinalStays
SYMMETRY Symmetry
CHECK_DEADLOCK FALSE
