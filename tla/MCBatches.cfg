CONSTANTS
  StockRequests = {w1, w2, w3, w4}
  NoRequest = NoRequest
  Locations = {floor, quar}
  floor = floor
  Floor = floor
  quar = quar
  Quarantine = quar
  NoLoc = NoLoc
  BatchIds = {1, 2, 3, 4}
  Opening <- MCOpening
  Untracked = 1
  Qty = {1, 3}
SPECIFICATION BatchesSpec
INVARIANTS
  BatchesAddUp
  BatchesWithinStock
SYMMETRY Symmetry
CHECK_DEADLOCK FALSE
