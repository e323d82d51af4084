CONSTANTS
  Products = {1, 2}
  Locations = {main, quarantine}
  DefaultLoc = main
  Quarantine = quarantine
  Requests = {w1, w2}
  None = None
  Ops = {"checkout", "restock", "receiveGoods", "adjustStock", "writeOff", "returnToStock", "quarantine", "sendTransfer", "receiveTransfer", "goodsReceipt", "supplierReturn", "postCount"}
  Qty = {1}
  MaxLines = 2
  OpeningStock = {1}
SPECIFICATION FairSpec
INVARIANTS
  NoDrift
  
  CartsNeverDeadlock
PROPERTIES
  QuarantineConserves
  
  EveryRequestEnds

CHECK_DEADLOCK FALSE
