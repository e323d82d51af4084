CONSTANTS
  Requests = {w1, w2, w3, w4}
  Orders = {o1}
  Products = {p1, p2}
  Nobody = Nobody
  Qty = {0, 1, 2}
  Threshold = 2
  Target = 2
  Due = 2
  Amounts = {1, 2}
SPECIFICATION PurchasingSpec
INVARIANTS
  ReceivedAsDelivered
  LargeOrdersApproved
  TotalsAddUp
SYMMETRY Symmetry
CHECK_DEADLOCK FALSE
