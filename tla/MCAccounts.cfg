CONSTANTS
  Goods = {1, 2}
  Promos = {1, 2, 3}
  NoCode = NoCode
  Unlimited = Unlimited
  Requests = {w1, w2, w3}
  Customers = {ann}
  ann = ann
  Walkin = Walkin
  Nobody = Nobody
  x = x
  online = online
  register = register
  Sales <- MCSales
  Series = {online, register}
  Offers <- MCOffers
  Amounts = {1}
  CreditLimits = {2, 3}
  PointValue = 2
  SpendPerPoint = 2
  CheckoutAttempts = 2
  MaxChanges = 3
SPECIFICATION AccountsSpec
INVARIANTS
  BalancesExplained
  
PROPERTIES
  CreditWithinLimit
  SelectionSound
SYMMETRY Symmetry
CHECK_DEADLOCK FALSE
