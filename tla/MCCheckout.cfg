CONSTANTS
  Calls = {c1, c2}
  Keys = {k1, k2}
  Carts <- MCCarts
  None = None
  NoRow = NoRow
  Products = {1, 2, 3}
  ClientIds = {x}
  x = x
  Scopes = {online, register}
  register = register
  Online = online
  MaxAttempts = 3
  MaxDay = 2
  OldNumbers = 1
SPECIFICATION FairSpec
INVARIANTS
  AnswersOwnCart
  SameRequestSameSale
  NumbersGapless
PROPERTY EveryCallAnswered
CHECK_DEADLOCK FALSE
