SPECIFICATION ReportsFairSpec
CONSTANTS
    tea = tea
    soap = soap
    cash = cash
    card = card
    MaxSales = 2
    Products = {tea, soap}
    Methods = {cash, card}
    Hours = {9, 17}
    MaxDay = 2
    WeekLength = 2
    MonthStarts = {1}
    Category <- MCCategory
    Basket <- MCBasket
    ByHand <- MCByHand
    OnHand <- MCOnHand
    MaxStock <- MCMaxStock
    RateDays = 2
    CoverDays = 2
    DeadDays = {1, 2}
    ReturnKinds = {"RETURN"}
INVARIANTS
    ReportsAgree
    TablesAgree
PROPERTY
    EveryDaySettles
CHECK_DEADLOCK FALSE
