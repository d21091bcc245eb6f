SPECIFICATION FairHoldSpec
CONSTANTS
    u1 = u1
    u2 = u2
    u3 = u3
    yes = yes
    no = no
    draw = draw
    ShareScale = 1
    PriceScale = 3
    CentsScale = 3
    Users = {u1, u2, u3}
    Currencies = {"USD"}
    Events = {"e"}
    Options = {yes, no, draw}
    Markets <- TwoMarkets
    EventOf <- EventOfTwo
    MarketOptions <- UnevenOfTwo
    OrderIds <- ThreeOrders
    Requests <- HeldRequests
    CreditAmounts = {4}
    DebitAmounts = {}
    MaxCredit = 4
    Unresolved = Unresolved
INVARIANTS LockedIsHeld SettlementNeverBlocked NothingStranded
PROPERTIES ResolvedMarketSettles
CHECK_DEADLOCK FALSE
