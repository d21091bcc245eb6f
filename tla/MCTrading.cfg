SPECIFICATION TradingSpec
CONSTANTS
    u1 = u1
    u2 = u2
    u3 = u3
    yes = yes
    no = no
    draw = draw
    ShareScale = 1
    PriceScale = 3
    CentsScale = 3
    Users = {u1, u2}
    Currencies = {"USD"}
    Events = {"e"}
    Options = {yes, no}
    Markets <- OneMarket
    EventOf <- EventOfOne
    MarketOptions <- BinaryOfOne
    OrderIds <- ThreeOrders
    Requests <- BookRequests
    CreditAmounts = {5}
    DebitAmounts = {5}
    MaxCredit = 5
    Unresolved = Unresolved
SYMMETRY UserSymmetry
INVARIANTS TypeOK LockedIsHeld FilledMatchesTrades StatusMatchesFill BookNotCrossed TradesAreFair
PROPERTIES PriorityRespected
CHECK_DEADLOCK FALSE
