SPECIFICATION Spec
CONSTANTS
    u1 = u1
    u2 = u2
    u3 = u3
    yes = yes
    no = no
    draw = draw
    ShareScale = 1
    PriceScale = 3
    CentsScale = 3
    Users = {u1, u2}
    Currencies = {"USD"}
    Events = {"e"}
    Options = {yes, no}
    Markets <- TwoMarkets
    EventOf <- EventOfTwo
    MarketOptions <- BinaryOfTwo
    OrderIds <- ThreeOrders
    Requests <- SharedWalletRequests
    CreditAmounts = {8}
    DebitAmounts = {8}
    MaxCredit = 8
    Unresolved = Unresolved
SYMMETRY UserSymmetry
PROPERTIES SettlementSparesOtherMarkets
CHECK_DEADLOCK FALSE
