\* Two calls at once and three in all, over two users and two markets; a table
\* of three rows that is listed row by row; reports on two orders; two replicas
\* and two source events of two markets that fit on one page.
SPECIFICATION MCSpec
CONSTANTS
    u1 = u1
    u2 = u2
    m1 = m1
    m2 = m2
    k1 = k1
    q1 = q1
    t1 = t1
    t2 = t2
    e1 = e1
    e2 = e2
    p1 = p1
    s1 = s1
    s2 = s2
    yes = yes
    no = no
    Users = {u1, u2}
    Markets = {m1, m2}
    Keys = {k1}
    Wishes <- KeyedWishes
    CreditKeys = {q1}
    CreditTo <- CreditedTo
    Standing <- StandingOrders
    Funds = 1
    Calls = {c1, c2}
    WalletId <- ById
    NoKey = nokey
    NoWish = nowish
    MaxSent = 3
    MaxFailures = 1
    RowIds = {1, 2, 3}
    Stamps = {1, 2}
    PageLimit = 1
    MaxPage = 3
    Absent = absent
    Tickets = {t1, t2}
    TraderOf <- PlacedBy
    CurrencyOf <- InDollars
    Topics <- Reported
    Shares = 2
    Viewers = {v1}
    NoReport = noreport
    Events = {e1, e2}
    Polymarket = {e1, e2}
    Outcomes = {yes, no}
    NoOutcome = null
    Replicas = {p1, p2}
    SourceMarkets = {s1, s2}
    PageSize = 2
    MaxSyncPages = 2
    MaxRetries = 1
    MaxErrors = 1
    Nobody = nobody
INVARIANTS
    CollateralIsBacked
    SettlementsNeverDeadlock
    ListedInFull
    CursorNeverRepeats
    ReportsAddUp
    ResolvedByFinalPrice
PROPERTIES
    KeepsOrderPromise
    CallsEnd
    DecidedEventsResolved
CHECK_DEADLOCK FALSE
