\* One event, which is also a game, and a market about it; two calls of every
\* service; one reader of games beside the synchronization, which may lose a
\* call once; one pair of currencies, asked for in two processes.
SPECIFICATION MCSpec
CONSTANTS
    Events = {e1}
    Polymarket = {e1}
    Outcomes = {yes}
    NoOutcome = null
    Requests = {r1, r2}
    ListStatus = "active"
    MaxLosses = 1
    NoEntry = miss
    NoEvent = noevent
    Games = {e1}
    Readers = {g1}
    Lineups = {l1, l2}
    NoGame = nogame
    MaxFailures = 1
    Merchants = {a1}
    Markets = {m1}
    Calls = {c1, c2}
    EventOf <- About
    MerchantOf <- OwnedBy
    MaxLiquidity = 1
    NoMarket = nomarket
    Pairs = {p1}
    Askers = {k1, k2}
    ProcessOf <- OwnProcess
    StampOf <- Snapshots
    MaxOutages = 1
INVARIANTS
    ResolvedOnce
    ListFresh
    TimelyMarketsSettled
PROPERTIES
    ClosedNeverReopens
    SettledMarketsFinal
    ReadersSeeResolution
    GameReadersCatchUp
    RatesCatchUp
CHECK_DEADLOCK FALSE
