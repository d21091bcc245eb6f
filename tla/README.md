# Specification of the prediction-market exchange

TLA+ modules that model this repository's services, the TLC runs that check them
on small instances, and proofs of the main invariants for every instance. The
models are translated from the Go source and its SQL; the repository's documents
are quoted only where a run shows that the code differs from them.

## The system

A merchant's users trade shares in the options of binary-style markets. Every
service is a component of one Go process (any number of replicas run against
one PostgreSQL database, one Redis and one NATS server); components call each
other in process or over RPC and share state through tables.

| Component | State | Operations | Interacts with |
|---|---|---|---|
| order | orders, trades, market volume | place (idempotency key, match, fill, refund), cancel, lists by page and by cursor | market row, wallet rows |
| wallet | wallets, transactions | create, credit (idempotency key), debit, list transactions | orders, settlement and reconciliation update its rows directly |
| settlement | market_settlements, settlement_payouts | SettleEvent, one transaction per market | events, markets, orders, trades, wallets |
| reconciliation | none | a cron job that releases stranded collateral | orders, wallets, transactions |
| market | markets | create, status changes, liquidity, list | merchant and event at creation |
| merchant, auth | merchants | register, update, deactivate, list; the check of a request's key | markets, wallets, orders |
| event | events, audits, outbox, cached events and lists | create, sync, status changes, resolve, get, list | outbox to the worker |
| eventsync | a lease in Redis | a cron job that polls Polymarket by pages, closes and resolves events | event |
| sports | games and teams, cached games and lists | a cron job that synchronizes a league, get, list | event |
| settlementworker, messaging, infra | outbox marks, the stream and its durable consumer, dead letters | dispatch, consume, retry, dead-letter, acknowledge | settlement |
| settlementmonitor | none | alarms on overdue events and on dead letters | reads tables and the stream |
| currency | exchange_rates, cached rates | get rates, refresh from the provider | an external provider |
| analytics | cached reports | reports of several statements each | reads |
| pkg/fixed | none | conversions between shares, prices and cents | order; settlement has its own copy |
| httpapi, health, observability, pkg/polymarket, pkg/types, cmd | none | routing, probes, metrics, the client of the source, wiring | all |

What is hard:

* Placement, cancellation and settlement compete for the rows of orders,
  markets and wallets. Each is a transaction that locks the rows it decides on,
  one after the other and in different orders, so that they may wait for each
  other. What was read earlier (the idempotency key, the market, the order of a
  cancellation) may have changed, and reconciliation decides on a snapshot.
* Cents are rounded half up at different granularities: per order when
  collateral is locked, per fill for price improvements and stakes, per order
  for payouts. The sums have to agree or the settlement transaction refuses.
* A wallet's locked balance is one number for all orders of a user in a
  currency, so that what one market takes too much is another market's.
* A resolution travels from the outbox over the stream to any replica's
  consumer. Each step fails, times out, crashes and repeats; the stream gives
  a message up after a number of deliveries; a failed acknowledgement leaves a
  subscription unusable; SettleEvent stops at the first error it does not know
  how to skip.
* Administrators and the external source change an event at once, from what
  each of them read earlier; a market is created or changed while its event is
  resolved and settled.
* Readers of cached events, games and rates put what they read before a change
  into the cache after it; a list is a version, a count and rows of three moments.
* Listings are followed page by page while rows are inserted, out of order, and
  leave the filter; reports are put together from statements of several moments.

What makes each component correct: matching is by price and time and every
trade is fair to both users; an order's filled amount and status follow from its
trades; a wallet never holds less than nothing, its transactions explain it, and
its locked money is what its orders hold; settlement conserves each currency's
pool, pays each order once, is final, and eventually happens; a request happens
once and wholly however often it is sent; no resolution is lost on its way; an
event is resolved once, by a final price, and for good; every cache forgets what
is no longer true; a listing followed to its end is complete; a merchant that was
deactivated stays so. The hazards behind
these properties are listed in `PROJECT.json`, each at its line.

## Modules

Money and matching:

| Module | What it is |
|---|---|
| `FixedPoint` | The conversions to cents of `pkg/fixed/fixed.go` and `settlement.go`, with the three scales as parameters. |
| `Totals` | The sum of a finite function without recursion, as the cardinality of a set of pairs, so that it can be reasoned about in proofs. |
| `Exchange` | order, wallet, settlement and reconciliation over the tables they share, with the market status and the event outcome they read. |
| `ExchangeProperties` | The type invariant, safety invariants, action properties and liveness. |
| `OrderPromise` | What clients are promised about order, cancellation, settlement and credit requests: each happens at one moment, wholly, and once per key. It is the code's promise: a settlement refunds the cancelled orders of its market again, and is refused when a wallet has not enough locked. |
| `OrderRequests` | The same requests statement by statement, with row locks, commits, retries and deadlocks; shown to implement `OrderPromise`. |

From a resolved event to its settlement:

| Module | What it is |
|---|---|
| `SettlementPromise` | What delivery promises: paid once, after the resolution, and in the end settled or given up. |
| `SettlementDelivery` | Outbox, dispatchers, stream, durable consumer, worker consumers, retries, dead letters, crashes; shown to implement `SettlementPromise`. |
| `SettlementMonitor` | The scheduled audit over `SettlementDelivery`. |

What is traded, and what clients read:

| Module | What it is |
|---|---|
| `EventStore` | The event tables and the statements on them, one operator per repository call; the modules below extend it. |
| `EventService` | The event service's calls with their repository and cache calls as steps. |
| `EventSync` | The Polymarket job of several replicas: lease, pages, retries, verdict, upsert, resolution. |
| `SportsService` | The league synchronization and the cached readers of a game and of the list of games. |
| `MarketService` | Merchants, markets and settlement's visits to a resolved event's markets, reads and writes apart. |
| `Listings` | Listings by cursor and by page number while rows are inserted and change. |
| `StatsService` | Analytics reports on merchants, users and the platform, of several statements each. |
| `RateService` | Exchange rates of several processes over cache, database and provider. |

The `MC` modules give the parameters of an instance and compose modules where a
run explores several (below). The proof modules are listed under Proofs.

### State and actions of `Exchange`

The variables are tables: `balance`, `locked` and `opened` (rows of wallets),
`ledger` (transactions, summed by wallet and type), `order`, `filled` and
`status` (orders), `trades` (by maker and taker; a pair of orders trades at most
once because an order is a taker only when it is placed), `volume` and
`marketStatus` (markets), `settlement` and `payouts` (the audit tables), `outcome`
(events), and `scanned`, the wallets a reconciliation in progress has chosen.

| Action | Code |
|---|---|
| `CreateWallet`, `Credit`, `Debit` | `wallet/postgres_repository.go` Create, Credit, Debit |
| `Place` | `order.Create` and the transaction `place`: market check under `FOR UPDATE`, collateral, insert, matching loop, taker status, volume, refund |
| `Cancel` | the transaction `cancel` under the order row |
| `UpdateMarketStatus` | `market.UpdateStatus`: a transition check and a compare-and-set on the status it was made for |
| `ResolveEvent` | `event/postgres_repository.go` Resolve, the outcome only |
| `SettleMarket` | one turn of SettleEvent's loop: lock, checks, wallets, orders, payouts, audit row, market status |
| `ReconcileScan`, `ReconcileRelease` | the snapshot of `selectStranded`; the rows that could be locked and their updates |

The matching loop is not a loop in the model. Makers are matched in the order
`Ahead`, so what a maker gives depends on the sum of what is available ahead of
it (`Fill`), and the effects on the tables are functions of that. A placement
that fails for any reason rolls back and is no step.

Why transactions are single steps: `place` and settlement hold the market row
from their first decision to their commit, `cancel` holds the order row, and all
wallet updates are single conditional statements. What is decided before the
transaction (the service's check of the market and its option) is decided again
inside it or concerns columns that never change. Reconciliation is the exception
and is two steps: its subquery on orders sees the statement's snapshot, while
`FOR UPDATE SKIP LOCKED` may skip a wallet row or read a newer version of it, whose
own columns alone are checked again.

An order id stands for the place of an order in `(created_at, id)`. It is chosen
freely among the unused ones, since both are generated before the placement
takes its locks: orders may enter the book in another order than their priority.

Abstractions: one merchant (every table is keyed by it, and nothing here
relates two); requests are drawn from a constant set of valid ones; time,
identifiers and messages are left out. The amounts of the code fit in 64 bits (the
conversions check it and fail), and the models use unbounded integers.

### State and actions of the other modules

`SettlementDelivery`. `status`, `outbox` and `paid` are tables; `batch` is the open
dispatch transaction of each replica, `stream`, `deliveries`, `waiting` and `acked`
the stream and its durable consumer, `consumer` where each replica's
`runConsumer` is, and `deadLetters` the other subject.

| Action | Code |
|---|---|
| `Resolve`, `Replay` | event `Resolve` (status and outbox row in one transaction); an operator's replay of a dead letter |
| `LockPendingMessages`, `PublishOutbox`, `CommitDispatch`, `DispatchFails` | `settlementworker` dispatch: `FOR UPDATE SKIP LOCKED`, publish, mark, commit |
| `NextMessage`, `AckWaitExpires` | `Next` of the subscription, redelivery by the broker |
| `ListUnsettled`, `SettleMarket`, `TransientError` | `SettleEvent` market by market, and the worker's retry of what failed |
| `PublishDeadLetter`, `Acknowledge`, `DeadLetterFails`, `AckFails` | the ends of `processUntilAcknowledged` |
| `Restart` | a crash of a replica; the subscription of a new process works again |

`OrderRequests`. `calls` holds, for each call, the step it is at, the rows it locked
and the rows it has still to lock. `PlaceOrder`, `GetByIdempotency`, `GetMarket`,
`LockBook`, `lockOrderWallet`, `insertOrder`, `queryMatchingOrders` and
`CommitPlacement` are one placement, `CancelOrder`,
`LockOrder` and `CommitCancel` a cancellation, `SettleCall`, `LockMarket` and
`CommitSettlement` one market's settlement. What a transaction writes becomes
visible at its commit. `NextRow` is the row a transaction locks next: orders before
wallets, wallets by id. `CallFails` ends a call at any step, `DeadlockDetected` is
PostgreSQL ending one of the transactions that wait for each other. Orders here
are one share at one price: parts, prices and rounding are in `Exchange`.
`calculatePayouts` gives back `amount - filled` of every order of the market, and so
does `Settled`: an order that was cancelled before is refunded a second time, and
the unit comes out of what the wallet has locked for its other orders. `Payable` is
the pool check and the wallets' `locked_balance >= ...`: without it the settlement
is refused and changes nothing, and without `Refundable` a cancellation is.
`withdrawn` remembers which orders were cancelled on request, so that
`CollateralIsBacked` can say by exactly how much a wallet falls short.

`EventService`, `SportsService`, `MarketService`, `RateService`, `StatsService`. A call
takes a slot, does one statement or one cache call per step, and frees the slot;
what it read earlier is in its record. A cache call may fail (which the services
ignore), a call may crash, and an entry may expire. A list's version, its count and
its rows are three steps; a list of games is read by a count, a select without the
teams, and one more statement for the teams of each game, so that what is cached
may mix moments. `EventSync` has a record per replica with the page it
fetched and the item it is at; a page is any set of that many matching events,
because the source sorts by a volume that moves between requests.

`MarketService`. A visit lists the unsettled markets of a resolved event
(`ListMarkets`), settles each (`SettleListed`) or passes it over (`SkipListed`: it
does not offer the outcome, or an order has no wallet), and ends with what it
passed over as its error (`PassEnds`), or at once at any other error
(`VisitFails`). A visit is made again by the worker's next attempt, a redelivery or
a replay. `timely` remembers the markets that a visit could find: those inserted
before the resolution and those that a visit listed.

`Listings` has a table of rows (id, immutable stamp, status) and one client that
follows one listing. `CountRows` and `OffsetByPage` are the two statements of a page
by number, `ListAfter` the one statement by cursor; the kinds of listing differ in
their sort, their filters and whether they count.

Each of these modules contains what the others do to its tables (for instance,
`MarketService` closes and resolves events), so that it can be explored by itself.

## Runs

Deadlock is not checked: a client may always stop, the sources and
administrators too, and when a bound is used up nothing may be left to do.
Whatever has to go on is stated as liveness. Symmetry is used in safety runs in
which users are interchangeable, never with liveness.

| Run | Specification and instance | Shows |
|---|---|---|
| `trading` | `TradingSpec`: two users, one book, both sides, two prices, one or two shares, gtc and ioc, three orders, whole cents | price-time priority, fair trades, an uncrossed book, statuses, and that locked money is exactly what trades and open orders hold |
| `exchange` | `Spec`: two users, two markets of one event that share wallets, three orders, quarter shares so that amounts round; all actions | the wallets' audit, conservation, payment once, closed settled markets, finality |
| `hold` | `FairHoldSpec`: three users who never cancel, whole cents, two markets of which only the second offers the third outcome, three orders | settlement is never refused, eventually happens for every market that offers the outcome, and leaves nothing stranded |
| `delivery` | `SettlementDelivery`'s `Spec`: one event with two markets of which one may need repair, two replicas, two attempts, two deliveries, two messages, two faults | no step loses a resolution, the stream abandons a message only after faults, the promise is kept at every step, and a resolution is settled or dead-lettered if faults are few |
| `orders` | five parts: order requests (two users, two markets, five standing orders that name the users in opposite order and of which one was cancelled, two calls at once and three in all, one failure), listings (three rows, page size one), reports (two orders of one currency, three reports, one viewer), synchronization (one event with two source markets from its opening on, two replicas, one retry, one error), and a page of two decided events that one replica finds, with the same errors | collateral is backed, settlements never wait for each other, every call ends, requests keep `OrderPromise`; listings are complete but where a page's two statements disagree, and cursors repeat nothing; reports add up; only a final price resolves, and decided events that fit on a page are resolved in the end, also the one after a failed one |
| `catalog` | four parts: events (one event, two calls, one lost cache call or crash), sports (one game, one reader, one failure), markets (one market and merchant, two calls, any number of visits), rates (one pair, two processes, three snapshots of which two share a stamp, one outage) | an event is resolved once and never reopened, lists are fresh, readers of events, games and lists of games see the resolution in the end; a visit without an error has settled every market in time, and settled ones are final; rates catch up |
| `settle_cancelled` | `Exchange`'s `Spec`, whole cents | violated: see below |
| `settle_rounding` | `HoldSpec`, half shares | violated: see below |
| `reconcile_positions` | `Exchange`'s `Spec`, whole cents | violated: see below |
| `reconcile_race` | `Exchange`'s `Spec`, whole cents | violated: see below |
| `dead_letter_audit` | `MonitorSpec`, one event and one replica | violated: see below |
| `deactivation` | the instance of `catalog` | violated: see below |

The first three and the four that begin with `settle` and `reconcile` are of
`MCExchange`, `delivery` of `MCDelivery`, `dead_letter_audit` of `MCMonitor`, `orders`
of `MCOrders`, `catalog` and `deactivation` of `MCCatalog`. The last two explore
modules that share no decision
side by side: the variable `part` is chosen at the start and never changes, so a
run is the union of its parts and no part sees the steps of another. Their
fairness is that of each module, stated for its part.

### Bounds and why they are enough

* `Exchange`: three orders are enough for an incoming order that meets two makers, a
  partial fill followed by another taker, and an order that rests while another
  market settles. `MaxCredit` bounds what is credited to a wallet, and is chosen so
  that some requests are refused for lack of money while two orders of a wallet
  can be open at once. Prices 1 and 2 of `PriceScale` 3 are a market of two price
  levels, and 1 and 2 cents of a share worth 3.
* `SettlementDelivery`: two replicas are enough for a redelivery that overtakes a
  slow settlement, two messages for a duplicate (an outbox row published twice, or
  a replay) next to the original, `MaxDeliver` 2 and `MaxFaults` 2 for a message
  that its faults use up.
* `OrderRequests`: two calls at once form every cycle of two, and the third call
  finds what the first two left, in particular the key of one of them. The two
  users are named in opposite order by the two markets, which is what a deadlock of
  settlements would need. One user has a cancelled order in the market that has
  traded and an open one in the other: the settlement of the first takes the
  collateral of the second, whose cancellation and settlement are then refused. The
  market that has traded is not closed, which would refuse placements as its
  settlement does; the other one is.
* `Listings`: three rows on pages of one row give a first, a middle and a last
  page; two stamps for three rows make equal stamps certain. Markets are not listed, as
  they are listed like orders by page. `StatsService`: two orders of two users make a
  matched pair, and the user reported on is one of its sides.
* `EventService` and the others: two calls at once are a reader between a
  change's two steps and two writers that read the same row; a third would repeat
  what one of them does. One lost cache call or failure is enough to make every
  single recovery path happen. `EventSync` has two outcomes and two source markets,
  so that markets may disagree. A market that leads without being decided leads to
  one outcome only, since it has no say whichever it leads to, and the market that
  moves first is always the same, since the two differ in nothing else. In the part
  with two events both are decided from the start and one replica runs, whose
  errors fall before, between and after the two. `RateService` has three snapshots of two stamps, so
  that a revision under the same stamp and a newer one both occur.
* `Versions` in `EventService` is not a bound but an abstraction: a version that is
  neither current nor held by a call can never be seen again.

### Fairness

| Specification | Assumed | Because |
|---|---|---|
| `FairHoldSpec` | WF of `SettleMarket` for each market | the outbox row of a resolved event is dispatched until it is marked, the stream delivers until it is acknowledged, the worker repeats SettleEvent as long as its error is not permanent, and a permanent error does not keep a visit from the other markets |
| `SettlementDelivery` | WF of each replica's dispatcher and consumer, WF of the acknowledgement timer | both are loops that run as long as the process, and the timer is the broker's |
| `OrderRequests` | WF of each call's next step, WF of deadlock detection | a statement that need not wait returns; PostgreSQL looks for cycles after `deadlock_timeout` |
| `EventService`, `SportsService`, `RateService` | WF of each call's next step and of the expiry of entries that have a time to live | handlers run to their end unless they crash, which is a step of its own; Redis drops expired keys |
| `EventSync` | WF of the lease's expiry, of some replica's cron tick, and of each run's next step | the lock key has a time to live; the schedule fires for ever |

Nothing is assumed about clients, administrators, operators, the source, or about
failures. `ResolutionDelivered` therefore says under which failures it holds: fewer
than the deliveries a message has, since each cut delivery uses one up, and fewer
than the replicas, since a failed acknowledgement leaves a replica's subscription
unusable until the process restarts.

### Refinements

* `KeepsPromise`: `SettlementDelivery` implements `SettlementPromise` with `resolved`
  read from the event rows and `givenUp` from the dead letters. Every step of the
  delivery chain is a step of the promise or a stutter. Checked in `delivery` and
  proved in `DeliveryProofs`.
* `KeepsOrderPromise`: `OrderRequests` extends `OrderPromise` and shares its tables,
  so that the mapping is the identity; each commit is one of the promise's atomic
  actions and every other statement is a stutter. It is what justifies the
  single steps of `Exchange` against the row locks. Checked in `orders` and proved in
  `RequestProofs`.

## Where the code differs from its documentation

* **A cancelled remainder is refunded twice** (`settle_cancelled`).
  `calculatePayouts` refunds `amount - filled` of every order in the market,
  cancelled ones included, and the money is there if the wallet has other orders
  open. `WalletAudit` still holds: the cents only move from locked to available.
  The other market is then short of collateral and may be impossible to settle.
* **Rounding can block a settlement** (`settle_rounding`). In real scales: 0.02
  shares at 0.50 lock 1 cent. A fill of 0.01 stakes half a cent, rounded to 1, and
  the remainder of 0.01 is refunded as 1: the wallet has 1 cent locked and
  settlement wants 2. With no other collateral in the wallet the market can never
  be settled, and with some it is taken from there.
* **Reconciliation releases positions** (`reconcile_positions`). The statuses that
  protect a wallet leave out `cancelled`, which an order with a filled part may
  have. The stake becomes available before its market settles, and the settlement
  then fails for lack of locked money.
* **Reconciliation races with placement** (`reconcile_race`). An order placed
  between the snapshot and the row lock loses its collateral. This needs PostgreSQL's
  read-committed re-evaluation, in which only the locked row is read again.
* **The audit never sees a dead letter** (`dead_letter_audit`). `PendingMessages`
  asks the stream for its state without a `SubjectsFilter`; the server then sends no
  counts by subject, the map look-up finds nothing, and the depth is 0. The alert of
  `docs/RUNBOOK.md` on a non-empty dead-letter subject cannot fire.
* **An update undoes a deactivation** (`deactivation`). `merchant.Update` reads the
  whole row and writes every column back, the status included. An operator who
  deactivates the merchant in between (`docs/RUNBOOK.md:107`: API keys are invalidated
  by merchant deactivation) finds it active again, and its key is accepted.

`LockedIsHeld` and `SettlementNeverBlocked` are checked, and proved, where none of the
first four can happen (whole cents, no cancellation before a settlement, nothing for
reconciliation to find); the runs `trading` and `hold` say so by their specifications
and the theorems by their hypotheses. `exchange` checks what holds in spite of them.

Three smaller differences were met and have no run. A retry of an order request that
arrives while the first is still running may be refused instead of answered with
the order (`docs/API.md:429`; `order.go:168` looks the key up before the insert);
`OrderPromise` asks only that a key places one order. And a report with a time
range counts half of a matched pair of which one order is older than the range
(`analytics/postgres_repository.go:27`); `ReportsAddUp` says which reports count
pairs only. And a market may be created for an event that closes and is settled
between `ValidateReferences` and the insert (`market.go:138`): no visit comes for it,
it stays open and takes orders until an operator replays a message, although
`docs/API.md:376-379` has resolving an event settle its markets. `MarketService` reaches
that state, and `TimelyMarketsSettled` says which markets are settled.

Two properties are limited by what the code does. `ListedInFull` excuses a page
whose rows changed between the count and the select, when `has_next` may be wrong
(`order/postgres_repository.go:192`). `DecidedEventsResolved` is about events that
fit on one page: the job asks for at most `maxSyncPages` pages by falling `volume24hr`
(`eventsync.go:153-164`), and a decided event, whose volume falls, may drop out of
that window, or slip from one page to another between two requests, and never be
listed again.

## Proofs

Every safety invariant and action property that a passing run checks is also proved,
for every instance of the constants that satisfies the modules' assumptions.

| Module | Theorem | Argument |
|---|---|---|
| `TotalsProofs` | `TotalOfSum`, `TotalByKey` | Sums of finite functions: the total of a sum, totals taken key by key, scaled, grown, or over the two ends of a set of pairs. By bijections between sets of pairs and by least counterexamples, with no induction over sequences. |
| `ExchangeProofs` | `TypeCorrect` | `TypeOK` is inductive. The work is in showing that `Fill` takes no more than a maker has left, that sums of cents are natural (the tables are finite, since `DOMAIN order` is a subset of `OrderIds`), and that the guards of the wallet updates keep both columns natural. Its first part is about `FixedPoint`: the roundings stay in `Nat`, nothing rounds to nothing, a price improvement is no loss, both stakes of a trade make its pot. |
| `BookProofs` | `StatusesMatchFills`, `BookStaysUncrossed`, `AllTradesAreFair`, `PriorityKept` | `BookInv` is the conjunction of the first three with `TypeOK`: that the book stays uncrossed needs that a taker with something left has used up every maker it crosses, which needs statuses that match fills. Priority is the sum over the makers ahead. |
| | `FillsMatchTrades` | A taker's filled amount is the sum of what its makers give. The makers that give are counted between the first and the last, whose existence is the minimal member of the finite set under `Ahead`; the sum over all equals what the taker got. |
| `SettlementProofs` | `WalletsAudited` | Inductive with `TypeOK`. Placement and cancellation only transfer between a wallet's columns (`TransferAudit`); for settlement, what it takes from the locked money is the sum of the stakes and the sum of the refunds (`LockedUseSplits`). |
| | `SettledMarketsClosed`, `SettlementFinal` | The invariant is inductive with `TypeOK`: a placement leaves other markets' orders alone (`PlaceElsewhere`). Finality follows: a settled market has no open order and no status that accepts one. |
| | `OrdersPaidOnce` | With the strengthening that payouts exist only in settled markets. |
| | `MoneyIsConserved` | Per currency the stakes and the winnings of a settlement cancel (`PoolsCancel`), by the pool check of the code and by summing a market's orders by user (`TotalByKey`); then `WalletAudit` turns ledgers into balances. |
| `CollateralProofs` | `LockedMoneyIsHeld` | `ExactCents => (TradingSpec => []LockedIsHeld)`. Exact values add up by shares, by price and over sums, so that a maker holds as much after a fill as before it, and a taker its collateral less its price improvement. |
| | `LockedIsHeldToSettlement` | `ExactCents /\ OrdersRest => (HoldSpec => []LockedIsHeld)`. Nothing is cancelled outside settled markets, so a settlement takes of a wallet exactly what the wallet's orders in the market held. |
| | `SettlementIsNeverBlocked`, `NothingIsStranded` | Under the same hypotheses. No guard of a settlement fails: the money is there because it is held, and the pool check balances by summing the stakes over both ends of the trades (`TotalByEnds`). A wallet none of whose orders is open or filled holds nothing. |
| `DeliveryProofs` | `DeliveryTypeCorrect`, `ResolutionIsKept` | `DeliveryInv` adds to `TypeOK` that only resolved events are in batches, on the stream and given up, that a row counts as published only when its event is still carried by a message or dealt with, and that a consumer about to acknowledge has dealt with its event. `ResolutionKept` follows from it. |
| | `DeliveryImplementsPromise` | `SafeSpec => KeepsPromise`: initial states map to initial states, and under `DeliveryInv` every step maps to a step or a stutter. |
| | `DroppedByFaultsOnly` | `CutInv`: until a message is acknowledged, its deliveries are at most the faults so far and the consumers that are working on it. |
| `EventProofs` | `ResolvedOnceByService`, `ServiceNeverReopens`, and the same for `Sports`, `Sync` and `Markets` | What each statement of `EventStore` does to the tables is proved once; each of the four modules over it then shows which statements its steps make and that what a call read earlier still allows them. |
| | `ListsAreFresh` | `ListInv`: a call about to store rows under the current version has counted and listed the rows there are, unless a writer is on its way to replace the version or could not. Versions differ because one is chosen that no call holds. |
| | `ResolvedByFinal` | `SyncInv`: a run only carries verdicts for which some market was priced out when its page was fetched, and such prices never move again. |
| | `TimelyAreSettled`, `SettledAreFinal` | `MarketInv`: during a visit that has passed nothing over, a market in time is still to be visited, or settled; a visit that passed one over or failed does not end as done. What a call read bounds what the row may be at its write. |
| `RequestProofs` | `PromiseIsKept` | `OrdersSpec => KeepsOrderPromise`, under `RequestInv` (`RequestInvHolds`): what a call that has come to a step has locked, has still to lock and knows of the rows; no two calls hold a row, so what one decided under its locks holds at its commit. |
| | `CollateralBacked` | Proved of the promise's actions, with that a settled market has no open order and that the cancelled orders of a market not yet settled are those in `withdrawn`, and carried over by the refinement. What a wallet has locked falls short of its orders by one unit for each order refunded again by a settlement, and by nothing else. |
| | `NoSettlementDeadlock` | Settlements that wait for each other wait for wallets; of a set of them, the one that waits for the wallet with the greatest id waits for a call that has locked a wallet with a greater id than the one it needs. No bound on the length of the cycle. |
| | `ReportsAreConsistent` | `ReportInv`: what is counted never shrinks, except out of a time range, and every trade fills both of its orders. |
| | `NoRowTwiceByCursor`, `PagesShowAll` | `ListingInv`: by cursor, what was shown is at or before the cursor and what is missing after it; by page, what is missing has a rank from the next page's offset on, unless a row left the filter. |

### What the proofs assume

* The assumptions of the modules: positive scales; finitely many order ids, users,
  events, replicas, calls and tickets (a database has no others); requests with the
  types a valid request has; placeholders (`Unresolved`, `NoEvent`, `Absent`, `NoKey`
  and the like) that differ from what they stand beside; wallets with ids of their own
  (`WalletId` is injective; it is the primary key). TLC evaluates all of them.
* `ExactCents` and `OrdersRest`, which are hypotheses of the theorems of
  `CollateralProofs` and not assumptions: some lot of shares divides every amount, some
  tick every price, and a lot at a tick is a whole number of cents; every request is
  gtc. In the code's scales (10^6 units a share, 10^6 a price, 100 cents) this is so
  for whole shares at prices in cents: 10^6 * 10^4 * 100 = 10^12. They cannot be dropped:
  `settle_rounding` breaks `SettlementNeverBlocked` with half shares, and
  `settle_cancelled` and `reconcile_positions` show what a cancelled order does to
  settlement. The instances of `trading` and `hold` satisfy them with lot and tick 1.
* Integers are unbounded, here as in the models.

### What is only model-checked

* Everything that rests on fairness, which is out of the prover's reach:
  `ResolvedMarketSettles`, `ResolutionDelivered`, `ReadersSeeResolution`,
  `GameReadersCatchUp`, `DecidedEventsResolved`, `RatesCatchUp`, `CallsEnd`.
  The refinements are of safety: what of `SettlementPromise`'s fairness the delivery
  keeps, and under which failures, is `ResolutionDelivered`.
* What the violation runs show, which are counterexamples and need no proof.

## Not modelled

* The in-memory repositories, which the `NewService` constructors use without a
  database and each deployed component's `Init` replaces with PostgreSQL.
* The generated RPC stubs (`twill_gen.go`), which only carry calls, and are almost
  half of the implementation's lines.
* health, observability, `cmd/api`, `cmd/migrate`: probes, metrics, wiring.
* Request decoding, status codes and the comparison and hashing of API keys.
* wallet's `Lock` and `Unlock`, which only a test calls: placement and settlement
  update the columns themselves; and queries of one row (balances, `Get`, `GetOrderBook`, `GetEvent`, `ListSports`),
  which read one statement.
* The analytics report on a market, which shows prices and shares of other columns,
  and the choice of leagues of the sports job.
* `ConvertTime` and the arithmetic of cross rates: a rate is the snapshot it is
  from. Conversions between floats and fixed-point numbers and the range check of
  64 bits in `pkg/fixed`: the models use unbounded integers.
* The lengths of delays between retries, and messages that do not decode, which
  end as dead letters like those that fail.

## Plan

1. What a settlement leaves untouched in the presence of cancellations, as a theorem:
   the markets without cancelled orders, for exact cents and any mix of requests.
2. The safety that `RateService` keeps (stored rates never older than what was served
   before them) stated, checked and proved, next to its liveness.
3. The refinement of `Exchange`'s single steps from `OrderRequests` with parts and
   prices, for one market.
4. The matching loop, maker by maker, checked against `Ahead` and `Fill` over bounded
   books, and an instance of `Exchange` with two currencies.
