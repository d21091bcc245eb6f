------------------------------ MODULE Exchange ------------------------------
(***************************************************************************)
(* The money-moving core of the service: the order, wallet, settlement and *)
(* reconciliation services over the PostgreSQL tables they share.  Each    *)
(* write path is one database transaction that holds the rows it decides   *)
(* on (the market row for Place and SettleMarket, the order row for        *)
(* Cancel, conditional UPDATEs for the wallets), so each is one action.    *)
(* Reconciliation is the exception: it chooses its wallets from a          *)
(* statement snapshot and locks them afterwards, and is two actions.       *)
(*                                                                         *)
(* One merchant is modelled: every table is keyed by the merchant, and no  *)
(* write path here relates the rows of two merchants.                      *)
(***************************************************************************)
EXTENDS FixedPoint, Totals

CONSTANTS Users, Currencies,
          Events, Options,
          Markets,          \* market ids, ordered as SettleEvent visits them
          EventOf,          \* the event a market belongs to
          MarketOptions,    \* the options a market offers
          OrderIds,         \* places in the order (created_at, id)
          Requests,         \* the order requests that clients may send
          CreditAmounts, DebitAmounts,
          MaxCredit,        \* bound: cents ever credited to a wallet
          Unresolved        \* the outcome of an event that has none

Wallets == Users \X Currencies

Request == [user : Users, currency : Currencies, market : Markets,
            option : Options, side : Sides, price : Prices,
            amount : Nat \ {0}, tif : {"gtc", "ioc"}]

ASSUME ExchangeAssumption ==
    /\ Markets \subseteq Nat
    /\ OrderIds \subseteq Nat /\ IsFiniteSet(OrderIds)
    /\ IsFiniteSet(Users)
    /\ EventOf \in [Markets -> Events]
    /\ MarketOptions \in [Markets -> SUBSET Options]
    /\ Requests \subseteq Request
    /\ CreditAmounts \subseteq Nat \ {0}
    /\ DebitAmounts \subseteq Nat \ {0}
    /\ MaxCredit \in Nat
    /\ Unresolved \notin Options

VARIABLES
    opened,         \* wallets that have a row
    balance,        \* wallets.balance, in cents
    locked,         \* wallets.locked_balance, in cents
    ledger,         \* transactions, summed by wallet and type
    order,          \* orders: the request each order id stands for
    filled,         \* orders.filled_amount
    status,         \* orders.status
    trades,         \* trades, by <<maker order, taker order>>
    volume,         \* markets.total_volume
    marketStatus,   \* markets.status
    settlement,     \* market_settlements.winning_option
    payouts,        \* settlement_payouts, by order
    outcome,        \* events.outcome
    scanned         \* wallets a reconciliation in progress found stranded

walletVars == <<opened, balance, locked, ledger>>
bookVars   == <<order, filled, status, trades, volume>>
marketVars == <<marketStatus, settlement, payouts>>
vars == <<walletVars, bookVars, marketVars, outcome, scanned>>

-----------------------------------------------------------------------------
(***************************************************************************)
(* Tables and views.                                                       *)
(***************************************************************************)
OrderStatuses  == {"pending", "partial", "filled", "cancelled"}
Open           == {"pending", "partial"}
MarketStatuses == {"active", "suspended", "closed", "settled"}
TxTypes        == {"credit", "debit", "bet", "win", "reconciliation"}

\* The function f with x mapped to v: a row inserted in a table.
Insert(f, x, v) == [y \in DOMAIN f \cup {x} |-> IF y = x THEN v ELSE f[y]]

\* Rows of the ledger, written with the wallet update they explain.
Record(l, type, amount) == [l EXCEPT ![type] = @ + amount]

WalletOf(r) == <<r.user, r.currency>>
Remaining(i) == order[i].amount - filled[i]
OrdersOf(m)  == {i \in DOMAIN order : order[i].market = m}
TradesOf(i)  == {t \in DOMAIN trades : i \in {t[1], t[2]}}

Init ==
    /\ opened = {}
    /\ balance = [w \in Wallets |-> 0]
    /\ locked = [w \in Wallets |-> 0]
    /\ ledger = [w \in Wallets |-> [type \in TxTypes |-> 0]]
    /\ order = [i \in {} |-> 0]
    /\ filled = [i \in {} |-> 0]
    /\ status = [i \in {} |-> 0]
    /\ trades = [t \in {} |-> 0]
    /\ volume = [m \in Markets |-> 0]
    /\ marketStatus = [m \in Markets |-> "active"]
    /\ settlement = [m \in Markets |-> Unresolved]
    /\ payouts = [i \in {} |-> 0]
    /\ outcome = [e \in Events |-> Unresolved]
    /\ scanned = {}

-----------------------------------------------------------------------------
(***************************************************************************)
(* Wallets: operations of the wallet service that fund and drain them.     *)
(* Credit has an HTTP route; Create and Debit are for the service's peers. *)
(***************************************************************************)
CreateWallet(w) ==
    /\ w \notin opened
    /\ opened' = opened \cup {w}
    /\ UNCHANGED <<balance, locked, ledger, bookVars, marketVars, outcome, scanned>>

Credit(w, amount) ==
    /\ ledger[w]["credit"] + amount <= MaxCredit
    /\ opened' = opened \cup {w}
    /\ balance' = [balance EXCEPT ![w] = @ + amount]
    /\ ledger' = [ledger EXCEPT ![w] = Record(@, "credit", amount)]
    /\ UNCHANGED <<locked, bookVars, marketVars, outcome, scanned>>

Debit(w, amount) ==
    /\ w \in opened
    /\ balance[w] >= amount
    /\ balance' = [balance EXCEPT ![w] = @ - amount]
    /\ ledger' = [ledger EXCEPT ![w] = Record(@, "debit", amount)]
    /\ UNCHANGED <<opened, locked, bookVars, marketVars, outcome, scanned>>

-----------------------------------------------------------------------------
(***************************************************************************)
(* The order book: price, then (created_at, id), priority.                 *)
(***************************************************************************)
\* Mutant: an order rests opposite one at its own price.
CrossesStrictly(incoming, price) ==
    IF incoming.side = "buy" THEN price < incoming.price
                             ELSE price > incoming.price

\* Does a resting order's price satisfy the limit of an incoming one?
Crosses(incoming, price) ==
    IF incoming.side = "buy" THEN price <= incoming.price
                             ELSE price >= incoming.price

SameBook(r, s) ==
    /\ r.market = s.market
    /\ r.option = s.option
    /\ r.currency = s.currency

\* Mutant: a user trades with itself.
MakersWithOwn(r) ==
    {i \in DOMAIN order :
        /\ SameBook(order[i], r)
        /\ order[i].side # r.side
        /\ status[i] \in Open
        /\ Crosses(r, order[i].price)}

\* The resting orders an incoming one may match.
Makers(r) ==
    {i \in DOMAIN order :
        /\ SameBook(order[i], r)
        /\ order[i].user # r.user
        /\ order[i].side # r.side
        /\ status[i] \in Open
        /\ Crosses(r, order[i].price)}

\* Mutant: the price is left out of the order of the candidates.
AheadByTime(i, j) == i < j

\* Resting order i is matched before resting order j of the same side.
Ahead(i, j) ==
    \/ IF order[i].side = "sell" THEN order[i].price < order[j].price
                                 ELSE order[i].price > order[j].price
    \/ order[i].price = order[j].price /\ i < j

\* Shares of the makers in S that are still open.
Available(S) == Total([i \in S |-> Remaining(i)])

\* Mutant: the loop does not count what earlier makers gave.
FillAsIfFirst(r, i) ==
    IF Remaining(i) <= r.amount THEN Remaining(i) ELSE r.amount

\* What the matching loop takes from a maker: the incoming order meets the
\* makers in order and each gives what it has until nothing is left to fill.
Fill(r, i) ==
    LET before == Available({j \in Makers(r) : Ahead(j, i)})
    IN  IF before >= r.amount THEN 0
        ELSE IF before + Remaining(i) <= r.amount THEN Remaining(i)
        ELSE r.amount - before

\* The makers an incoming order trades with, and the shares it gets in all.
Matched(r) == {i \in Makers(r) : Fill(r, i) > 0}

\* Mutant: the loop does not stop when the incoming order is filled.
GotAll(r) == Available(Makers(r))
Got(r) == IF Available(Makers(r)) < r.amount THEN Available(Makers(r)) ELSE r.amount

FillStatus(amount, got) ==
    IF got = 0 THEN "pending" ELSE IF got < amount THEN "partial" ELSE "filled"

\* Mutant: an IOC order rests like any other.
RestingStatus(r) == FillStatus(r.amount, Got(r))
TakerStatus(r) ==
    IF r.tif = "ioc" /\ Got(r) < r.amount THEN "cancelled"
                                          ELSE FillStatus(r.amount, Got(r))

\* Mutant: the price improvement is not given back.
RemainderRefund(r) ==
    IF TakerStatus(r) = "cancelled"
    THEN CollateralCents(r.side, r.amount - Got(r), r.price) ELSE 0

\* Mutant: every fill is refunded as if it were the whole order.
WholeOrderRefund(r) ==
    Total([i \in Matched(r) |->
              PriceImprovementCents(r.side, r.amount, r.price, order[i].price)])
    + RemainderRefund(r)

\* Collateral an accepted order gives back at once: rounded per fill for the
\* price improvement, rounded as one amount for an IOC remainder.
PlacementRefund(r) ==
    Total([i \in Matched(r) |->
              PriceImprovementCents(r.side, Fill(r, i), r.price, order[i].price)])
    + (IF TakerStatus(r) = "cancelled"
       THEN CollateralCents(r.side, r.amount - Got(r), r.price) ELSE 0)

\* Mutant: the status is compared with the ones that stop trading early.
AcceptsUnlessStopped(m) == marketStatus[m] \notin {"suspended", "closed"}
AcceptsOrders(m) == marketStatus[m] = "active"

Place(id, r) ==
    LET w == WalletOf(r)
        collateral == CollateralCents(r.side, r.amount, r.price)
        refund == PlacementRefund(r)
    IN  /\ id \notin DOMAIN order
        /\ r.option \in MarketOptions[r.market]
        /\ AcceptsOrders(r.market)
        /\ w \in opened
        /\ balance[w] >= collateral
        /\ locked[w] + collateral >= refund
        /\ balance' = [balance EXCEPT ![w] = @ - collateral + refund]
        /\ locked' = [locked EXCEPT ![w] = @ + collateral - refund]
        /\ order' = Insert(order, id, r)
        /\ filled' = [i \in DOMAIN order \cup {id} |->
                         IF i = id THEN Got(r)
                         ELSE IF i \in Matched(r) THEN filled[i] + Fill(r, i)
                         ELSE filled[i]]
        /\ status' = [i \in DOMAIN order \cup {id} |->
                         IF i = id THEN TakerStatus(r)
                         ELSE IF i \in Matched(r)
                         THEN FillStatus(order[i].amount, filled[i] + Fill(r, i))
                         ELSE status[i]]
        /\ trades' = [t \in DOMAIN trades \cup (Matched(r) \X {id}) |->
                         IF t \in DOMAIN trades THEN trades[t]
                         ELSE [shares |-> Fill(r, t[1]), price |-> order[t[1]].price]]
        /\ volume' = [volume EXCEPT ![r.market] = @ + Got(r)]
        /\ UNCHANGED <<opened, ledger, marketVars, outcome, scanned>>

Cancel(i) ==
    LET w == WalletOf(order[i])
        collateral == CollateralCents(order[i].side, Remaining(i), order[i].price)
    IN  /\ status[i] \in Open
        /\ locked[w] >= collateral
        /\ status' = [status EXCEPT ![i] = "cancelled"]
        /\ balance' = [balance EXCEPT ![w] = @ + collateral]
        /\ locked' = [locked EXCEPT ![w] = @ - collateral]
        /\ UNCHANGED <<opened, ledger, order, filled, trades, volume,
                       marketVars, outcome, scanned>>

-----------------------------------------------------------------------------
(***************************************************************************)
(* Market status, event outcome and settlement.                            *)
(***************************************************************************)
\* Mutant: any market can be opened again.
CanReopen(from, to) == from # to /\ to \in {"active", "suspended", "closed"}
CanTransition(from, to) ==
    \/ from = "active" /\ to \in {"suspended", "closed"}
    \/ from = "suspended" /\ to \in {"active", "closed"}

UpdateMarketStatus(m, to) ==
    /\ CanTransition(marketStatus[m], to)
    /\ marketStatus' = [marketStatus EXCEPT ![m] = to]
    /\ UNCHANGED <<walletVars, bookVars, settlement, payouts, outcome, scanned>>

\* The event service records an outcome once, when it moves the event from
\* closed to resolved, and no path changes it.  The event's own status, the
\* audit row and the outbox message of the same transaction are read by no
\* action here: SettleAny stands for every delivery of the message.
ResolveEvent(e, option) ==
    /\ outcome[e] = Unresolved
    /\ outcome' = [outcome EXCEPT ![e] = option]
    /\ UNCHANGED <<walletVars, bookVars, marketVars, scanned>>

Wins(i, option) ==
    IF order[i].side = "buy" THEN order[i].option = option
                             ELSE order[i].option # option

\* What the trades of an order staked, at the price they matched.
Stake(i) ==
    Total([t \in TradesOf(i) |->
              StakeCents(order[i].side, trades[t].shares, trades[t].price)])

MatchedShares(i) == Total([t \in TradesOf(i) |-> trades[t].shares])

\* Settlement refunds the unfilled part of every order, whatever its status.
SettlementRefund(i) ==
    IF Remaining(i) > 0
    THEN CollateralCents(order[i].side, Remaining(i), order[i].price)
    ELSE 0

Payout(i, option) == IF Wins(i, option) THEN PayoutCents(filled[i]) ELSE 0

OrdersIn(m, w) == {i \in OrdersOf(m) : WalletOf(order[i]) = w}

\* Mutant: the refund is not taken out of the locked money.
StakeUse(m, w) == Total([i \in OrdersIn(m, w) |-> Stake(i)])
LockedUse(m, w) == Total([i \in OrdersIn(m, w) |-> Stake(i) + SettlementRefund(i)])

\* The winning option SettleEvent applies to market m.
WinningOption(m) == outcome[EventOf[m]]

\* Mutant: no check that a pool pays what it took.
PoolUnchecked(m) == TRUE

\* Every currency's stakes pay exactly its payouts.
PoolConserved(m) ==
    \A c \in Currencies :
        LET pool == {i \in OrdersOf(m) : order[i].currency = c}
        IN  Total([i \in pool |-> Stake(i)])
              = Total([i \in pool |-> Payout(i, WinningOption(m))])

\* Errors SettleEvent carries past: it goes on with the next market.
SkippedBySettleEvent(m) ==
    \/ WinningOption(m) \notin MarketOptions[m]
    \/ \E i \in OrdersOf(m) : WalletOf(order[i]) \notin opened

\* What the transaction that settles m requires before it commits.
Settleable(m) ==
    /\ ~ SkippedBySettleEvent(m)
    /\ \A i \in OrdersOf(m) : MatchedShares(i) = filled[i]
    /\ PoolConserved(m)
    /\ \A w \in Wallets : LockedUse(m, w) <= locked[w]

\* Mutant: the visit ends at every error.
ReachedInTurn(m) ==
    \A n \in Markets : EventOf[n] = EventOf[m] /\ n < m => settlement[n] # Unresolved

\* SettleEvent takes an event's unsettled markets in id order, one
\* transaction each, and gives up at the first error it does not skip.
Reached(m) ==
    \A n \in Markets : EventOf[n] = EventOf[m] /\ n < m
        => settlement[n] # Unresolved \/ SkippedBySettleEvent(n)

\* Mutant: a settled market is not recognised once its row is locked.
NeverSettled(m) == TRUE

Unsettled(m) == settlement[m] = Unresolved

SettleMarket(m) ==
    LET option == WinningOption(m)
        settled == {i \in OrdersOf(m) : filled[i] > 0}
        paid(w) == Total([i \in OrdersIn(m, w) |-> Payout(i, option)])
        staked(w) == Total([i \in OrdersIn(m, w) |-> Stake(i)])
        refunded(w) == Total([i \in OrdersIn(m, w) |-> SettlementRefund(i)])
    IN  /\ option # Unresolved
        /\ Unsettled(m)
        /\ Reached(m)
        /\ Settleable(m)
        /\ balance' = [w \in Wallets |-> balance[w] + refunded(w) + paid(w)]
        /\ locked' = [w \in Wallets |-> locked[w] - LockedUse(m, w)]
        /\ ledger' = [w \in Wallets |->
                         Record(Record(ledger[w], "bet", staked(w)), "win", paid(w))]
        /\ status' = [i \in DOMAIN order |->
                         IF i \in OrdersOf(m) /\ status[i] \in Open
                         THEN "cancelled" ELSE status[i]]
        /\ payouts' = [i \in DOMAIN payouts \cup settled |->
                          IF i \in settled
                          THEN [stake |-> Stake(i), payout |-> Payout(i, option)]
                          ELSE payouts[i]]
        /\ settlement' = [settlement EXCEPT ![m] = option]
        /\ marketStatus' = [marketStatus EXCEPT ![m] = "settled"]
        /\ UNCHANGED <<opened, order, filled, trades, volume, outcome, scanned>>

-----------------------------------------------------------------------------
(***************************************************************************)
(* Reconciliation of stranded collateral.                                  *)
(***************************************************************************)
\* Wallets with locked money and no pending, partial or filled order.
Stranded ==
    {w \in Wallets :
        /\ locked[w] > 0
        /\ \A i \in DOMAIN order :
              WalletOf(order[i]) = w => status[i] = "cancelled"}

\* The statement's snapshot.
ReconcileScan ==
    /\ scanned = {}
    /\ Stranded # {}
    /\ scanned' = Stranded
    /\ UNCHANGED <<walletVars, bookVars, marketVars, outcome>>

\* FOR UPDATE SKIP LOCKED: a row another transaction holds is skipped, and
\* one that changed since the snapshot is checked again, but only its own
\* columns are: the search for orders still sees the snapshot.
ReconcileRelease ==
    /\ scanned # {}
    /\ \E S \in SUBSET {w \in scanned : locked[w] > 0} :
          /\ balance' = [w \in Wallets |->
                            IF w \in S THEN balance[w] + locked[w] ELSE balance[w]]
          /\ locked' = [w \in Wallets |-> IF w \in S THEN 0 ELSE locked[w]]
          /\ ledger' = [w \in Wallets |->
                           IF w \in S
                           THEN Record(ledger[w], "reconciliation", locked[w])
                           ELSE ledger[w]]
    /\ scanned' = {}
    /\ UNCHANGED <<opened, bookVars, marketVars, outcome>>

-----------------------------------------------------------------------------
(***************************************************************************)
(* Funding: what the wallet service does on request.                       *)
(* Trading: what they and the merchant do with orders and markets.         *)
(***************************************************************************)
Funding ==
    \E w \in Wallets :
        \/ CreateWallet(w)
        \/ \E amount \in CreditAmounts : Credit(w, amount)
        \/ \E amount \in DebitAmounts : Debit(w, amount)

PlaceAny == \E id \in OrderIds, r \in Requests : Place(id, r)
CancelAny == \E i \in DOMAIN order : Cancel(i)
SettleAny == \E m \in Markets : SettleMarket(m)

\* The scheduled job of internal/reconciliation, behind its lease.
Reconcile == ReconcileScan \/ ReconcileRelease

Administration ==
    \/ \E m \in Markets, to \in MarketStatuses : UpdateMarketStatus(m, to)
    \/ \E e \in Events, option \in Options : ResolveEvent(e, option)

Next ==
    \/ Funding
    \/ Administration
    \/ PlaceAny
    \/ CancelAny
    \/ SettleAny
    \/ Reconcile

Spec == Init /\ [][Next]_vars

\* The same system while no event is resolved: no settlement, and no run of
\* reconciliation.
TradingNext ==
    \/ Funding
    \/ \E m \in Markets, to \in MarketStatuses : UpdateMarketStatus(m, to)
    \/ PlaceAny
    \/ CancelAny
TradingSpec == Init /\ [][TradingNext]_vars

\* Clients that hold every order to settlement.  The settlement worker keeps
\* trying a resolved event, which is the fairness of SettleMarket.
HoldNext == Funding \/ Administration \/ PlaceAny \/ SettleAny
HoldSpec == Init /\ [][HoldNext]_vars
FairHoldSpec == HoldSpec /\ \A m \in Markets : WF_vars(SettleMarket(m))
=============================================================================
