------------------------- MODULE ExchangeProperties -------------------------
(***************************************************************************)
(* What the exchange must keep true.  The runs in PROJECT.json say which   *)
(* specification and which instance each property is checked on, and       *)
(* ExchangeProofs proves some of them for every instance.                  *)
(***************************************************************************)
EXTENDS Exchange

TradeRow  == [shares : Nat, price : Prices]
PayoutRow == [stake : Nat, payout : Nat]

\* Every table has the columns the migrations declare: non-negative cents,
\* one filled amount and status per order, trades between known orders.
TypeOK ==
    /\ opened \subseteq Wallets
    /\ balance \in [Wallets -> Nat]
    /\ locked \in [Wallets -> Nat]
    /\ ledger \in [Wallets -> [TxTypes -> Nat]]
    /\ DOMAIN order \subseteq OrderIds
    /\ order \in [DOMAIN order -> Requests]
    /\ filled \in [DOMAIN order -> Nat]
    /\ \A i \in DOMAIN order : filled[i] <= order[i].amount
    /\ status \in [DOMAIN order -> OrderStatuses]
    /\ DOMAIN trades \subseteq (DOMAIN order) \X (DOMAIN order)
    /\ trades \in [DOMAIN trades -> TradeRow]
    /\ volume \in [Markets -> Nat]
    /\ marketStatus \in [Markets -> MarketStatuses]
    /\ settlement \in [Markets -> Options \cup {Unresolved}]
    /\ DOMAIN payouts \subseteq DOMAIN order
    /\ payouts \in [DOMAIN payouts -> PayoutRow]
    /\ outcome \in [Events -> Options \cup {Unresolved}]
    /\ scanned \subseteq Wallets

-----------------------------------------------------------------------------
(***************************************************************************)
(* Money.                                                                  *)
(***************************************************************************)
\* A wallet's transactions explain its money: what it holds, available and
\* locked, is what was credited and won less what was debited and bet.  Lock,
\* unlock and reconciliation move money inside a wallet and settlement keeps
\* the two columns in step with the "bet" and "win" rows it inserts.
WalletAudit ==
    \A w \in Wallets :
        balance[w] + locked[w] + ledger[w]["debit"] + ledger[w]["bet"]
            = ledger[w]["credit"] + ledger[w]["win"]

\* The sum over one currency's wallets of an amount of each.
InCurrency(c, amount) == Total([u \in Users |-> amount[<<u, c>>]])

\* Matching, cancelling, settling and reconciling neither create nor destroy
\* money: in each currency the wallets hold what clients put in and left in.
MoneyConserved ==
    \A c \in Currencies :
        InCurrency(c, [w \in Wallets |->
                          balance[w] + locked[w] + ledger[w]["debit"]])
          = InCurrency(c, [w \in Wallets |-> ledger[w]["credit"]])

\* The bet and win rows of a wallet are those of its settled orders, one of
\* each: no order is paid a second time when SettleEvent is delivered again.
PaidOnce ==
    \A w \in Wallets :
        LET mine == {i \in DOMAIN payouts : WalletOf(order[i]) = w}
        IN  /\ ledger[w]["bet"] = Total([i \in mine |-> payouts[i].stake])
            /\ ledger[w]["win"] = Total([i \in mine |-> payouts[i].payout])

Divides(d, x) == \E n \in 0 .. x : x = n * d

\* Orders are in lots, at prices on ticks, and a lot at a tick is a whole
\* number of cents, as whole shares at prices in cents are.
WholeCents(lot, tick) ==
    /\ Divides(ShareScale * PriceScale, lot * tick * CentsScale)
    /\ Divides(tick, PriceScale)
    /\ \A r \in Requests : Divides(lot, r.amount) /\ Divides(tick, r.price)

ExactCents == \E lot, tick \in Nat \ {0} : WholeCents(lot, tick)

\* Without immediate orders the only orders ever cancelled are those that are
\* cancelled on request or by a settlement.
OrdersRest == \A r \in Requests : r.tif = "gtc"

\* What an order still holds of its wallet's locked money.
Held(i) ==
    Stake(i) + (IF status[i] \in Open
                THEN CollateralCents(order[i].side, Remaining(i), order[i].price)
                ELSE 0)

HeldBy(w) ==
    Total([i \in {i \in DOMAIN order :
                     /\ WalletOf(order[i]) = w
                     /\ settlement[order[i].market] = Unresolved} |-> Held(i)])

\* With exact cents, a wallet's locked money is exactly the stakes of its
\* trades plus the collateral of its open remainders: price improvements, IOC
\* remainders and cancellations give back all of the rest and nothing more.
LockedIsHeld == \A w \in Wallets : locked[w] = HeldBy(w)

-----------------------------------------------------------------------------
(***************************************************************************)
(* The book.                                                               *)
(***************************************************************************)
\* The filled amount of an order is the sum of its trades, and a market's
\* volume the sum of its trades': settlement refuses the market otherwise.
FilledMatchesTrades ==
    /\ \A i \in DOMAIN order : MatchedShares(i) = filled[i]
    /\ \A m \in Markets :
          volume[m] = Total([t \in {t \in DOMAIN trades : order[t[2]].market = m}
                                |-> trades[t].shares])

\* An order's status tells how much of it is filled, and an IOC never rests.
StatusMatchesFill ==
    \A i \in DOMAIN order :
        /\ status[i] = "pending" => filled[i] = 0
        /\ status[i] = "partial" => filled[i] \in 1 .. order[i].amount - 1
        /\ status[i] = "filled" <=> filled[i] = order[i].amount
        /\ order[i].tif = "ioc" => status[i] \notin Open

\* Two users never rest in one book at prices that cross: an incoming order
\* takes every match it can before what is left of it rests.
BookNotCrossed ==
    \A i, j \in DOMAIN order :
        /\ status[i] \in Open /\ status[j] \in Open
        /\ SameBook(order[i], order[j])
        /\ order[i].user # order[j].user
        /\ order[i].side = "buy" /\ order[j].side = "sell"
        => order[i].price < order[j].price

\* A trade is between two users of one book on opposite sides, at the maker's
\* limit and inside the taker's.
TradesAreFair ==
    \A t \in DOMAIN trades :
        LET maker == order[t[1]]
            taker == order[t[2]]
        IN  /\ SameBook(maker, taker)
            /\ maker.user # taker.user
            /\ maker.side # taker.side
            /\ trades[t].shares > 0
            /\ trades[t].price = maker.price
            /\ Crosses(taker, maker.price)

\* Resting order i had a better price than j for whoever takes it, or the same
\* price and an earlier place.
Precedes(i, j) ==
    \/ order[i].side = "sell" /\ order[i].price < order[j].price
    \/ order[i].side = "buy" /\ order[i].price > order[j].price
    \/ order[i].price = order[j].price /\ i < j

\* No trade overtakes a resting order that was ahead of its maker: whatever
\* was ahead in price, or at the same price in (created_at, id), is filled.
PriorityRespected ==
    [][\A t \in DOMAIN trades' \ DOMAIN trades :
          \A i \in Makers(order'[t[2]]) :
              Precedes(i, t[1]) => status'[i] = "filled"]_vars

-----------------------------------------------------------------------------
(***************************************************************************)
(* Settlement.                                                             *)
(***************************************************************************)
\* A settled market carries the status and holds no open order, although
\* placements and cancellations race with the settlement for its rows.
SettledMarketIsClosed ==
    \A m \in Markets :
        /\ settlement[m] # Unresolved <=> marketStatus[m] = "settled"
        /\ settlement[m] # Unresolved
              => \A i \in OrdersOf(m) : status[i] \notin Open

\* Settlement is final: the winning option, the payouts and the orders of a
\* settled market never change again, and no order joins it.
SettledIsFinal ==
    [][\A m \in Markets : settlement[m] # Unresolved =>
          /\ settlement'[m] = settlement[m]
          /\ OrdersOf(m)' = OrdersOf(m)
          /\ \A i \in OrdersOf(m) :
                /\ status'[i] = status[i]
                /\ filled'[i] = filled[i]
                /\ i \in DOMAIN payouts' <=> i \in DOMAIN payouts
                /\ i \in DOMAIN payouts => payouts'[i] = payouts[i]]_vars

\* A market whose event resolved to one of its options can be settled: the
\* checks of the settlement transaction never stop it.
SettlementNeverBlocked ==
    \A m \in Markets :
        /\ settlement[m] = Unresolved
        /\ WinningOption(m) \in MarketOptions[m]
        => Settleable(m)

\* As long as every locked cent is held by an order, reconciliation, which
\* recovers collateral no open order holds, has nothing to find.
NothingStranded == Stranded = {}

\* A market of a resolved event is eventually settled.
ResolvedMarketSettles ==
    \A m \in Markets :
        WinningOption(m) \in MarketOptions[m] ~> settlement[m] # Unresolved

\* Settling a market takes from a wallet's locked money no more than the
\* wallet's orders in that market still hold, so that the positions of the
\* wallet in other markets keep their collateral.
SettlementSparesOtherMarkets ==
    [][\A m \in Markets, w \in Wallets :
          settlement[m] = Unresolved /\ settlement'[m] # Unresolved =>
              locked[w] - locked'[w]
                  <= Total([i \in OrdersIn(m, w) |-> Held(i)])]_vars

\* Money a reconciliation run takes out of the lock of wallet w.
Released(w) == ledger'[w]["reconciliation"] > ledger[w]["reconciliation"]

\* Reconciliation leaves alone the stakes of trades that are not settled.
ReconcileSparesPositions ==
    [][\A w \in Wallets : Released(w) =>
          \A i \in DOMAIN order :
              /\ WalletOf(order[i]) = w
              /\ settlement[order[i].market] = Unresolved
              => Stake(i) = 0]_vars

\* Reconciliation only releases a wallet that has no open order.
ReconcileSparesOpenOrders ==
    [][\A w \in Wallets : Released(w) =>
          \A i \in DOMAIN order :
              WalletOf(order[i]) = w => status[i] \notin Open]_vars
=============================================================================
