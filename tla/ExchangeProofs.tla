--------------------------- MODULE ExchangeProofs ---------------------------
(***************************************************************************)
(* Invariants of the exchange, for every instance of its constants.        *)
(***************************************************************************)
EXTENDS ExchangeProperties, TotalsProofs

-----------------------------------------------------------------------------
(***************************************************************************)
(* The conversions to cents, at every scale.                               *)
(***************************************************************************)
\* Rounding a natural gives a natural, at most half a unit away from it.
LEMMA DivideRoundedType ==
    ASSUME NEW value \in Nat, NEW denominator \in Nat \ {0}
    PROVE  DivideRounded(value, denominator) \in Nat
<1>1. value \div denominator \in Nat
  OBVIOUS
<1>2. QED
  BY <1>1 DEF DivideRounded

\* The product of two naturals is a natural.
LEMMA ProductType ==
    ASSUME NEW m \in Nat, NEW n \in Nat
    PROVE  m * n \in Nat
OBVIOUS

LEMMA ScaleProduct ==
    ShareScale * PriceScale \in Nat \ {0}
BY ScaleAssumption

\* A value of shares at a price is a natural number of cents.
LEMMA ProductCentsType ==
    ASSUME NEW shares \in Nat, NEW price \in Nat
    PROVE  ProductCents(shares, price) \in Nat
<1>1. shares * price * CentsScale \in Nat
  BY ScaleAssumption, ProductType
<1>2. QED
  BY <1>1, ScaleProduct, DivideRoundedType DEF ProductCents

LEMMA CollateralCentsType ==
    ASSUME NEW side \in Sides, NEW shares \in Nat, NEW price \in Prices
    PROVE  CollateralCents(side, shares, price) \in Nat
<1>1. ExposurePrice(side, price) \in Nat
  BY ScaleAssumption DEF ExposurePrice, Prices
<1>2. QED
  BY <1>1, ProductCentsType DEF CollateralCents

LEMMA PriceImprovementCentsType ==
    ASSUME NEW side \in Sides, NEW shares \in Nat,
           NEW limit \in Prices, NEW matched \in Prices
    PROVE  PriceImprovementCents(side, shares, limit, matched) \in Nat
<1> DEFINE difference == IF side = "sell" THEN matched - limit ELSE limit - matched
<1>1. difference \in Int
  BY ScaleAssumption DEF Prices
<1>2. CASE difference <= 0
  BY <1>2 DEF PriceImprovementCents
<1>3. CASE difference > 0
  <2>1. difference \in Nat
    BY <1>1, <1>3
  <2> HIDE DEF difference
  <2>2. ProductCents(shares, difference) \in Nat
    BY <2>1, ProductCentsType
  <2>3. QED
    BY <1>1, <1>3, <2>2 DEF PriceImprovementCents, difference
<1>4. QED
  BY <1>1, <1>2, <1>3

LEMMA PayoutCentsType ==
    ASSUME NEW shares \in Nat
    PROVE  PayoutCents(shares) \in Nat
<1>1. shares * CentsScale \in Nat
  BY ScaleAssumption, ProductType
<1>2. QED
  BY <1>1, ScaleAssumption, DivideRoundedType DEF PayoutCents

\* The two sides of a trade stake what its winner is paid.
LEMMA StakesMakeThePot ==
    ASSUME NEW shares \in Nat, NEW matched \in Prices
    PROVE  /\ StakeCents("buy", shares, matched) \in Int
           /\ StakeCents("sell", shares, matched) \in Int
           /\ StakeCents("buy", shares, matched) + StakeCents("sell", shares, matched)
                = PayoutCents(shares)
<1>1. CollateralCents("buy", shares, matched) \in Nat
  BY CollateralCentsType DEF Sides
<1>2. PayoutCents(shares) \in Nat
  BY PayoutCentsType
<1>3. QED
  BY <1>1, <1>2 DEF StakeCents

\* Nothing is worth nothing: rounding does not make cents of no shares.
LEMMA DivideRoundedZero ==
    ASSUME NEW denominator \in Nat \ {0}
    PROVE  DivideRounded(0, denominator) = 0
<1>1. 0 \div denominator = 0 /\ 0 % denominator = 0
  OBVIOUS
<1>2. QED
  BY <1>1 DEF DivideRounded

LEMMA NoSharesNoCents ==
    ASSUME NEW price \in Nat
    PROVE  ProductCents(0, price) = 0 /\ PayoutCents(0) = 0
<1>1. 0 * price * CentsScale = 0 /\ 0 * CentsScale = 0
  BY ScaleAssumption
<1>2. QED
  BY <1>1, ScaleAssumption, ScaleProduct, DivideRoundedZero
     DEF ProductCents, PayoutCents

LEMMA NoSharesNoStake ==
    ASSUME NEW side \in Sides, NEW matched \in Prices
    PROVE  StakeCents(side, 0, matched) = 0
<1>1. matched \in Nat
  BY ScaleAssumption DEF Prices
<1>2. CollateralCents("buy", 0, matched) = 0
  BY <1>1, NoSharesNoCents DEF CollateralCents, ExposurePrice
<1>3. PayoutCents(0) = 0
  BY <1>1, NoSharesNoCents
<1>4. QED
  BY <1>2, <1>3 DEF StakeCents

-----------------------------------------------------------------------------
(***************************************************************************)
(* The amounts the actions compute from a well-typed state.                *)
(***************************************************************************)
\* A request has the fields of an order row.
LEMMA RequestFields ==
    ASSUME NEW r \in Requests
    PROVE  /\ r.user \in Users
           /\ r.currency \in Currencies
           /\ r.market \in Markets
           /\ r.option \in Options
           /\ r.side \in Sides
           /\ r.price \in Prices
           /\ r.amount \in Nat \ {0}
           /\ r.tif \in {"gtc", "ioc"}
           /\ WalletOf(r) \in Wallets
BY ExchangeAssumption DEF Request, WalletOf, Wallets

\* The tables of orders and trades are finite.
LEMMA FiniteTables ==
    ASSUME TypeOK
    PROVE  /\ IsFiniteSet(DOMAIN order)
           /\ IsFiniteSet(DOMAIN trades)
<1>1. IsFiniteSet(DOMAIN order)
  BY ExchangeAssumption, FS_Subset DEF TypeOK
<1>2. IsFiniteSet((DOMAIN order) \X (DOMAIN order))
  BY <1>1, FS_Product
<1>3. QED
  BY <1>1, <1>2, FS_Subset DEF TypeOK

\* An order's request and what is left of it to fill.
LEMMA OrderFields ==
    ASSUME TypeOK, NEW i \in DOMAIN order
    PROVE  /\ order[i] \in Requests
           /\ filled[i] \in Nat
           /\ Remaining(i) \in Nat
           /\ filled[i] + Remaining(i) = order[i].amount
<1>1. order[i] \in Requests /\ filled[i] \in Nat /\ filled[i] <= order[i].amount
  BY DEF TypeOK
<1>2. order[i].amount \in Nat
  BY <1>1, RequestFields
<1>3. QED
  BY <1>1, <1>2 DEF Remaining

\* The shares of a set of open orders.
LEMMA AvailableType ==
    ASSUME TypeOK, NEW S \in SUBSET DOMAIN order
    PROVE  Available(S) \in Nat
<1>1. IsFiniteSet(S)
  BY FiniteTables, FS_Subset
<1>2. [i \in S |-> Remaining(i)] \in [S -> Int]
  BY OrderFields
<1>3. QED
  BY <1>1, <1>2, TotalNat DEF Available

\* A maker gives no more than it has.
LEMMA FillBounds ==
    ASSUME TypeOK, NEW r \in Requests, NEW i \in Makers(r)
    PROVE  /\ i \in DOMAIN order
           /\ Fill(r, i) \in Nat
           /\ Fill(r, i) <= Remaining(i)
<1> DEFINE before == Available({j \in Makers(r) : Ahead(j, i)})
<1>1. Makers(r) \subseteq DOMAIN order
  BY DEF Makers
<1>2. before \in Nat
  BY <1>1, AvailableType
<1>3. Remaining(i) \in Nat /\ r.amount \in Nat
  BY <1>1, OrderFields, RequestFields
<1>4. Fill(r, i) = IF before >= r.amount THEN 0
                   ELSE IF before + Remaining(i) <= r.amount THEN Remaining(i)
                   ELSE r.amount - before
  BY DEF Fill
<1> HIDE DEF before
<1>5. QED
  BY <1>1, <1>2, <1>3, <1>4

\* The incoming order gets no more than it asks for.
LEMMA GotBounds ==
    ASSUME TypeOK, NEW r \in Requests
    PROVE  Got(r) \in Nat /\ Got(r) <= r.amount
<1>1. Available(Makers(r)) \in Nat
  BY AvailableType DEF Makers
<1>2. QED
  BY <1>1, RequestFields DEF Got

\* The makers a request trades with are orders, and give some of what they have.
LEMMA MatchedOrders ==
    ASSUME TypeOK, NEW r \in Requests
    PROVE  /\ Matched(r) \subseteq DOMAIN order
           /\ IsFiniteSet(Matched(r))
           /\ \A i \in Matched(r) : Fill(r, i) \in Nat \ {0}
<1>1. Matched(r) \subseteq Makers(r)
  BY DEF Matched
<1>2. Matched(r) \subseteq DOMAIN order
  BY <1>1 DEF Makers
<1>3. IsFiniteSet(Matched(r))
  BY <1>2, FiniteTables, FS_Subset
<1>4. \A i \in Matched(r) : Fill(r, i) \in Nat /\ Fill(r, i) > 0
  BY <1>1, FillBounds DEF Matched
<1>5. QED
  BY <1>2, <1>3, <1>4

\* The refund of a placement is a number of cents.
LEMMA PlacementRefundType ==
    ASSUME TypeOK, NEW r \in Requests
    PROVE  PlacementRefund(r) \in Nat
<1> DEFINE improvement ==
        [i \in Matched(r) |->
            PriceImprovementCents(r.side, Fill(r, i), r.price, order[i].price)]
<1>1. improvement \in [Matched(r) -> Int]
  <2> SUFFICES ASSUME NEW i \in Matched(r)
               PROVE  PriceImprovementCents(r.side, Fill(r, i), r.price, order[i].price)
                        \in Int
    OBVIOUS
  <2>1. i \in DOMAIN order /\ Fill(r, i) \in Nat
    BY MatchedOrders
  <2>2. order[i].price \in Prices
    BY <2>1, OrderFields, RequestFields
  <2>3. r.side \in Sides /\ r.price \in Prices
    BY RequestFields
  <2>4. QED
    BY <2>1, <2>2, <2>3, PriceImprovementCentsType
<1>2. Total(improvement) \in Nat
  <2> HIDE DEF improvement
  <2> QED
    BY <1>1, MatchedOrders, TotalNat
<1>3. r.amount - Got(r) \in Nat
  BY GotBounds, RequestFields
<1>4. CollateralCents(r.side, r.amount - Got(r), r.price) \in Nat
  BY <1>3, RequestFields, CollateralCentsType
<1> DEFINE remainder == CollateralCents(r.side, r.amount - Got(r), r.price)
<1>5. PlacementRefund(r) =
        Total(improvement) + (IF TakerStatus(r) = "cancelled" THEN remainder ELSE 0)
  BY DEF PlacementRefund
<1> HIDE DEF improvement, remainder
<1>6. QED
  BY <1>2, <1>4, <1>5 DEF remainder

\* What the trades of an order staked.
LEMMA StakeType ==
    ASSUME TypeOK, NEW i \in DOMAIN order
    PROVE  Stake(i) \in Nat
<1> DEFINE stakes == [t \in TradesOf(i) |->
                         StakeCents(order[i].side, trades[t].shares, trades[t].price)]
<1>1. TradesOf(i) \subseteq DOMAIN trades
  BY DEF TradesOf
<1>2. IsFiniteSet(TradesOf(i))
  BY <1>1, FiniteTables, FS_Subset
<1>3. stakes \in [TradesOf(i) -> Int]
  <2> SUFFICES ASSUME NEW t \in TradesOf(i)
               PROVE  StakeCents(order[i].side, trades[t].shares, trades[t].price) \in Int
    OBVIOUS
  <2>1. trades[t].shares \in Nat /\ trades[t].price \in Prices
    BY <1>1 DEF TypeOK, TradeRow
  <2>2. order[i].side \in {"buy", "sell"}
    BY OrderFields, RequestFields DEF Sides
  <2>3. QED
    BY <2>1, <2>2, StakesMakeThePot
<1> HIDE DEF stakes
<1>4. Total(stakes) \in Nat
  BY <1>2, <1>3, TotalNat
<1>5. QED
  BY <1>4 DEF Stake, stakes

LEMMA SettlementRefundType ==
    ASSUME TypeOK, NEW i \in DOMAIN order
    PROVE  SettlementRefund(i) \in Nat
<1>1. order[i].side \in Sides /\ order[i].price \in Prices /\ Remaining(i) \in Nat
  BY OrderFields, RequestFields
<1>2. CollateralCents(order[i].side, Remaining(i), order[i].price) \in Nat
  BY <1>1, CollateralCentsType
<1>3. QED
  BY <1>2 DEF SettlementRefund

LEMMA PayoutType ==
    ASSUME TypeOK, NEW i \in DOMAIN order, NEW option
    PROVE  Payout(i, option) \in Nat
BY OrderFields, PayoutCentsType DEF Payout

\* The locked money a wallet's orders use in a settlement is their stakes and
\* their refunds.
LEMMA LockedUseSplits ==
    ASSUME TypeOK, NEW m, NEW w
    PROVE  LET staked   == Total([i \in OrdersIn(m, w) |-> Stake(i)])
               refunded == Total([i \in OrdersIn(m, w) |-> SettlementRefund(i)])
           IN  /\ staked \in Nat
               /\ refunded \in Nat
               /\ LockedUse(m, w) = staked + refunded
<1> DEFINE S == OrdersIn(m, w)
           stakes == [i \in S |-> Stake(i)]
           refunds == [i \in S |-> SettlementRefund(i)]
<1>1. S \subseteq DOMAIN order
  BY DEF OrdersIn, OrdersOf
<1>2. IsFiniteSet(S)
  BY <1>1, FiniteTables, FS_Subset
<1>3. stakes \in [S -> Nat] /\ refunds \in [S -> Nat]
  BY <1>1, StakeType, SettlementRefundType
<1>4. [i \in S |-> stakes[i] + refunds[i]] = [i \in S |-> Stake(i) + SettlementRefund(i)]
  OBVIOUS
<1>5. LockedUse(m, w) = Total([i \in S |-> stakes[i] + refunds[i]])
  BY <1>4 DEF LockedUse
<1> HIDE DEF S, stakes, refunds
<1>6. Total(stakes) \in Nat /\ Total(refunds) \in Nat
  BY <1>2, <1>3, TotalType
<1>7. Total([i \in S |-> stakes[i] + refunds[i]]) = Total(stakes) + Total(refunds)
  BY <1>2, <1>3, TotalOfSum
<1>8. QED
  BY <1>5, <1>6, <1>7 DEF S, stakes, refunds

\* What a settlement pays a wallet.
LEMMA PaidType ==
    ASSUME TypeOK, NEW m, NEW w, NEW option
    PROVE  Total([i \in OrdersIn(m, w) |-> Payout(i, option)]) \in Nat
<1> DEFINE S == OrdersIn(m, w)
           paid == [i \in S |-> Payout(i, option)]
<1>1. S \subseteq DOMAIN order
  BY DEF OrdersIn, OrdersOf
<1>2. IsFiniteSet(S)
  BY <1>1, FiniteTables, FS_Subset
<1>3. paid \in [S -> Int]
  BY <1>1, PayoutType
<1> HIDE DEF S, paid
<1>4. Total(paid) \in Nat
  BY <1>2, <1>3, TotalNat
<1>5. QED
  BY <1>4 DEF S, paid

-----------------------------------------------------------------------------
(***************************************************************************)
(* Type correctness, one lemma per action that writes more than a column.  *)
(***************************************************************************)
LEMMA FundingType ==
    ASSUME TypeOK, Funding
    PROVE  TypeOK'
<1>1. ASSUME NEW w \in Wallets, CreateWallet(w)
      PROVE  TypeOK'
  BY <1>1 DEF TypeOK, CreateWallet, bookVars, marketVars
<1>2. ASSUME NEW w \in Wallets, NEW amount \in CreditAmounts, Credit(w, amount)
      PROVE  TypeOK'
  <2>1. amount \in Nat
    BY ExchangeAssumption
  <2>2. opened' \subseteq Wallets /\ balance' \in [Wallets -> Nat]
    BY <1>2, <2>1 DEF TypeOK, Credit
  <2>3. Record(ledger[w], "credit", amount) \in [TxTypes -> Nat]
    BY <2>1 DEF TypeOK, Record, TxTypes
  <2>4. ledger' \in [Wallets -> [TxTypes -> Nat]]
    BY <1>2, <2>3 DEF TypeOK, Credit
  <2>5. QED
    BY <1>2, <2>2, <2>4 DEF TypeOK, Credit, bookVars, marketVars
<1>3. ASSUME NEW w \in Wallets, NEW amount \in DebitAmounts, Debit(w, amount)
      PROVE  TypeOK'
  <2>1. amount \in Nat
    BY ExchangeAssumption
  <2>2. balance' \in [Wallets -> Nat]
    BY <1>3, <2>1 DEF TypeOK, Debit
  <2>3. Record(ledger[w], "debit", amount) \in [TxTypes -> Nat]
    BY <2>1 DEF TypeOK, Record, TxTypes
  <2>4. ledger' \in [Wallets -> [TxTypes -> Nat]]
    BY <1>3, <2>3 DEF TypeOK, Debit
  <2>5. QED
    BY <1>3, <2>2, <2>4 DEF TypeOK, Debit, bookVars, marketVars
<1>4. QED
  BY <1>1, <1>2, <1>3 DEF Funding

LEMMA AdministrationType ==
    ASSUME TypeOK, Administration
    PROVE  TypeOK'
<1>1. ASSUME NEW m \in Markets, NEW to \in MarketStatuses, UpdateMarketStatus(m, to)
      PROVE  TypeOK'
  BY <1>1 DEF TypeOK, UpdateMarketStatus, walletVars, bookVars
<1>2. ASSUME NEW e \in Events, NEW option \in Options, ResolveEvent(e, option)
      PROVE  TypeOK'
  BY <1>2 DEF TypeOK, ResolveEvent, walletVars, bookVars, marketVars
<1>3. QED
  BY <1>1, <1>2 DEF Administration

\* The status of an order is one of the four.
LEMMA FillStatusType ==
    ASSUME NEW amount, NEW got
    PROVE  FillStatus(amount, got) \in OrderStatuses
BY DEF FillStatus, OrderStatuses

LEMMA PlaceType ==
    ASSUME TypeOK, NEW id \in OrderIds, NEW r \in Requests, Place(id, r)
    PROVE  TypeOK'
<1> DEFINE w == WalletOf(r)
           collateral == CollateralCents(r.side, r.amount, r.price)
           refund == PlacementRefund(r)
<1>1. w \in Wallets /\ collateral \in Nat /\ refund \in Nat
  BY RequestFields, CollateralCentsType, PlacementRefundType
<1>2. balance[w] >= collateral /\ locked[w] + collateral >= refund
  BY DEF Place
<1>3. /\ balance' = [balance EXCEPT ![w] = @ - collateral + refund]
      /\ locked' = [locked EXCEPT ![w] = @ + collateral - refund]
  BY DEF Place
<1> HIDE DEF w, collateral, refund
<1>4. balance' \in [Wallets -> Nat] /\ locked' \in [Wallets -> Nat]
  BY <1>1, <1>2, <1>3 DEF TypeOK
<1>5. /\ DOMAIN order' = DOMAIN order \cup {id}
      /\ \A i \in DOMAIN order' : order'[i] = IF i = id THEN r ELSE order[i]
      /\ id \notin DOMAIN order
      /\ order' = [i \in DOMAIN order \cup {id} |-> IF i = id THEN r ELSE order[i]]
  BY DEF Place, Insert
<1>6. /\ DOMAIN order' \subseteq OrderIds
      /\ order' \in [DOMAIN order' -> Requests]
  BY <1>5 DEF TypeOK
<1>7. Got(r) \in Nat /\ Got(r) <= r.amount
  BY GotBounds
<1>8. ASSUME NEW i \in Matched(r)
      PROVE  /\ i \in DOMAIN order
             /\ filled[i] + Fill(r, i) \in Nat
             /\ filled[i] + Fill(r, i) <= order[i].amount
  <2>1. i \in Makers(r)
    BY DEF Matched
  <2>2. i \in DOMAIN order /\ Fill(r, i) \in Nat /\ Fill(r, i) <= Remaining(i)
    BY <2>1, FillBounds
  <2>3. filled[i] \in Nat /\ Remaining(i) \in Nat /\ filled[i] + Remaining(i) = order[i].amount
    BY <2>2, OrderFields
  <2>4. QED
    BY <2>2, <2>3
<1>9. /\ filled' \in [DOMAIN order' -> Nat]
      /\ \A i \in DOMAIN order' : filled'[i] <= order'[i].amount
  <2>1. filled' = [i \in DOMAIN order \cup {id} |->
                     IF i = id THEN Got(r)
                     ELSE IF i \in Matched(r) THEN filled[i] + Fill(r, i)
                     ELSE filled[i]]
    BY DEF Place
  <2>2. \A i \in DOMAIN order : filled[i] \in Nat /\ filled[i] <= order[i].amount
    BY DEF TypeOK
  <2>3. QED
    BY <1>5, <1>7, <1>8, <2>1, <2>2
<1>10. status' \in [DOMAIN order' -> OrderStatuses]
  <2>1. TakerStatus(r) \in OrderStatuses
    BY FillStatusType DEF TakerStatus, OrderStatuses
  <2>2. status' = [i \in DOMAIN order \cup {id} |->
                     IF i = id THEN TakerStatus(r)
                     ELSE IF i \in Matched(r)
                     THEN FillStatus(order[i].amount, filled[i] + Fill(r, i))
                     ELSE status[i]]
    BY DEF Place
  <2>3. \A i \in DOMAIN order : status[i] \in OrderStatuses
    BY DEF TypeOK
  <2>4. QED
    BY <1>5, <2>1, <2>2, <2>3, FillStatusType
<1>11. /\ DOMAIN trades' \subseteq (DOMAIN order') \X (DOMAIN order')
       /\ trades' \in [DOMAIN trades' -> TradeRow]
  <2>1. trades' = [t \in DOMAIN trades \cup (Matched(r) \X {id}) |->
                     IF t \in DOMAIN trades THEN trades[t]
                     ELSE [shares |-> Fill(r, t[1]), price |-> order[t[1]].price]]
    BY DEF Place
  <2>2. /\ DOMAIN trades \subseteq (DOMAIN order) \X (DOMAIN order)
        /\ \A t \in DOMAIN trades : trades[t] \in TradeRow
    BY DEF TypeOK
  <2>3. \A i \in Matched(r) : [shares |-> Fill(r, i), price |-> order[i].price] \in TradeRow
    BY MatchedOrders, OrderFields, RequestFields DEF TradeRow
  <2>4. Matched(r) \X {id} \subseteq (DOMAIN order') \X (DOMAIN order')
    BY <1>5, <1>8
  <2>5. DOMAIN trades' \subseteq (DOMAIN order') \X (DOMAIN order')
    BY <1>5, <2>1, <2>2, <2>4
  <2>6. ASSUME NEW t \in DOMAIN trades'
        PROVE  trades'[t] \in TradeRow
    <3>1. CASE t \in DOMAIN trades
      BY <2>1, <2>2, <3>1
    <3>2. CASE t \notin DOMAIN trades
      <4>1. t \in Matched(r) \X {id}
        BY <2>1, <3>2
      <4>2. t[1] \in Matched(r)
        BY <4>1
      <4>3. trades'[t] = [shares |-> Fill(r, t[1]), price |-> order[t[1]].price]
        BY <2>1, <3>2, <4>1
      <4>4. QED
        BY <2>3, <4>2, <4>3
    <3>3. QED
      BY <3>1, <3>2
  <2>7. trades' = [t \in DOMAIN trades' |-> trades'[t]]
    BY <2>1
  <2>8. QED
    BY <2>5, <2>6, <2>7
<1>12. volume' \in [Markets -> Nat]
  BY <1>7, RequestFields DEF TypeOK, Place
<1>13. DOMAIN payouts' \subseteq DOMAIN order' /\ payouts' \in [DOMAIN payouts' -> PayoutRow]
  BY <1>5 DEF TypeOK, Place, marketVars
<1>14. QED
  BY <1>4, <1>6, <1>9, <1>10, <1>11, <1>12, <1>13 DEF TypeOK, Place, marketVars

LEMMA CancelType ==
    ASSUME TypeOK, NEW i \in DOMAIN order, Cancel(i)
    PROVE  TypeOK'
<1> DEFINE w == WalletOf(order[i])
           collateral == CollateralCents(order[i].side, Remaining(i), order[i].price)
<1>1. w \in Wallets /\ collateral \in Nat
  BY OrderFields, RequestFields, CollateralCentsType
<1>2. /\ locked[w] >= collateral
      /\ balance' = [balance EXCEPT ![w] = @ + collateral]
      /\ locked' = [locked EXCEPT ![w] = @ - collateral]
  BY DEF Cancel
<1> HIDE DEF w, collateral
<1>3. balance' \in [Wallets -> Nat] /\ locked' \in [Wallets -> Nat]
  BY <1>1, <1>2 DEF TypeOK
<1>4. status' \in [DOMAIN order -> OrderStatuses]
  BY DEF TypeOK, Cancel, OrderStatuses
<1>5. QED
  BY <1>3, <1>4 DEF TypeOK, Cancel, marketVars

LEMMA SettleType ==
    ASSUME TypeOK, NEW m \in Markets, SettleMarket(m)
    PROVE  TypeOK'
<1> DEFINE option == WinningOption(m)
           settled == {i \in OrdersOf(m) : filled[i] > 0}
           paid(w) == Total([i \in OrdersIn(m, w) |-> Payout(i, option)])
           staked(w) == Total([i \in OrdersIn(m, w) |-> Stake(i)])
           refunded(w) == Total([i \in OrdersIn(m, w) |-> SettlementRefund(i)])
<1>1. ASSUME NEW w \in Wallets
      PROVE  /\ paid(w) \in Nat /\ staked(w) \in Nat /\ refunded(w) \in Nat
             /\ LockedUse(m, w) \in Nat /\ LockedUse(m, w) <= locked[w]
  <2>1. staked(w) \in Nat /\ refunded(w) \in Nat /\ LockedUse(m, w) = staked(w) + refunded(w)
    BY LockedUseSplits
  <2>2. paid(w) \in Nat
    BY PaidType
  <2>3. LockedUse(m, w) <= locked[w]
    BY DEF SettleMarket, Settleable
  <2> HIDE DEF paid, staked, refunded
  <2>4. QED
    BY <2>1, <2>2, <2>3
<1>2. /\ balance' = [w \in Wallets |-> balance[w] + refunded(w) + paid(w)]
      /\ locked' = [w \in Wallets |-> locked[w] - LockedUse(m, w)]
      /\ ledger' = [w \in Wallets |->
                       Record(Record(ledger[w], "bet", staked(w)), "win", paid(w))]
  BY DEF SettleMarket
<1> HIDE DEF paid, staked, refunded
<1>3. balance' \in [Wallets -> Nat] /\ locked' \in [Wallets -> Nat]
  BY <1>1, <1>2 DEF TypeOK
<1>4. ledger' \in [Wallets -> [TxTypes -> Nat]]
  <2>1. ASSUME NEW w \in Wallets
        PROVE  Record(Record(ledger[w], "bet", staked(w)), "win", paid(w))
                 \in [TxTypes -> Nat]
    BY <1>1 DEF TypeOK, Record, TxTypes
  <2>2. QED
    BY <1>2, <2>1
<1>5. status' \in [DOMAIN order -> OrderStatuses]
  BY DEF TypeOK, SettleMarket, OrderStatuses
<1>6. DOMAIN payouts' \subseteq DOMAIN order /\ payouts' \in [DOMAIN payouts' -> PayoutRow]
  <2>1. payouts' = [i \in DOMAIN payouts \cup settled |->
                      IF i \in settled
                      THEN [stake |-> Stake(i), payout |-> Payout(i, option)]
                      ELSE payouts[i]]
    BY DEF SettleMarket
  <2>2. settled \subseteq DOMAIN order
    BY DEF OrdersOf
  <2>3. \A i \in settled : [stake |-> Stake(i), payout |-> Payout(i, option)] \in PayoutRow
    BY <2>2, StakeType, PayoutType DEF PayoutRow
  <2>4. DOMAIN payouts \subseteq DOMAIN order /\ \A i \in DOMAIN payouts : payouts[i] \in PayoutRow
    BY DEF TypeOK
  <2> HIDE DEF settled
  <2>5. QED
    BY <2>1, <2>2, <2>3, <2>4
<1>7. option \in Options \cup {Unresolved}
  BY ExchangeAssumption DEF TypeOK, WinningOption
<1>8. settlement' \in [Markets -> Options \cup {Unresolved}]
  BY <1>7 DEF TypeOK, SettleMarket
<1>9. marketStatus' \in [Markets -> MarketStatuses]
  BY DEF TypeOK, SettleMarket, MarketStatuses
<1>10. QED
  BY <1>3, <1>4, <1>5, <1>6, <1>8, <1>9 DEF TypeOK, SettleMarket

LEMMA ReleaseType ==
    ASSUME TypeOK, ReconcileRelease
    PROVE  TypeOK'
<1>1. PICK S \in SUBSET {w \in scanned : locked[w] > 0} :
          /\ balance' = [w \in Wallets |->
                            IF w \in S THEN balance[w] + locked[w] ELSE balance[w]]
          /\ locked' = [w \in Wallets |-> IF w \in S THEN 0 ELSE locked[w]]
          /\ ledger' = [w \in Wallets |->
                           IF w \in S
                           THEN Record(ledger[w], "reconciliation", locked[w])
                           ELSE ledger[w]]
  BY DEF ReconcileRelease
<1>2. balance' \in [Wallets -> Nat] /\ locked' \in [Wallets -> Nat]
  BY <1>1 DEF TypeOK
<1>3. ledger' \in [Wallets -> [TxTypes -> Nat]]
  BY <1>1 DEF TypeOK, Record, TxTypes
<1>4. QED
  BY <1>2, <1>3 DEF TypeOK, ReconcileRelease, bookVars, marketVars

LEMMA InitType == Init => TypeOK
BY DEF Init, TypeOK, MarketStatuses

LEMMA NextType == TypeOK /\ [Next]_vars => TypeOK'
<1> SUFFICES ASSUME TypeOK, [Next]_vars
             PROVE  TypeOK'
  OBVIOUS
<1>1. CASE Funding
  BY <1>1, FundingType
<1>2. CASE Administration
  BY <1>2, AdministrationType
<1>3. CASE PlaceAny
  BY <1>3, PlaceType DEF PlaceAny
<1>4. CASE CancelAny
  BY <1>4, CancelType DEF CancelAny
<1>5. CASE SettleAny
  BY <1>5, SettleType DEF SettleAny
<1>6. CASE ReconcileScan
  BY <1>6 DEF TypeOK, ReconcileScan, Stranded, walletVars, bookVars, marketVars
<1>7. CASE ReconcileRelease
  BY <1>7, ReleaseType
<1>8. CASE UNCHANGED vars
  BY <1>8 DEF TypeOK, vars, walletVars, bookVars, marketVars
<1>9. QED
  BY <1>1, <1>2, <1>3, <1>4, <1>5, <1>6, <1>7, <1>8 DEF Next, Reconcile

\* The tables keep their types: in particular no wallet column is ever
\* negative and no order is ever filled beyond its amount, whatever placements,
\* cancellations, settlements and reconciliation runs do in any order.
THEOREM TypeCorrect == Spec => []TypeOK
BY InitType, NextType, PTL DEF Spec
=============================================================================
