-------------------------- MODULE SettlementProofs --------------------------
(***************************************************************************)
(* Safety of money and of settlement, for every instance of the constants: *)
(* wallets match their ledgers, settled markets stay settled, each order   *)
(* is paid once, and the payments of a currency cancel out.                *)
(***************************************************************************)
EXTENDS ExchangeProofs

-----------------------------------------------------------------------------
(***************************************************************************)
(* The wallets' books.                                                     *)
(***************************************************************************)
\* What the audit of one wallet compares.
Audit(w) ==
    balance[w] + locked[w] + ledger[w]["debit"] + ledger[w]["bet"]
        = ledger[w]["credit"] + ledger[w]["win"]

LEMMA WalletAuditByWallet == WalletAudit <=> \A w \in Wallets : Audit(w)
BY DEF WalletAudit, Audit

\* A column of a wallet's ledger, before and after a row is added to it.
LEMMA RecordColumns ==
    ASSUME NEW l \in [TxTypes -> Nat], NEW type \in TxTypes, NEW amount \in Nat
    PROVE  /\ Record(l, type, amount) \in [TxTypes -> Nat]
           /\ \A t \in TxTypes :
                 Record(l, type, amount)[t] = IF t = type THEN l[t] + amount ELSE l[t]
BY DEF Record

LEMMA FundingAudit ==
    ASSUME TypeOK, WalletAudit, Funding
    PROVE  WalletAudit'
<1> SUFFICES ASSUME NEW v \in Wallets
             PROVE  Audit(v)'
  BY DEF WalletAudit, Audit
<1>1. /\ balance \in [Wallets -> Nat] /\ locked \in [Wallets -> Nat]
      /\ ledger \in [Wallets -> [TxTypes -> Nat]]
      /\ Audit(v)
  BY WalletAuditByWallet DEF TypeOK
<1>2. ASSUME NEW w \in Wallets, CreateWallet(w)
      PROVE  Audit(v)'
  BY <1>1, <1>2 DEF CreateWallet, Audit
<1>3. ASSUME NEW w \in Wallets, NEW amount \in CreditAmounts, Credit(w, amount)
      PROVE  Audit(v)'
  <2>1. amount \in Nat /\ "credit" \in TxTypes
    BY ExchangeAssumption DEF TxTypes
  <2>2. /\ balance' = [balance EXCEPT ![w] = @ + amount]
        /\ locked' = locked
        /\ ledger' = [ledger EXCEPT ![w] = Record(@, "credit", amount)]
    BY <1>3 DEF Credit
  <2>3. CASE v = w
    <3>1. balance'[w] = balance[w] + amount /\ locked'[w] = locked[w]
      BY <1>1, <2>2
    <3>2. ledger'[w] = Record(ledger[w], "credit", amount)
      BY <1>1, <2>2
    <3>3. /\ ledger'[w]["credit"] = ledger[w]["credit"] + amount
          /\ \A t \in {"debit", "bet", "win"} : ledger'[w][t] = ledger[w][t]
      BY <1>1, <2>1, <3>2, RecordColumns DEF TxTypes
    <3>4. /\ balance[w] \in Nat /\ locked[w] \in Nat
          /\ \A t \in {"credit", "debit", "bet", "win"} : ledger[w][t] \in Nat
      BY <1>1 DEF TxTypes
    <3>5. QED
      BY <1>1, <2>1, <2>3, <3>1, <3>3, <3>4 DEF Audit
  <2>4. CASE v # w
    BY <1>1, <2>2, <2>4 DEF Audit
  <2>5. QED
    BY <2>3, <2>4
<1>4. ASSUME NEW w \in Wallets, NEW amount \in DebitAmounts, Debit(w, amount)
      PROVE  Audit(v)'
  <2>1. amount \in Nat /\ "debit" \in TxTypes
    BY ExchangeAssumption DEF TxTypes
  <2>2. /\ balance[w] >= amount
        /\ balance' = [balance EXCEPT ![w] = @ - amount]
        /\ locked' = locked
        /\ ledger' = [ledger EXCEPT ![w] = Record(@, "debit", amount)]
    BY <1>4 DEF Debit
  <2>3. CASE v = w
    <3>1. balance'[w] = balance[w] - amount /\ locked'[w] = locked[w]
      BY <1>1, <2>2
    <3>2. ledger'[w] = Record(ledger[w], "debit", amount)
      BY <1>1, <2>2
    <3>3. /\ ledger'[w]["debit"] = ledger[w]["debit"] + amount
          /\ \A t \in {"credit", "bet", "win"} : ledger'[w][t] = ledger[w][t]
      BY <1>1, <2>1, <3>2, RecordColumns DEF TxTypes
    <3>4. /\ balance[w] \in Nat /\ locked[w] \in Nat
          /\ \A t \in {"credit", "debit", "bet", "win"} : ledger[w][t] \in Nat
      BY <1>1 DEF TxTypes
    <3>5. QED
      BY <1>1, <2>1, <2>3, <3>1, <3>3, <3>4 DEF Audit
  <2>4. CASE v # w
    BY <1>1, <2>2, <2>4 DEF Audit
  <2>5. QED
    BY <2>3, <2>4
<1>5. QED
  BY <1>2, <1>3, <1>4 DEF Funding

\* Money that moves between the columns of one wallet leaves the audits alone.
LEMMA TransferAudit ==
    ASSUME TypeOK, WalletAudit, NEW w \in Wallets, NEW amount \in Int,
           balance' = [balance EXCEPT ![w] = @ + amount],
           locked' = [locked EXCEPT ![w] = @ - amount],
           ledger' = ledger
    PROVE  WalletAudit'
<1> SUFFICES ASSUME NEW v \in Wallets
             PROVE  Audit(v)'
  BY DEF WalletAudit, Audit
<1>1. /\ balance \in [Wallets -> Nat] /\ locked \in [Wallets -> Nat]
      /\ ledger \in [Wallets -> [TxTypes -> Nat]]
      /\ Audit(v)
  BY WalletAuditByWallet DEF TypeOK
<1>2. balance'[v] + locked'[v] = balance[v] + locked[v]
  BY <1>1
<1>3. balance'[v] \in Int /\ locked'[v] \in Int
  BY <1>1
<1>4. QED
  BY <1>1, <1>2, <1>3 DEF Audit, TxTypes

LEMMA PlaceAudit ==
    ASSUME TypeOK, WalletAudit, NEW id \in OrderIds, NEW r \in Requests, Place(id, r)
    PROVE  WalletAudit'
<1> DEFINE w == WalletOf(r)
           collateral == CollateralCents(r.side, r.amount, r.price)
           refund == PlacementRefund(r)
<1>1. w \in Wallets /\ collateral \in Nat /\ refund \in Nat
  BY RequestFields, CollateralCentsType, PlacementRefundType
<1>2. /\ balance' = [balance EXCEPT ![w] = @ - collateral + refund]
      /\ locked' = [locked EXCEPT ![w] = @ + collateral - refund]
      /\ ledger' = ledger
  BY DEF Place
<1> HIDE DEF w, collateral, refund
<1>3. balance[w] \in Nat /\ locked[w] \in Nat
  BY <1>1 DEF TypeOK
<1>4. /\ refund - collateral \in Int
      /\ balance[w] - collateral + refund = balance[w] + (refund - collateral)
      /\ locked[w] + collateral - refund = locked[w] - (refund - collateral)
  BY <1>1, <1>3
<1>5. /\ balance' = [balance EXCEPT ![w] = @ + (refund - collateral)]
      /\ locked' = [locked EXCEPT ![w] = @ - (refund - collateral)]
  BY <1>2, <1>4
<1>6. QED
  BY <1>1, <1>2, <1>4, <1>5, TransferAudit

LEMMA CancelAudit ==
    ASSUME TypeOK, WalletAudit, NEW i \in DOMAIN order, Cancel(i)
    PROVE  WalletAudit'
<1> DEFINE w == WalletOf(order[i])
           collateral == CollateralCents(order[i].side, Remaining(i), order[i].price)
<1>1. w \in Wallets /\ collateral \in Nat
  BY OrderFields, RequestFields, CollateralCentsType
<1>2. /\ balance' = [balance EXCEPT ![w] = @ + collateral]
      /\ locked' = [locked EXCEPT ![w] = @ - collateral]
      /\ ledger' = ledger
  BY DEF Cancel
<1> HIDE DEF w, collateral
<1>3. collateral \in Int
  BY <1>1
<1>4. QED
  BY <1>1, <1>2, <1>3, TransferAudit

\* A settlement takes the stakes and the refunds out of the locked money, and
\* puts the refunds and the payouts into the balance.
LEMMA SettleAudit ==
    ASSUME TypeOK, WalletAudit, NEW m \in Markets, SettleMarket(m)
    PROVE  WalletAudit'
<1> SUFFICES ASSUME NEW w \in Wallets
             PROVE  Audit(w)'
  BY DEF WalletAudit, Audit
<1> DEFINE paid == Total([i \in OrdersIn(m, w) |-> Payout(i, WinningOption(m))])
           staked == Total([i \in OrdersIn(m, w) |-> Stake(i)])
           refunded == Total([i \in OrdersIn(m, w) |-> SettlementRefund(i)])
<1>1. staked \in Nat /\ refunded \in Nat /\ LockedUse(m, w) = staked + refunded
  BY LockedUseSplits
<1>2. paid \in Nat
  BY PaidType
<1>3. /\ balance'[w] = balance[w] + refunded + paid
      /\ locked'[w] = locked[w] - LockedUse(m, w)
      /\ ledger'[w] = Record(Record(ledger[w], "bet", staked), "win", paid)
  BY DEF SettleMarket
<1> HIDE DEF paid, staked, refunded
<1>4. /\ balance[w] \in Nat /\ locked[w] \in Nat /\ ledger[w] \in [TxTypes -> Nat]
      /\ Audit(w)
  BY WalletAuditByWallet DEF TypeOK
<1>5. /\ ledger'[w]["debit"] = ledger[w]["debit"]
      /\ ledger'[w]["credit"] = ledger[w]["credit"]
      /\ ledger'[w]["bet"] = ledger[w]["bet"] + staked
      /\ ledger'[w]["win"] = ledger[w]["win"] + paid
  BY <1>1, <1>2, <1>3, <1>4 DEF Record, TxTypes
<1>6. /\ ledger[w]["debit"] \in Nat /\ ledger[w]["bet"] \in Nat
      /\ ledger[w]["credit"] \in Nat /\ ledger[w]["win"] \in Nat
  BY <1>4 DEF TxTypes
<1>7. QED
  BY <1>1, <1>2, <1>3, <1>4, <1>5, <1>6 DEF Audit

LEMMA ReleaseAudit ==
    ASSUME TypeOK, WalletAudit, ReconcileRelease
    PROVE  WalletAudit'
<1> SUFFICES ASSUME NEW w \in Wallets
             PROVE  Audit(w)'
  BY DEF WalletAudit, Audit
<1>1. PICK S \in SUBSET {v \in scanned : locked[v] > 0} :
          /\ balance' = [v \in Wallets |->
                            IF v \in S THEN balance[v] + locked[v] ELSE balance[v]]
          /\ locked' = [v \in Wallets |-> IF v \in S THEN 0 ELSE locked[v]]
          /\ ledger' = [v \in Wallets |->
                           IF v \in S
                           THEN Record(ledger[v], "reconciliation", locked[v])
                           ELSE ledger[v]]
  BY DEF ReconcileRelease
<1>2. /\ balance[w] \in Nat /\ locked[w] \in Nat /\ ledger[w] \in [TxTypes -> Nat]
      /\ Audit(w)
  BY WalletAuditByWallet DEF TypeOK
<1>3. balance'[w] + locked'[w] = balance[w] + locked[w]
  BY <1>1, <1>2
<1>4. \A t \in {"debit", "bet", "credit", "win"} : ledger'[w][t] = ledger[w][t]
  BY <1>1, <1>2 DEF Record, TxTypes
<1>5. QED
  BY <1>2, <1>3, <1>4 DEF Audit

LEMMA NextAudit == TypeOK /\ WalletAudit /\ [Next]_vars => WalletAudit'
<1> SUFFICES ASSUME TypeOK, WalletAudit, [Next]_vars
             PROVE  WalletAudit'
  OBVIOUS
<1>1. CASE Funding
  BY <1>1, FundingAudit
<1>2. CASE Administration
  BY <1>2 DEF Administration, UpdateMarketStatus, ResolveEvent, walletVars, WalletAudit
<1>3. CASE PlaceAny
  BY <1>3, PlaceAudit DEF PlaceAny
<1>4. CASE CancelAny
  BY <1>4, CancelAudit DEF CancelAny
<1>5. CASE SettleAny
  BY <1>5, SettleAudit DEF SettleAny
<1>6. CASE ReconcileScan
  BY <1>6 DEF ReconcileScan, walletVars, WalletAudit
<1>7. CASE ReconcileRelease
  BY <1>7, ReleaseAudit
<1>8. CASE UNCHANGED vars
  BY <1>8 DEF vars, walletVars, WalletAudit
<1>9. QED
  BY <1>1, <1>2, <1>3, <1>4, <1>5, <1>6, <1>7, <1>8 DEF Next, Reconcile

\* Every wallet's rows in the transactions table explain what it holds, however
\* placements, cancellations, settlements and reconciliation interleave.
THEOREM WalletsAudited == Spec => []WalletAudit
<1>1. Init => WalletAudit
  BY DEF Init, WalletAudit, TxTypes
<1>2. QED
  BY <1>1, NextAudit, TypeCorrect, PTL DEF Spec

-----------------------------------------------------------------------------
(***************************************************************************)
(* Settled markets.  The invariant is inductive once the types are known.  *)
(***************************************************************************)
\* A placement leaves the orders and the statuses of every other market alone.
LEMMA PlaceElsewhere ==
    ASSUME TypeOK, NEW id \in OrderIds, NEW r \in Requests, Place(id, r),
           NEW m \in Markets, m # r.market
    PROVE  /\ OrdersOf(m)' = OrdersOf(m)
           /\ \A i \in OrdersOf(m) : status'[i] = status[i] /\ filled'[i] = filled[i]
<1>1. /\ id \notin DOMAIN order
      /\ order' = [i \in DOMAIN order \cup {id} |-> IF i = id THEN r ELSE order[i]]
  BY DEF Place, Insert
<1>2. OrdersOf(m)' = OrdersOf(m)
  BY <1>1 DEF OrdersOf
<1>3. \A i \in Matched(r) : order[i].market = r.market
  BY DEF Matched, Makers, SameBook
<1>4. ASSUME NEW i \in OrdersOf(m)
      PROVE  i \in DOMAIN order /\ i # id /\ i \notin Matched(r)
  BY <1>1, <1>3 DEF OrdersOf
<1>5. \A i \in OrdersOf(m) : status'[i] = status[i] /\ filled'[i] = filled[i]
  BY <1>4 DEF Place
<1>6. QED
  BY <1>2, <1>5

\* What a settlement does to the orders of a market.
LEMMA SettleStatuses ==
    ASSUME TypeOK, NEW n \in Markets, SettleMarket(n), NEW m \in Markets
    PROVE  /\ OrdersOf(m)' = OrdersOf(m)
           /\ m # n => \A i \in OrdersOf(m) : status'[i] = status[i]
           /\ m = n => \A i \in OrdersOf(m) : status'[i] \notin Open
<1>1. /\ order' = order
      /\ status' = [i \in DOMAIN order |->
                       IF i \in OrdersOf(n) /\ status[i] \in Open
                       THEN "cancelled" ELSE status[i]]
  BY DEF SettleMarket
<1>2. OrdersOf(m) \subseteq DOMAIN order
  BY DEF OrdersOf
<1>3. m # n => \A i \in OrdersOf(m) : i \notin OrdersOf(n)
  BY DEF OrdersOf
<1>4. OrdersOf(m)' = OrdersOf(m)
  BY <1>1 DEF OrdersOf
<1>5. "cancelled" \notin Open
  BY DEF Open
<1>6. QED
  BY <1>1, <1>2, <1>3, <1>4, <1>5

\* The part of SettledMarketIsClosed that is about one market.
Closed(m) ==
    /\ settlement[m] # Unresolved <=> marketStatus[m] = "settled"
    /\ settlement[m] # Unresolved => \A i \in OrdersOf(m) : status[i] \notin Open

LEMMA NextClosed ==
    TypeOK /\ SettledMarketIsClosed /\ [Next]_vars => SettledMarketIsClosed'
<1> SUFFICES ASSUME TypeOK, SettledMarketIsClosed, [Next]_vars, NEW m \in Markets
             PROVE  Closed(m)'
  BY DEF SettledMarketIsClosed, Closed
<1>1. Closed(m)
  BY DEF SettledMarketIsClosed, Closed
<1>2. ASSUME UNCHANGED <<bookVars, marketVars>>
      PROVE  Closed(m)'
  BY <1>1, <1>2 DEF Closed, OrdersOf, bookVars, marketVars
<1>3. CASE Funding
  BY <1>2, <1>3 DEF Funding, CreateWallet, Credit, Debit
<1>4. CASE Administration
  <2>1. ASSUME NEW n \in Markets, NEW to \in MarketStatuses, UpdateMarketStatus(n, to)
        PROVE  Closed(m)'
    <3>1. UNCHANGED <<bookVars, settlement>>
      BY <2>1 DEF UpdateMarketStatus
    <3>2. marketStatus[n] # "settled" /\ to # "settled"
      BY <2>1 DEF UpdateMarketStatus, CanTransition
    <3>3. marketStatus' = [marketStatus EXCEPT ![n] = to]
      BY <2>1 DEF UpdateMarketStatus
    <3>4. marketStatus \in [Markets -> MarketStatuses]
      BY DEF TypeOK
    <3>5. marketStatus'[m] = "settled" <=> marketStatus[m] = "settled"
      BY <3>2, <3>3, <3>4
    <3>6. QED
      BY <1>1, <3>1, <3>5 DEF Closed, OrdersOf, bookVars
  <2>2. ASSUME NEW e \in Events, NEW option \in Options, ResolveEvent(e, option)
        PROVE  Closed(m)'
    BY <1>2, <2>2 DEF ResolveEvent
  <2>3. QED
    BY <1>4, <2>1, <2>2 DEF Administration
<1>5. CASE PlaceAny
  <2> SUFFICES ASSUME NEW id \in OrderIds, NEW r \in Requests, Place(id, r)
               PROVE  Closed(m)'
    BY <1>5 DEF PlaceAny
  <2>1. UNCHANGED <<settlement, marketStatus>> /\ marketStatus[r.market] = "active"
    BY DEF Place, AcceptsOrders, marketVars
  <2>2. CASE m = r.market
    BY <1>1, <2>1, <2>2 DEF Closed
  <2>3. CASE m # r.market
    <3>1. /\ OrdersOf(m)' = OrdersOf(m)
          /\ \A i \in OrdersOf(m) : status'[i] = status[i]
      BY <2>3, PlaceElsewhere
    <3>2. QED
      BY <1>1, <2>1, <3>1 DEF Closed
  <2>4. QED
    BY <2>2, <2>3
<1>6. CASE CancelAny
  <2> SUFFICES ASSUME NEW j \in DOMAIN order, Cancel(j)
               PROVE  Closed(m)'
    BY <1>6 DEF CancelAny
  <2>1. /\ UNCHANGED <<order, settlement, marketStatus>>
        /\ status' = [status EXCEPT ![j] = "cancelled"]
    BY DEF Cancel, marketVars
  <2>2. OrdersOf(m)' = OrdersOf(m) /\ OrdersOf(m) \subseteq DOMAIN order
    BY <2>1 DEF OrdersOf
  <2>3. \A i \in DOMAIN order : status[i] \notin Open => status'[i] \notin Open
    BY <2>1 DEF TypeOK, Open
  <2>4. QED
    BY <1>1, <2>1, <2>2, <2>3 DEF Closed
<1>7. CASE SettleAny
  <2> SUFFICES ASSUME NEW n \in Markets, SettleMarket(n)
               PROVE  Closed(m)'
    BY <1>7 DEF SettleAny
  <2>1. /\ WinningOption(n) # Unresolved
        /\ settlement' = [settlement EXCEPT ![n] = WinningOption(n)]
        /\ marketStatus' = [marketStatus EXCEPT ![n] = "settled"]
    BY DEF SettleMarket
  <2>2. DOMAIN settlement = Markets /\ DOMAIN marketStatus = Markets
    BY DEF TypeOK
  <2>3. CASE m = n
    BY <2>1, <2>2, <2>3, SettleStatuses DEF Closed
  <2>4. CASE m # n
    <3>1. settlement'[m] = settlement[m] /\ marketStatus'[m] = marketStatus[m]
      BY <2>1, <2>2, <2>4
    <3>2. /\ OrdersOf(m)' = OrdersOf(m)
          /\ \A i \in OrdersOf(m) : status'[i] = status[i]
      BY <2>4, SettleStatuses
    <3>3. QED
      BY <1>1, <3>1, <3>2 DEF Closed
  <2>5. QED
    BY <2>3, <2>4
<1>8. CASE ReconcileScan \/ ReconcileRelease
  BY <1>2, <1>8 DEF ReconcileScan, ReconcileRelease
<1>9. CASE UNCHANGED vars
  BY <1>2, <1>9 DEF vars
<1>10. QED
  BY <1>3, <1>4, <1>5, <1>6, <1>7, <1>8, <1>9 DEF Next, Reconcile

\* Once a market is settled its status says so and it holds no open order,
\* although placements and cancellations race with the settlement.
THEOREM SettledMarketsClosed == Spec => []SettledMarketIsClosed
<1>1. Init => SettledMarketIsClosed
  BY DEF Init, SettledMarketIsClosed, OrdersOf
<1>2. QED
  BY <1>1, NextClosed, TypeCorrect, PTL DEF Spec

-----------------------------------------------------------------------------
(***************************************************************************)
(* Finality.                                                               *)
(***************************************************************************)
\* What a step must leave of market m once it is settled.
Final(m) ==
    /\ settlement'[m] = settlement[m]
    /\ OrdersOf(m)' = OrdersOf(m)
    /\ \A i \in OrdersOf(m) :
          /\ status'[i] = status[i]
          /\ filled'[i] = filled[i]
          /\ i \in DOMAIN payouts' <=> i \in DOMAIN payouts
          /\ i \in DOMAIN payouts => payouts'[i] = payouts[i]

FinalStep == \A m \in Markets : settlement[m] # Unresolved => Final(m)

LEMMA NextFinal ==
    TypeOK /\ SettledMarketIsClosed /\ [Next]_vars => [FinalStep]_vars
<1> SUFFICES ASSUME TypeOK, SettledMarketIsClosed, Next,
                    NEW m \in Markets, settlement[m] # Unresolved
             PROVE  Final(m)
  BY DEF FinalStep
<1>1. /\ marketStatus[m] = "settled"
      /\ \A i \in OrdersOf(m) : status[i] \notin Open
  BY DEF SettledMarketIsClosed
<1>2. ASSUME UNCHANGED <<order, status, filled, settlement, payouts>>
      PROVE  Final(m)
  BY <1>2 DEF Final, OrdersOf
<1>3. CASE Funding
  BY <1>2, <1>3 DEF Funding, CreateWallet, Credit, Debit, bookVars, marketVars
<1>4. CASE Administration
  BY <1>2, <1>4 DEF Administration, UpdateMarketStatus, ResolveEvent, bookVars, marketVars
<1>5. CASE PlaceAny
  <2> SUFFICES ASSUME NEW id \in OrderIds, NEW r \in Requests, Place(id, r)
               PROVE  Final(m)
    BY <1>5 DEF PlaceAny
  <2>1. UNCHANGED <<settlement, payouts>> /\ marketStatus[r.market] = "active"
    BY DEF Place, AcceptsOrders, marketVars
  <2>2. m # r.market
    BY <1>1, <2>1
  <2>3. QED
    BY <2>1, <2>2, PlaceElsewhere DEF Final
<1>6. CASE CancelAny
  <2> SUFFICES ASSUME NEW j \in DOMAIN order, Cancel(j)
               PROVE  Final(m)
    BY <1>6 DEF CancelAny
  <2>1. /\ UNCHANGED <<order, filled, settlement, payouts>>
        /\ status[j] \in Open
        /\ status' = [status EXCEPT ![j] = "cancelled"]
    BY DEF Cancel, marketVars
  <2>2. OrdersOf(m)' = OrdersOf(m) /\ OrdersOf(m) \subseteq DOMAIN order
    BY <2>1 DEF OrdersOf
  <2>3. j \notin OrdersOf(m)
    BY <1>1, <2>1
  <2>4. \A i \in OrdersOf(m) : status'[i] = status[i]
    BY <2>1, <2>2, <2>3 DEF TypeOK
  <2>5. QED
    BY <2>1, <2>2, <2>4 DEF Final
<1>7. CASE SettleAny
  <2> SUFFICES ASSUME NEW n \in Markets, SettleMarket(n)
               PROVE  Final(m)
    BY <1>7 DEF SettleAny
  <2> DEFINE settled == {i \in OrdersOf(n) : filled[i] > 0}
             row(i) == [stake |-> Stake(i), payout |-> Payout(i, WinningOption(n))]
  <2>1. /\ UNCHANGED filled
        /\ settlement[n] = Unresolved
        /\ settlement' = [settlement EXCEPT ![n] = WinningOption(n)]
        /\ payouts' = [i \in DOMAIN payouts \cup settled |->
                          IF i \in settled THEN row(i) ELSE payouts[i]]
    BY DEF SettleMarket, Unsettled
  <2>2. m # n
    BY <2>1
  <2>3. settlement'[m] = settlement[m]
    BY <2>1, <2>2 DEF TypeOK
  <2>4. /\ OrdersOf(m)' = OrdersOf(m)
        /\ \A i \in OrdersOf(m) : status'[i] = status[i]
    BY <2>2, SettleStatuses
  <2>5. \A i \in OrdersOf(m) : i \notin settled
    BY <2>2 DEF OrdersOf
  <2> HIDE DEF settled, row
  <2>6. \A i \in OrdersOf(m) : /\ i \in DOMAIN payouts' <=> i \in DOMAIN payouts
                               /\ i \in DOMAIN payouts => payouts'[i] = payouts[i]
    BY <2>1, <2>5
  <2>7. QED
    BY <2>1, <2>3, <2>4, <2>6 DEF Final
<1>8. CASE ReconcileScan \/ ReconcileRelease
  BY <1>2, <1>8 DEF ReconcileScan, ReconcileRelease, bookVars, marketVars
<1>9. QED
  BY <1>3, <1>4, <1>5, <1>6, <1>7, <1>8 DEF Next, Reconcile

\* A settled market's winning option, orders and payouts never change, and no
\* order joins it: SettleEvent can be delivered any number of times.
THEOREM SettlementFinal == Spec => SettledIsFinal
<1>1. FinalStep <=> \A m \in Markets : settlement[m] # Unresolved =>
          /\ settlement'[m] = settlement[m]
          /\ OrdersOf(m)' = OrdersOf(m)
          /\ \A i \in OrdersOf(m) :
                /\ status'[i] = status[i]
                /\ filled'[i] = filled[i]
                /\ i \in DOMAIN payouts' <=> i \in DOMAIN payouts
                /\ i \in DOMAIN payouts => payouts'[i] = payouts[i]
  BY DEF FinalStep, Final
<1>2. QED
  BY <1>1, NextFinal, TypeCorrect, SettledMarketsClosed, PTL DEF Spec, SettledIsFinal

-----------------------------------------------------------------------------
(***************************************************************************)
(* Every order is paid once.  The invariant adds that a payout is only     *)
(* ever recorded for an order of a settled market, so that the orders a    *)
(* settlement pays have none yet.                                          *)
(***************************************************************************)
Paid(w) == {i \in DOMAIN payouts : WalletOf(order[i]) = w}

PaidOnceTo(w) ==
    /\ ledger[w]["bet"] = Total([i \in Paid(w) |-> payouts[i].stake])
    /\ ledger[w]["win"] = Total([i \in Paid(w) |-> payouts[i].payout])

PaidAreSettled == \A i \in DOMAIN payouts : settlement[order[i].market] # Unresolved

PaidInv == PaidOnce /\ PaidAreSettled

LEMMA PaidOnceByWallet == PaidOnce <=> \A w \in Wallets : PaidOnceTo(w)
BY DEF PaidOnce, PaidOnceTo, Paid

\* An action that adds no payout and no bet or win row.
LEMMA PaidKept ==
    ASSUME TypeOK, PaidInv, payouts' = payouts, settlement' = settlement,
           \A i \in DOMAIN order : order'[i] = order[i],
           \A w \in Wallets : /\ ledger'[w]["bet"] = ledger[w]["bet"]
                              /\ ledger'[w]["win"] = ledger[w]["win"]
    PROVE  PaidInv'
<1>1. DOMAIN payouts \subseteq DOMAIN order
  BY DEF TypeOK
<1>2. PaidAreSettled'
  BY <1>1 DEF PaidInv, PaidAreSettled
<1>3. ASSUME NEW w \in Wallets
      PROVE  PaidOnceTo(w)'
  <2>1. PaidOnceTo(w)
    BY PaidOnceByWallet DEF PaidInv
  <2>2. Paid(w)' = Paid(w)
    BY <1>1 DEF Paid, WalletOf
  <2>3. QED
    BY <2>1, <2>2 DEF PaidOnceTo
<1>4. PaidOnce'
  BY <1>3 DEF PaidOnce, PaidOnceTo, Paid
<1>5. QED
  BY <1>2, <1>4 DEF PaidInv

\* An order with nothing filled has neither a stake nor a payout.
LEMMA UnfilledIsFree ==
    ASSUME TypeOK, NEW i \in DOMAIN order, MatchedShares(i) = filled[i], filled[i] = 0,
           NEW option
    PROVE  Stake(i) = 0 /\ Payout(i, option) = 0
<1> DEFINE shares == [t \in TradesOf(i) |-> trades[t].shares]
           stakes == [t \in TradesOf(i) |->
                         StakeCents(order[i].side, trades[t].shares, trades[t].price)]
<1>1. TradesOf(i) \subseteq DOMAIN trades
  BY DEF TradesOf
<1>2. IsFiniteSet(TradesOf(i))
  BY <1>1, FiniteTables, FS_Subset
<1>3. \A t \in TradesOf(i) : trades[t].shares \in Nat /\ trades[t].price \in Prices
  BY <1>1 DEF TypeOK, TradeRow
<1>4. /\ DOMAIN shares = TradesOf(i)
      /\ \A t \in TradesOf(i) : shares[t] = trades[t].shares /\ shares[t] \in Nat
  BY <1>3
<1>5. Total(shares) = 0
  BY DEF MatchedShares
<1> HIDE DEF shares
<1>6. \A t \in TradesOf(i) : trades[t].shares = 0
  BY <1>2, <1>4, <1>5, TotalOfZeros
<1>7. order[i].side \in Sides
  BY OrderFields, RequestFields
<1>8. \A t \in TradesOf(i) :
          StakeCents(order[i].side, trades[t].shares, trades[t].price) = 0
  <2> SUFFICES ASSUME NEW t \in TradesOf(i)
               PROVE  StakeCents(order[i].side, trades[t].shares, trades[t].price) = 0
    OBVIOUS
  <2>1. StakeCents(order[i].side, 0, trades[t].price) = 0
    BY <1>3, <1>7, NoSharesNoStake
  <2>2. QED
    BY <1>6, <2>1
<1>9. DOMAIN stakes = TradesOf(i) /\ \A t \in TradesOf(i) : stakes[t] = 0
  BY <1>8
<1>10. Stake(i) = Total(stakes)
  BY DEF Stake
<1> HIDE DEF stakes
<1>11. Total(stakes) = 0
  BY <1>2, <1>9, TotalOfZeros
<1>12. Payout(i, option) = 0
  BY ScaleAssumption, NoSharesNoCents DEF Payout
<1>13. QED
  BY <1>10, <1>11, <1>12

\* h is g on P, and on F it is f, which is zero on the rest of S.
Completes(h, P, g, S, F, f) ==
    /\ IsFiniteSet(S) /\ IsFiniteSet(P)
    /\ F \subseteq S /\ P \cap F = {}
    /\ f \in [S -> Nat] /\ g \in [P -> Nat] /\ h \in [P \cup F -> Nat]
    /\ \A i \in S \ F : f[i] = 0
    /\ \A i \in P : h[i] = g[i]
    /\ \A i \in F : h[i] = f[i]

\* The payouts of the orders that were filled are those of all the orders.
LEMMA FilledTotal ==
    ASSUME NEW h, NEW P, NEW g, NEW S, NEW F, NEW f, Completes(h, P, g, S, F, f)
    PROVE  Total(h) = Total(g) + Total(f)
<1>1. IsFiniteSet(F) /\ IsFiniteSet(P \cup F)
  BY FS_Subset, FS_Union DEF Completes
<1>2. /\ DOMAIN h = P \cup F /\ h = [i \in P \cup F |-> h[i]]
      /\ \A i \in DOMAIN h : h[i] \in Int
  BY DEF Completes
<1>3. Total(h) = Total([i \in P |-> h[i]]) + Total([i \in F |-> h[i]])
  <2>1. P \cap F = {}
    BY DEF Completes
  <2>2. QED
    BY <1>1, <1>2, <2>1, TotalOfUnion
<1>4. [i \in P |-> h[i]] = g
  BY DEF Completes
<1>5. [i \in F |-> h[i]] = [i \in F |-> f[i]]
  BY DEF Completes
<1>6. Total([i \in F |-> f[i]]) = Total(f)
  <2>1. /\ IsFiniteSet(S) /\ F \in SUBSET S /\ f \in [S -> Nat]
        /\ \A i \in S \ F : f[i] = 0
    BY DEF Completes
  <2>2. QED
    BY <2>1, TotalOfRest
<1>7. QED
  BY <1>3, <1>4, <1>5, <1>6

\* What a settlement adds to the rows of one wallet.
LEMMA SettleColumns ==
    ASSUME TypeOK, NEW m \in Markets, SettleMarket(m), NEW w \in Wallets
    PROVE  LET paid   == Total([i \in OrdersIn(m, w) |-> Payout(i, WinningOption(m))])
               staked == Total([i \in OrdersIn(m, w) |-> Stake(i)])
           IN  /\ paid \in Nat /\ staked \in Nat
               /\ ledger'[w]["bet"] = ledger[w]["bet"] + staked
               /\ ledger'[w]["win"] = ledger[w]["win"] + paid
<1> DEFINE paid   == Total([i \in OrdersIn(m, w) |-> Payout(i, WinningOption(m))])
           staked == Total([i \in OrdersIn(m, w) |-> Stake(i)])
<1>1. staked \in Nat
  BY LockedUseSplits
<1>2. paid \in Nat
  BY PaidType
<1>3. ledger'[w] = Record(Record(ledger[w], "bet", staked), "win", paid)
  BY DEF SettleMarket
<1> HIDE DEF paid, staked
<1>4. ledger[w] \in [TxTypes -> Nat]
  BY DEF TypeOK
<1>5. /\ ledger'[w]["bet"] = ledger[w]["bet"] + staked
      /\ ledger'[w]["win"] = ledger[w]["win"] + paid
  BY <1>1, <1>2, <1>3, <1>4 DEF Record, TxTypes
<1>6. QED
  BY <1>1, <1>2, <1>5 DEF paid, staked

LEMMA SettlePaid ==
    ASSUME TypeOK, TypeOK', PaidInv, NEW m \in Markets, SettleMarket(m)
    PROVE  PaidInv'
<1> DEFINE option == WinningOption(m)
           settled == {i \in OrdersOf(m) : filled[i] > 0}
           row(i) == [stake |-> Stake(i), payout |-> Payout(i, option)]
<1>1. /\ order' = order /\ filled' = filled
      /\ settlement[m] = Unresolved
      /\ option # Unresolved
      /\ settlement' = [settlement EXCEPT ![m] = option]
      /\ payouts' = [i \in DOMAIN payouts \cup settled |->
                        IF i \in settled THEN row(i) ELSE payouts[i]]
      /\ \A i \in OrdersOf(m) : MatchedShares(i) = filled[i]
  BY DEF SettleMarket, Unsettled, Settleable
<1>2. /\ settled \subseteq OrdersOf(m)
      /\ \A i \in OrdersOf(m) : i \in DOMAIN order /\ order[i].market = m
  BY DEF OrdersOf
<1>3. \A i \in OrdersOf(m) : i \notin DOMAIN payouts
  BY <1>1, <1>2 DEF PaidInv, PaidAreSettled
<1>4. \A i \in OrdersOf(m) \ settled : Stake(i) = 0 /\ Payout(i, option) = 0
  <2> SUFFICES ASSUME NEW i \in OrdersOf(m), i \notin settled
               PROVE  Stake(i) = 0 /\ Payout(i, option) = 0
    OBVIOUS
  <2>1. i \in DOMAIN order /\ filled[i] \in Nat /\ ~ (filled[i] > 0)
    BY <1>2, OrderFields
  <2>2. filled[i] = 0
    BY <2>1
  <2>3. QED
    BY <1>1, <2>1, <2>2, UnfilledIsFree
<1>5. /\ DOMAIN payouts' = DOMAIN payouts \cup settled
      /\ \A i \in settled : payouts'[i].stake = Stake(i) /\ payouts'[i].payout = Payout(i, option)
      /\ \A i \in DOMAIN payouts : payouts'[i] = payouts[i]
  BY <1>1, <1>2, <1>3
<1> HIDE DEF settled, row
<1>6. PaidAreSettled'
  <2> SUFFICES ASSUME NEW i \in DOMAIN payouts'
               PROVE  settlement'[order[i].market] # Unresolved
    BY <1>1 DEF PaidAreSettled
  <2>1. settlement \in [Markets -> Options \cup {Unresolved}]
        /\ DOMAIN payouts \subseteq DOMAIN order
    BY DEF TypeOK
  <2>2. CASE i \in settled
    BY <1>1, <1>2, <2>1, <2>2
  <2>3. CASE i \in DOMAIN payouts
    <3>1. settlement[order[i].market] # Unresolved /\ order[i].market \in Markets
      BY <2>1, <2>3, OrderFields, RequestFields DEF PaidInv, PaidAreSettled
    <3>2. QED
      BY <1>1, <2>1, <3>1
  <2>4. QED
    BY <1>5, <2>2, <2>3
<1>7. ASSUME NEW w \in Wallets
      PROVE  PaidOnceTo(w)'
  <2> DEFINE S == OrdersIn(m, w)
             F == {i \in settled : WalletOf(order[i]) = w}
             P == Paid(w)
             stakes == [i \in S |-> Stake(i)]
             wins == [i \in S |-> Payout(i, option)]
             paidStakes == [i \in P |-> payouts[i].stake]
             paidWins == [i \in P |-> payouts[i].payout]
             nextStakes == [i \in P \cup F |-> payouts'[i].stake]
             nextWins == [i \in P \cup F |-> payouts'[i].payout]
  <2>1. S \subseteq DOMAIN order /\ F \subseteq S /\ P \subseteq DOMAIN order
    BY <1>2 DEF OrdersIn, Paid, TypeOK
  <2>2. IsFiniteSet(S) /\ IsFiniteSet(P)
    BY <2>1, FiniteTables, FS_Subset
  <2>3. P \cap F = {}
    BY <1>2, <1>3 DEF Paid
  <2>4. \A i \in S \ F : i \in OrdersOf(m) \ settled
    BY DEF OrdersIn
  <2>5. stakes \in [S -> Nat] /\ wins \in [S -> Nat]
    BY <2>1, StakeType, PayoutType
  <2>6. \A i \in P : payouts[i].stake \in Nat /\ payouts[i].payout \in Nat
    BY DEF Paid, TypeOK, PayoutRow
  <2>7. Paid(w)' = P \cup F
    BY <1>1, <1>5 DEF Paid
  <2>8. \A i \in P \cup F : payouts'[i].stake \in Nat /\ payouts'[i].payout \in Nat
    BY <2>7 DEF Paid, TypeOK, PayoutRow
  <2>9. \A i \in P : payouts'[i] = payouts[i]
    BY <1>5 DEF Paid
  <2>10. \A i \in F : payouts'[i].stake = Stake(i) /\ payouts'[i].payout = Payout(i, option)
    BY <1>5
  <2>11. /\ ledger[w]["bet"] = Total(paidStakes)
         /\ ledger[w]["win"] = Total(paidWins)
    BY PaidOnceByWallet DEF PaidInv, PaidOnceTo
  <2>12. /\ ledger'[w]["bet"] = ledger[w]["bet"] + Total(stakes)
         /\ ledger'[w]["win"] = ledger[w]["win"] + Total(wins)
    BY SettleColumns
  <2>13. /\ \A i \in S \ F : stakes[i] = 0 /\ wins[i] = 0
         /\ \A i \in F : i \in S /\ stakes[i] = Stake(i) /\ wins[i] = Payout(i, option)
    BY <1>4, <2>1, <2>4
  <2>14. /\ paidStakes \in [P -> Nat] /\ paidWins \in [P -> Nat]
         /\ nextStakes \in [P \cup F -> Nat] /\ nextWins \in [P \cup F -> Nat]
    BY <2>6, <2>8
  <2>15. /\ \A i \in P : nextStakes[i] = paidStakes[i] /\ nextWins[i] = paidWins[i]
         /\ \A i \in F : nextStakes[i] = stakes[i] /\ nextWins[i] = wins[i]
    BY <2>9, <2>10, <2>13
  <2>16. PaidOnceTo(w)' <=> /\ ledger'[w]["bet"] = Total(nextStakes)
                            /\ ledger'[w]["win"] = Total(nextWins)
    BY <2>7 DEF PaidOnceTo
  <2> HIDE DEF S, F, P, stakes, wins, paidStakes, paidWins, nextStakes, nextWins
  <2>17. Completes(nextStakes, P, paidStakes, S, F, stakes)
    BY <2>1, <2>2, <2>3, <2>5, <2>13, <2>14, <2>15 DEF Completes
  <2>18. Completes(nextWins, P, paidWins, S, F, wins)
    BY <2>1, <2>2, <2>3, <2>5, <2>13, <2>14, <2>15 DEF Completes
  <2>19. /\ Total(nextStakes) = Total(paidStakes) + Total(stakes)
         /\ Total(nextWins) = Total(paidWins) + Total(wins)
    BY <2>17, <2>18, FilledTotal
  <2>20. QED
    BY <2>11, <2>12, <2>16, <2>19
<1>8. PaidOnce'
  BY <1>7 DEF PaidOnce, PaidOnceTo, Paid
<1>9. QED
  BY <1>6, <1>8 DEF PaidInv

\* Rows of other types leave the bets and the wins of a wallet alone.
LEMMA OtherRows ==
    ASSUME TypeOK, Funding \/ ReconcileRelease, NEW w \in Wallets
    PROVE  ledger'[w]["bet"] = ledger[w]["bet"] /\ ledger'[w]["win"] = ledger[w]["win"]
<1>1. ledger \in [Wallets -> [TxTypes -> Nat]]
  BY DEF TypeOK
<1>2. ASSUME NEW v \in Wallets, CreateWallet(v)
      PROVE  ledger' = ledger
  BY <1>2 DEF CreateWallet
<1>3. ASSUME NEW v \in Wallets, NEW type \in {"credit", "debit"}, NEW amount,
             ledger' = [ledger EXCEPT ![v] = Record(@, type, amount)]
      PROVE  ledger'[w]["bet"] = ledger[w]["bet"] /\ ledger'[w]["win"] = ledger[w]["win"]
  <2>1. ledger'[w] = IF w = v THEN Record(ledger[w], type, amount) ELSE ledger[w]
    BY <1>1, <1>3
  <2>2. \A t \in {"bet", "win"} : Record(ledger[w], type, amount)[t] = ledger[w][t]
    BY <1>1 DEF Record, TxTypes
  <2>3. QED
    BY <2>1, <2>2
<1>4. CASE Funding
  BY <1>2, <1>3, <1>4 DEF Funding, Credit, Debit
<1>5. CASE ReconcileRelease
  BY <1>1, <1>5 DEF ReconcileRelease, Record, TxTypes
<1>6. QED
  BY <1>4, <1>5

LEMMA NextPaid == TypeOK /\ TypeOK' /\ PaidInv /\ [Next]_vars => PaidInv'
<1> SUFFICES ASSUME TypeOK, TypeOK', PaidInv, [Next]_vars
             PROVE  PaidInv'
  OBVIOUS
<1>1. CASE Funding
  <2>1. UNCHANGED <<order, payouts, settlement>>
    BY <1>1 DEF Funding, CreateWallet, Credit, Debit, bookVars, marketVars
  <2>2. QED
    BY <1>1, <2>1, OtherRows, PaidKept
<1>2. CASE Administration
  BY <1>2, PaidKept
     DEF Administration, UpdateMarketStatus, ResolveEvent, walletVars, bookVars, marketVars
<1>3. CASE PlaceAny
  <2> SUFFICES ASSUME NEW id \in OrderIds, NEW r \in Requests, Place(id, r)
               PROVE  PaidInv'
    BY <1>3 DEF PlaceAny
  <2>1. /\ UNCHANGED <<ledger, payouts, settlement>>
        /\ \A i \in DOMAIN order : order'[i] = order[i]
    BY DEF Place, Insert, marketVars
  <2>2. QED
    BY <2>1, PaidKept
<1>4. CASE CancelAny
  BY <1>4, PaidKept DEF CancelAny, Cancel, marketVars
<1>5. CASE SettleAny
  BY <1>5, SettlePaid DEF SettleAny
<1>6. CASE ReconcileScan
  BY <1>6, PaidKept DEF ReconcileScan, walletVars, bookVars, marketVars
<1>7. CASE ReconcileRelease
  <2>1. UNCHANGED <<order, payouts, settlement>>
    BY <1>7 DEF ReconcileRelease, bookVars, marketVars
  <2>2. QED
    BY <1>7, <2>1, OtherRows, PaidKept
<1>8. CASE UNCHANGED vars
  BY <1>8, PaidKept DEF vars, walletVars, bookVars, marketVars
<1>9. QED
  BY <1>1, <1>2, <1>3, <1>4, <1>5, <1>6, <1>7, <1>8 DEF Next, Reconcile

LEMMA InitPaid == Init => PaidInv
<1> SUFFICES ASSUME Init
             PROVE  PaidInv
  OBVIOUS
<1>1. DOMAIN payouts = {}
  BY DEF Init
<1>2. ASSUME NEW w \in Wallets
      PROVE  PaidOnceTo(w)
  <2> DEFINE f == [i \in Paid(w) |-> payouts[i].stake]
             g == [i \in Paid(w) |-> payouts[i].payout]
  <2>1. Paid(w) = {}
    BY <1>1 DEF Paid
  <2>2. DOMAIN f = {} /\ DOMAIN g = {}
    BY <2>1
  <2>3. PaidOnceTo(w) <=> ledger[w]["bet"] = Total(f) /\ ledger[w]["win"] = Total(g)
    BY DEF PaidOnceTo
  <2> HIDE DEF f, g
  <2>4. Total(f) = 0 /\ Total(g) = 0
    BY <2>2, FS_EmptySet, TotalOfZeros
  <2>5. ledger[w]["bet"] = 0 /\ ledger[w]["win"] = 0
    BY DEF Init, TxTypes
  <2>6. QED
    BY <2>3, <2>4, <2>5
<1>3. QED
  BY <1>1, <1>2, PaidOnceByWallet DEF PaidInv, PaidAreSettled

\* A wallet's bet and win rows are those of its settled orders, one of each,
\* however often SettleEvent is delivered and whatever happens around it.
THEOREM OrdersPaidOnce == Spec => []PaidOnce
<1>1. TypeOK /\ TypeOK' /\ PaidInv /\ [Next]_vars => PaidInv'
  BY NextPaid
<1>2. PaidInv => PaidOnce
  BY DEF PaidInv
<1>3. QED
  BY <1>1, <1>2, InitPaid, TypeCorrect, PTL DEF Spec

-----------------------------------------------------------------------------
(***************************************************************************)
(* Conservation.  In each currency the bets and the wins are equal in sum: *)
(* the pool check of the settlement transaction is on orders, and this is  *)
(* on wallets.  With the audit of each wallet nothing is left to create or *)
(* destroy money.                                                          *)
(***************************************************************************)
Column(c, type) == [u \in Users |-> ledger[<<u, c>>][type]]

PoolsCancel == \A c \in Currencies : Total(Column(c, "bet")) = Total(Column(c, "win"))

LEMMA ColumnType ==
    ASSUME TypeOK, NEW c \in Currencies, NEW type \in TxTypes
    PROVE  Column(c, type) \in [Users -> Nat]
<1>1. \A u \in Users : <<u, c>> \in Wallets
  BY DEF Wallets
<1>2. ledger \in [Wallets -> [TxTypes -> Nat]]
  BY DEF TypeOK
<1>3. \A u \in Users : ledger[<<u, c>>][type] \in Nat
  BY <1>1, <1>2
<1>4. QED
  BY <1>3 DEF Column

\* A number per order of a market, summed by wallet and then by user, is its
\* sum over the orders of the currency.
LEMMA MarketByUser ==
    ASSUME TypeOK, NEW m \in Markets, NEW c \in Currencies,
           NEW amount, \A i \in DOMAIN order : amount[i] \in Nat
    PROVE  Total([u \in Users |-> Total([i \in OrdersIn(m, <<u, c>>) |-> amount[i]])])
             = Total([i \in {i \in OrdersOf(m) : order[i].currency = c} |-> amount[i]])
<1> DEFINE S == {i \in OrdersOf(m) : order[i].currency = c}
           f == [i \in S |-> amount[i]]
           user == [i \in S |-> order[i].user]
<1>1. S \subseteq DOMAIN order
  BY DEF OrdersOf
<1>2. IsFiniteSet(S)
  BY <1>1, FiniteTables, FS_Subset
<1>3. f \in [S -> Nat] /\ user \in [S -> Users]
  BY <1>1, OrderFields, RequestFields
<1>4. \A u \in Users : [i \in OrdersIn(m, <<u, c>>) |-> amount[i]] = Part(f, S, user, u)
  <2> SUFFICES ASSUME NEW u \in Users
               PROVE  [i \in OrdersIn(m, <<u, c>>) |-> amount[i]] = Part(f, S, user, u)
    OBVIOUS
  <2>1. OrdersIn(m, <<u, c>>) = {i \in S : user[i] = u}
    BY DEF OrdersIn, WalletOf
  <2>2. \A i \in {j \in S : user[j] = u} : f[i] = amount[i]
    OBVIOUS
  <2> HIDE DEF f, user, S
  <2>3. QED
    BY <2>1, <2>2 DEF Part
<1> HIDE DEF S, f, user
<1>5. Total([u \in Users |-> Total(Part(f, S, user, u))]) = Total(f)
  BY <1>2, <1>3, ExchangeAssumption, TotalByKey
<1>6. [u \in Users |-> Total([i \in OrdersIn(m, <<u, c>>) |-> amount[i]])]
        = [u \in Users |-> Total(Part(f, S, user, u))]
  BY <1>4
<1>7. QED
  BY <1>5, <1>6 DEF f, S

LEMMA SettlePools ==
    ASSUME TypeOK, PoolsCancel, NEW m \in Markets, SettleMarket(m)
    PROVE  PoolsCancel'
<1> SUFFICES ASSUME NEW c \in Currencies
             PROVE  Total(Column(c, "bet")') = Total(Column(c, "win")')
  BY DEF PoolsCancel
<1> DEFINE option == WinningOption(m)
           S == {i \in OrdersOf(m) : order[i].currency = c}
           stake == [i \in DOMAIN order |-> Stake(i)]
           payout == [i \in DOMAIN order |-> Payout(i, option)]
           staked == [u \in Users |-> Total([i \in OrdersIn(m, <<u, c>>) |-> Stake(i)])]
           paid == [u \in Users |-> Total([i \in OrdersIn(m, <<u, c>>) |-> Payout(i, option)])]
<1>1. \A u \in Users : <<u, c>> \in Wallets
  BY DEF Wallets
<1>2. \A u \in Users :
          /\ staked[u] \in Nat /\ paid[u] \in Nat
          /\ ledger'[<<u, c>>]["bet"] = ledger[<<u, c>>]["bet"] + staked[u]
          /\ ledger'[<<u, c>>]["win"] = ledger[<<u, c>>]["win"] + paid[u]
  BY <1>1, SettleColumns
<1>3. \A i \in DOMAIN order : stake[i] \in Nat /\ payout[i] \in Nat
  BY StakeType, PayoutType
<1>4. \A w : OrdersIn(m, w) \subseteq DOMAIN order
  BY DEF OrdersIn, OrdersOf
<1>5. S \subseteq DOMAIN order
  BY DEF OrdersOf
<1>6. /\ \A u \in Users : [i \in OrdersIn(m, <<u, c>>) |-> Stake(i)]
                            = [i \in OrdersIn(m, <<u, c>>) |-> stake[i]]
      /\ \A u \in Users : [i \in OrdersIn(m, <<u, c>>) |-> Payout(i, option)]
                            = [i \in OrdersIn(m, <<u, c>>) |-> payout[i]]
  BY <1>4
<1>7. /\ staked = [u \in Users |-> Total([i \in OrdersIn(m, <<u, c>>) |-> stake[i]])]
      /\ paid = [u \in Users |-> Total([i \in OrdersIn(m, <<u, c>>) |-> payout[i]])]
  BY <1>6
<1>8. /\ [i \in S |-> Stake(i)] = [i \in S |-> stake[i]]
      /\ [i \in S |-> Payout(i, option)] = [i \in S |-> payout[i]]
  BY <1>5
<1>9. Total([i \in S |-> Stake(i)]) = Total([i \in S |-> Payout(i, option)])
  BY DEF SettleMarket, Settleable, PoolConserved
<1> HIDE DEF stake, payout
<1>10. Total(staked) = Total([i \in S |-> stake[i]])
  <2>1. \A i \in DOMAIN order : stake[i] \in Nat
    BY <1>3
  <2>2. Total([u \in Users |-> Total([i \in OrdersIn(m, <<u, c>>) |-> stake[i]])])
          = Total([i \in S |-> stake[i]])
    BY ONLY TypeOK, <2>1, MarketByUser
  <2> HIDE DEF staked, S
  <2>3. QED
    BY <1>7, <2>2
<1>11. Total(paid) = Total([i \in S |-> payout[i]])
  <2>1. \A i \in DOMAIN order : payout[i] \in Nat
    BY <1>3
  <2>2. Total([u \in Users |-> Total([i \in OrdersIn(m, <<u, c>>) |-> payout[i]])])
          = Total([i \in S |-> payout[i]])
    BY ONLY TypeOK, <2>1, MarketByUser
  <2> HIDE DEF paid, S
  <2>3. QED
    BY <1>7, <2>2
<1>12. Total(staked) = Total(paid)
  BY <1>8, <1>9, <1>10, <1>11
<1>13. staked \in [Users -> Nat] /\ paid \in [Users -> Nat]
  BY <1>2
<1>14. Column(c, "bet") \in [Users -> Nat] /\ Column(c, "win") \in [Users -> Nat]
  BY ColumnType DEF TxTypes
<1> HIDE DEF staked, paid, option, S
<1>15. /\ Column(c, "bet")' = [u \in Users |-> Column(c, "bet")[u] + staked[u]]
       /\ Column(c, "win")' = [u \in Users |-> Column(c, "win")[u] + paid[u]]
  BY <1>2 DEF Column
<1>16. Total(Column(c, "bet")') = Total(Column(c, "bet")) + Total(staked)
  BY <1>13, <1>14, <1>15, ExchangeAssumption, TotalOfSum
<1>17. Total(Column(c, "win")') = Total(Column(c, "win")) + Total(paid)
  BY <1>13, <1>14, <1>15, ExchangeAssumption, TotalOfSum
<1>18. QED
  BY <1>12, <1>16, <1>17 DEF PoolsCancel

\* Every other action leaves both columns alone.
LEMMA PoolsKept ==
    ASSUME PoolsCancel,
           \A w \in Wallets : /\ ledger'[w]["bet"] = ledger[w]["bet"]
                              /\ ledger'[w]["win"] = ledger[w]["win"]
    PROVE  PoolsCancel'
<1> SUFFICES ASSUME NEW c \in Currencies
             PROVE  Total(Column(c, "bet")') = Total(Column(c, "win")')
  BY DEF PoolsCancel
<1>1. \A u \in Users : <<u, c>> \in Wallets
  BY DEF Wallets
<1>2. Column(c, "bet")' = Column(c, "bet") /\ Column(c, "win")' = Column(c, "win")
  BY <1>1 DEF Column
<1>3. QED
  BY <1>2 DEF PoolsCancel

LEMMA NextPools == TypeOK /\ PoolsCancel /\ [Next]_vars => PoolsCancel'
<1> SUFFICES ASSUME TypeOK, PoolsCancel, [Next]_vars
             PROVE  PoolsCancel'
  OBVIOUS
<1>1. CASE Funding \/ ReconcileRelease
  BY <1>1, OtherRows, PoolsKept
<1>2. CASE SettleAny
  BY <1>2, SettlePools DEF SettleAny
<1>3. CASE Administration \/ PlaceAny \/ CancelAny \/ ReconcileScan \/ UNCHANGED vars
  <2>1. ledger' = ledger
    BY <1>3 DEF Administration, UpdateMarketStatus, ResolveEvent, PlaceAny, Place,
                CancelAny, Cancel, ReconcileScan, vars, walletVars
  <2>2. QED
    BY <2>1, PoolsKept
<1>4. QED
  BY <1>1, <1>2, <1>3 DEF Next, Reconcile

LEMMA InitPools == Init => PoolsCancel
<1> SUFFICES ASSUME Init, NEW c \in Currencies
             PROVE  Column(c, "bet") = Column(c, "win")
  BY DEF PoolsCancel
<1>1. \A u \in Users : <<u, c>> \in Wallets
  BY DEF Wallets
<1>2. QED
  BY <1>1 DEF Init, Column, TxTypes

\* Cancelling bets and wins, with the audit of each wallet, conserve money.
LEMMA AuditsConserve == TypeOK /\ WalletAudit /\ PoolsCancel => MoneyConserved
<1> SUFFICES ASSUME TypeOK, WalletAudit, PoolsCancel, NEW c \in Currencies
             PROVE  InCurrency(c, [w \in Wallets |->
                                      balance[w] + locked[w] + ledger[w]["debit"]])
                      = InCurrency(c, [w \in Wallets |-> ledger[w]["credit"]])
  BY DEF MoneyConserved
<1> DEFINE held == [u \in Users |->
                       balance[<<u, c>>] + locked[<<u, c>>] + ledger[<<u, c>>]["debit"]]
           credit == Column(c, "credit")
           bet == Column(c, "bet")
           win == Column(c, "win")
<1>1. \A u \in Users : <<u, c>> \in Wallets
  BY DEF Wallets
<1>2. /\ InCurrency(c, [w \in Wallets |-> balance[w] + locked[w] + ledger[w]["debit"]])
           = Total(held)
      /\ InCurrency(c, [w \in Wallets |-> ledger[w]["credit"]]) = Total(credit)
  BY <1>1 DEF InCurrency, Column
<1>3. credit \in [Users -> Nat] /\ bet \in [Users -> Nat] /\ win \in [Users -> Nat]
  BY ColumnType DEF TxTypes
<1>4. \A u \in Users : /\ balance[<<u, c>>] \in Nat /\ locked[<<u, c>>] \in Nat
                       /\ ledger[<<u, c>>]["debit"] \in Nat
  BY <1>1 DEF TypeOK, TxTypes
<1>5. held \in [Users -> Nat]
  BY <1>4
<1>6. \A u \in Users : held[u] + ledger[<<u, c>>]["bet"]
                         = ledger[<<u, c>>]["credit"] + ledger[<<u, c>>]["win"]
  BY <1>1 DEF WalletAudit
<1>7. \A u \in Users : held[u] + bet[u] = credit[u] + win[u]
  BY <1>6 DEF Column
<1>8. Total(bet) = Total(win)
  BY DEF PoolsCancel
<1> HIDE DEF held, credit, bet, win
<1>9. Total(held) \in Nat /\ Total(credit) \in Nat /\ Total(bet) \in Nat
  <2>1. \A f \in [Users -> Nat] : Total(f) \in Nat
    <3> SUFFICES ASSUME NEW f \in [Users -> Nat]
                 PROVE  Total(f) \in Nat
      OBVIOUS
    <3>1. DOMAIN f = Users /\ \A u \in Users : f[u] \in Int
      OBVIOUS
    <3>2. QED
      BY <3>1, ExchangeAssumption, TotalType
  <2>2. QED
    BY <1>3, <1>5, <2>1
<1>10. [u \in Users |-> held[u] + bet[u]] = [u \in Users |-> credit[u] + win[u]]
  BY <1>7
<1>11. Total([u \in Users |-> held[u] + bet[u]]) = Total(held) + Total(bet)
  BY <1>3, <1>5, ExchangeAssumption, TotalOfSum
<1>12. Total([u \in Users |-> credit[u] + win[u]]) = Total(credit) + Total(win)
  BY <1>3, ExchangeAssumption, TotalOfSum
<1>13. QED
  BY <1>2, <1>8, <1>9, <1>10, <1>11, <1>12

\* In each currency the wallets hold what clients put in and left in:
\* matching, cancelling, settling and reconciling conserve money.
THEOREM MoneyIsConserved == Spec => []MoneyConserved
BY InitPools, NextPools, AuditsConserve, TypeCorrect, WalletsAudited, PTL DEF Spec
=============================================================================
