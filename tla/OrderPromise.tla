---------------------------- MODULE OrderPromise ----------------------------
(***************************************************************************)
(* What the order, wallet and settlement services promise about the rows:  *)
(* every request happens at one moment and wholly, whatever calls carry it *)
(* out and however often it is sent.  An order is a share at one price     *)
(* that takes one unit of collateral; prices, parts and rounding are in    *)
(* Exchange.                                                               *)
(***************************************************************************)
EXTENDS Naturals, FiniteSets, Sequences

CONSTANTS Users, Markets,
          Keys, NoKey,  \* idempotency keys of order requests, and none
          Wishes,       \* the requests a client may send under a key
          CreditKeys,   \* idempotency keys of credits
          CreditTo,     \* the user a credit is for
          Standing,     \* the orders there are at the start
          Funds         \* what every user has available at the start

Wish == [user : Users, side : {"buy", "sell"}, market : Markets]

ASSUME OrderPromiseAssumption ==
    /\ Wishes \in [Keys -> SUBSET Wish]
    /\ CreditTo \in [CreditKeys -> Users]
    /\ Funds \in Nat
    /\ NoKey \notin Keys
    /\ Standing \in Seq([key : Keys \cup {NoKey}, wish : Wish,
                         status : {"open", "filled", "cancelled"}])

VARIABLES orders,      \* in the order of their creation
          available,   \* wallets.balance
          held,        \* wallets.locked_balance
          markets,     \* markets.status
          credited,    \* keys of the credit transactions
          withdrawn    \* history: the orders cancelled on request

rows == <<orders, available, held, markets, credited, withdrawn>>

\* Orders that hold collateral until their market is settled.
Backed(i) == /\ orders[i].status \in {"open", "filled"}
             /\ markets[orders[i].wish.market] # "settled"

BackedBy(u) == {i \in DOMAIN orders : Backed(i) /\ orders[i].wish.user = u}

OrdersIn(m) == {i \in DOMAIN orders : orders[i].wish.market = m}

OrdersOf(u, m) == {i \in OrdersIn(m) : orders[i].wish.user = u}

RowsInit ==
    /\ orders = Standing
    /\ available = [u \in Users |-> Funds]
    /\ markets = [m \in Markets |-> "active"]
    /\ held = [u \in Users |-> Cardinality(BackedBy(u))]
    /\ credited = {}
    /\ withdrawn = {i \in DOMAIN Standing : Standing[i].status = "cancelled"}

Ordered(key) == \E i \in DOMAIN orders : orders[i].key = key

\* The open orders a wish can be matched with, the oldest first.
Makers(wish) == {i \in OrdersIn(wish.market) :
                    /\ orders[i].status = "open"
                    /\ orders[i].wish.side # wish.side
                    /\ orders[i].wish.user # wish.user}

\* No order.
Unmatched == 0

Oldest(S) == IF S = {} THEN Unmatched
             ELSE CHOOSE i \in S : \A j \in S : i <= j

Placed(key, wish, maker) ==
    /\ held' = [held EXCEPT ![wish.user] = @ + 1]
    /\ available' = [available EXCEPT ![wish.user] = @ - 1]
    /\ orders' = Append([i \in DOMAIN orders |->
                            IF i = maker THEN [orders[i] EXCEPT !.status = "filled"]
                            ELSE orders[i]],
                        [key |-> key, wish |-> wish,
                         status |-> IF maker = Unmatched THEN "open" ELSE "filled"])
    /\ UNCHANGED <<markets, credited, withdrawn>>

\* The wallet still has locked what a cancellation gives back.
Refundable(i) == held[orders[i].wish.user] > 0

Cancelled(i) ==
    /\ held' = [held EXCEPT ![orders[i].wish.user] = @ - 1]
    /\ available' = [available EXCEPT ![orders[i].wish.user] = @ + 1]
    /\ orders' = [orders EXCEPT ![i].status = "cancelled"]
    /\ withdrawn' = withdrawn \cup {i}
    /\ UNCHANGED <<markets, credited>>

Filled(m) == {i \in OrdersIn(m) : orders[i].status = "filled"}

\* The payouts are the stakes, and every wallet has locked what the settlement
\* takes of it: for each order of the market, also for a cancelled one, which
\* has nothing locked any more.
Payable(m, winner) ==
    /\ Cardinality(Filled(m)) = 2 * Cardinality({i \in Filled(m) : orders[i].wish.side = winner})
    /\ \A u \in Users : Cardinality(OrdersOf(u, m)) <= held[u]

\* What is not filled is given back, again if the order was cancelled before;
\* a winning order is paid two for one.
Settled(m, winner) ==
    LET returned(i) == IF orders[i].status # "filled" THEN 1
                       ELSE IF orders[i].wish.side = winner THEN 2 ELSE 0
        paid(u) == Cardinality({p \in OrdersOf(u, m) \X (1 .. 2) : p[2] <= returned(p[1])})
    IN  /\ markets' = [markets EXCEPT ![m] = "settled"]
        /\ available' = [u \in Users |-> available[u] + paid(u)]
        /\ held' = [u \in Users |-> held[u] - Cardinality(OrdersOf(u, m))]
        /\ orders' = [i \in DOMAIN orders |->
                         IF i \in OrdersIn(m) /\ orders[i].status = "open"
                         THEN [orders[i] EXCEPT !.status = "cancelled"]
                         ELSE orders[i]]
        /\ UNCHANGED <<credited, withdrawn>>

Credited(key) ==
    /\ credited' = credited \cup {key}
    /\ available' = [available EXCEPT ![CreditTo[key]] = @ + 1]
    /\ UNCHANGED <<orders, held, markets, withdrawn>>

Closed(m) == /\ markets' = [markets EXCEPT ![m] = "closed"]
             /\ UNCHANGED <<orders, available, held, credited, withdrawn>>

-----------------------------------------------------------------------------
Place(key, wish) ==
    /\ ~ Ordered(key)
    /\ markets[wish.market] = "active"
    /\ available[wish.user] > 0
    /\ Placed(key, wish, Oldest(Makers(wish)))

Cancel(i) == orders[i].status = "open" /\ Refundable(i) /\ Cancelled(i)

Settle(m) == /\ markets[m] # "settled"
             /\ \E winner \in {"buy", "sell"} : Payable(m, winner) /\ Settled(m, winner)

Credit(key) == key \notin credited /\ Credited(key)

Close(m) == markets[m] = "active" /\ Closed(m)

PromiseNext ==
    \/ \E key \in Keys : \E wish \in Wishes[key] : Place(key, wish)
    \/ \E i \in DOMAIN orders : Cancel(i)
    \/ \E m \in Markets : Settle(m) \/ Close(m)
    \/ \E key \in CreditKeys : Credit(key)

\* Order requests, cancellations, settlements and credits are sent by several
\* clients and replicas, time out, are sent again and run side by side.  The
\* rows change as if every one of them ran alone: an order is placed once for
\* its key and matched with the oldest order then open, a cancellation refunds
\* an order once, a credit is made once, a market is settled once, and a
\* refused or failed call changes nothing.  It is no promise that a settlement
\* leaves alone what a cancellation gave back: Settled does not.
KeepsOrderPromise == RowsInit /\ [][PromiseNext]_rows
=============================================================================
