--------------------------- MODULE OrderRequests ----------------------------
(***************************************************************************)
(* The calls behind OrderPromise, one step per statement: what a call      *)
(* looks up before its transaction, the rows the transaction locks one     *)
(* after the other and holds until it ends, and the commit, where what it  *)
(* wrote becomes visible.  A client may send a key again at any time, even *)
(* while an earlier call with it still runs.  Calls fail at any step, and  *)
(* PostgreSQL ends one of the transactions that wait for each other.       *)
(***************************************************************************)
EXTENDS OrderPromise

CONSTANTS Calls,         \* calls in progress at once
          WalletId,      \* the wallets' ids, as they are ordered
          NoWish,
          MaxSent,       \* bound: calls ever sent
          MaxFailures    \* bound: failed calls, crashed replicas

ASSUME OrderRequestsAssumption ==
    /\ IsFiniteSet(Calls)
    /\ WalletId \in [Users -> Nat]
    /\ \A u, w \in Users : WalletId[u] = WalletId[w] => u = w
    /\ MaxSent \in Nat /\ MaxFailures \in Nat

VARIABLES calls, sent, failures

orderVars == <<rows, calls, sent, failures>>

\* The rows a transaction locks.
MarketRow(m) == <<"market", m>>
WalletRow(u) == <<"wallet", u>>
OrderRow(i) == <<"order", i>>
KeyRow(key) == <<"key", key>>

NoCall == [at |-> "idle", key |-> NoKey, wish |-> NoWish, on |-> <<>>,
           maker |-> Unmatched, todo |-> {}, holds |-> {}]

OrdersInit == RowsInit /\ calls = [c \in Calls |-> NoCall] /\ sent = 0 /\ failures = 0

At(c, step) == calls[c].at = step
Goes(c, call) == calls' = [calls EXCEPT ![c] = call]

\* A call that ends rolls back, or has committed: its locks are free.
Answers(c) == Goes(c, NoCall)

\* A mutant: a refused transaction is left open.
RefusesOpen(c) == Goes(c, [calls[c] EXCEPT !.at = "refused", !.todo = {}])

Refuses(c) == Goes(c, [NoCall EXCEPT !.at = "refused"])

Sends(c, call) ==
    /\ calls[c].at \in {"idle", "refused"}
    /\ sent < MaxSent
    /\ sent' = sent + 1
    /\ Goes(c, call)
    /\ UNCHANGED <<rows, failures>>

Takes(c, step) == At(c, step) /\ UNCHANGED <<rows, sent, failures>>
Commits(c, step) == At(c, step) /\ calls[c].todo = {} /\ UNCHANGED <<sent, failures>>

\* Orders are locked before wallets, and wallets as their ids are sorted.  The
\* code sorts a book by price and time and a settlement's orders by id; either
\* transaction has the market row by then, so that one order stands for both.
LocksBefore(row, other) ==
    \/ row[1] = "order" /\ other[1] = "wallet"
    \/ row[1] = "order" /\ other[1] = "order" /\ row[2] < other[2]
    \/ row[1] = "wallet" /\ other[1] = "wallet" /\ WalletId[row[2]] < WalletId[other[2]]

\* A mutant: a market's wallets are locked as its orders name them.
NextAsNamed(c) ==
    LET owner(row) == CHOOSE i \in DOMAIN orders :
                        /\ orders[i].wish.user = row[2] /\ orders[i].wish.market = calls[c].on[2]
                        /\ \A j \in 1 .. i - 1 : \/ orders[j].wish.user # row[2]
                                                  \/ orders[j].wish.market # calls[c].on[2]
    IN  CHOOSE row \in calls[c].todo : \A other \in calls[c].todo \ {row} :
            IF row[1] = "wallet" THEN other[1] = "wallet" /\ owner(row) < owner(other)
            ELSE LocksBefore(row, other)

NextRow(c) == CHOOSE row \in calls[c].todo :
                  \A other \in calls[c].todo \ {row} : LocksBefore(row, other)

\* The calls that have the row the call needs next.
WaitsFor(c) == {d \in Calls \ {c} : calls[c].todo # {} /\ NextRow(c) \in calls[d].holds}

\* The call after the lock it waited for.
Locking(c, step) == Takes(c, step) /\ calls[c].todo # {} /\ WaitsFor(c) = {}
Having(c) == [calls[c] EXCEPT !.todo = @ \ {NextRow(c)}, !.holds = @ \cup {NextRow(c)}]

-----------------------------------------------------------------------------
(* Order requests                                                          *)

PlaceOrder(c, key, wish) ==
    Sends(c, [NoCall EXCEPT !.at = "look", !.key = key, !.wish = wish])

\* The order a key has is the answer, whatever the request says.
GetByIdempotency(c) ==
    /\ Takes(c, "look")
    /\ IF Ordered(calls[c].key) THEN Answers(c)
       ELSE Goes(c, [calls[c] EXCEPT !.at = "market"])

GetMarket(c) ==
    /\ Takes(c, "market")
    /\ IF markets[calls[c].wish.market] = "active"
       THEN Goes(c, [calls[c] EXCEPT !.at = "book",
                        !.todo = {MarketRow(calls[c].wish.market)}])
       ELSE Refuses(c)

\* The order book and the market's row.
LockBook(c) ==
    /\ Locking(c, "book")
    /\ IF markets[calls[c].wish.market] = "active"
       THEN Goes(c, [Having(c) EXCEPT !.at = "wallet",
                        !.todo = {WalletRow(calls[c].wish.user)}])
       ELSE Refuses(c)

lockOrderWallet(c) ==
    /\ Locking(c, "wallet")
    /\ IF available[calls[c].wish.user] > 0
       THEN Goes(c, [Having(c) EXCEPT !.at = "insert",
                        !.todo = {KeyRow(calls[c].key)}])
       ELSE Refuses(c)

OrderRows(S) == {OrderRow(i) : i \in S}

\* A mutant: the key is no unique index.
InsertAgain(c) ==
    /\ Locking(c, "insert")
    /\ Goes(c, [Having(c) EXCEPT !.at = "makers",
                        !.todo = OrderRows(Makers(calls[c].wish))])

\* The unique index waits for another transaction that inserts the same key.
insertOrder(c) ==
    /\ Locking(c, "insert")
    /\ IF Ordered(calls[c].key)
       THEN Goes(c, [NoCall EXCEPT !.at = "existing", !.key = calls[c].key])
       ELSE Goes(c, [Having(c) EXCEPT !.at = "makers",
                        !.todo = OrderRows(Makers(calls[c].wish))])

\* Every candidate is locked in turn and looked at again once it is.
queryMatchingOrders(c) ==
    /\ Locking(c, "makers")
    /\ LET i == NextRow(c)[2]
           call == Having(c)
       IN  Goes(c, IF call.maker = Unmatched /\ orders[i].status = "open"
                   THEN [call EXCEPT !.maker = i] ELSE call)

CommitPlacement(c) ==
    /\ Commits(c, "makers")
    /\ Placed(calls[c].key, calls[c].wish, calls[c].maker)
    /\ Answers(c)

idempotentExistingOrder(c) ==
    /\ Takes(c, "existing")
    /\ IF Ordered(calls[c].key) THEN Answers(c) ELSE Refuses(c)

-----------------------------------------------------------------------------
(* Cancellations, settlements and the rest                                 *)

CancelOrder(c, i) ==
    Sends(c, [NoCall EXCEPT !.at = "order", !.on = OrderRow(i),
                            !.todo = {OrderRow(i)}])

Refunding(c) == [Having(c) EXCEPT !.at = "refund",
                    !.todo = {WalletRow(orders[calls[c].on[2]].wish.user)}]

\* A mutant: the status was looked at before the lock.
LockOrderUnseen(c) == Locking(c, "order") /\ Goes(c, Refunding(c))

LockOrder(c) ==
    /\ Locking(c, "order")
    /\ IF orders[calls[c].on[2]].status = "open" THEN Goes(c, Refunding(c))
       ELSE Refuses(c)

\* The wallet's row, the refund and the commit; without enough locked, nothing.
CommitCancel(c) ==
    /\ At(c, "refund")
    /\ WaitsFor(c) = {}
    /\ \/ Refundable(calls[c].on[2]) /\ Cancelled(calls[c].on[2]) /\ Answers(c)
       \/ ~ Refundable(calls[c].on[2]) /\ UNCHANGED rows /\ Refuses(c)
    /\ UNCHANGED <<sent, failures>>

SettleCall(c, m) ==
    Sends(c, [NoCall EXCEPT !.at = "settle", !.on = MarketRow(m),
                            !.todo = {MarketRow(m)}])

\* The wallets of the market's orders.
lockSettlementWallets(m) == {WalletRow(orders[i].wish.user) : i \in OrdersIn(m)}

LockMarket(c) ==
    /\ Locking(c, "settle")
    /\ LET m == calls[c].on[2] IN
       IF markets[m] = "settled" THEN Answers(c)
       ELSE Goes(c, [Having(c) EXCEPT !.at = "rows",
                !.todo = OrderRows(OrdersIn(m)) \cup lockSettlementWallets(m)])

lockSettlementOrders(c) == Locking(c, "rows") /\ Goes(c, Having(c))

CommitSettlement(c) ==
    /\ Commits(c, "rows")
    /\ \E winner \in {"buy", "sell"} :
        \/ Payable(calls[c].on[2], winner) /\ Settled(calls[c].on[2], winner) /\ Answers(c)
        \/ ~ Payable(calls[c].on[2], winner) /\ UNCHANGED rows /\ Refuses(c)

Unlocked(row) == \A c \in Calls : row \notin calls[c].holds

\* One wallet is all a credit locks; a key it finds used ends it as a success.
CreditWallet(key) ==
    /\ Unlocked(WalletRow(CreditTo[key]))
    /\ key \notin credited
    /\ Credited(key)
    /\ UNCHANGED <<calls, sent, failures>>

CloseMarket(m) ==
    /\ Unlocked(MarketRow(m))
    /\ markets[m] = "active"
    /\ Closed(m)
    /\ UNCHANGED <<calls, sent, failures>>

-----------------------------------------------------------------------------
CallFails(c) ==
    /\ calls[c].at \notin {"idle", "refused"}
    /\ failures < MaxFailures
    /\ failures' = failures + 1
    /\ Answers(c)
    /\ UNCHANGED <<rows, sent>>

\* Calls that all wait for one another.
Cycle(S) == /\ S # {}
            /\ \A c \in S : WaitsFor(c) \cap S # {}
            /\ \A c \in S : \E d \in S : c \in WaitsFor(d)

DeadlockDetected(c) ==
    /\ \E S \in SUBSET Calls : c \in S /\ Cycle(S)
    /\ Answers(c)
    /\ UNCHANGED <<rows, sent, failures>>

OrderStep(c) ==
    \/ GetByIdempotency(c) \/ GetMarket(c) \/ LockBook(c) \/ lockOrderWallet(c)
    \/ insertOrder(c) \/ queryMatchingOrders(c) \/ CommitPlacement(c)
    \/ idempotentExistingOrder(c)
    \/ LockOrder(c) \/ CommitCancel(c)
    \/ LockMarket(c) \/ lockSettlementOrders(c) \/ CommitSettlement(c)

OrdersNext ==
    \/ \E c \in Calls :
        \/ \E key \in Keys : \E wish \in Wishes[key] : PlaceOrder(c, key, wish)
        \/ \E i \in DOMAIN orders : CancelOrder(c, i)
        \/ \E m \in Markets : SettleCall(c, m)
        \/ OrderStep(c) \/ CallFails(c) \/ DeadlockDetected(c)
    \/ \E key \in CreditKeys : CreditWallet(key)
    \/ \E m \in Markets : CloseMarket(m)

\* A call with nothing to wait for goes on, and PostgreSQL looks for cycles.
OrdersFairness ==
    /\ \A c \in Calls : WF_orderVars(OrderStep(c))
    /\ WF_orderVars(\E c \in Calls : DeadlockDetected(c))

OrdersSpec == OrdersInit /\ [][OrdersNext]_orderVars /\ OrdersFairness

-----------------------------------------------------------------------------
\* What a settlement took for orders that were cancelled before.
TakenAgain(u) == {i \in withdrawn : /\ orders[i].wish.user = u
                                    /\ markets[orders[i].wish.market] = "settled"}

\* A wallet's locked balance is what its orders back, whichever calls placed,
\* matched, cancelled and settled them: no collateral stays locked without an
\* order, and no order is refunded twice but by the settlement of a market it
\* had been cancelled in.  That one refund calculatePayouts makes again, out of
\* the collateral of the wallet's other orders, whose cancellations and
\* settlements are then refused.
CollateralIsBacked ==
    \A u \in Users : held[u] + Cardinality(TakenAgain(u)) = Cardinality(BackedBy(u))

\* Two settlements whose markets share users lock the same wallets.  They
\* sort them, so they never wait for each other: what PostgreSQL has to end
\* involves placements or cancellations, whose requests a client sends again.
SettlementsNeverDeadlock ==
    ~ \E S \in SUBSET {c \in Calls : calls[c].at \in {"settle", "rows"}} : Cycle(S)

\* Placements take the market, the wallet and then the orders, cancellations
\* the order and then the wallet: they can wait for each other.  Still every
\* call comes to its end, and with it the locks it holds.
CallsEnd == \A c \in Calls : calls[c].at \notin {"idle", "refused"}
                                ~> calls[c].at \in {"idle", "refused"}
=============================================================================
