--------------------------- MODULE RequestProofs ----------------------------
(***************************************************************************)
(* Requests on their way, for every instance of their constants: the calls *)
(* of OrderRequests carry out OrderPromise, in which collateral is backed, *)
(* and settlements lock in one order; a listing that is followed to its    *)
(* end is complete, and a report adds up.                                  *)
(***************************************************************************)
EXTENDS OrderRequests, Listings, StatsService, TotalsProofs, SequenceTheorems

-----------------------------------------------------------------------------
(***************************************************************************)
(* The rows and the calls.                                                 *)
(***************************************************************************)
OrderRec == [key : Keys \cup {NoKey}, wish : Wish,
             status : {"open", "filled", "cancelled"}]

RowsOK ==
    /\ orders \in Seq(OrderRec)
    /\ available \in [Users -> Int]
    /\ held \in [Users -> Int]
    /\ markets \in [Markets -> {"active", "closed", "settled"}]

\* Rows that are locked one after the other, in one order.
SortedRows == OrderRows(Nat) \cup {WalletRow(u) : u \in Users}

LockRows == SortedRows \cup {MarketRow(m) : m \in Markets} \cup {KeyRow(k) : k \in Keys}

\* Steps at which a call has no transaction.
Free == {"idle", "refused", "look", "market", "existing"}

Placing == {"look", "market", "book", "wallet", "insert", "makers"}

Steps == Free \cup Placing \cup {"order", "refund", "settle", "rows"}

CallRec == [at : Steps, key : Keys \cup {NoKey}, wish : Wish \cup {NoWish},
            on : LockRows \cup {<<>>}, maker : Nat,
            todo : SUBSET LockRows, holds : SUBSET LockRows]

\* What a placement has looked up holds until its transaction ends.
PlacingOK(k) ==
    /\ k.key \in Keys
    /\ k.wish \in Wishes[k.key]
    /\ k.at # "makers" => k.maker = Unmatched
    /\ k.at = "book" => k.holds = {} /\ k.todo = {MarketRow(k.wish.market)}
    /\ k.at = "wallet" => /\ k.holds = {MarketRow(k.wish.market)}
                          /\ k.todo = {WalletRow(k.wish.user)}
    /\ k.at = "insert" => /\ k.holds = {MarketRow(k.wish.market), WalletRow(k.wish.user)}
                          /\ k.todo = {KeyRow(k.key)}
    /\ k.at \in {"wallet", "insert", "makers"} => markets[k.wish.market] = "active"
    /\ k.at \in {"insert", "makers"} => available[k.wish.user] > 0

\* The orders a wish can be matched with, those that ceased to be open too.
Candidates(wish) == {i \in OrdersIn(wish.market) : /\ orders[i].wish.side # wish.side
                                                   /\ orders[i].wish.user # wish.user}

\* The candidates that were not looked at yet, and the one that was chosen.
MakersOK(k) ==
    /\ {MarketRow(k.wish.market), WalletRow(k.wish.user), KeyRow(k.key)} \subseteq k.holds
    /\ k.todo \subseteq OrderRows(Nat)
    /\ \A i \in Nat : OrderRow(i) \in k.todo => i \in Candidates(k.wish)
    /\ ~ Ordered(k.key)
    /\ \A i \in Makers(k.wish) :
          OrderRow(i) \in k.todo \/ (k.maker # Unmatched /\ k.maker <= i)
    /\ k.maker # Unmatched
          => /\ k.maker \in Makers(k.wish)
             /\ OrderRow(k.maker) \in k.holds
             /\ \A i \in Nat : OrderRow(i) \in k.todo => k.maker < i

CancelOK(k) ==
    \E i \in DOMAIN orders :
        /\ k.on = OrderRow(i)
        /\ k.at = "order" => k.holds = {} /\ k.todo = {OrderRow(i)}
        /\ k.at = "refund" => /\ k.holds = {OrderRow(i)}
                              /\ orders[i].status = "open"
                              /\ k.todo = {WalletRow(orders[i].wish.user)}

\* A settlement has locked, or is still to lock, all it changes.
SettleOK(k) ==
    \E m \in Markets :
        /\ k.on = MarketRow(m)
        /\ k.at = "settle" => k.holds = {} /\ k.todo = {MarketRow(m)}
        /\ k.at = "rows"
              => /\ MarketRow(m) \in k.holds
                 /\ markets[m] # "settled"
                 /\ k.todo \subseteq SortedRows
                 /\ k.holds \subseteq SortedRows \cup {MarketRow(m)}
                 /\ \A i \in OrdersIn(m) :
                       {OrderRow(i), WalletRow(orders[i].wish.user)} \subseteq k.holds \cup k.todo
                 /\ \A row \in k.holds \ {MarketRow(m)}, other \in k.todo : LocksBefore(row, other)

CallOK(k) ==
    /\ k.at \in Free => k.holds = {} /\ k.todo = {}
    /\ k.at \in Placing => PlacingOK(k)
    /\ k.at = "makers" => MakersOK(k)
    /\ k.at \in {"order", "refund"} => CancelOK(k)
    /\ k.at \in {"settle", "rows"} => SettleOK(k)

\* No two calls hold the same row.
LocksApart == \A c, d \in Calls : c # d => calls[c].holds \cap calls[d].holds = {}

RequestInv ==
    /\ RowsOK
    /\ calls \in [Calls -> CallRec]
    /\ \A c \in Calls : CallOK(calls[c])
    /\ LocksApart

-----------------------------------------------------------------------------
(***************************************************************************)
(* The rows a call locks.                                                  *)
(***************************************************************************)
LEMMA RowsDiffer ==
    /\ \A i, j \in Nat : OrderRow(i) = OrderRow(j) => i = j
    /\ \A u, w : WalletRow(u) = WalletRow(w) => u = w
    /\ \A m, n : MarketRow(m) = MarketRow(n) => m = n
    /\ \A k, l : KeyRow(k) = KeyRow(l) => k = l
    /\ \A i, u : OrderRow(i) # WalletRow(u)
    /\ \A i, m : OrderRow(i) # MarketRow(m)
    /\ \A i, k : OrderRow(i) # KeyRow(k)
    /\ \A u, m : WalletRow(u) # MarketRow(m)
    /\ \A u, k : WalletRow(u) # KeyRow(k)
    /\ \A m, k : MarketRow(m) # KeyRow(k)
BY DEF OrderRow, WalletRow, MarketRow, KeyRow

LEMMA SortedRowsOrder ==
    /\ \A i, j \in Nat : LocksBefore(OrderRow(i), OrderRow(j)) <=> i < j
    /\ \A i, u : LocksBefore(OrderRow(i), WalletRow(u))
    /\ \A i, u : ~ LocksBefore(WalletRow(u), OrderRow(i))
    /\ \A u, w : LocksBefore(WalletRow(u), WalletRow(w)) <=> WalletId[u] < WalletId[w]
BY DEF LocksBefore, OrderRow, WalletRow

\* The order is a strict total one, and every nonempty set has a first row.
LEMMA SortedRowsTotal ==
    /\ \A row \in SortedRows : ~ LocksBefore(row, row)
    /\ \A row, other \in SortedRows :
          row = other \/ LocksBefore(row, other) \/ LocksBefore(other, row)
    /\ \A row, other, third \in SortedRows :
          LocksBefore(row, other) /\ LocksBefore(other, third) => LocksBefore(row, third)
<1>1. \A row \in SortedRows : \/ \E i \in Nat : row = OrderRow(i)
                              \/ \E u \in Users : row = WalletRow(u)
  BY DEF SortedRows, OrderRows
<1>2. /\ \A u \in Users : WalletId[u] \in Nat
      /\ \A u, w \in Users : WalletId[u] = WalletId[w] => u = w
  BY OrderRequestsAssumption
<1>3. \A row \in SortedRows : ~ LocksBefore(row, row)
  BY <1>1, <1>2, SortedRowsOrder
<1>4. \A row, other \in SortedRows :
          row = other \/ LocksBefore(row, other) \/ LocksBefore(other, row)
  <2> SUFFICES ASSUME NEW row \in SortedRows, NEW other \in SortedRows
               PROVE  row = other \/ LocksBefore(row, other) \/ LocksBefore(other, row)
    OBVIOUS
  <2>1. CASE \E i \in Nat : row = OrderRow(i)
    BY <2>1, <1>1, SortedRowsOrder
  <2>2. CASE \E u \in Users : row = WalletRow(u)
    BY <2>2, <1>1, <1>2, SortedRowsOrder
  <2>3. QED
    BY <2>1, <2>2, <1>1
<1>5. ASSUME NEW row \in SortedRows, NEW other \in SortedRows, NEW third \in SortedRows,
             LocksBefore(row, other), LocksBefore(other, third)
      PROVE  LocksBefore(row, third)
  <2>1. CASE \E i \in Nat : row = OrderRow(i)
    <3>1. CASE \E u \in Users : third = WalletRow(u)
      BY <2>1, <3>1, SortedRowsOrder
    <3>2. CASE \E j \in Nat : third = OrderRow(j)
      BY <2>1, <3>2, <1>1, <1>5, SortedRowsOrder
    <3>3. QED
      BY <3>1, <3>2, <1>1
  <2>2. CASE \E u \in Users : row = WalletRow(u)
    BY <2>2, <1>1, <1>2, <1>5, SortedRowsOrder
  <2>3. QED
    BY <2>1, <2>2, <1>1
<1>6. QED
  BY <1>3, <1>4, <1>5

LEMMA FirstRowExists ==
    ASSUME NEW T \in SUBSET SortedRows, T # {}
    PROVE  \E row \in T : \A other \in T \ {row} : LocksBefore(row, other)
<1>1. CASE \E i \in Nat : OrderRow(i) \in T
  <2> DEFINE S == {i \in Nat : OrderRow(i) \in T}
  <2>1. PICK n \in S : \A k \in S : n <= k
    BY <1>1, LeastNumber
  <2>2. ASSUME NEW other \in T \ {OrderRow(n)}
        PROVE  LocksBefore(OrderRow(n), other)
    <3>1. CASE \E i \in Nat : other = OrderRow(i)
      BY <2>1, <2>2, <3>1, SortedRowsOrder
    <3>2. CASE \E u \in Users : other = WalletRow(u)
      BY <3>2, SortedRowsOrder
    <3>3. QED
      BY <3>1, <3>2 DEF SortedRows, OrderRows
  <2>3. QED
    BY <2>1, <2>2
<1>2. CASE ~ \E i \in Nat : OrderRow(i) \in T
  <2>1. \A row \in T : \E u \in Users : row = WalletRow(u)
    BY <1>2 DEF SortedRows, OrderRows
  <2>2. \A u \in Users : WalletId[u] \in Nat
    BY OrderRequestsAssumption
  <2> DEFINE S == {WalletId[u] : u \in {w \in Users : WalletRow(w) \in T}}
  <2>3. S \subseteq Nat /\ S # {}
    BY <2>1, <2>2
  <2>4. PICK n \in S : \A k \in S : n <= k
    <3> HIDE DEF S
    <3>1. QED
      BY <2>3, LeastNumber
  <2>5. PICK u \in Users : WalletRow(u) \in T /\ WalletId[u] = n
    OBVIOUS
  <2>6. ASSUME NEW other \in T \ {WalletRow(u)}
        PROVE  LocksBefore(WalletRow(u), other)
    <3>1. PICK w \in Users : other = WalletRow(w)
      BY <2>1, <2>6
    <3>2. WalletId[u] <= WalletId[w] /\ w # u
      BY <2>4, <2>5, <2>6, <3>1
    <3>3. WalletId[u] # WalletId[w]
      BY <3>2, OrderRequestsAssumption
    <3>4. QED
      BY <2>2, <3>1, <3>2, <3>3, SortedRowsOrder
  <2>7. QED
    BY <2>5, <2>6
<1>3. QED
  BY <1>1, <1>2

LEMMA NextRowIsFirst ==
    ASSUME RequestInv, NEW c \in Calls, calls[c].todo # {}
    PROVE  /\ NextRow(c) \in calls[c].todo
           /\ \A other \in calls[c].todo \ {NextRow(c)} : LocksBefore(NextRow(c), other)
<1> DEFINE k == calls[c]
<1>1. CallOK(k)
  BY DEF RequestInv
<1>2. (\E row : k.todo = {row}) \/ k.todo \subseteq SortedRows
  BY <1>1 DEF RequestInv, CallRec, CallOK, Steps, Free, Placing, PlacingOK, MakersOK, CancelOK, SettleOK, SortedRows,
              OrderRows
<1>3. \E row \in k.todo : \A other \in k.todo \ {row} : LocksBefore(row, other)
  BY <1>2, FirstRowExists
<1>4. QED
  BY <1>3 DEF NextRow

-----------------------------------------------------------------------------
(***************************************************************************)
(* What a step does to the rows, and what it leaves to the calls that hold *)
(* other rows.                                                             *)
(***************************************************************************)
\* The rows a call holds are kept as it found them; elsewhere orders come in
\* and cease to be open.
Keeps(k) ==
    /\ \A m \in Markets : MarketRow(m) \in k.holds
          => markets'[m] = markets[m] /\ OrdersIn(m)' = OrdersIn(m)
    /\ \A u \in Users : WalletRow(u) \in k.holds /\ available[u] > 0 => available'[u] > 0
    /\ \A key \in Keys : KeyRow(key) \in k.holds /\ ~ Ordered(key) => ~ Ordered(key)'
    /\ DOMAIN orders \subseteq DOMAIN orders'
    /\ \A i \in DOMAIN orders :
          /\ orders'[i].wish = orders[i].wish
          /\ OrderRow(i) \in k.holds => orders'[i] = orders[i]
          /\ orders'[i].status = "open" => orders[i].status = "open"

LEMMA OrderFacts ==
    ASSUME RowsOK, NEW i \in DOMAIN orders
    PROVE  /\ i \in Nat /\ i > 0
           /\ orders[i] \in OrderRec
           /\ orders[i].wish \in Wish
           /\ orders[i].wish.user \in Users
           /\ orders[i].wish.market \in Markets
<1>1. orders \in [1 .. Len(orders) -> OrderRec] /\ Len(orders) \in Nat
  BY DEF RowsOK
<1>2. i \in 1 .. Len(orders) /\ orders[i] \in OrderRec
  BY <1>1
<1>3. QED
  BY <1>1, <1>2 DEF OrderRec, Wish

LEMMA WishFacts ==
    ASSUME NEW key \in Keys, NEW wish \in Wishes[key]
    PROVE  wish \in Wish /\ wish.user \in Users /\ wish.market \in Markets
BY OrderPromiseAssumption DEF Wish

LEMMA KeptCall ==
    ASSUME RowsOK, NEW d, NEW k \in CallRec, calls'[d] = k, CallOK(k), Keeps(k)
    PROVE  CallOK(calls[d])'
<1>1. ASSUME k.at \in Placing
      PROVE  PlacingOK(calls[d])'
  <2>1. PlacingOK(k)
    BY <1>1 DEF CallOK
  <2>2. k.wish.user \in Users /\ k.wish.market \in Markets
    BY <2>1, WishFacts DEF PlacingOK
  <2>3. k.at \in {"wallet", "insert"} => MarketRow(k.wish.market) \in k.holds
    BY <2>1 DEF PlacingOK
  <2>4. k.at = "insert" => WalletRow(k.wish.user) \in k.holds
    BY <2>1 DEF PlacingOK
  <2>5. k.at = "makers" => /\ MarketRow(k.wish.market) \in k.holds
                           /\ WalletRow(k.wish.user) \in k.holds
    BY DEF CallOK, MakersOK
  <2>6. k.at \in {"wallet", "insert", "makers"} => markets'[k.wish.market] = "active"
    BY <2>1, <2>2, <2>3, <2>5 DEF Keeps, PlacingOK
  <2>7. k.at \in {"insert", "makers"} => available'[k.wish.user] > 0
    BY <2>1, <2>2, <2>4, <2>5 DEF Keeps, PlacingOK
  <2>8. QED
    BY <2>1, <2>6, <2>7 DEF PlacingOK
<1>2. ASSUME k.at = "makers"
      PROVE  MakersOK(calls[d])'
  <2>1. MakersOK(k) /\ PlacingOK(k)
    BY <1>2 DEF CallOK, Placing
  <2>2. k.wish.user \in Users /\ k.wish.market \in Markets /\ k.key \in Keys
    BY <2>1, WishFacts DEF PlacingOK
  <2>3. ~ Ordered(k.key)'
    BY <2>1, <2>2 DEF Keeps, MakersOK
  <2>4. Makers(k.wish)' \subseteq Makers(k.wish)
    <3>1. OrdersIn(k.wish.market)' = OrdersIn(k.wish.market)
      BY <2>1, <2>2 DEF Keeps, MakersOK
    <3>2. OrdersIn(k.wish.market) \subseteq DOMAIN orders
      BY DEF OrdersIn
    <3>3. QED
      BY <3>1, <3>2 DEF Makers, Keeps
  <2>5. k.maker # Unmatched => k.maker \in Makers(k.wish)'
    <3>1. OrdersIn(k.wish.market)' = OrdersIn(k.wish.market)
      BY <2>1, <2>2 DEF Keeps, MakersOK
    <3>2. k.maker # Unmatched => orders'[k.maker] = orders[k.maker]
      BY <2>1 DEF Keeps, MakersOK, Makers, OrdersIn
    <3>3. QED
      BY <2>1, <3>1, <3>2 DEF Makers, MakersOK
  <2>6. Candidates(k.wish)' = Candidates(k.wish)
    <3>1. OrdersIn(k.wish.market)' = OrdersIn(k.wish.market)
      BY <2>1, <2>2 DEF Keeps, MakersOK
    <3>2. OrdersIn(k.wish.market) \subseteq DOMAIN orders
      BY DEF OrdersIn
    <3>3. \A i \in DOMAIN orders : orders'[i].wish = orders[i].wish
      BY DEF Keeps
    <3>4. QED
      BY <3>1, <3>2, <3>3 DEF Candidates
  <2>7. QED
    BY <2>1, <2>3, <2>4, <2>5, <2>6 DEF MakersOK
<1>3. ASSUME k.at \in {"order", "refund"}
      PROVE  CancelOK(calls[d])'
  <2>1. PICK i \in DOMAIN orders :
            /\ k.on = OrderRow(i)
            /\ k.at = "order" => k.holds = {} /\ k.todo = {OrderRow(i)}
            /\ k.at = "refund" => /\ k.holds = {OrderRow(i)}
                                  /\ orders[i].status = "open"
                                  /\ k.todo = {WalletRow(orders[i].wish.user)}
    BY <1>3 DEF CallOK, CancelOK
  <2>2. i \in DOMAIN orders' /\ (k.at = "refund" => orders'[i] = orders[i])
    BY <2>1 DEF Keeps
  <2>3. QED
    BY <2>1, <2>2 DEF CancelOK
<1>4. ASSUME k.at \in {"settle", "rows"}
      PROVE  SettleOK(calls[d])'
  <2>1. PICK m \in Markets :
            /\ k.on = MarketRow(m)
            /\ k.at = "settle" => k.holds = {} /\ k.todo = {MarketRow(m)}
            /\ k.at = "rows"
                  => /\ MarketRow(m) \in k.holds
                     /\ markets[m] # "settled"
                     /\ k.todo \subseteq SortedRows
                     /\ k.holds \subseteq SortedRows \cup {MarketRow(m)}
                     /\ \A i \in OrdersIn(m) :
                           {OrderRow(i), WalletRow(orders[i].wish.user)} \subseteq k.holds \cup k.todo
                     /\ \A row \in k.holds \ {MarketRow(m)}, other \in k.todo :
                           LocksBefore(row, other)
    BY <1>4 DEF CallOK, SettleOK
  <2>2. k.at = "rows" => markets'[m] = markets[m] /\ OrdersIn(m)' = OrdersIn(m)
    BY <2>1 DEF Keeps
  <2>3. \A i \in OrdersIn(m) : orders'[i].wish = orders[i].wish
    BY DEF OrdersIn, Keeps
  <2>4. k.at = "rows" => \A i \in OrdersIn(m)' :
            {OrderRow(i), WalletRow(orders'[i].wish.user)} \subseteq k.holds \cup k.todo
    BY <2>1, <2>2, <2>3
  <2>5. QED
    BY <2>1, <2>2, <2>4 DEF SettleOK
<1>5. QED
  BY <1>1, <1>2, <1>3, <1>4 DEF CallOK

LEMMA RowsKept ==
    ASSUME UNCHANGED rows, RowsOK, NEW k
    PROVE  Keeps(k)
BY DEF rows, Keeps, OrdersIn, Ordered

\* One call goes on.
LEMMA CallStep ==
    ASSUME RequestInv, UNCHANGED rows, NEW c \in Calls, NEW k \in CallRec,
           Goes(c, k), CallOK(k),
           \A d \in Calls \ {c} : k.holds \cap calls[d].holds = {}
    PROVE  RequestInv'
<1>1. RowsOK'
  BY DEF RequestInv, RowsOK, rows
<1>2. calls' \in [Calls -> CallRec]
  BY DEF RequestInv, Goes
<1>3. calls'[c] = k /\ \A d \in Calls \ {c} : calls'[d] = calls[d]
  BY DEF RequestInv, Goes
<1>4. ASSUME NEW d \in Calls
      PROVE  CallOK(calls[d])'
  <2>1. CASE d = c
    BY <1>3, <2>1, KeptCall, RowsKept DEF RequestInv
  <2>2. CASE d # c
    BY <1>3, <2>2, KeptCall, RowsKept DEF RequestInv
  <2>3. QED
    BY <2>1, <2>2
<1>5. LocksApart'
  BY <1>3 DEF RequestInv, LocksApart
<1>6. QED
  BY <1>1, <1>2, <1>4, <1>5 DEF RequestInv

\* One call ends.
LEMMA CallEnds ==
    ASSUME RequestInv, RowsOK', NEW c \in Calls, Answers(c),
           \A d \in Calls \ {c} : Keeps(calls[d])
    PROVE  RequestInv'
<1>1. NoCall \in CallRec
  BY DEF NoCall, CallRec, Unmatched, Steps, Free
<1>2. calls' \in [Calls -> CallRec]
  BY <1>1 DEF RequestInv, Answers, Goes
<1>3. calls'[c] = NoCall /\ \A d \in Calls \ {c} : calls'[d] = calls[d]
  BY DEF RequestInv, Answers, Goes
<1>4. ASSUME NEW d \in Calls
      PROVE  CallOK(calls[d])'
  <2>1. CASE d = c
    BY <1>3, <2>1 DEF CallOK, NoCall, Free, Placing
  <2>2. CASE d # c
    BY <1>3, <2>2, KeptCall DEF RequestInv
  <2>3. QED
    BY <2>1, <2>2
<1>5. LocksApart'
  <2>1. NoCall.holds = {}
    BY DEF NoCall
  <2>2. QED
    BY <1>3, <2>1 DEF RequestInv, LocksApart
<1>6. QED
  BY <1>2, <1>4, <1>5 DEF RequestInv

\* A row of the tables changes that no call holds.
LEMMA RowChanges ==
    ASSUME RequestInv, RowsOK', UNCHANGED calls, \A d \in Calls : Keeps(calls[d])
    PROVE  RequestInv'
<1>1. ASSUME NEW d \in Calls
      PROVE  CallOK(calls[d])'
  BY KeptCall DEF RequestInv
<1>2. QED
  BY <1>1 DEF RequestInv, LocksApart

-----------------------------------------------------------------------------
(***************************************************************************)
(* The steps of the calls before their commits.                            *)
(***************************************************************************)
LEMMA AnswerStep ==
    ASSUME RequestInv, UNCHANGED rows, NEW c \in Calls, Answers(c)
    PROVE  RequestInv'
<1>1. RowsOK'
  BY DEF RequestInv, RowsOK, rows
<1>2. QED
  BY <1>1, CallEnds, RowsKept DEF RequestInv

\* A call at a step that has no transaction.
LEMMA FreeStep ==
    ASSUME RequestInv, UNCHANGED rows, NEW c \in Calls, NEW k \in CallRec, Goes(c, k),
           k.at \in Free, k.holds = {}, k.todo = {}, k.at \in Placing => PlacingOK(k)
    PROVE  RequestInv'
<1>1. CallOK(k)
  BY DEF CallOK, Free
<1>2. QED
  BY <1>1, CallStep

LEMMA RefuseStep ==
    ASSUME RequestInv, UNCHANGED rows, NEW c \in Calls, Refuses(c)
    PROVE  RequestInv'
<1> DEFINE k == [NoCall EXCEPT !.at = "refused"]
<1>1. /\ k \in CallRec /\ k.at = "refused" /\ k.holds = {} /\ k.todo = {}
  BY DEF NoCall, CallRec, Unmatched, Steps, Free
<1>2. k.at \in Free /\ k.at \notin Placing
  BY <1>1 DEF Free, Placing
<1>3. Goes(c, k)
  BY DEF Refuses
<1> HIDE DEF k
<1>4. QED
  BY <1>1, <1>2, <1>3, FreeStep

LEMMA PlaceOrderStep ==
    ASSUME RequestInv, NEW c \in Calls, NEW key \in Keys, NEW wish \in Wishes[key],
           PlaceOrder(c, key, wish)
    PROVE  RequestInv' /\ UNCHANGED rows
<1> DEFINE k == [NoCall EXCEPT !.at = "look", !.key = key, !.wish = wish]
<1>1. Goes(c, k) /\ UNCHANGED rows
  BY DEF PlaceOrder, Sends
<1>2. wish \in Wish
  BY WishFacts
<1>3. k \in CallRec
  BY <1>2 DEF NoCall, CallRec, Unmatched, Steps, Free
<1>4. /\ k.at = "look" /\ k.holds = {} /\ k.todo = {} /\ k.key = key /\ k.wish = wish
      /\ k.maker = Unmatched
  BY DEF NoCall
<1> HIDE DEF k
<1>5. PlacingOK(k) /\ k.at \in Free
  BY <1>4 DEF PlacingOK, Free
<1>6. QED
  BY <1>1, <1>3, <1>4, <1>5, FreeStep

LEMMA LookStep ==
    ASSUME RequestInv, NEW c \in Calls, GetByIdempotency(c)
    PROVE  RequestInv' /\ UNCHANGED rows
<1>1. UNCHANGED rows /\ calls[c].at = "look" /\ calls[c] \in CallRec /\ CallOK(calls[c])
  BY DEF GetByIdempotency, Takes, At, RequestInv
<1>2. CASE Answers(c)
  BY <1>1, <1>2, AnswerStep
<1> DEFINE k == [calls[c] EXCEPT !.at = "market"]
<1>3. CASE Goes(c, k)
  <2>1. k \in CallRec
    BY <1>1 DEF CallRec, Steps, Free
  <2>2. /\ k.at = "market" /\ k.holds = {} /\ k.todo = {} /\ k.maker = calls[c].maker
        /\ k.key = calls[c].key /\ k.wish = calls[c].wish
    BY <1>1 DEF CallRec, CallOK, Free
  <2>3. PlacingOK(calls[c])
    BY <1>1 DEF CallOK, Placing
  <2> HIDE DEF k
  <2>4. PlacingOK(k) /\ k.at \in Free
    BY <1>1, <2>2, <2>3 DEF PlacingOK, Free
  <2>5. QED
    BY <1>1, <1>3, <2>1, <2>2, <2>4, FreeStep
<1>4. QED
  BY <1>1, <1>2, <1>3 DEF GetByIdempotency

LEMMA MarketStep ==
    ASSUME RequestInv, NEW c \in Calls, GetMarket(c)
    PROVE  RequestInv' /\ UNCHANGED rows
<1>1. UNCHANGED rows /\ calls[c].at = "market" /\ calls[c] \in CallRec /\ CallOK(calls[c])
  BY DEF GetMarket, Takes, At, RequestInv
<1>2. CASE Refuses(c)
  BY <1>1, <1>2, RefuseStep
<1> DEFINE k == [calls[c] EXCEPT !.at = "book", !.todo = {MarketRow(calls[c].wish.market)}]
<1>3. CASE Goes(c, k)
  <2>1. PlacingOK(calls[c]) /\ calls[c].holds = {}
    BY <1>1 DEF CallOK, Placing, Free
  <2>2. calls[c].wish.market \in Markets
    BY <2>1, WishFacts DEF PlacingOK
  <2>3. {MarketRow(calls[c].wish.market)} \subseteq LockRows
    BY <2>2 DEF LockRows
  <2>4. k \in CallRec
    BY <1>1, <2>3 DEF CallRec, Steps, Placing
  <2>5. /\ k.at = "book" /\ k.holds = {} /\ k.todo = {MarketRow(k.wish.market)}
        /\ k.key = calls[c].key /\ k.wish = calls[c].wish /\ k.maker = calls[c].maker
    BY <1>1, <2>1 DEF CallRec
  <2> HIDE DEF k
  <2>6. PlacingOK(k)
    BY <1>1, <2>1, <2>5 DEF PlacingOK
  <2>7. CallOK(k)
    BY <2>5, <2>6 DEF CallOK, Free
  <2>8. QED
    BY <1>1, <1>3, <2>4, <2>5, <2>7, CallStep
<1>4. QED
  BY <1>1, <1>2, <1>3 DEF GetMarket

LEMMA LockTaken ==
    ASSUME RequestInv, NEW c \in Calls, NEW step, Locking(c, step)
    PROVE  /\ calls[c].at = step /\ UNCHANGED rows
           /\ calls[c] \in CallRec /\ CallOK(calls[c])
           /\ NextRow(c) \in calls[c].todo
           /\ Having(c) \in CallRec
           /\ Having(c).at = step
           /\ Having(c).key = calls[c].key /\ Having(c).wish = calls[c].wish
           /\ Having(c).on = calls[c].on /\ Having(c).maker = calls[c].maker
           /\ Having(c).todo = calls[c].todo \ {NextRow(c)}
           /\ Having(c).holds = calls[c].holds \cup {NextRow(c)}
           /\ \A d \in Calls \ {c} : Having(c).holds \cap calls[d].holds = {}
<1>1. calls[c].at = step /\ UNCHANGED rows /\ calls[c].todo # {} /\ WaitsFor(c) = {}
  BY DEF Locking, Takes, At
<1>2. calls[c] \in CallRec /\ CallOK(calls[c])
  BY DEF RequestInv
<1>3. NextRow(c) \in calls[c].todo
  BY <1>1, NextRowIsFirst
<1>4. Having(c) \in CallRec
  <2>1. NextRow(c) \in LockRows
    BY <1>2, <1>3 DEF CallRec
  <2>2. QED
    BY <1>2, <2>1 DEF CallRec, Having
<1>5. /\ Having(c).at = step
      /\ Having(c).key = calls[c].key /\ Having(c).wish = calls[c].wish
      /\ Having(c).on = calls[c].on /\ Having(c).maker = calls[c].maker
      /\ Having(c).todo = calls[c].todo \ {NextRow(c)}
      /\ Having(c).holds = calls[c].holds \cup {NextRow(c)}
  BY <1>1, <1>2 DEF CallRec, Having
<1>6. \A d \in Calls \ {c} : calls[c].holds \cap calls[d].holds = {}
  BY DEF RequestInv, LocksApart
<1>7. \A d \in Calls \ {c} : NextRow(c) \notin calls[d].holds
  BY <1>1 DEF WaitsFor
<1>8. QED
  BY <1>1, <1>2, <1>3, <1>4, <1>5, <1>6, <1>7

LEMMA BookStep ==
    ASSUME RequestInv, NEW c \in Calls, LockBook(c)
    PROVE  RequestInv' /\ UNCHANGED rows
<1>1. Locking(c, "book")
  BY DEF LockBook
<1> DEFINE was == calls[c]
           k == [Having(c) EXCEPT !.at = "wallet", !.todo = {WalletRow(was.wish.user)}]
<1>2. PlacingOK(was)
  BY <1>1, LockTaken DEF CallOK, Placing
<1>3. NextRow(c) = MarketRow(was.wish.market) /\ was.holds = {}
  BY <1>1, <1>2, LockTaken DEF PlacingOK
<1>4. CASE Refuses(c)
  BY <1>1, <1>4, LockTaken, RefuseStep
<1>5. CASE Goes(c, k) /\ markets[was.wish.market] = "active"
  <2>1. {WalletRow(was.wish.user)} \subseteq LockRows
    BY <1>2, WishFacts DEF PlacingOK, LockRows, SortedRows
  <2>2. k \in CallRec
    <3>1. Having(c) \in CallRec
      BY <1>1, LockTaken
    <3>2. QED
      BY <2>1, <3>1 DEF CallRec, Steps, Placing
  <2>3. /\ k.at = "wallet" /\ k.holds = Having(c).holds /\ k.todo = {WalletRow(k.wish.user)}
        /\ k.key = was.key /\ k.wish = was.wish /\ k.maker = Unmatched
    BY <1>1, <1>2, LockTaken DEF CallRec, PlacingOK
  <2>4. k.holds = {MarketRow(k.wish.market)}
    BY <1>1, <1>3, <2>3, LockTaken
  <2> HIDE DEF k
  <2>5. PlacingOK(k)
    BY <1>2, <1>5, <2>3, <2>4 DEF PlacingOK
  <2>6. CallOK(k)
    BY <2>3, <2>5 DEF CallOK, Free
  <2>7. QED
    BY <1>1, <1>5, <2>2, <2>3, <2>6, LockTaken, CallStep
<1>6. QED
  BY <1>1, <1>4, <1>5, LockTaken DEF LockBook

LEMMA WalletStep ==
    ASSUME RequestInv, NEW c \in Calls, lockOrderWallet(c)
    PROVE  RequestInv' /\ UNCHANGED rows
<1>1. Locking(c, "wallet")
  BY DEF lockOrderWallet
<1> DEFINE was == calls[c]
           k == [Having(c) EXCEPT !.at = "insert", !.todo = {KeyRow(was.key)}]
<1>2. PlacingOK(was)
  BY <1>1, LockTaken DEF CallOK, Placing
<1>3. /\ NextRow(c) = WalletRow(was.wish.user) /\ was.holds = {MarketRow(was.wish.market)}
      /\ markets[was.wish.market] = "active"
  BY <1>1, <1>2, LockTaken DEF PlacingOK
<1>4. CASE Refuses(c)
  BY <1>1, <1>4, LockTaken, RefuseStep
<1>5. CASE Goes(c, k) /\ available[was.wish.user] > 0
  <2>1. {KeyRow(was.key)} \subseteq LockRows
    BY <1>2 DEF PlacingOK, LockRows
  <2>2. k \in CallRec
    <3>1. Having(c) \in CallRec
      BY <1>1, LockTaken
    <3>2. QED
      BY <2>1, <3>1 DEF CallRec, Steps, Placing
  <2>3. /\ k.at = "insert" /\ k.holds = Having(c).holds /\ k.todo = {KeyRow(k.key)}
        /\ k.key = was.key /\ k.wish = was.wish /\ k.maker = Unmatched
    BY <1>1, <1>2, LockTaken DEF CallRec, PlacingOK
  <2>4. k.holds = {MarketRow(k.wish.market), WalletRow(k.wish.user)}
    BY <1>1, <1>3, <2>3, LockTaken
  <2> HIDE DEF k
  <2>5. PlacingOK(k)
    BY <1>2, <1>3, <1>5, <2>3, <2>4 DEF PlacingOK
  <2>6. CallOK(k)
    BY <2>3, <2>5 DEF CallOK, Free
  <2>7. QED
    BY <1>1, <1>5, <2>2, <2>3, <2>6, LockTaken, CallStep
<1>6. QED
  BY <1>1, <1>4, <1>5, LockTaken DEF lockOrderWallet

LEMMA InsertStep ==
    ASSUME RequestInv, NEW c \in Calls, insertOrder(c)
    PROVE  RequestInv' /\ UNCHANGED rows
<1>1. Locking(c, "insert")
  BY DEF insertOrder
<1> DEFINE was == calls[c]
           r == [NoCall EXCEPT !.at = "existing", !.key = was.key]
           k == [Having(c) EXCEPT !.at = "makers", !.todo = OrderRows(Makers(was.wish))]
<1>2. PlacingOK(was)
  BY <1>1, LockTaken DEF CallOK, Placing
<1>3. /\ NextRow(c) = KeyRow(was.key)
      /\ was.holds = {MarketRow(was.wish.market), WalletRow(was.wish.user)}
      /\ markets[was.wish.market] = "active" /\ available[was.wish.user] > 0
  BY <1>1, <1>2, LockTaken DEF PlacingOK
<1>4. CASE Goes(c, r)
  <2>1. r \in CallRec
    BY <1>2 DEF NoCall, CallRec, Unmatched, Steps, Free, PlacingOK
  <2>2. r.at = "existing" /\ r.holds = {} /\ r.todo = {}
    BY DEF NoCall
  <2> HIDE DEF r
  <2>3. r.at \in Free /\ r.at \notin Placing
    BY <2>2 DEF Free, Placing
  <2>4. QED
    BY <1>1, <1>4, <2>1, <2>2, <2>3, FreeStep, LockTaken
<1>5. CASE Goes(c, k) /\ ~ Ordered(was.key)
  <2>1. \A i \in Makers(was.wish) : i \in Nat /\ i > 0
    BY OrderFacts DEF Makers, OrdersIn, RequestInv
  <2>2. OrderRows(Makers(was.wish)) \subseteq OrderRows(Nat)
    BY <2>1 DEF OrderRows
  <2>3. OrderRows(Makers(was.wish)) \subseteq LockRows
    BY <2>2 DEF LockRows, SortedRows
  <2>4. k \in CallRec
    <3>1. Having(c) \in CallRec
      BY <1>1, LockTaken
    <3>2. QED
      BY <2>3, <3>1 DEF CallRec, Steps, Placing
  <2>5. /\ k.at = "makers" /\ k.holds = Having(c).holds
        /\ k.todo = OrderRows(Makers(k.wish))
        /\ k.key = was.key /\ k.wish = was.wish /\ k.maker = Unmatched
    BY <1>1, <1>2, LockTaken DEF CallRec, PlacingOK
  <2>6. k.holds = {MarketRow(k.wish.market), WalletRow(k.wish.user), KeyRow(k.key)}
    BY <1>1, <1>3, <2>5, LockTaken
  <2> HIDE DEF k
  <2>7. PlacingOK(k)
    BY <1>2, <1>3, <2>5 DEF PlacingOK
  <2>8. MakersOK(k)
    <3>1. /\ \A i \in Makers(k.wish) : OrderRow(i) \in k.todo
          /\ \A i \in Nat : OrderRow(i) \in k.todo => i \in Makers(k.wish)
      BY <2>1, <2>5, RowsDiffer DEF OrderRows
    <3> Makers(k.wish) \subseteq Candidates(k.wish)
      BY DEF Makers, Candidates
    <3>2. QED
      BY <1>5, <2>2, <2>5, <2>6, <3>1 DEF MakersOK
  <2>9. CallOK(k)
    BY <2>5, <2>7, <2>8 DEF CallOK, Free
  <2>10. QED
    BY <1>1, <1>5, <2>4, <2>5, <2>9, LockTaken, CallStep
<1>6. QED
  BY <1>1, <1>4, <1>5, LockTaken DEF insertOrder

\* Candidates are looked at one by one, the oldest first.
LEMMA CandidateStep ==
    ASSUME RequestInv, NEW c \in Calls, queryMatchingOrders(c)
    PROVE  RequestInv' /\ UNCHANGED rows
<1>1. Locking(c, "makers")
  BY DEF queryMatchingOrders
<1> DEFINE was == calls[c]
           i == NextRow(c)[2]
           chosen == was.maker = Unmatched /\ orders[i].status = "open"
           k == IF chosen THEN [Having(c) EXCEPT !.maker = i] ELSE Having(c)
<1>2. PlacingOK(was) /\ MakersOK(was)
  BY <1>1, LockTaken DEF CallOK, Placing
<1>3. i \in Nat /\ NextRow(c) = OrderRow(i) /\ OrderRow(i) \in was.todo
  BY <1>1, <1>2, LockTaken DEF MakersOK, OrderRows, OrderRow
<1>4. \A j \in Nat : OrderRow(j) \in was.todo => j = i \/ i < j
  <2> SUFFICES ASSUME NEW j \in Nat, OrderRow(j) \in was.todo, j # i
               PROVE  i < j
    OBVIOUS
  <2>1. OrderRow(j) # OrderRow(i)
    BY <1>3, RowsDiffer
  <2>2. LocksBefore(OrderRow(i), OrderRow(j))
    BY <1>1, <1>3, <2>1, NextRowIsFirst DEF Locking
  <2>3. QED
    BY <1>3, <2>2, SortedRowsOrder
<1>5. Goes(c, k)
  <2>1. Having(c).maker = was.maker
    BY <1>1, LockTaken
  <2>2. QED
    BY <2>1 DEF queryMatchingOrders
<1> DEFINE maker == IF chosen THEN i ELSE was.maker
<1>6. k \in CallRec
  <2>1. Having(c) \in CallRec
    BY <1>1, LockTaken
  <2>2. QED
    BY <1>3, <2>1 DEF CallRec
<1>7. /\ k.at = "makers" /\ k.key = was.key /\ k.wish = was.wish
      /\ k.holds = was.holds \cup {OrderRow(i)}
      /\ k.todo = was.todo \ {OrderRow(i)}
      /\ k.maker = maker
      /\ \A d \in Calls \ {c} : k.holds \cap calls[d].holds = {}
  <2>1. Having(c) \in CallRec
    BY <1>1, LockTaken
  <2>2. /\ k.at = Having(c).at /\ k.key = Having(c).key /\ k.wish = Having(c).wish
        /\ k.holds = Having(c).holds /\ k.todo = Having(c).todo
        /\ k.maker = IF chosen THEN i ELSE Having(c).maker
    BY <2>1 DEF CallRec
  <2> HIDE DEF k
  <2>3. QED
    BY <1>1, <1>3, <2>2, LockTaken
<1> HIDE DEF k
<1>8. PlacingOK(k)
  BY <1>1, <1>2, <1>7, LockTaken DEF PlacingOK
<1>9. \A j \in Makers(k.wish) : /\ j \in Nat /\ j > 0 /\ orders[j].status = "open"
  BY OrderFacts DEF Makers, OrdersIn, RequestInv
<1>10. \A j \in Nat : OrderRow(j) \in k.todo => i < j /\ OrderRow(j) \in was.todo
  BY <1>3, <1>4, <1>7
<1>11. k.maker # Unmatched
          => /\ k.maker \in Makers(k.wish)
             /\ OrderRow(k.maker) \in k.holds
             /\ \A j \in Nat : OrderRow(j) \in k.todo => k.maker < j
  <2>1. CASE chosen
    <3>1. i \in Candidates(k.wish) /\ orders[i].status = "open"
      BY <1>2, <1>3, <1>7, <2>1 DEF MakersOK
    <3>2. i \in Makers(k.wish)
      BY <3>1 DEF Makers, Candidates
    <3>3. QED
      BY <1>7, <1>10, <2>1, <3>2
  <2>2. CASE ~ chosen
    BY <1>2, <1>7, <1>10, <2>2 DEF MakersOK
  <2>3. QED
    BY <2>1, <2>2
<1>12. ASSUME NEW j \in Makers(k.wish)
       PROVE  OrderRow(j) \in k.todo \/ (k.maker # Unmatched /\ k.maker <= j)
  <2>1. CASE OrderRow(j) \in was.todo /\ j # i
    BY <1>3, <1>7, <1>9, <2>1, RowsDiffer
  <2>2. CASE OrderRow(j) \in was.todo /\ j = i
    <3>1. CASE chosen
      BY <1>3, <1>7, <1>9, <2>2, <3>1 DEF Unmatched
    <3>2. CASE ~ chosen
      <4>1. was.maker # Unmatched /\ was.maker \in Nat
        BY <1>1, <1>9, <2>2, <3>2, LockTaken DEF CallRec
      <4>2. was.maker < i
        BY <1>2, <1>3, <4>1 DEF MakersOK
      <4>3. QED
        BY <1>3, <1>7, <2>2, <3>2, <4>1, <4>2
    <3>3. QED
      BY <3>1, <3>2
  <2>3. CASE OrderRow(j) \notin was.todo
    BY <1>2, <1>7, <2>3 DEF MakersOK
  <2>4. QED
    BY <2>1, <2>2, <2>3
<1>13. MakersOK(k)
  BY <1>2, <1>7, <1>10, <1>11, <1>12 DEF MakersOK
<1>14. CallOK(k)
  BY <1>7, <1>8, <1>13 DEF CallOK, Free
<1>15. QED
  BY <1>1, <1>5, <1>6, <1>7, <1>14, LockTaken, CallStep

LEMMA ExistingStep ==
    ASSUME RequestInv, NEW c \in Calls, idempotentExistingOrder(c)
    PROVE  RequestInv' /\ UNCHANGED rows
BY AnswerStep, RefuseStep DEF idempotentExistingOrder, Takes

LEMMA CancelOrderStep ==
    ASSUME RequestInv, NEW c \in Calls, NEW i \in DOMAIN orders, CancelOrder(c, i)
    PROVE  RequestInv' /\ UNCHANGED rows
<1> DEFINE k == [NoCall EXCEPT !.at = "order", !.on = OrderRow(i), !.todo = {OrderRow(i)}]
<1>1. Goes(c, k) /\ UNCHANGED rows
  BY DEF CancelOrder, Sends
<1>2. i \in Nat
  BY OrderFacts DEF RequestInv
<1>3. OrderRow(i) \in LockRows
  BY <1>2 DEF LockRows, SortedRows, OrderRows
<1>4. k \in CallRec
  BY <1>3 DEF NoCall, CallRec, Unmatched, Steps, Free
<1>5. k.at = "order" /\ k.on = OrderRow(i) /\ k.holds = {} /\ k.todo = {OrderRow(i)}
  BY DEF NoCall
<1> HIDE DEF k
<1>6. CallOK(k)
  BY <1>5 DEF CallOK, CancelOK, Free, Placing
<1>7. QED
  BY <1>1, <1>4, <1>5, <1>6, CallStep

LEMMA OrderStepLocked ==
    ASSUME RequestInv, NEW c \in Calls, LockOrder(c)
    PROVE  RequestInv' /\ UNCHANGED rows
<1>1. Locking(c, "order")
  BY DEF LockOrder
<1>2. PICK i \in DOMAIN orders :
          calls[c].on = OrderRow(i) /\ calls[c].holds = {} /\ calls[c].todo = {OrderRow(i)}
  BY <1>1, LockTaken DEF CallOK, CancelOK
<1>3. NextRow(c) = OrderRow(i) /\ calls[c].on[2] = i
  BY <1>1, <1>2, LockTaken DEF OrderRow
<1>4. CASE Refuses(c)
  BY <1>1, <1>4, LockTaken, RefuseStep
<1> DEFINE k == Refunding(c)
<1>5. CASE Goes(c, k) /\ orders[i].status = "open"
  <2>1. Having(c) \in CallRec
    BY <1>1, LockTaken
  <2>2. {WalletRow(orders[i].wish.user)} \subseteq LockRows
    BY OrderFacts DEF LockRows, SortedRows, RequestInv
  <2>3. k = [Having(c) EXCEPT !.at = "refund", !.todo = {WalletRow(orders[i].wish.user)}]
    BY <1>3 DEF Refunding
  <2>4. k \in CallRec
    <3> DEFINE todo == {WalletRow(orders[i].wish.user)}
    <3>1. k = [Having(c) EXCEPT !.at = "refund", !.todo = todo] /\ todo \subseteq LockRows
      BY <2>2, <2>3
    <3> HIDE DEF todo, k
    <3>2. QED
      BY <2>1, <3>1 DEF CallRec, Steps
  <2>5. /\ k.at = "refund" /\ k.todo = {WalletRow(orders[i].wish.user)}
        /\ k.holds = Having(c).holds /\ k.on = Having(c).on
    BY <2>1, <2>3 DEF CallRec
  <2> HIDE DEF k
  <2>6. k.holds = {OrderRow(i)} /\ k.on = OrderRow(i)
    BY <1>1, <1>2, <1>3, <2>5, LockTaken
  <2>7. CallOK(k)
    BY <1>5, <2>5, <2>6 DEF CallOK, CancelOK, Free, Placing
  <2>8. QED
    BY <1>1, <1>5, <2>4, <2>5, <2>7, LockTaken, CallStep
<1>6. QED
  BY <1>1, <1>3, <1>4, <1>5, LockTaken DEF LockOrder

LEMMA SettleCallStep ==
    ASSUME RequestInv, NEW c \in Calls, NEW m \in Markets, SettleCall(c, m)
    PROVE  RequestInv' /\ UNCHANGED rows
<1> DEFINE k == [NoCall EXCEPT !.at = "settle", !.on = MarketRow(m), !.todo = {MarketRow(m)}]
<1>1. Goes(c, k) /\ UNCHANGED rows
  BY DEF SettleCall, Sends
<1>2. MarketRow(m) \in LockRows
  BY DEF LockRows
<1>3. k \in CallRec
  BY <1>2 DEF NoCall, CallRec, Unmatched, Steps, Free
<1>4. k.at = "settle" /\ k.on = MarketRow(m) /\ k.holds = {} /\ k.todo = {MarketRow(m)}
  BY DEF NoCall
<1> HIDE DEF k
<1>5. CallOK(k)
  BY <1>4 DEF CallOK, SettleOK, Free, Placing
<1>6. QED
  BY <1>1, <1>3, <1>4, <1>5, CallStep

LEMMA MarketLocked ==
    ASSUME RequestInv, NEW c \in Calls, LockMarket(c)
    PROVE  RequestInv' /\ UNCHANGED rows
<1>1. Locking(c, "settle")
  BY DEF LockMarket
<1>2. PICK m \in Markets :
          calls[c].on = MarketRow(m) /\ calls[c].holds = {} /\ calls[c].todo = {MarketRow(m)}
  BY <1>1, LockTaken DEF CallOK, SettleOK
<1>3. NextRow(c) = MarketRow(m) /\ calls[c].on[2] = m
  BY <1>1, <1>2, LockTaken DEF MarketRow
<1>4. CASE Answers(c)
  BY <1>1, <1>4, LockTaken, AnswerStep
<1> DEFINE all == OrderRows(OrdersIn(m)) \cup lockSettlementWallets(m)
           k == [Having(c) EXCEPT !.at = "rows", !.todo = all]
<1>5. CASE Goes(c, k) /\ markets[m] # "settled"
  <2>1. Having(c) \in CallRec
    BY <1>1, LockTaken
  <2>2. all \subseteq SortedRows
    <3>1. \A i \in OrdersIn(m) : i \in Nat /\ orders[i].wish.user \in Users
      BY OrderFacts DEF OrdersIn, RequestInv
    <3>2. QED
      BY <3>1 DEF SortedRows, OrderRows, lockSettlementWallets
  <2>3. \A i \in OrdersIn(m) : {OrderRow(i), WalletRow(orders[i].wish.user)} \subseteq all
    BY DEF OrderRows, lockSettlementWallets
  <2> HIDE DEF all
  <2>4. all \subseteq LockRows
    BY <2>2 DEF LockRows
  <2>5. k \in CallRec
    BY <2>1, <2>4 DEF CallRec, Steps
  <2>6. k.at = "rows" /\ k.todo = all /\ k.holds = Having(c).holds /\ k.on = Having(c).on
    BY <2>1 DEF CallRec
  <2> HIDE DEF k
  <2>7. k.holds = {MarketRow(m)} /\ k.on = MarketRow(m)
    BY <1>1, <1>2, <1>3, <2>6, LockTaken
  <2>8. CallOK(k)
    BY <1>5, <2>2, <2>3, <2>6, <2>7 DEF CallOK, SettleOK, Free, Placing
  <2>9. QED
    BY <1>1, <1>5, <2>5, <2>6, <2>8, LockTaken, CallStep
<1>6. QED
  BY <1>1, <1>3, <1>4, <1>5, LockTaken DEF LockMarket

\* What a settlement at "rows" has and still needs.
Settling(k, m) ==
    /\ k.on = MarketRow(m)
    /\ MarketRow(m) \in k.holds
    /\ markets[m] # "settled"
    /\ k.todo \subseteq SortedRows
    /\ k.holds \subseteq SortedRows \cup {MarketRow(m)}
    /\ \A i \in OrdersIn(m) :
          {OrderRow(i), WalletRow(orders[i].wish.user)} \subseteq k.holds \cup k.todo
    /\ \A row \in k.holds \ {MarketRow(m)}, other \in k.todo : LocksBefore(row, other)

LEMMA SettlingCall ==
    ASSUME NEW k, CallOK(k), k.at = "rows"
    PROVE  \E m \in Markets : Settling(k, m)
BY DEF CallOK, SettleOK, Settling

LEMMA SettlementRowsStep ==
    ASSUME RequestInv, NEW c \in Calls, lockSettlementOrders(c)
    PROVE  RequestInv' /\ UNCHANGED rows
<1>1. Locking(c, "rows") /\ Goes(c, Having(c))
  BY DEF lockSettlementOrders
<1> DEFINE was == calls[c]
           k == Having(c)
           row == NextRow(c)
<1>2. PICK m \in Markets : Settling(was, m)
  BY <1>1, LockTaken, SettlingCall
<1>3. /\ k \in CallRec /\ k.at = "rows" /\ k.on = was.on
      /\ k.holds = was.holds \cup {row} /\ k.todo = was.todo \ {row} /\ row \in was.todo
      /\ \A d \in Calls \ {c} : k.holds \cap calls[d].holds = {}
      /\ UNCHANGED rows
  BY <1>1, LockTaken
<1>4. \A other \in k.todo : LocksBefore(row, other)
  BY <1>1, <1>3, NextRowIsFirst DEF Locking
<1> HIDE DEF k, row
<1>5. Settling(k, m)
  <2>1. /\ k.on = MarketRow(m) /\ MarketRow(m) \in k.holds /\ markets[m] # "settled"
        /\ k.todo \subseteq SortedRows /\ k.holds \subseteq SortedRows \cup {MarketRow(m)}
    BY <1>2, <1>3 DEF Settling
  <2>2. k.holds \cup k.todo = was.holds \cup was.todo
    BY <1>3
  <2>3. \A first \in k.holds \ {MarketRow(m)}, other \in k.todo : LocksBefore(first, other)
    BY <1>2, <1>3, <1>4 DEF Settling
  <2>4. QED
    BY <1>2, <2>1, <2>2, <2>3 DEF Settling
<1>6. CallOK(k)
  BY <1>3, <1>5 DEF CallOK, SettleOK, Settling, Free, Placing
<1>7. QED
  BY <1>1, <1>3, <1>6, CallStep DEF k

-----------------------------------------------------------------------------
(***************************************************************************)
(* What the requests of the promise do to the rows.                        *)
(***************************************************************************)
LEMMA FunctionIsSeq ==
    ASSUME NEW S, NEW n \in Nat, NEW f \in [1 .. n -> S]
    PROVE  f \in Seq(S) /\ Len(f) = n /\ DOMAIN f = 1 .. n
<1>1. f \in Seq(S)
  BY SeqDef
<1>2. DOMAIN f = 1 .. Len(f) /\ Len(f) \in Nat
  BY <1>1, LenProperties
<1>3. 1 .. Len(f) = 1 .. n
  BY <1>2
<1>4. Len(f) = n
  <2>1. CASE n < Len(f)
    BY <1>2, <1>3, <2>1
  <2>2. CASE Len(f) < n
    BY <1>2, <1>3, <2>2
  <2>3. QED
    BY <1>2, <2>1, <2>2
<1>5. QED
  BY <1>1, <1>4

LEMMA NewStatus ==
    ASSUME NEW o \in OrderRec, NEW status \in {"open", "filled", "cancelled"}
    PROVE  /\ [o EXCEPT !.status = status] \in OrderRec
           /\ [o EXCEPT !.status = status].wish = o.wish
           /\ [o EXCEPT !.status = status].key = o.key
           /\ [o EXCEPT !.status = status].status = status
BY DEF OrderRec

LEMMA OrdersDomain ==
    ASSUME RowsOK
    PROVE  /\ Len(orders) \in Nat /\ DOMAIN orders = 1 .. Len(orders)
           /\ IsFiniteSet(DOMAIN orders)
<1>1. Len(orders) \in Nat /\ DOMAIN orders = 1 .. Len(orders)
  BY LenProperties DEF RowsOK
<1>2. QED
  BY <1>1, FS_Interval

LEMMA PlacedOrders ==
    ASSUME RowsOK, NEW key \in Keys, NEW wish \in Wish,
           NEW maker \in DOMAIN orders \cup {Unmatched}, Placed(key, wish, maker)
    PROVE  LET n == Len(orders) + 1 IN
           /\ orders' \in Seq(OrderRec)
           /\ DOMAIN orders' = DOMAIN orders \cup {n} /\ n \notin DOMAIN orders
           /\ \A i \in DOMAIN orders :
                 /\ orders'[i].wish = orders[i].wish /\ orders'[i].key = orders[i].key
                 /\ orders'[i].status = IF i = maker THEN "filled" ELSE orders[i].status
                 /\ i # maker => orders'[i] = orders[i]
           /\ orders'[n].key = key /\ orders'[n].wish = wish
           /\ orders'[n].status = IF maker = Unmatched THEN "open" ELSE "filled"
<1> DEFINE was == [i \in DOMAIN orders |->
                      IF i = maker THEN [orders[i] EXCEPT !.status = "filled"]
                      ELSE orders[i]]
           new == [key |-> key, wish |-> wish,
                   status |-> IF maker = Unmatched THEN "open" ELSE "filled"]
           n == Len(orders) + 1
<1>1. \A i \in DOMAIN orders : orders[i] \in OrderRec
  BY OrderFacts
<1>2. \A i \in DOMAIN orders :
        /\ was[i] \in OrderRec
        /\ was[i].wish = orders[i].wish /\ was[i].key = orders[i].key
        /\ was[i].status = IF i = maker THEN "filled" ELSE orders[i].status
        /\ i # maker => was[i] = orders[i]
  <2> SUFFICES ASSUME NEW i \in DOMAIN orders
               PROVE  /\ was[i] \in OrderRec
                      /\ was[i].wish = orders[i].wish /\ was[i].key = orders[i].key
                      /\ was[i].status = IF i = maker THEN "filled" ELSE orders[i].status
                      /\ i # maker => was[i] = orders[i]
    OBVIOUS
  <2> DEFINE o == orders[i]
             matched == [o EXCEPT !.status = "filled"]
  <2>1. matched \in OrderRec /\ matched.wish = o.wish /\ matched.key = o.key /\ matched.status = "filled"
    BY <1>1, NewStatus
  <2>2. was[i] = IF i = maker THEN matched ELSE o
    OBVIOUS
  <2> HIDE DEF matched, was
  <2>3. QED
    BY <1>1, <2>1, <2>2
<1>3. new \in OrderRec
  BY DEF OrderRec
<1>4. Len(orders) \in Nat /\ DOMAIN orders = 1 .. Len(orders)
  BY OrdersDomain
<1>5. was \in [1 .. Len(orders) -> OrderRec]
  BY <1>2, <1>4
<1>6. orders' = Append(was, new)
  BY DEF Placed
<1>7. new.key = key /\ new.wish = wish
      /\ new.status = IF maker = Unmatched THEN "open" ELSE "filled"
  OBVIOUS
<1> HIDE DEF was, new
<1>8. was \in Seq(OrderRec) /\ Len(was) = Len(orders)
  BY <1>4, <1>5, FunctionIsSeq
<1>9. /\ orders' \in Seq(OrderRec) /\ Len(orders') = n
      /\ \A i \in 1 .. Len(orders) : orders'[i] = was[i]
      /\ orders'[n] = new
  BY <1>3, <1>6, <1>8, AppendProperties
<1>10. DOMAIN orders' = 1 .. n
  BY <1>9, LenProperties
<1>11. DOMAIN orders' = DOMAIN orders \cup {n} /\ n \notin DOMAIN orders
  BY <1>4, <1>10
<1>12. QED
  BY <1>2, <1>4, <1>7, <1>9, <1>11

LEMMA PlacedRows ==
    ASSUME RowsOK, NEW key \in Keys, NEW wish \in Wish,
           NEW maker \in DOMAIN orders \cup {Unmatched}, Placed(key, wish, maker)
    PROVE  RowsOK'
<1>1. orders' \in Seq(OrderRec)
  BY PlacedOrders
<1>2. wish.user \in Users
  BY DEF Wish
<1>3. available' \in [Users -> Int] /\ held' \in [Users -> Int]
  BY <1>2 DEF RowsOK, Placed
<1>4. markets' = markets
  BY DEF Placed
<1>5. QED
  BY <1>1, <1>3, <1>4 DEF RowsOK

LEMMA CancelledOrders ==
    ASSUME RowsOK, NEW n \in DOMAIN orders, Cancelled(n)
    PROVE  /\ orders' \in Seq(OrderRec) /\ DOMAIN orders' = DOMAIN orders
           /\ \A i \in DOMAIN orders :
                 /\ orders'[i].wish = orders[i].wish /\ orders'[i].key = orders[i].key
                 /\ orders'[i].status = IF i = n THEN "cancelled" ELSE orders[i].status
                 /\ i # n => orders'[i] = orders[i]
<1>1. \A i \in DOMAIN orders : orders[i] \in OrderRec
  BY OrderFacts
<1>2. Len(orders) \in Nat /\ DOMAIN orders = 1 .. Len(orders)
  BY OrdersDomain
<1>3. orders' = [orders EXCEPT ![n] = [orders[n] EXCEPT !.status = "cancelled"]]
  BY DEF Cancelled
<1> DEFINE new == [orders[n] EXCEPT !.status = "cancelled"]
<1>4. new \in OrderRec /\ new.wish = orders[n].wish /\ new.key = orders[n].key
      /\ new.status = "cancelled"
  BY <1>1, NewStatus
<1> HIDE DEF new
<1>5. orders' = [orders EXCEPT ![n] = new]
  BY <1>3 DEF new
<1>6. orders \in Seq(OrderRec) /\ n \in 1 .. Len(orders)
  BY <1>2 DEF RowsOK
<1>7. orders' \in Seq(OrderRec) /\ Len(orders') = Len(orders)
      /\ \A i \in 1 .. Len(orders) : orders'[i] = IF i = n THEN new ELSE orders[i]
  BY <1>4, <1>5, <1>6, ExceptSeq
<1>8. DOMAIN orders' = DOMAIN orders
  BY <1>5
<1>9. QED
  BY <1>2, <1>4, <1>7, <1>8

LEMMA CancelledRows ==
    ASSUME RowsOK, NEW n \in DOMAIN orders, Cancelled(n)
    PROVE  RowsOK'
<1>1. orders' \in Seq(OrderRec)
  BY CancelledOrders
<1>2. orders[n].wish.user \in Users
  BY OrderFacts
<1>3. available' \in [Users -> Int] /\ held' \in [Users -> Int]
  BY <1>2 DEF RowsOK, Cancelled
<1>4. markets' = markets
  BY DEF Cancelled
<1>5. QED
  BY <1>1, <1>3, <1>4 DEF RowsOK

LEMMA SettledOrders ==
    ASSUME RowsOK, NEW m \in Markets, NEW winner, Settled(m, winner)
    PROVE  /\ orders' \in Seq(OrderRec) /\ DOMAIN orders' = DOMAIN orders
           /\ \A i \in DOMAIN orders :
                 /\ orders'[i].wish = orders[i].wish /\ orders'[i].key = orders[i].key
                 /\ orders'[i].status = IF i \in OrdersIn(m) /\ orders[i].status = "open"
                                        THEN "cancelled" ELSE orders[i].status
                 /\ i \notin OrdersIn(m) => orders'[i] = orders[i]
<1>1. \A i \in DOMAIN orders : orders[i] \in OrderRec
  BY OrderFacts
<1>2. Len(orders) \in Nat /\ DOMAIN orders = 1 .. Len(orders)
  BY OrdersDomain
<1>3. orders' = [i \in DOMAIN orders |->
                    IF i \in OrdersIn(m) /\ orders[i].status = "open"
                    THEN [orders[i] EXCEPT !.status = "cancelled"]
                    ELSE orders[i]]
  BY DEF Settled
<1>4. \A i \in DOMAIN orders :
         /\ orders'[i] \in OrderRec
         /\ orders'[i].wish = orders[i].wish /\ orders'[i].key = orders[i].key
         /\ orders'[i].status = IF i \in OrdersIn(m) /\ orders[i].status = "open"
                                THEN "cancelled" ELSE orders[i].status
         /\ i \notin OrdersIn(m) => orders'[i] = orders[i]
  <2> SUFFICES ASSUME NEW i \in DOMAIN orders
               PROVE  /\ orders'[i] \in OrderRec
                      /\ orders'[i].wish = orders[i].wish /\ orders'[i].key = orders[i].key
                      /\ orders'[i].status = IF i \in OrdersIn(m) /\ orders[i].status = "open"
                                             THEN "cancelled" ELSE orders[i].status
                      /\ i \notin OrdersIn(m) => orders'[i] = orders[i]
    OBVIOUS
  <2> DEFINE o == orders[i]
             new == [o EXCEPT !.status = "cancelled"]
  <2>1. new \in OrderRec /\ new.wish = o.wish /\ new.key = o.key /\ new.status = "cancelled"
    BY <1>1, NewStatus
  <2>2. orders'[i] = IF i \in OrdersIn(m) /\ orders[i].status = "open" THEN new ELSE o
    BY <1>3
  <2> HIDE DEF new
  <2>3. QED
    BY <1>1, <2>1, <2>2
<1>5. orders' \in [1 .. Len(orders) -> OrderRec] /\ DOMAIN orders' = DOMAIN orders
  BY <1>2, <1>3, <1>4
<1>6. orders' \in Seq(OrderRec)
  BY <1>2, <1>5, FunctionIsSeq
<1>7. QED
  BY <1>4, <1>5, <1>6

\* What a settlement pays a user.
PaidOut(m, winner, u) ==
    LET returned(i) == IF orders[i].status # "filled" THEN 1
                       ELSE IF orders[i].wish.side = winner THEN 2 ELSE 0
    IN  Cardinality({p \in OrdersOf(u, m) \X (1 .. 2) : p[2] <= returned(p[1])})

LEMMA SettledFields ==
    ASSUME NEW m, NEW winner, Settled(m, winner)
    PROVE  /\ markets' = [markets EXCEPT ![m] = "settled"]
           /\ available' = [u \in Users |-> available[u] + PaidOut(m, winner, u)]
           /\ held' = [u \in Users |-> held[u] - Cardinality(OrdersOf(u, m))]
           /\ UNCHANGED <<credited, withdrawn>>
BY DEF Settled, PaidOut

LEMMA SettledAmounts ==
    ASSUME RowsOK, NEW m, NEW winner, NEW u
    PROVE  /\ IsFiniteSet(OrdersOf(u, m)) /\ Cardinality(OrdersOf(u, m)) \in Nat
           /\ PaidOut(m, winner, u) \in Nat
<1>1. OrdersOf(u, m) \subseteq DOMAIN orders
  BY DEF OrdersOf, OrdersIn
<1>2. IsFiniteSet(OrdersOf(u, m)) /\ Cardinality(OrdersOf(u, m)) \in Nat
  BY <1>1, OrdersDomain, FS_Subset, FS_CardinalityType
<1> DEFINE returned(i) == IF orders[i].status # "filled" THEN 1
                          ELSE IF orders[i].wish.side = winner THEN 2 ELSE 0
           P == {p \in OrdersOf(u, m) \X (1 .. 2) : p[2] <= returned(p[1])}
<1>3. IsFiniteSet(OrdersOf(u, m) \X (1 .. 2))
  <2>1. IsFiniteSet(1 .. 2)
    <3>1. IsFiniteSet({1}) /\ IsFiniteSet({2})
      BY FS_Singleton
    <3>2. 1 .. 2 = {1} \cup {2}
      OBVIOUS
    <3>3. IsFiniteSet({1} \cup {2})
      BY <3>1, FS_Union
    <3>4. QED
      BY <3>2, <3>3
  <2>2. QED
    BY <1>2, <2>1, FS_Product
<1>4. IsFiniteSet(P)
  BY <1>3, FS_Subset
<1>5. Cardinality(P) \in Nat
  BY <1>4, FS_CardinalityType
<1>6. QED
  BY <1>2, <1>5 DEF PaidOut

LEMMA SettledRows ==
    ASSUME RowsOK, NEW m \in Markets, NEW winner, Settled(m, winner)
    PROVE  RowsOK'
<1>1. orders' \in Seq(OrderRec)
  BY SettledOrders
<1>2. \A u \in Users : /\ available[u] \in Int /\ held[u] \in Int
                       /\ PaidOut(m, winner, u) \in Nat /\ Cardinality(OrdersOf(u, m)) \in Nat
  BY SettledAmounts DEF RowsOK
<1>3. available' \in [Users -> Int] /\ held' \in [Users -> Int]
  BY <1>2, SettledFields
<1>4. markets' \in [Markets -> {"active", "closed", "settled"}]
  BY SettledFields DEF RowsOK
<1>5. QED
  BY <1>1, <1>3, <1>4 DEF RowsOK

-----------------------------------------------------------------------------
(***************************************************************************)
(* The commits.                                                            *)
(***************************************************************************)
\* The first of the makers is the one that was chosen.
LEMMA OldestIsChosen ==
    ASSUME RowsOK, NEW k \in CallRec, MakersOK(k), k.todo = {}
    PROVE  k.maker = Oldest(Makers(k.wish))
<1> DEFINE S == Makers(k.wish)
<1>1. \A i \in S : i \in Nat /\ i > 0
  BY OrderFacts DEF Makers, OrdersIn
<1>2. \A i \in S : k.maker # Unmatched /\ k.maker <= i
  BY DEF MakersOK
<1>3. k.maker # Unmatched => k.maker \in S
  BY DEF MakersOK
<1> HIDE DEF S
<1>4. CASE k.maker = Unmatched
  BY <1>2, <1>4 DEF Oldest, S
<1>5. CASE k.maker # Unmatched
  <2>1. \A i \in S : (\A j \in S : i <= j) => i = k.maker
    BY <1>1, <1>2, <1>3, <1>5
  <2>2. k.maker = CHOOSE i \in S : \A j \in S : i <= j
    BY <1>2, <1>3, <1>5, <2>1
  <2>3. QED
    BY <1>3, <1>5, <2>2 DEF Oldest, S
<1>6. QED
  BY <1>4, <1>5

LEMMA PlacedKeeps ==
    ASSUME RowsOK, NEW key \in Keys, NEW wish \in Wish,
           NEW maker \in DOMAIN orders \cup {Unmatched}, Placed(key, wish, maker),
           NEW k,
           MarketRow(wish.market) \notin k.holds, WalletRow(wish.user) \notin k.holds,
           KeyRow(key) \notin k.holds, maker # Unmatched => OrderRow(maker) \notin k.holds
    PROVE  Keeps(k)
<1> DEFINE n == Len(orders) + 1
<1>1. /\ DOMAIN orders' = DOMAIN orders \cup {n} /\ n \notin DOMAIN orders
      /\ \A i \in DOMAIN orders :
            /\ orders'[i].wish = orders[i].wish /\ orders'[i].key = orders[i].key
            /\ orders'[i].status = IF i = maker THEN "filled" ELSE orders[i].status
            /\ i # maker => orders'[i] = orders[i]
      /\ orders'[n].key = key /\ orders'[n].wish = wish
  BY PlacedOrders
<1> HIDE DEF n
<1>2. ASSUME NEW m \in Markets, MarketRow(m) \in k.holds
      PROVE  markets'[m] = markets[m] /\ OrdersIn(m)' = OrdersIn(m)
  <2>1. m # wish.market /\ markets' = markets
    BY <1>2 DEF Placed
  <2>2. QED
    BY <1>1, <2>1 DEF OrdersIn
<1>3. ASSUME NEW u \in Users, WalletRow(u) \in k.holds, available[u] > 0
      PROVE  available'[u] > 0
  <2>1. u # wish.user
    BY <1>3
  <2>2. QED
    BY <1>3, <2>1 DEF Placed, RowsOK
<1>4. ASSUME NEW other \in Keys, KeyRow(other) \in k.holds, ~ Ordered(other)
      PROVE  ~ Ordered(other)'
  <2>1. other # key
    BY <1>4
  <2>2. QED
    BY <1>1, <1>4, <2>1 DEF Ordered
<1>5. \A i \in DOMAIN orders :
         /\ orders'[i].wish = orders[i].wish
         /\ OrderRow(i) \in k.holds => orders'[i] = orders[i]
         /\ orders'[i].status = "open" => orders[i].status = "open"
  <2>1. \A i \in DOMAIN orders : i # Unmatched
    BY OrderFacts DEF Unmatched
  <2>2. QED
    BY <1>1, <2>1
<1>6. QED
  BY <1>1, <1>2, <1>3, <1>4, <1>5 DEF Keeps

LEMMA PlacementCommits ==
    ASSUME RequestInv, NEW c \in Calls, CommitPlacement(c)
    PROVE  RequestInv' /\ PromiseNext
<1> DEFINE k == calls[c]
<1>1. /\ k.at = "makers" /\ k.todo = {} /\ Placed(k.key, k.wish, k.maker) /\ Answers(c)
  BY DEF CommitPlacement, Commits, At
<1>2. k \in CallRec /\ PlacingOK(k) /\ MakersOK(k)
  BY <1>1 DEF RequestInv, CallOK, Placing
<1>3. k.key \in Keys /\ k.wish \in Wishes[k.key] /\ k.wish \in Wish
  BY <1>2, WishFacts DEF PlacingOK
<1>4. k.maker \in DOMAIN orders \cup {Unmatched}
  BY <1>2 DEF MakersOK, Makers, OrdersIn
<1>5. k.maker = Oldest(Makers(k.wish))
  BY <1>1, <1>2, OldestIsChosen DEF RequestInv
<1>6. ~ Ordered(k.key) /\ markets[k.wish.market] = "active" /\ available[k.wish.user] > 0
  BY <1>1, <1>2 DEF PlacingOK, MakersOK
<1>7. Place(k.key, k.wish)
  BY <1>1, <1>5, <1>6 DEF Place
<1>8. /\ {MarketRow(k.wish.market), WalletRow(k.wish.user), KeyRow(k.key)} \subseteq k.holds
      /\ k.maker # Unmatched => OrderRow(k.maker) \in k.holds
  BY <1>2 DEF MakersOK
<1>9. RowsOK'
  BY <1>1, <1>3, <1>4, PlacedRows DEF RequestInv
<1>10. ASSUME NEW d \in Calls \ {c}
       PROVE  Keeps(calls[d])
  <2>1. k.holds \cap calls[d].holds = {}
    BY DEF RequestInv, LocksApart
  <2>2. RowsOK
    BY DEF RequestInv
  <2> HIDE DEF k
  <2>3. QED
    BY <1>1, <1>3, <1>4, <1>8, <2>1, <2>2, PlacedKeeps
<1>11. RequestInv'
  BY <1>1, <1>9, <1>10, CallEnds
<1>12. QED
  BY <1>3, <1>7, <1>11 DEF PromiseNext

LEMMA CancelledKeeps ==
    ASSUME RowsOK, NEW n \in DOMAIN orders, Cancelled(n), NEW k,
           OrderRow(n) \notin k.holds, WalletRow(orders[n].wish.user) \notin k.holds
    PROVE  Keeps(k)
<1>1. /\ DOMAIN orders' = DOMAIN orders
      /\ \A i \in DOMAIN orders :
            /\ orders'[i].wish = orders[i].wish /\ orders'[i].key = orders[i].key
            /\ orders'[i].status = IF i = n THEN "cancelled" ELSE orders[i].status
            /\ i # n => orders'[i] = orders[i]
  BY CancelledOrders
<1>2. \A m : OrdersIn(m)' = OrdersIn(m)
  BY <1>1 DEF OrdersIn
<1>3. \A key : Ordered(key)' <=> Ordered(key)
  BY <1>1 DEF Ordered
<1>4. ASSUME NEW u \in Users, WalletRow(u) \in k.holds
      PROVE  available'[u] = available[u]
  <2>1. u # orders[n].wish.user
    BY <1>4
  <2>2. QED
    BY <2>1 DEF Cancelled, RowsOK
<1>5. markets' = markets
  BY DEF Cancelled
<1>6. QED
  BY <1>1, <1>2, <1>3, <1>4, <1>5 DEF Keeps

LEMMA CancellationCommits ==
    ASSUME RequestInv, NEW c \in Calls, CommitCancel(c)
    PROVE  RequestInv' /\ [PromiseNext]_rows
<1> DEFINE k == calls[c]
<1>1. k.at = "refund" /\ WaitsFor(c) = {}
  BY DEF CommitCancel, At
<1>2. PICK i \in DOMAIN orders :
          /\ k.on = OrderRow(i) /\ k.holds = {OrderRow(i)} /\ orders[i].status = "open"
          /\ k.todo = {WalletRow(orders[i].wish.user)}
  BY <1>1 DEF RequestInv, CallOK, CancelOK
<1>3. CASE Refundable(k.on[2]) /\ Cancelled(k.on[2]) /\ Answers(c)
  <2>1. Refundable(i) /\ Cancelled(i) /\ Answers(c)
    BY <1>2, <1>3 DEF OrderRow
  <2>2. NextRow(c) = WalletRow(orders[i].wish.user)
    BY <1>2, NextRowIsFirst
  <2>3. ASSUME NEW d \in Calls \ {c}
        PROVE  Keeps(calls[d])
    <3>1. k.holds \cap calls[d].holds = {}
      BY DEF RequestInv, LocksApart
    <3>2. WalletRow(orders[i].wish.user) \notin calls[d].holds
      BY <1>1, <1>2, <2>2 DEF WaitsFor
    <3>3. OrderRow(i) \notin calls[d].holds
      BY <1>2, <3>1
    <3>4. QED
      BY <2>1, <3>2, <3>3, CancelledKeeps DEF RequestInv
  <2>4. RowsOK'
    BY <2>1, CancelledRows DEF RequestInv
  <2>5. RequestInv'
    BY <2>1, <2>3, <2>4, CallEnds
  <2>6. QED
    BY <1>2, <2>1, <2>5 DEF Cancel, PromiseNext
<1>4. CASE UNCHANGED rows /\ Refuses(c)
  BY <1>4, RefuseStep
<1>5. QED
  BY <1>3, <1>4 DEF CommitCancel

LEMMA SettledKeeps ==
    ASSUME RowsOK, NEW m \in Markets, NEW winner, Settled(m, winner), NEW k,
           MarketRow(m) \notin k.holds,
           \A i \in OrdersIn(m) : OrderRow(i) \notin k.holds
    PROVE  Keeps(k)
<1>1. /\ DOMAIN orders' = DOMAIN orders
      /\ \A i \in DOMAIN orders :
            /\ orders'[i].wish = orders[i].wish /\ orders'[i].key = orders[i].key
            /\ orders'[i].status = IF i \in OrdersIn(m) /\ orders[i].status = "open"
                                   THEN "cancelled" ELSE orders[i].status
            /\ i \notin OrdersIn(m) => orders'[i] = orders[i]
  BY SettledOrders
<1>2. \A n : OrdersIn(n)' = OrdersIn(n)
  BY <1>1 DEF OrdersIn
<1>3. \A key : Ordered(key)' <=> Ordered(key)
  BY <1>1 DEF Ordered
<1>4. ASSUME NEW u \in Users, available[u] > 0
      PROVE  available'[u] > 0
  <2>1. PaidOut(m, winner, u) \in Nat /\ available[u] \in Int
    BY SettledAmounts DEF RowsOK
  <2>2. available'[u] = available[u] + PaidOut(m, winner, u)
    BY SettledFields
  <2>3. QED
    BY <1>4, <2>1, <2>2
<1>5. ASSUME NEW n \in Markets, MarketRow(n) \in k.holds
      PROVE  markets'[n] = markets[n]
  <2>1. n # m
    BY <1>5
  <2>2. QED
    BY <2>1, SettledFields DEF RowsOK
<1>6. QED
  BY <1>1, <1>2, <1>3, <1>4, <1>5 DEF Keeps

LEMMA SettlementCommits ==
    ASSUME RequestInv, NEW c \in Calls, CommitSettlement(c)
    PROVE  RequestInv' /\ [PromiseNext]_rows
<1> DEFINE k == calls[c]
<1>1. k.at = "rows" /\ k.todo = {}
  BY DEF CommitSettlement, Commits, At
<1>2. PICK m \in Markets : Settling(k, m)
  BY <1>1, SettlingCall DEF RequestInv
<1>3. k.on[2] = m
  BY <1>2 DEF Settling, MarketRow
<1>4. ASSUME NEW winner \in {"buy", "sell"}, Payable(m, winner), Settled(m, winner), Answers(c)
      PROVE  RequestInv' /\ PromiseNext
  <2>1. MarketRow(m) \in k.holds /\ markets[m] # "settled"
        /\ \A i \in OrdersIn(m) : OrderRow(i) \in k.holds
    BY <1>1, <1>2 DEF Settling
  <2>2. ASSUME NEW d \in Calls \ {c}
        PROVE  Keeps(calls[d])
    <3>1. k.holds \cap calls[d].holds = {}
      BY DEF RequestInv, LocksApart
    <3>2. /\ MarketRow(m) \notin calls[d].holds
          /\ \A i \in OrdersIn(m) : OrderRow(i) \notin calls[d].holds
      BY <2>1, <3>1
    <3>3. QED
      BY <1>4, <3>2, SettledKeeps DEF RequestInv
  <2>3. RowsOK'
    BY <1>4, SettledRows DEF RequestInv
  <2>4. RequestInv'
    BY <1>4, <2>2, <2>3, CallEnds
  <2>5. QED
    BY <1>4, <2>1, <2>4 DEF Settle, PromiseNext
<1>5. CASE UNCHANGED rows /\ Refuses(c)
  BY <1>5, RefuseStep
<1>6. QED
  BY <1>3, <1>4, <1>5 DEF CommitSettlement

LEMMA CreditCommits ==
    ASSUME RequestInv, NEW key \in CreditKeys, CreditWallet(key)
    PROVE  RequestInv' /\ PromiseNext
<1>1. /\ Credited(key) /\ key \notin credited /\ UNCHANGED calls
      /\ \A c \in Calls : WalletRow(CreditTo[key]) \notin calls[c].holds
  BY DEF CreditWallet, Unlocked
<1>2. CreditTo[key] \in Users
  BY OrderPromiseAssumption
<1>3. UNCHANGED <<orders, held, markets>>
      /\ available' = [available EXCEPT ![CreditTo[key]] = @ + 1]
  BY <1>1 DEF Credited
<1>4. RowsOK'
  BY <1>2, <1>3 DEF RequestInv, RowsOK
<1>5. ASSUME NEW d \in Calls
      PROVE  Keeps(calls[d])
  <2>1. \A u \in Users : WalletRow(u) \in calls[d].holds => available'[u] = available[u]
    BY <1>1, <1>2, <1>3 DEF RequestInv, RowsOK
  <2>2. QED
    BY <1>3, <2>1 DEF Keeps, OrdersIn, Ordered
<1>6. RequestInv'
  BY <1>1, <1>4, <1>5, RowChanges
<1>7. QED
  BY <1>1, <1>6 DEF Credit, PromiseNext

LEMMA CloseCommits ==
    ASSUME RequestInv, NEW m \in Markets, CloseMarket(m)
    PROVE  RequestInv' /\ PromiseNext
<1>1. /\ Closed(m) /\ markets[m] = "active" /\ UNCHANGED calls
      /\ \A c \in Calls : MarketRow(m) \notin calls[c].holds
  BY DEF CloseMarket, Unlocked
<1>2. /\ UNCHANGED <<orders, available, held>>
      /\ markets' = [markets EXCEPT ![m] = "closed"]
  BY <1>1 DEF Closed
<1>3. RowsOK'
  BY <1>2 DEF RequestInv, RowsOK
<1>4. ASSUME NEW d \in Calls
      PROVE  Keeps(calls[d])
  <2>1. \A n \in Markets : MarketRow(n) \in calls[d].holds => markets'[n] = markets[n]
    BY <1>1, <1>2 DEF RequestInv, RowsOK
  <2>2. QED
    BY <1>2, <2>1 DEF Keeps, OrdersIn, Ordered
<1>5. RequestInv'
  BY <1>1, <1>3, <1>4, RowChanges
<1>6. QED
  BY <1>1, <1>5 DEF Close, PromiseNext

LEMMA RequestInit == OrdersInit => RequestInv
<1> SUFFICES ASSUME OrdersInit
             PROVE  RequestInv
  OBVIOUS
<1>1. orders \in Seq(OrderRec)
  BY OrderPromiseAssumption DEF OrdersInit, RowsInit, OrderRec
<1>2. \A u \in Users : Cardinality(BackedBy(u)) \in Nat
  <2>1. Len(orders) \in Nat /\ DOMAIN orders = 1 .. Len(orders)
    BY <1>1, LenProperties
  <2>2. \A u \in Users : IsFiniteSet(BackedBy(u))
    <3>1. IsFiniteSet(DOMAIN orders)
      BY <2>1, FS_Interval
    <3>2. \A u \in Users : BackedBy(u) \subseteq DOMAIN orders
      BY DEF BackedBy
    <3>3. QED
      BY <3>1, <3>2, FS_Subset
  <2>3. QED
    BY <2>2, FS_CardinalityType
<1>3. held \in [Users -> Int]
  BY <1>2 DEF OrdersInit, RowsInit
<1>4. available \in [Users -> Int] /\ markets \in [Markets -> {"active", "closed", "settled"}]
  BY OrderPromiseAssumption DEF OrdersInit, RowsInit
<1>5. NoCall \in CallRec
  BY DEF NoCall, CallRec, Unmatched, Steps, Free
<1>6. CallOK(NoCall) /\ NoCall.holds = {}
  BY DEF CallOK, NoCall, Free, Placing
<1>7. calls = [c \in Calls |-> NoCall]
  BY DEF OrdersInit
<1>8. calls \in [Calls -> CallRec] /\ \A c \in Calls : calls[c] = NoCall
  BY <1>5, <1>7
<1>9. LocksApart
  BY <1>6, <1>8 DEF LocksApart
<1>10. QED
  BY <1>1, <1>3, <1>4, <1>6, <1>8, <1>9 DEF RequestInv, RowsOK

LEMMA RequestNext ==
    ASSUME RequestInv, [OrdersNext]_orderVars
    PROVE  RequestInv' /\ [PromiseNext]_rows
<1>1. CASE UNCHANGED orderVars
  <2>1. UNCHANGED rows /\ UNCHANGED calls
    BY <1>1 DEF orderVars
  <2>2. RowsOK'
    BY <2>1 DEF RequestInv, RowsOK, rows
  <2>3. \A d \in Calls : Keeps(calls[d])
    BY <2>1, RowsKept DEF RequestInv
  <2>4. QED
    BY <2>1, <2>2, <2>3, RowChanges
<1>2. CASE OrdersNext
  <2>1. ASSUME NEW c \in Calls, NEW key \in Keys, NEW wish \in Wishes[key],
               PlaceOrder(c, key, wish)
        PROVE  RequestInv' /\ UNCHANGED rows
    BY <2>1, PlaceOrderStep
  <2>2. ASSUME NEW c \in Calls, NEW i \in DOMAIN orders, CancelOrder(c, i)
        PROVE  RequestInv' /\ UNCHANGED rows
    BY <2>2, CancelOrderStep
  <2>3. ASSUME NEW c \in Calls, NEW m \in Markets, SettleCall(c, m)
        PROVE  RequestInv' /\ UNCHANGED rows
    BY <2>3, SettleCallStep
  <2>4. ASSUME NEW c \in Calls, OrderStep(c)
        PROVE  RequestInv' /\ [PromiseNext]_rows
    BY <2>4, LookStep, MarketStep, BookStep, WalletStep, InsertStep, CandidateStep,
       ExistingStep, OrderStepLocked, MarketLocked, SettlementRowsStep,
       PlacementCommits, CancellationCommits, SettlementCommits DEF OrderStep
  <2>5. ASSUME NEW c \in Calls, CallFails(c) \/ DeadlockDetected(c)
        PROVE  RequestInv' /\ UNCHANGED rows
    BY <2>5, AnswerStep DEF CallFails, DeadlockDetected
  <2>6. ASSUME NEW key \in CreditKeys, CreditWallet(key)
        PROVE  RequestInv' /\ PromiseNext
    BY <2>6, CreditCommits
  <2>7. ASSUME NEW m \in Markets, CloseMarket(m)
        PROVE  RequestInv' /\ PromiseNext
    BY <2>7, CloseCommits
  <2>8. QED
    BY <1>2, <2>1, <2>2, <2>3, <2>4, <2>5, <2>6, <2>7 DEF OrdersNext
<1>3. QED
  BY <1>1, <1>2

THEOREM RequestInvHolds == OrdersSpec => []RequestInv
<1>1. RequestInv /\ [OrdersNext]_orderVars => RequestInv'
  BY RequestNext
<1>2. QED
  BY <1>1, RequestInit, PTL DEF OrdersSpec

\* The calls implement the promise: every row changes as if the requests ran
\* one after the other, each wholly or not at all, whatever the order of the
\* locks, the failures and the retries (KeepsOrderPromise).
THEOREM PromiseIsKept == OrdersSpec => KeepsOrderPromise
<1>1. RequestInv /\ [OrdersNext]_orderVars => [PromiseNext]_rows
  BY RequestNext
<1>2. OrdersInit => RowsInit
  BY DEF OrdersInit
<1>3. QED
  BY <1>1, <1>2, RequestInvHolds, PTL DEF OrdersSpec, KeepsOrderPromise

-----------------------------------------------------------------------------
(***************************************************************************)
(* Collateral: a step of the promise changes what is held of a user by as  *)
(* many orders as it adds to those that back it, or takes from them.       *)
(***************************************************************************)
\* An open order is of a market that is not settled, and there a cancelled
\* one was cancelled on request.
OrdersAgree ==
    /\ \A i \in DOMAIN orders :
          orders[i].status = "open" => markets[orders[i].wish.market] # "settled"
    /\ withdrawn \subseteq {i \in DOMAIN orders : orders[i].status = "cancelled"}
    /\ \A i \in DOMAIN orders :
          orders[i].status = "cancelled" /\ markets[orders[i].wish.market] # "settled"
            => i \in withdrawn

LEMMA BackedFinite ==
    ASSUME RowsOK, NEW u
    PROVE  IsFiniteSet(BackedBy(u)) /\ Cardinality(BackedBy(u)) \in Nat
<1>1. BackedBy(u) \subseteq DOMAIN orders
  BY DEF BackedBy
<1>2. QED
  BY <1>1, OrdersDomain, FS_Subset, FS_CardinalityType

LEMMA TakenFinite ==
    ASSUME RowsOK, OrdersAgree, NEW u
    PROVE  IsFiniteSet(TakenAgain(u)) /\ Cardinality(TakenAgain(u)) \in Nat
<1>1. TakenAgain(u) \subseteq DOMAIN orders
  BY DEF TakenAgain, OrdersAgree
<1>2. QED
  BY <1>1, OrdersDomain, FS_Subset, FS_CardinalityType

LEMMA OldestIsMaker ==
    ASSUME RowsOK, NEW wish
    PROVE  /\ Oldest(Makers(wish)) \in DOMAIN orders \cup {Unmatched}
           /\ Oldest(Makers(wish)) # Unmatched => orders[Oldest(Makers(wish))].status = "open"
<1> DEFINE S == Makers(wish)
<1>1. S \subseteq DOMAIN orders /\ \A i \in S : orders[i].status = "open"
  BY DEF Makers, OrdersIn
<1>2. S \subseteq Nat
  BY <1>1, OrderFacts
<1> HIDE DEF S
<1>3. CASE S = {}
  BY <1>3 DEF Oldest, S
<1>4. CASE S # {}
  <2>1. \E i \in S : \A j \in S : i <= j
    BY <1>2, <1>4, LeastNumber
  <2>2. Oldest(S) \in S
    BY <1>4, <2>1 DEF Oldest
  <2>3. QED
    BY <1>1, <2>2 DEF S
<1>5. QED
  BY <1>3, <1>4

LEMMA PlaceBacked ==
    ASSUME RowsOK, OrdersAgree, CollateralIsBacked,
           NEW key \in Keys, NEW wish \in Wishes[key], Place(key, wish)
    PROVE  OrdersAgree' /\ CollateralIsBacked'
<1> DEFINE maker == Oldest(Makers(wish))
<1>0. PICK n : n = Len(orders) + 1
  OBVIOUS
<1>1. wish \in Wish /\ wish.user \in Users /\ wish.market \in Markets
  BY WishFacts
<1>2. /\ Placed(key, wish, maker) /\ markets[wish.market] = "active"
      /\ maker \in DOMAIN orders \cup {Unmatched}
      /\ maker # Unmatched => orders[maker].status = "open"
  BY OldestIsMaker DEF Place
<1> HIDE DEF maker
<1>3. /\ DOMAIN orders' = DOMAIN orders \cup {n} /\ n \notin DOMAIN orders
      /\ \A i \in DOMAIN orders :
            /\ orders'[i].wish = orders[i].wish
            /\ orders'[i].status = IF i = maker THEN "filled" ELSE orders[i].status
      /\ orders'[n].wish = wish /\ orders'[n].status \in {"open", "filled"}
  <2>1. orders'[n].status = IF maker = Unmatched THEN "open" ELSE "filled"
    BY <1>0, <1>1, <1>2, PlacedOrders
  <2>2. /\ DOMAIN orders' = DOMAIN orders \cup {n} /\ n \notin DOMAIN orders
        /\ orders'[n].wish = wish
    BY <1>0, <1>1, <1>2, PlacedOrders
  <2>3. \A i \in DOMAIN orders :
            /\ orders'[i].wish = orders[i].wish
            /\ orders'[i].status = IF i = maker THEN "filled" ELSE orders[i].status
    BY <1>1, <1>2, PlacedOrders
  <2>4. QED
    BY <2>1, <2>2, <2>3
<1>4. /\ markets' = markets /\ held' = [held EXCEPT ![wish.user] = @ + 1]
  BY <1>2 DEF Placed
<1>5. \A i \in DOMAIN orders : i # Unmatched
  BY OrderFacts DEF Unmatched
<1>6. \A i \in DOMAIN orders : Backed(i)' <=> Backed(i)
  BY <1>2, <1>3, <1>4, <1>5 DEF Backed
<1>7. Backed(n)'
  BY <1>2, <1>3, <1>4 DEF Backed
<1>8. BackedBy(wish.user)' = BackedBy(wish.user) \cup {n} /\ n \notin BackedBy(wish.user)
  BY <1>3, <1>6, <1>7 DEF BackedBy
<1>9. \A u \in Users : u # wish.user => BackedBy(u)' = BackedBy(u)
  BY <1>3, <1>6 DEF BackedBy
<1>10. Cardinality(BackedBy(wish.user) \cup {n}) = Cardinality(BackedBy(wish.user)) + 1
  BY <1>8, BackedFinite, FS_AddElement
<1>11. withdrawn' = withdrawn
  BY <1>2 DEF Placed
<1>12. \A u \in Users : TakenAgain(u)' = TakenAgain(u)
  BY <1>3, <1>4, <1>11 DEF TakenAgain, OrdersAgree
<1>13. CollateralIsBacked'
  <2>1. \A u \in Users : /\ Cardinality(TakenAgain(u)) \in Nat /\ Cardinality(BackedBy(u)) \in Nat
                         /\ held[u] + Cardinality(TakenAgain(u)) = Cardinality(BackedBy(u))
                         /\ held[u] \in Int
    BY BackedFinite, TakenFinite DEF CollateralIsBacked, RowsOK
  <2>2. \A u \in Users : held'[u] = IF u = wish.user THEN held[u] + 1 ELSE held[u]
    BY <1>1, <1>4 DEF RowsOK
  <2>3. \A u \in Users : Cardinality(BackedBy(u)')
            = IF u = wish.user THEN Cardinality(BackedBy(u)) + 1 ELSE Cardinality(BackedBy(u))
    BY <1>8, <1>9, <1>10
  <2>4. \A u \in Users : held'[u] + Cardinality(TakenAgain(u)') = Cardinality(BackedBy(u)')
    BY <1>12, <2>1, <2>2, <2>3
  <2>5. QED
    BY <2>4 DEF CollateralIsBacked
<1>14. OrdersAgree'
  BY <1>2, <1>3, <1>4, <1>5, <1>11 DEF OrdersAgree
<1>15. QED
  BY <1>13, <1>14

LEMMA CancelBacked ==
    ASSUME RowsOK, OrdersAgree, CollateralIsBacked, NEW n \in DOMAIN orders, Cancel(n)
    PROVE  OrdersAgree' /\ CollateralIsBacked'
<1>0. PICK owner \in Users : owner = orders[n].wish.user
  BY OrderFacts
<1>1. Cancelled(n) /\ orders[n].status = "open"
  BY DEF Cancel
<1>2. /\ DOMAIN orders' = DOMAIN orders
      /\ \A i \in DOMAIN orders :
            /\ orders'[i].wish = orders[i].wish
            /\ orders'[i].status = IF i = n THEN "cancelled" ELSE orders[i].status
  BY <1>1, CancelledOrders
<1>3. /\ markets' = markets /\ held' = [held EXCEPT ![owner] = @ - 1]
  BY <1>0, <1>1 DEF Cancelled
<1>4. Backed(n) /\ ~ Backed(n)' /\ \A i \in DOMAIN orders \ {n} : Backed(i)' <=> Backed(i)
  BY <1>1, <1>2, <1>3 DEF Backed, OrdersAgree
<1>5. BackedBy(owner)' = BackedBy(owner) \ {n} /\ n \in BackedBy(owner)
  BY <1>0, <1>2, <1>4 DEF BackedBy
<1>6. \A u \in Users : u # owner => BackedBy(u)' = BackedBy(u)
  BY <1>0, <1>2, <1>4 DEF BackedBy
<1>7. Cardinality(BackedBy(owner) \ {n}) = Cardinality(BackedBy(owner)) - 1
  BY <1>5, BackedFinite, FS_RemoveElement
<1>8. withdrawn' = withdrawn \cup {n}
  BY <1>1 DEF Cancelled
<1>9. markets[orders[n].wish.market] # "settled"
  BY <1>1 DEF OrdersAgree
<1>10. \A u \in Users : TakenAgain(u)' = TakenAgain(u)
  BY <1>2, <1>3, <1>8, <1>9 DEF TakenAgain, OrdersAgree
<1>11. CollateralIsBacked'
  <2>1. \A u \in Users : /\ Cardinality(TakenAgain(u)) \in Nat /\ Cardinality(BackedBy(u)) \in Nat
                         /\ held[u] + Cardinality(TakenAgain(u)) = Cardinality(BackedBy(u))
                         /\ held[u] \in Int
    BY BackedFinite, TakenFinite DEF CollateralIsBacked, RowsOK
  <2>2. \A u \in Users : held'[u] = IF u = owner THEN held[u] - 1 ELSE held[u]
    BY <1>3 DEF RowsOK
  <2>3. \A u \in Users : Cardinality(BackedBy(u)')
            = IF u = owner THEN Cardinality(BackedBy(u)) - 1 ELSE Cardinality(BackedBy(u))
    BY <1>5, <1>6, <1>7
  <2>4. \A u \in Users : held'[u] + Cardinality(TakenAgain(u)') = Cardinality(BackedBy(u)')
    BY <1>10, <2>1, <2>2, <2>3
  <2>5. QED
    BY <2>4 DEF CollateralIsBacked
<1>12. OrdersAgree'
  BY <1>2, <1>3, <1>8 DEF OrdersAgree
<1>13. QED
  BY <1>11, <1>12

LEMMA SettleBacked ==
    ASSUME RowsOK, OrdersAgree, CollateralIsBacked, NEW m \in Markets, Settle(m)
    PROVE  OrdersAgree' /\ CollateralIsBacked'
<1>1. PICK winner \in {"buy", "sell"} : Settled(m, winner)
  BY DEF Settle
<1>2. /\ DOMAIN orders' = DOMAIN orders
      /\ \A i \in DOMAIN orders :
            /\ orders'[i].wish = orders[i].wish
            /\ orders'[i].status = IF i \in OrdersIn(m) /\ orders[i].status = "open"
                                   THEN "cancelled" ELSE orders[i].status
  BY <1>1, SettledOrders
<1>3. /\ markets' = [markets EXCEPT ![m] = "settled"] /\ markets[m] # "settled"
      /\ held' = [u \in Users |-> held[u] - Cardinality(OrdersOf(u, m))]
      /\ withdrawn' = withdrawn
  BY <1>1, SettledFields DEF Settle
<1>4. \A i \in DOMAIN orders : /\ orders[i].wish.market \in Markets
                               /\ orders[i].status \in {"open", "filled", "cancelled"}
  BY OrderFacts DEF OrderRec
<1>5. \A i \in DOMAIN orders : Backed(i)' <=> Backed(i) /\ i \notin OrdersIn(m)
  BY <1>2, <1>3, <1>4 DEF Backed, OrdersIn, RowsOK
<1>6. \A u \in Users : BackedBy(u)' = BackedBy(u) \ OrdersIn(m)
  BY <1>2, <1>5 DEF BackedBy
<1>7. ASSUME NEW u \in Users
      PROVE  held'[u] + Cardinality(TakenAgain(u)') = Cardinality(BackedBy(u)')
  \* The market's orders of the user: some back collateral, the rest were withdrawn.
  <2> DEFINE B == BackedBy(u) \cap OrdersIn(m)
             W == withdrawn \cap OrdersOf(u, m)
  <2>1. OrdersOf(u, m) = B \cup W
    BY <1>3, <1>4 DEF OrdersOf, OrdersIn, BackedBy, Backed, OrdersAgree
  <2>2. B \cap W = {}
    BY DEF BackedBy, Backed, OrdersAgree
  <2>3. TakenAgain(u)' = TakenAgain(u) \cup W
    BY <1>2, <1>3, <1>4 DEF TakenAgain, OrdersAgree, OrdersOf, OrdersIn, RowsOK
  <2>4. TakenAgain(u) \cap W = {}
    BY <1>3 DEF TakenAgain, OrdersOf, OrdersIn
  <2>5. IsFiniteSet(BackedBy(u)) /\ IsFiniteSet(TakenAgain(u)) /\ IsFiniteSet(OrdersOf(u, m))
    BY BackedFinite, TakenFinite, SettledAmounts
  <2>6. IsFiniteSet(B) /\ IsFiniteSet(W)
    BY <2>1, <2>5, FS_Subset
  <2> HIDE DEF B, W
  <2>7. /\ Cardinality(OrdersOf(u, m)) = Cardinality(B) + Cardinality(W)
        /\ Cardinality(B) \in Nat /\ Cardinality(W) \in Nat
    <3>1. Cardinality(B \cup W) = Cardinality(B) + Cardinality(W) - Cardinality(B \cap W)
      BY <2>6, FS_Union
    <3>2. Cardinality(B \cap W) = 0
      BY <2>2, FS_EmptySet
    <3>3. QED
      BY <2>1, <2>6, <3>1, <3>2, FS_CardinalityType
  <2>8. /\ Cardinality(TakenAgain(u)') = Cardinality(TakenAgain(u)) + Cardinality(W)
        /\ Cardinality(TakenAgain(u)) \in Nat
    <3>1. Cardinality(TakenAgain(u) \cup W)
            = Cardinality(TakenAgain(u)) + Cardinality(W) - Cardinality(TakenAgain(u) \cap W)
      BY <2>5, <2>6, FS_Union
    <3>2. Cardinality(TakenAgain(u) \cap W) = 0
      BY <2>4, FS_EmptySet
    <3>3. QED
      BY <2>3, <2>5, <2>7, <3>1, <3>2, FS_CardinalityType
  <2>9. Cardinality(BackedBy(u)') = Cardinality(BackedBy(u)) - Cardinality(B)
        /\ Cardinality(BackedBy(u)) \in Nat
    <3>1. Cardinality(BackedBy(u) \ OrdersIn(m))
            = Cardinality(BackedBy(u)) - Cardinality(BackedBy(u) \cap OrdersIn(m))
      BY <2>5, FS_Difference
    <3>2. QED
      BY <1>6, <2>5, <3>1, FS_CardinalityType DEF B
  <2>10. held'[u] = held[u] - Cardinality(OrdersOf(u, m)) /\ held[u] \in Int
    BY <1>3 DEF RowsOK
  <2>11. held[u] + Cardinality(TakenAgain(u)) = Cardinality(BackedBy(u))
    BY DEF CollateralIsBacked
  <2>12. QED
    BY <2>7, <2>8, <2>9, <2>10, <2>11
<1>8. CollateralIsBacked'
  BY <1>7 DEF CollateralIsBacked
<1>9. OrdersAgree'
  BY <1>2, <1>3, <1>4 DEF OrdersAgree, OrdersIn, RowsOK
<1>10. QED
  BY <1>8, <1>9

LEMMA BackedStep ==
    ASSUME RowsOK, OrdersAgree, CollateralIsBacked, [PromiseNext]_rows
    PROVE  OrdersAgree' /\ CollateralIsBacked'
<1>1. ASSUME UNCHANGED <<orders, held, withdrawn>>, NEW m \in Markets, markets[m] = "active",
             markets' = [markets EXCEPT ![m] = "closed"] \/ markets' = markets
      PROVE  OrdersAgree' /\ CollateralIsBacked'
  <2>1. \A n \in Markets : markets'[n] = "settled" <=> markets[n] = "settled"
    BY <1>1 DEF RowsOK
  <2>2. \A i \in DOMAIN orders : orders[i].wish.market \in Markets
    BY OrderFacts
  <2>3. \A i \in DOMAIN orders : Backed(i)' <=> Backed(i)
    BY <1>1, <2>1, <2>2 DEF Backed
  <2>4. \A u \in Users : BackedBy(u)' = BackedBy(u)
    BY <1>1, <2>3 DEF BackedBy
  <2>5. \A u \in Users : TakenAgain(u)' = TakenAgain(u)
    BY <1>1, <2>1, <2>2 DEF TakenAgain, OrdersAgree
  <2>6. OrdersAgree'
    BY <1>1, <2>1, <2>2 DEF OrdersAgree
  <2>7. QED
    BY <1>1, <2>4, <2>5, <2>6 DEF CollateralIsBacked
<1>2. ASSUME UNCHANGED <<orders, held, markets, withdrawn>>
      PROVE  OrdersAgree' /\ CollateralIsBacked'
  BY <1>2 DEF OrdersAgree, CollateralIsBacked, BackedBy, Backed, TakenAgain
<1>3. ASSUME NEW m \in Markets, Close(m)
      PROVE  OrdersAgree' /\ CollateralIsBacked'
  BY <1>1, <1>3 DEF Close, Closed
<1>4. ASSUME NEW key \in CreditKeys, Credit(key)
      PROVE  OrdersAgree' /\ CollateralIsBacked'
  BY <1>2, <1>4 DEF Credit, Credited
<1>5. CASE UNCHANGED rows
  BY <1>2, <1>5 DEF rows
<1>6. QED
  BY <1>3, <1>4, <1>5, PlaceBacked, CancelBacked, SettleBacked DEF PromiseNext

LEMMA BackedInit == OrdersInit => OrdersAgree /\ CollateralIsBacked
<1> SUFFICES ASSUME OrdersInit
             PROVE  OrdersAgree /\ CollateralIsBacked
  OBVIOUS
<1>1. RowsOK
  BY RequestInit DEF RequestInv
<1>2. \A i \in DOMAIN orders : markets[orders[i].wish.market] = "active"
  BY <1>1, OrderFacts DEF OrdersInit, RowsInit
<1>3. withdrawn = {i \in DOMAIN orders : orders[i].status = "cancelled"}
  BY DEF OrdersInit, RowsInit
<1>4. OrdersAgree
  BY <1>2, <1>3 DEF OrdersAgree
<1>5. \A u \in Users : TakenAgain(u) = {}
  BY <1>2, <1>3 DEF TakenAgain
<1>6. \A u \in Users : held[u] = Cardinality(BackedBy(u)) /\ held[u] \in Int
  BY <1>1 DEF OrdersInit, RowsInit, RowsOK
<1>7. Cardinality({}) = 0
  BY FS_EmptySet
<1>8. \A u \in Users : held[u] + Cardinality(TakenAgain(u)) = Cardinality(BackedBy(u))
  BY <1>5, <1>6, <1>7
<1>9. QED
  BY <1>4, <1>8 DEF CollateralIsBacked

\* What is held of a user is what its standing orders back less what the
\* settlements of markets took again for orders that had been cancelled in
\* them, in every state of the calls: nothing else is freed twice, and nothing
\* stays held without an order (CollateralIsBacked).
THEOREM CollateralBacked == OrdersSpec => []CollateralIsBacked
<1>1. RequestInv /\ OrdersAgree /\ CollateralIsBacked /\ [OrdersNext]_orderVars
        => OrdersAgree' /\ CollateralIsBacked'
  BY RequestNext, BackedStep DEF RequestInv
<1>2. QED
  BY <1>1, BackedInit, RequestInvHolds, PTL DEF OrdersSpec

-----------------------------------------------------------------------------
(***************************************************************************)
(* Settlements wait for each other in one direction only: a settlement     *)
(* that has what another needs next needs a later row itself.              *)
(***************************************************************************)
LEMMA SettlementWaits ==
    ASSUME RequestInv, NEW c \in Calls, calls[c].at \in {"settle", "rows"},
           NEW d \in WaitsFor(c), calls[d].at \in {"settle", "rows"}, WaitsFor(d) # {}
    PROVE  /\ calls[d].at = "rows" /\ NextRow(d) \in SortedRows
           /\ calls[c].at = "rows"
                 => NextRow(c) \in SortedRows /\ LocksBefore(NextRow(c), NextRow(d))
<1>1. /\ d \in Calls /\ NextRow(c) \in calls[d].holds /\ calls[c].todo # {}
      /\ calls[d].todo # {}
  BY DEF WaitsFor
<1>2. CallOK(calls[c]) /\ CallOK(calls[d])
  BY <1>1 DEF RequestInv
<1>3. calls[d].at = "rows"
  BY <1>1, <1>2 DEF CallOK, SettleOK
<1>4. PICK m \in Markets : Settling(calls[d], m)
  BY <1>2, <1>3, SettlingCall
<1>5. NextRow(d) \in calls[d].todo /\ NextRow(c) \in calls[c].todo
  BY <1>1, NextRowIsFirst
<1>6. NextRow(d) \in SortedRows
  BY <1>4, <1>5 DEF Settling
<1>7. ASSUME calls[c].at = "rows"
      PROVE  NextRow(c) \in SortedRows /\ LocksBefore(NextRow(c), NextRow(d))
  <2>1. PICK n \in Markets : Settling(calls[c], n)
    BY <1>2, <1>7, SettlingCall
  <2>2. NextRow(c) \in SortedRows
    BY <1>5, <2>1 DEF Settling
  <2>3. NextRow(c) # MarketRow(m)
    BY <2>2, RowsDiffer DEF SortedRows, OrderRows
  <2>4. QED
    BY <1>1, <1>4, <1>5, <2>2, <2>3 DEF Settling
<1>8. QED
  BY <1>3, <1>6, <1>7

LEMMA NoSettlementCycle == RequestInv => SettlementsNeverDeadlock
<1> SUFFICES ASSUME RequestInv,
                    NEW S \in SUBSET {c \in Calls : calls[c].at \in {"settle", "rows"}},
                    Cycle(S)
             PROVE  FALSE
  BY DEF SettlementsNeverDeadlock
<1> DEFINE R == {c \in S : calls[c].at = "rows"}
           Above(c) == {d \in R : LocksBefore(NextRow(c), NextRow(d))}
           T == {Above(c) : c \in R}
<1>1. \A c \in S : c \in Calls /\ calls[c].at \in {"settle", "rows"}
                   /\ \E d \in S : d \in WaitsFor(c)
  BY DEF Cycle
<1>2. ASSUME NEW c \in S
      PROVE  \E d \in R : /\ NextRow(d) \in SortedRows
                          /\ c \in R => /\ NextRow(c) \in SortedRows
                                        /\ LocksBefore(NextRow(c), NextRow(d))
  <2>1. PICK d \in S : d \in WaitsFor(c)
    BY <1>1
  <2>2. c \in Calls /\ WaitsFor(d) # {} /\ calls[c].at \in {"settle", "rows"}
        /\ calls[d].at \in {"settle", "rows"}
    BY <1>1
  <2>3. QED
    BY <2>1, <2>2, SettlementWaits
<1>3. R # {} /\ R \subseteq Calls
  BY <1>1, <1>2 DEF Cycle
<1>4. T \in SUBSET (SUBSET Calls) /\ T # {}
  <2> HIDE DEF R
  <2>1. \A c \in R : Above(c) \subseteq Calls
    BY <1>3
  <2> HIDE DEF Above
  <2>2. QED
    BY <1>3, <2>1
<1>5. PICK X \in T : \A Y \in T : Y \subseteq X => Y = X
  <2> HIDE DEF T
  <2>1. QED
    BY <1>4, OrderRequestsAssumption, MinimalMember
<1>6. PICK c \in R : X = Above(c)
  OBVIOUS
<1>7. PICK d \in R : NextRow(c) \in SortedRows /\ NextRow(d) \in SortedRows
                     /\ LocksBefore(NextRow(c), NextRow(d))
  BY <1>2
<1>8. \A e \in R : NextRow(e) \in SortedRows
  BY <1>2
<1>9. Above(d) \subseteq Above(c)
  <2>1. \A row, other, third \in SortedRows :
            LocksBefore(row, other) /\ LocksBefore(other, third) => LocksBefore(row, third)
    BY SortedRowsTotal
  <2> HIDE DEF R
  <2>2. QED
    BY <1>7, <1>8, <2>1
<1>10. d \in Above(c) /\ d \notin Above(d)
  BY <1>7, SortedRowsTotal
<1>11. Above(d) \in T
  OBVIOUS
<1>12. QED
  BY <1>5, <1>6, <1>9, <1>10, <1>11

\* However many settlements run at once, no set of them waits in a circle
\* (SettlementsNeverDeadlock).
THEOREM NoSettlementDeadlock == OrdersSpec => []SettlementsNeverDeadlock
BY NoSettlementCycle, RequestInvHolds, PTL

-----------------------------------------------------------------------------
(***************************************************************************)
(* Reports.  What is counted only grows while a report is made, and every  *)
(* trade adds to both of its orders.                                       *)
(***************************************************************************)
Marks == {"none", "won", "lost"}

TicketsOK ==
    /\ filled \in [Tickets -> Nat]
    /\ made \in SUBSET Tickets
    /\ old \in SUBSET Tickets
    /\ payouts \in [Tickets -> Marks]
    /\ \A t \in Tickets \ made : filled[t] = 0

InMoney(c) == {t \in Tickets : CurrencyOf[t] = c}

\* Both sides of every trade are filled.
PairsOK ==
    /\ Volume(Tickets) % 2 = 0
    /\ \A c \in Monies : Volume(InMoney(c)) % 2 = 0

ViewSteps == {"idle", "summary", "volumes", "results", "profit", "put"}

ViewRec == [at : ViewSteps, on : Topics \cup {NoReport}, past : SUBSET Tickets,
            volume : Nat, byMoney : [Monies -> Nat], settled : Nat, wins : Nat, paid : Nat]

\* The orders a report is about, and those of them that were paid.
ConcernedBy(view) == {t \in made : /\ view.on \in Traders => TraderOf[t] = view.on
                                   /\ t \notin view.past}

PaidBy(view) == {t \in ConcernedBy(view) : payouts[t] # "none"}

VolumesOK(view) ==
    /\ view.volume <= Total(view.byMoney)
    /\ view.on \in Unlimited => \A c \in Monies : view.byMoney[c] % 2 = 0

\* What earlier statements counted is still there for the later ones.
ViewOK(view) ==
    /\ view.on \in Unlimited => view.past = {} /\ view.volume % 2 = 0
    /\ view.at = "volumes" => view.volume <= Volume(ConcernedBy(view))
    /\ view.at \in {"results", "profit", "put"} => VolumesOK(view)
    /\ view.wins <= view.settled
    /\ view.at \in {"idle", "summary", "volumes", "results"} => view.settled = 0 /\ view.wins = 0
    /\ view.at = "profit" => view.settled <= Cardinality(PaidBy(view))
    /\ view.at = "put" => view.settled <= view.paid

ReportsOK == DOMAIN reports = Topics /\ ReportsAddUp

ReportInv ==
    /\ TicketsOK
    /\ PairsOK
    /\ viewers \in [Viewers -> ViewRec]
    /\ \A v \in Viewers : ViewOK(viewers[v])
    /\ ReportsOK

LEMMA VolumeType ==
    ASSUME TicketsOK, NEW S \in SUBSET Tickets
    PROVE  /\ IsFiniteSet(S) /\ [t \in S |-> filled[t]] \in [S -> Nat]
           /\ Volume(S) \in Nat
<1>1. IsFiniteSet(S)
  BY StatsServiceAssumption, FS_Subset
<1>2. [t \in S |-> filled[t]] \in [S -> Nat]
  BY DEF TicketsOK
<1>3. QED
  BY <1>1, <1>2, TotalNat DEF Volume

\* Orders that are not made yet are not filled.
LEMMA VolumeOfMade ==
    ASSUME TicketsOK, NEW S \in SUBSET Tickets
    PROVE  Volume(S \cap made) = Volume(S)
<1> DEFINE f == [t \in S |-> filled[t]]
           T == S \cap made
<1>1. IsFiniteSet(S) /\ f \in [S -> Nat]
  BY VolumeType
<1>2. T \in SUBSET S /\ \A t \in S \ T : f[t] = 0
  BY DEF TicketsOK
<1>3. [t \in T |-> f[t]] = [t \in T |-> filled[t]]
  OBVIOUS
<1> HIDE DEF f, T
<1>4. Total([t \in T |-> f[t]]) = Total(f)
  BY <1>1, <1>2, TotalOfRest
<1>5. QED
  BY <1>3, <1>4 DEF Volume, f, T

LEMMA PaidFinite ==
    ASSUME TicketsOK, NEW view
    PROVE  IsFiniteSet(PaidBy(view)) /\ Cardinality(PaidBy(view)) \in Nat
<1>1. PaidBy(view) \subseteq Tickets
  BY DEF PaidBy, ConcernedBy, TicketsOK
<1>2. QED
  BY <1>1, StatsServiceAssumption, FS_Subset, FS_CardinalityType

LEMMA MoniesFinite == IsFiniteSet(Monies)
<1> DEFINE f == [t \in Tickets |-> CurrencyOf[t]]
<1>1. f \in Surjection(Tickets, Monies)
  BY DEF Surjection, Monies
<1>2. QED
  BY <1>1, StatsServiceAssumption, FS_Surjection

\* By currency the volumes are those of all orders.
LEMMA VolumeByMoney ==
    ASSUME TicketsOK, NEW S \in SUBSET Tickets
    PROVE  LET byMoney == [c \in Monies |-> Volume({t \in S : CurrencyOf[t] = c})]
           IN  byMoney \in [Monies -> Nat] /\ Total(byMoney) = Volume(S)
<1> DEFINE f == [t \in S |-> filled[t]]
           key == [t \in S |-> CurrencyOf[t]]
           byMoney == [c \in Monies |-> Volume({t \in S : CurrencyOf[t] = c})]
<1>1. IsFiniteSet(S) /\ f \in [S -> Nat]
  BY VolumeType
<1>2. key \in [S -> Monies]
  BY DEF Monies
<1>3. ASSUME NEW c \in Monies
      PROVE  Part(f, S, key, c) = [t \in {x \in S : CurrencyOf[x] = c} |-> filled[t]]
  BY DEF Part
<1>4. byMoney = [c \in Monies |-> Total(Part(f, S, key, c))]
  BY <1>3 DEF Volume
<1>5. byMoney \in [Monies -> Nat]
  <2>1. \A c \in Monies : Volume({t \in S : CurrencyOf[t] = c}) \in Nat
    BY VolumeType
  <2>2. QED
    BY <2>1
<1> HIDE DEF f, key, byMoney
<1>6. Total(byMoney) = Total(f)
  BY <1>1, <1>2, <1>4, MoniesFinite, TotalByKey
<1>7. QED
  BY <1>5, <1>6 DEF Volume, f, byMoney

-----------------------------------------------------------------------------
\* What is counted does not decrease.
CountsGrow ==
    /\ made \subseteq made'
    /\ \A t \in Tickets : filled[t] <= filled'[t]
    /\ \A t \in Tickets : payouts[t] # "none" => payouts'[t] # "none"

LEMMA ViewGrows ==
    ASSUME TicketsOK, TicketsOK', CountsGrow, NEW v, NEW view \in ViewRec,
           viewers'[v] = view, ViewOK(view)
    PROVE  ViewOK(viewers[v])'
<1>1. ConcernedBy(view) \subseteq ConcernedBy(view)'
  BY DEF ConcernedBy, CountsGrow
<1>2. ConcernedBy(view) \subseteq Tickets /\ ConcernedBy(view)' \subseteq Tickets
  BY DEF ConcernedBy, TicketsOK
<1>3. view.at = "volumes" => view.volume <= Volume(ConcernedBy(view))'
  <2> DEFINE S == ConcernedBy(view)
             T == ConcernedBy(view)'
             f == [t \in S |-> filled[t]]
             g == [t \in T |-> filled'[t]]
  <2>1. f \in [S -> Nat] /\ g \in [T -> Nat] /\ \A t \in S : f[t] <= g[t]
    BY <1>1, <1>2 DEF TicketsOK, CountsGrow
  <2>2. IsFiniteSet(T) /\ IsFiniteSet(S)
    BY <1>2, StatsServiceAssumption, FS_Subset
  <2>3. Total(f) \in Nat /\ Total(g) \in Nat
    <3> HIDE DEF f, g
    <3>1. QED
      BY <2>1, <2>2, TotalNat
  <2>4. Total(f) <= Total(g)
    <3> HIDE DEF S, T, f, g
    <3>1. S \subseteq T
      BY <1>1 DEF S, T
    <3>2. QED
      BY <2>1, <2>2, <3>1, TotalGrows
  <2>5. Total(f) = Volume(ConcernedBy(view)) /\ Total(g) = Volume(ConcernedBy(view))'
    BY DEF Volume
  <2>6. view.volume \in Nat
    BY DEF ViewRec
  <2> HIDE DEF f, g, S, T
  <2>7. QED
    BY <2>3, <2>4, <2>5, <2>6 DEF ViewOK
<1>4. view.at = "profit" => view.settled <= Cardinality(PaidBy(view)')
  <2> DEFINE P == PaidBy(view)
             Q == PaidBy(view)'
  <2>1. P \subseteq Q
    BY <1>1, <1>2 DEF PaidBy, CountsGrow
  <2>2. IsFiniteSet(Q)
    <3>1. Q \subseteq Tickets
      BY <1>2 DEF PaidBy
    <3>2. QED
      BY <3>1, StatsServiceAssumption, FS_Subset
  <2>3. Cardinality(P) <= Cardinality(Q) /\ Cardinality(P) \in Nat /\ Cardinality(Q) \in Nat
    BY <2>1, <2>2, FS_Subset, FS_CardinalityType
  <2>4. view.settled \in Nat
    BY DEF ViewRec
  <2>5. view.at = "profit" => view.settled <= Cardinality(P)
    BY DEF ViewOK
  <2> HIDE DEF P, Q
  <2>6. view.at = "profit" => view.settled <= Cardinality(Q)
    BY <2>3, <2>4, <2>5
  <2>7. QED
    BY <2>6 DEF Q
<1>5. VolumesOK(view)' <=> VolumesOK(view)
  BY DEF VolumesOK
<1>6. QED
  BY <1>3, <1>4, <1>5 DEF ViewOK, VolumesOK

LEMMA CountsKept ==
    ASSUME UNCHANGED <<filled, made, old, payouts>>, TicketsOK, PairsOK
    PROVE  TicketsOK' /\ PairsOK' /\ CountsGrow
<1>1. \A t \in Tickets : filled[t] <= filled'[t]
  BY DEF TicketsOK
<1>2. QED
  BY <1>1 DEF TicketsOK, PairsOK, CountsGrow, Volume

LEMMA TicketsStep ==
    ASSUME TicketsOK, PairsOK, CreateTicket \/ PayOut \/ TimeGoesBy
    PROVE  TicketsOK' /\ PairsOK' /\ CountsGrow
<1>1. filled' = filled
  BY DEF CreateTicket, PayOut, TimeGoesBy
<1>2. PairsOK'
  BY <1>1 DEF PairsOK, Volume
<1>3. \A t \in Tickets : filled[t] <= filled'[t]
  BY <1>1 DEF TicketsOK
<1>4. TicketsOK'
  BY DEF TicketsOK, CreateTicket, PayOut, TimeGoesBy, Marks
<1>5. made \subseteq made' /\ \A t \in Tickets : payouts[t] # "none" => payouts'[t] # "none"
  BY DEF CreateTicket, PayOut, TimeGoesBy
<1>6. QED
  BY <1>2, <1>3, <1>4, <1>5 DEF CountsGrow

\* A trade adds two to the volume of its currency and nothing to the others.
LEMMA MatchStep ==
    ASSUME TicketsOK, PairsOK, Match
    PROVE  TicketsOK' /\ PairsOK' /\ CountsGrow
<1>1. PICK t \in made, u \in made :
          /\ t # u /\ CurrencyOf[t] = CurrencyOf[u]
          /\ filled' = [filled EXCEPT ![t] = @ + 1, ![u] = @ + 1]
  BY DEF Match
<1>2. UNCHANGED <<made, old, payouts>>
  BY DEF Match
<1>3. t \in Tickets /\ u \in Tickets
  BY DEF TicketsOK
<1>4. \A x \in Tickets : filled'[x] = IF x \in {t, u} THEN filled[x] + 1 ELSE filled[x]
  BY <1>1, <1>3 DEF TicketsOK
<1>5. filled' \in [Tickets -> Nat]
  BY <1>1, <1>3 DEF TicketsOK
<1>6. TicketsOK'
  BY <1>1, <1>2, <1>4, <1>5 DEF TicketsOK
<1>7. CountsGrow
  BY <1>2, <1>4 DEF CountsGrow, TicketsOK
<1>8. ASSUME NEW S \in SUBSET Tickets, t \in S, u \in S
      PROVE  Volume(S)' = Volume(S) + 2
  <2> DEFINE f == [x \in S |-> filled[x]]
             g == [x \in S |-> IF x \in {t, u} THEN f[x] + 1 ELSE f[x]]
  <2>1. IsFiniteSet(S) /\ f \in [S -> Nat]
    BY VolumeType
  <2>2. g = [x \in S |-> filled'[x]]
    BY <1>4
  <2>3. Volume(S)' = Total(g)
    BY <2>2 DEF Volume
  <2> HIDE DEF f
  <2>4. Total(g) = Total(f) + 2
    BY <1>1, <1>8, <2>1, TotalOfTwoMore
  <2>5. QED
    BY <2>3, <2>4 DEF Volume, f
<1>9. ASSUME NEW S \in SUBSET Tickets, t \notin S, u \notin S
      PROVE  Volume(S)' = Volume(S)
  <2>1. [x \in S |-> filled'[x]] = [x \in S |-> filled[x]]
    BY <1>4, <1>9
  <2>2. QED
    BY <2>1 DEF Volume
<1>10. Volume(Tickets)' % 2 = 0
  <2>1. Volume(Tickets)' = Volume(Tickets) + 2 /\ Volume(Tickets) \in Nat
    BY <1>3, <1>8, VolumeType
  <2>2. Volume(Tickets) % 2 = 0
    BY DEF PairsOK
  <2> DEFINE n == Volume(Tickets)
  <2>3. n \in Nat /\ n % 2 = 0
    BY <2>1, <2>2
  <2> HIDE DEF n
  <2>4. (n + 2) % 2 = 0
    BY <2>3
  <2>5. QED
    BY <2>1, <2>4 DEF n
<1>11. ASSUME NEW c \in Monies
       PROVE  Volume(InMoney(c))' % 2 = 0
  <2>1. InMoney(c) \subseteq Tickets
    BY DEF InMoney
  <2>2. Volume(InMoney(c)) \in Nat /\ Volume(InMoney(c)) % 2 = 0
    BY <2>1, VolumeType DEF PairsOK
  <2>3. CASE CurrencyOf[t] = c
    <3>1. t \in InMoney(c) /\ u \in InMoney(c)
      BY <1>1, <1>3, <2>3 DEF InMoney
    <3> DEFINE S == InMoney(c)
               n == Volume(S)
    <3>2. Volume(S)' = n + 2 /\ n \in Nat /\ n % 2 = 0
      BY <1>8, <2>1, <2>2, <3>1
    <3> HIDE DEF n
    <3>3. (n + 2) % 2 = 0
      BY <3>2
    <3>4. QED
      BY <3>2, <3>3
  <2>4. CASE CurrencyOf[t] # c
    <3>1. t \notin InMoney(c) /\ u \notin InMoney(c)
      BY <1>1, <2>4 DEF InMoney
    <3>2. QED
      BY <1>9, <2>1, <2>2, <3>1
  <2>5. QED
    BY <2>3, <2>4
<1>12. QED
  BY <1>6, <1>7, <1>10, <1>11 DEF PairsOK, InMoney

LEMMA RowsReported ==
    ASSUME ReportInv, TicketsOK', PairsOK', CountsGrow, UNCHANGED <<viewers, reports>>
    PROVE  ReportInv'
<1>1. ASSUME NEW v \in Viewers
      PROVE  ViewOK(viewers[v])'
  <2>1. viewers'[v] = viewers[v] /\ viewers[v] \in ViewRec
    BY DEF ReportInv
  <2>2. QED
    BY <2>1, ViewGrows DEF ReportInv
<1>2. ReportsOK'
  BY DEF ReportInv, ReportsOK, ReportsAddUp, AddsUp
<1>3. QED
  BY <1>1, <1>2 DEF ReportInv

\* A call takes its next step.
LEMMA ViewStep ==
    ASSUME ReportInv, NEW v \in Viewers, NEW view \in ViewRec, Views(v, view), ViewOK(view),
           ReportsOK'
    PROVE  ReportInv'
<1>1. TicketsOK' /\ PairsOK' /\ CountsGrow
  BY CountsKept DEF Views, ReportInv
<1>2. viewers' \in [Viewers -> ViewRec]
  BY DEF Views, ReportInv
<1>3. viewers'[v] = view /\ \A w \in Viewers \ {v} : viewers'[w] = viewers[w]
  BY DEF Views, ReportInv
<1>4. ASSUME NEW w \in Viewers
      PROVE  ViewOK(viewers[w])'
  <2>1. CASE w = v
    BY <1>1, <1>3, <2>1, ViewGrows DEF ReportInv
  <2>2. CASE w # v
    <3>1. viewers'[w] = viewers[w] /\ viewers[w] \in ViewRec /\ ViewOK(viewers[w])
      BY <1>3, <2>2 DEF ReportInv
    <3>2. QED
      BY <1>1, <3>1, ViewGrows DEF ReportInv
  <2>3. QED
    BY <2>1, <2>2
<1>5. QED
  BY <1>1, <1>2, <1>4 DEF ReportInv

LEMMA ReportsKept ==
    ASSUME ReportsOK, UNCHANGED reports
    PROVE  ReportsOK'
BY DEF ReportsOK, ReportsAddUp, AddsUp

LEMMA NoViewOK == NoView \in ViewRec /\ ViewOK(NoView)
<1>1. NoView \in ViewRec
  BY DEF NoView, ViewRec, ViewSteps
<1>2. ViewOK(NoView)
  BY DEF NoView, ViewOK
<1>3. QED
  BY <1>1, <1>2

LEMMA AskStep ==
    ASSUME ReportInv, NEW v \in Viewers, NEW topic \in Topics, Ask(v, topic)
    PROVE  ReportInv'
<1> DEFINE past == parseTimeRange(topic)
           view == [NoView EXCEPT !.at = "summary", !.on = topic, !.past = past]
<1>1. Views(v, view) /\ UNCHANGED reports
  BY DEF Ask
<1>2. past \in SUBSET Tickets /\ (topic \in Unlimited => past = {})
  BY DEF parseTimeRange, ReportInv, TicketsOK, Windowed, Unlimited
<1> HIDE DEF past
<1>3. view \in ViewRec
  BY <1>2 DEF NoView, ViewRec, ViewSteps
<1>4. /\ view.at = "summary" /\ view.on = topic /\ view.past = past
      /\ view.volume = 0 /\ view.settled = 0 /\ view.wins = 0
  BY DEF NoView
<1> HIDE DEF view
<1>5. ViewOK(view)
  BY <1>2, <1>4 DEF ViewOK
<1>6. QED
  BY <1>1, <1>3, <1>5, ViewStep, ReportsKept DEF ReportInv

\* A report that is not a user's and has no time range is about every order.
LEMMA ConcernedOfAll ==
    ASSUME TicketsOK, NEW view \in ViewRec, ViewOK(view), view.on \in Unlimited
    PROVE  ConcernedBy(view) = made
BY StatsServiceAssumption DEF ConcernedBy, ViewOK

LEMMA ConcernedByView ==
    ASSUME NEW v
    PROVE  Concerned(v) = ConcernedBy(viewers[v]) /\ PaidTo(v) = PaidBy(viewers[v])
BY DEF Concerned, ConcernedBy, PaidTo, PaidBy

LEMMA SummaryStep ==
    ASSUME ReportInv, NEW v \in Viewers, Summary(v)
    PROVE  ReportInv'
<1> DEFINE was == viewers[v]
           volume == Volume(Concerned(v))
           view == [was EXCEPT !.at = "volumes", !.volume = volume]
<1>1. /\ was \in ViewRec /\ ViewOK(was) /\ was.at = "summary" /\ UNCHANGED reports
  BY DEF ReportInv, Summary
<1>2. CASE Views(v, NoView)
  BY <1>1, <1>2, NoViewOK, ViewStep, ReportsKept DEF ReportInv
<1>3. CASE Views(v, view)
  <2>1. ConcernedBy(was) \in SUBSET Tickets
    BY DEF ConcernedBy, ReportInv, TicketsOK
  <2>2. volume = Volume(ConcernedBy(was)) /\ volume \in Nat
    BY <2>1, ConcernedByView, VolumeType DEF ReportInv
  <2>3. was.on \in Unlimited => volume % 2 = 0
    <3>1. was.on \in Unlimited => ConcernedBy(was) = made
      BY <1>1, ConcernedOfAll DEF ReportInv
    <3>2. made = Tickets \cap made
      BY DEF ReportInv, TicketsOK
    <3>3. Volume(made) = Volume(Tickets)
      BY <3>2, VolumeOfMade DEF ReportInv
    <3>4. QED
      BY <2>2, <3>1, <3>3 DEF ReportInv, PairsOK
  <2> HIDE DEF volume
  <2>4. view \in ViewRec
    BY <1>1, <2>2 DEF ViewRec, ViewSteps
  <2>5. /\ view.at = "volumes" /\ view.volume = volume
        /\ view.on = was.on /\ view.past = was.past
        /\ view.settled = was.settled /\ view.wins = was.wins
    BY <1>1 DEF ViewRec
  <2> HIDE DEF view
  <2>6. ConcernedBy(view) = ConcernedBy(was)
    BY <2>5 DEF ConcernedBy
  <2>7. volume <= Volume(ConcernedBy(view))
    BY <2>2, <2>6
  <2>8. ViewOK(view)
    BY <1>1, <2>3, <2>5, <2>7 DEF ViewOK
  <2>9. QED
    BY <1>1, <1>3, <2>4, <2>8, ViewStep, ReportsKept DEF ReportInv
<1>4. QED
  BY <1>2, <1>3 DEF Summary

LEMMA VolumesStep ==
    ASSUME ReportInv, NEW v \in Viewers, VolumesByCurrency(v)
    PROVE  ReportInv'
<1> DEFINE was == viewers[v]
           byMoney == scanCurrencyAmounts(v)
           step == IF was.on \in Traders THEN "results" ELSE "put"
           view == [was EXCEPT !.byMoney = byMoney, !.at = step]
<1>1. /\ was \in ViewRec /\ ViewOK(was) /\ was.at = "volumes" /\ UNCHANGED reports
      /\ TicketsOK /\ PairsOK
  BY DEF ReportInv, VolumesByCurrency
<1>2. Views(v, view)
  BY DEF VolumesByCurrency
<1>3. ConcernedBy(was) \in SUBSET Tickets
  BY <1>1 DEF ConcernedBy, TicketsOK
<1>4. byMoney = [c \in Monies |-> Volume({t \in ConcernedBy(was) : CurrencyOf[t] = c})]
  BY ConcernedByView DEF scanCurrencyAmounts
<1>5. byMoney \in [Monies -> Nat] /\ Total(byMoney) = Volume(ConcernedBy(was))
  BY <1>1, <1>3, <1>4, VolumeByMoney
<1>6. ASSUME was.on \in Unlimited, NEW c \in Monies
      PROVE  byMoney[c] % 2 = 0
  <2>1. ConcernedBy(was) = made
    BY <1>1, <1>6, ConcernedOfAll
  <2>2. {t \in made : CurrencyOf[t] = c} = InMoney(c) \cap made
    BY <1>1 DEF InMoney, TicketsOK
  <2>3. byMoney[c] = Volume(InMoney(c) \cap made)
    BY <1>4, <2>1, <2>2
  <2>4. InMoney(c) \subseteq Tickets
    BY DEF InMoney
  <2>5. QED
    BY <1>1, <2>3, <2>4, VolumeOfMade DEF PairsOK
<1>7. was.volume <= Total(byMoney)
  BY <1>1, <1>5 DEF ViewOK
<1> HIDE DEF byMoney
<1>8. step \in {"results", "put"}
  OBVIOUS
<1> HIDE DEF step
<1>9. view \in ViewRec
  BY <1>1, <1>5, <1>8 DEF ViewRec, ViewSteps
<1>10. /\ view.at = step /\ view.byMoney = byMoney /\ view.volume = was.volume
       /\ view.on = was.on /\ view.past = was.past
       /\ view.settled = was.settled /\ view.wins = was.wins /\ view.paid = was.paid
  BY <1>1 DEF ViewRec
<1>11. was.settled = 0 /\ was.wins = 0 /\ was.paid \in Nat
  BY <1>1 DEF ViewOK, ViewRec
<1> HIDE DEF view
<1>12. VolumesOK(view)
  BY <1>6, <1>7, <1>10 DEF VolumesOK
<1>13. ViewOK(view)
  BY <1>1, <1>8, <1>10, <1>11, <1>12 DEF ViewOK
<1>14. QED
  BY <1>1, <1>2, <1>9, <1>13, ViewStep, ReportsKept DEF ReportInv

LEMMA WinRateStep ==
    ASSUME ReportInv, NEW v \in Viewers, WinRate(v)
    PROVE  ReportInv'
<1> DEFINE was == viewers[v]
           settled == Cardinality(PaidTo(v))
           wins == Cardinality({t \in PaidTo(v) : payouts[t] = "won"})
           view == [was EXCEPT !.at = "profit", !.settled = settled, !.wins = wins]
<1>1. /\ was \in ViewRec /\ ViewOK(was) /\ was.at = "results" /\ UNCHANGED reports
      /\ TicketsOK
  BY DEF ReportInv, WinRate
<1>2. Views(v, view)
  BY DEF WinRate
<1>3. settled = Cardinality(PaidBy(was)) /\ IsFiniteSet(PaidTo(v))
  BY <1>1, ConcernedByView, PaidFinite
<1>4. settled \in Nat /\ wins \in Nat /\ wins <= settled
  BY <1>3, FS_Subset, FS_CardinalityType
<1> HIDE DEF settled, wins
<1>5. view \in ViewRec
  BY <1>1, <1>4 DEF ViewRec, ViewSteps
<1>6. /\ view.at = "profit" /\ view.settled = settled /\ view.wins = wins
      /\ view.byMoney = was.byMoney /\ view.volume = was.volume
      /\ view.on = was.on /\ view.past = was.past
  BY <1>1 DEF ViewRec
<1> HIDE DEF view
<1>7. PaidBy(view) = PaidBy(was)
  BY <1>6 DEF PaidBy, ConcernedBy
<1>8. settled <= Cardinality(PaidBy(view))
  BY <1>3, <1>4, <1>7
<1>9. VolumesOK(view)
  BY <1>1, <1>6 DEF VolumesOK, ViewOK
<1>10. ViewOK(view)
  BY <1>1, <1>4, <1>6, <1>8, <1>9 DEF ViewOK
<1>11. QED
  BY <1>1, <1>2, <1>5, <1>10, ViewStep, ReportsKept DEF ReportInv

LEMMA ProfitStep ==
    ASSUME ReportInv, NEW v \in Viewers, Profit(v)
    PROVE  ReportInv'
<1> DEFINE was == viewers[v]
           paid == Cardinality(PaidTo(v))
           view == [was EXCEPT !.at = "put", !.paid = paid]
<1>1. /\ was \in ViewRec /\ ViewOK(was) /\ was.at = "profit" /\ UNCHANGED reports
      /\ TicketsOK
  BY DEF ReportInv, Profit
<1>2. Views(v, view)
  BY DEF Profit
<1>3. paid = Cardinality(PaidBy(was)) /\ paid \in Nat
  BY <1>1, ConcernedByView, PaidFinite
<1>4. was.settled <= paid
  BY <1>1, <1>3 DEF ViewOK
<1> HIDE DEF paid
<1>5. view \in ViewRec
  BY <1>1, <1>3 DEF ViewRec, ViewSteps
<1>6. /\ view.at = "put" /\ view.paid = paid /\ view.settled = was.settled
      /\ view.wins = was.wins /\ view.byMoney = was.byMoney /\ view.volume = was.volume
      /\ view.on = was.on /\ view.past = was.past
  BY <1>1 DEF ViewRec
<1> HIDE DEF view
<1>7. VolumesOK(view)
  BY <1>1, <1>6 DEF VolumesOK, ViewOK
<1>8. ViewOK(view)
  BY <1>1, <1>4, <1>6, <1>7 DEF ViewOK
<1>9. QED
  BY <1>1, <1>2, <1>5, <1>8, ViewStep, ReportsKept DEF ReportInv

LEMMA PutStep ==
    ASSUME ReportInv, NEW v \in Viewers, putCached(v)
    PROVE  ReportInv'
<1> DEFINE was == viewers[v]
           report == [was EXCEPT !.past = {}]
<1>1. /\ was \in ViewRec /\ ViewOK(was) /\ was.at = "put" /\ Views(v, NoView)
  BY DEF ReportInv, putCached
<1>2. /\ report.volume = was.volume /\ report.byMoney = was.byMoney /\ report.on = was.on
      /\ report.wins = was.wins /\ report.settled = was.settled /\ report.paid = was.paid
  BY <1>1 DEF ViewRec
<1> HIDE DEF report
<1>3. AddsUp(report)
  BY <1>1, <1>2 DEF AddsUp, ViewOK, VolumesOK
<1>4. \A topic \in Topics : reports'[topic] = reports[topic] \/ reports'[topic] = report
  BY DEF putCached, report, ReportInv, ReportsOK
<1>5. ReportsOK'
  <2>1. \A topic \in Topics : reports[topic] # NoReport => AddsUp(reports[topic])
    BY DEF ReportInv, ReportsOK, ReportsAddUp
  <2>2. \A topic \in Topics : reports'[topic] # NoReport => AddsUp(reports'[topic])
    BY <1>3, <1>4, <2>1
  <2>3. DOMAIN reports' = Topics
    BY DEF putCached, ReportInv, ReportsOK
  <2>4. QED
    BY <2>2, <2>3 DEF ReportsOK, ReportsAddUp, AddsUp
<1>6. QED
  BY <1>1, <1>5, NoViewOK, ViewStep

LEMMA ExpireStep ==
    ASSUME ReportInv, NEW topic \in Topics, ExpireReport(topic)
    PROVE  ReportInv'
<1>1. UNCHANGED <<filled, made, old, payouts, viewers>>
  BY DEF ExpireReport
<1>2. TicketsOK' /\ PairsOK' /\ CountsGrow
  BY <1>1, CountsKept DEF ReportInv
<1>3. \A other \in Topics : reports'[other] = reports[other] \/ reports'[other] = NoReport
  BY DEF ExpireReport, ReportInv, ReportsOK
<1>4. ReportsOK'
  <2>1. DOMAIN reports' = Topics
    BY DEF ExpireReport, ReportInv, ReportsOK
  <2>2. QED
    BY <1>3, <2>1 DEF ReportInv, ReportsOK, ReportsAddUp, AddsUp
<1>5. ASSUME NEW v \in Viewers
      PROVE  ViewOK(viewers[v])'
  <2>1. viewers'[v] = viewers[v] /\ viewers[v] \in ViewRec /\ ViewOK(viewers[v])
    BY <1>1 DEF ReportInv
  <2>2. QED
    BY <1>2, <2>1, ViewGrows DEF ReportInv
<1>6. QED
  BY <1>1, <1>2, <1>4, <1>5 DEF ReportInv

LEMMA ReportInit == StatsInit => ReportInv
<1> SUFFICES ASSUME StatsInit
             PROVE  ReportInv
  OBVIOUS
<1>1. TicketsOK
  BY DEF StatsInit, TicketsOK, Marks
<1>2. ASSUME NEW S \in SUBSET Tickets
      PROVE  Volume(S) % 2 = 0
  <2> DEFINE f == [t \in S |-> filled[t]]
  <2>1. IsFiniteSet(DOMAIN f) /\ \A t \in DOMAIN f : f[t] = 0 /\ f[t] \in Nat
    BY <1>1, VolumeType DEF StatsInit
  <2> HIDE DEF f
  <2>2. Total(f) = 0
    BY <2>1, TotalOfZeros
  <2>3. QED
    BY <2>2 DEF Volume, f
<1>3. PairsOK
  BY <1>2 DEF PairsOK, InMoney
<1>4. viewers \in [Viewers -> ViewRec] /\ \A v \in Viewers : ViewOK(viewers[v])
  BY NoViewOK DEF StatsInit
<1>5. ReportsOK
  BY DEF StatsInit, ReportsOK, ReportsAddUp
<1>6. QED
  BY <1>1, <1>3, <1>4, <1>5 DEF ReportInv

\* Reports add up, whatever happens between the statements they are made of
\* (ReportsAddUp).
THEOREM ReportsAreConsistent == StatsSpec => []ReportsAddUp
<1>1. ReportInv /\ [StatsNext]_statsVars => ReportInv'
  <2> SUFFICES ASSUME ReportInv, [StatsNext]_statsVars
               PROVE  ReportInv'
    OBVIOUS
  <2>1. CASE CreateTicket \/ Match \/ PayOut \/ TimeGoesBy
    <3>1. TicketsOK' /\ PairsOK' /\ CountsGrow
      BY <2>1, TicketsStep, MatchStep DEF ReportInv
    <3>2. UNCHANGED <<viewers, reports>>
      BY <2>1 DEF CreateTicket, Match, PayOut, TimeGoesBy, unchangedViews
    <3>3. QED
      BY <3>1, <3>2, RowsReported
  <2>2. CASE UNCHANGED statsVars
    <3>1. TicketsOK' /\ PairsOK' /\ CountsGrow
      BY <2>2, CountsKept DEF ReportInv, statsVars
    <3>2. QED
      BY <2>2, <3>1, RowsReported DEF statsVars
  <2>3. QED
    BY <2>1, <2>2, AskStep, SummaryStep, VolumesStep, WinRateStep, ProfitStep, PutStep,
       ExpireStep DEF StatsNext
<1>2. ReportInv => ReportsAddUp
  BY DEF ReportInv, ReportsOK
<1>3. QED
  BY <1>1, <1>2, ReportInit, PTL DEF StatsSpec

-----------------------------------------------------------------------------
(***************************************************************************)
(* Listings.  The rows that match are in a strict total order; a row's     *)
(* rank is the number of rows before it, which is its offset.              *)
(***************************************************************************)
RowRec == [stamp : Stamps, status : RowStatuses]

ReaderRec == [how : DOMAIN Listing \cup {"none"}, filter : Filters,
              step : {"none", "request", "counted", "read", "refused"},
              page : Nat, cursor : RowIds \cup {Absent}, total : Nat,
              standing : SUBSET RowIds, seen : SUBSET RowIds,
              repeated : BOOLEAN, shrunk : BOOLEAN, grown : BOOLEAN]

TableOK ==
    /\ table \in [RowIds -> RowRec \cup {Absent}]
    /\ IsFiniteSet(Listed)

Rank(S, i) == Cardinality({j \in S : Before(j, i)})

LEMMA ListingKinds ==
    /\ DOMAIN Listing = {"orders", "cursor", "transactions", "markets", "merchants"}
    /\ Listing["cursor"].sort = "latest id first" /\ ~ Listing["cursor"].counts
    /\ Listing["merchants"].sort = "oldest" /\ ~ Listing["merchants"].counts
    /\ \A how \in {"orders", "transactions", "markets"} :
          Listing[how].sort = "latest" /\ Listing[how].counts
    /\ \A how \in DOMAIN Listing :
          Listing[how].sort \in {"latest", "latest id first", "oldest"}
<1>1. /\ DOMAIN Listing = {"orders", "cursor", "transactions", "markets", "merchants"}
      /\ Listing["cursor"] = OrdersByCursor /\ Listing["merchants"] = MerchantsByPage
      /\ Listing["orders"] = OrdersByPage /\ Listing["markets"] = MarketsByPage
      /\ Listing["transactions"] = TransactionsByPage
  BY DEF Listing
<1>2. /\ OrdersByCursor.sort = "latest id first" /\ OrdersByCursor.counts = FALSE
      /\ MerchantsByPage.sort = "oldest" /\ MerchantsByPage.counts = FALSE
  BY DEF OrdersByCursor, MerchantsByPage
<1>3. /\ OrdersByPage.sort = "latest" /\ OrdersByPage.counts = TRUE
      /\ MarketsByPage.sort = "latest" /\ MarketsByPage.counts = TRUE
      /\ TransactionsByPage.sort = "latest" /\ TransactionsByPage.counts = TRUE
  BY DEF OrdersByPage, MarketsByPage, TransactionsByPage
<1>4. QED
  BY <1>1, <1>2, <1>3

LEMMA ListedRows ==
    ASSUME TableOK, NEW i \in Listed
    PROVE  /\ i \in RowIds /\ i \in Nat
           /\ table[i] \in RowRec /\ table[i].stamp \in Nat /\ table[i].status \in RowStatuses
<1>1. i \in RowIds /\ i \in Nat
  BY ListingsAssumption DEF Listed
<1>2. table[i] \in RowRec
  BY <1>1 DEF TableOK, Listed
<1>3. QED
  BY <1>1, <1>2, ListingsAssumption DEF RowRec

LEMMA BeforeIsTotal ==
    ASSUME TableOK, reader \in ReaderRec, reader.how # "none"
    PROVE  /\ \A i \in Listed : ~ Before(i, i)
           /\ \A i, j \in Listed : i = j \/ Before(i, j) \/ Before(j, i)
           /\ \A i, j, k \in Listed : Before(i, j) /\ Before(j, k) => Before(i, k)
<1>1. \A i \in Listed : i \in Nat /\ table[i].stamp \in Nat
  BY ListedRows
<1>2. Kind.sort \in {"latest", "latest id first", "oldest"}
  <2>1. reader.how \in DOMAIN Listing
    BY DEF ReaderRec
  <2>2. QED
    BY <2>1, ListingKinds DEF Kind
<1>3. CASE Kind.sort = "latest"
  BY <1>1, <1>3 DEF Before
<1>4. CASE Kind.sort = "latest id first"
  <2>1. \A i, j : Before(i, j) <=> \/ table[i].stamp > table[j].stamp
                                   \/ table[i].stamp = table[j].stamp /\ i > j
    BY <1>4 DEF Before
  <2>2. QED
    BY <1>1, <2>1
<1>5. CASE Kind.sort = "oldest"
  BY <1>1, <1>5 DEF Before
<1>6. QED
  BY <1>2, <1>3, <1>4, <1>5

LEMMA RankOrder ==
    ASSUME TableOK, reader \in ReaderRec, reader.how # "none", NEW S \in SUBSET Listed
    PROVE  /\ IsFiniteSet(S)
           /\ \A i : Rank(S, i) \in Nat
           /\ \A i, j \in S : Before(i, j) => Rank(S, i) < Rank(S, j)
           /\ \A i \in S : Rank(S, i) < Cardinality(S)
<1>1. IsFiniteSet(S)
  BY FS_Subset DEF TableOK
<1> DEFINE Ahead(i) == {j \in S : Before(j, i)}
<1>2. \A i : IsFiniteSet(Ahead(i)) /\ Cardinality(Ahead(i)) \in Nat
  BY <1>1, FS_Subset, FS_CardinalityType
<1>3. ASSUME NEW i \in S, NEW j \in S, Before(i, j)
      PROVE  Rank(S, i) < Rank(S, j)
  <2>1. Ahead(i) \subseteq Ahead(j) /\ i \in Ahead(j) /\ i \notin Ahead(i)
    BY <1>3, BeforeIsTotal
  <2>2. Cardinality(Ahead(i)) <= Cardinality(Ahead(j))
        /\ (Cardinality(Ahead(i)) = Cardinality(Ahead(j)) => Ahead(i) = Ahead(j))
    <3>1. Ahead(i) \subseteq Ahead(j) /\ IsFiniteSet(Ahead(j))
      BY <1>2, <2>1
    <3> HIDE DEF Ahead
    <3>2. QED
      BY <3>1, FS_Subset
  <2>3. QED
    BY <1>2, <2>1, <2>2 DEF Rank
<1>4. ASSUME NEW i \in S
      PROVE  Rank(S, i) < Cardinality(S)
  <2>1. Ahead(i) \subseteq S /\ i \in S /\ i \notin Ahead(i)
    BY BeforeIsTotal
  <2>2. Cardinality(Ahead(i)) <= Cardinality(S)
        /\ (Cardinality(Ahead(i)) = Cardinality(S) => Ahead(i) = S)
    <3> HIDE DEF Ahead
    <3>1. QED
      BY <1>1, <2>1, FS_Subset
  <2>3. Cardinality(S) \in Nat
    BY <1>1, FS_CardinalityType
  <2>4. QED
    BY <1>2, <2>1, <2>2, <2>3 DEF Rank
<1>5. QED
  BY <1>1, <1>2, <1>3, <1>4 DEF Rank

\* Every nonempty set of rows has a first and a last one.
LEMMA FirstAndLastRow ==
    ASSUME TableOK, reader \in ReaderRec, reader.how # "none",
           NEW S \in SUBSET Listed, S # {}
    PROVE  /\ \E i \in S : \A j \in S \ {i} : Before(i, j)
           /\ \E i \in S : \A j \in S \ {i} : Before(j, i)
<1>1. /\ \A i : Rank(S, i) \in Nat
      /\ \A i, j \in S : Before(i, j) => Rank(S, i) < Rank(S, j)
      /\ \A i \in S : Rank(S, i) < Cardinality(S)
      /\ Cardinality(S) \in Nat
  BY RankOrder, FS_CardinalityType
<1>2. \E i \in S : \A j \in S \ {i} : Before(i, j)
  <2> DEFINE ranks == {Rank(S, i) : i \in S}
  <2>1. PICK n \in ranks : \A k \in ranks : n <= k
    <3>1. ranks \subseteq Nat /\ ranks # {}
      BY <1>1
    <3> HIDE DEF ranks
    <3>2. QED
      BY <3>1, LeastNumber
  <2>2. PICK i \in S : n = Rank(S, i)
    BY <2>1
  <2>3. ASSUME NEW j \in S \ {i}
        PROVE  Before(i, j)
    BY <1>1, <2>1, <2>2, BeforeIsTotal
  <2>4. QED
    BY <2>3
<1>3. \E i \in S : \A j \in S \ {i} : Before(j, i)
  <2> DEFINE size == Cardinality(S)
             ranks == {size - Rank(S, i) : i \in S}
  <2>1. PICK n \in ranks : \A k \in ranks : n <= k
    <3>1. ranks \subseteq Nat /\ ranks # {}
      BY <1>1
    <3> HIDE DEF ranks
    <3>2. QED
      BY <3>1, LeastNumber
  <2>2. PICK i \in S : n = size - Rank(S, i)
    BY <2>1
  <2>3. ASSUME NEW j \in S \ {i}
        PROVE  Before(j, i)
    <3>1. size - Rank(S, i) <= size - Rank(S, j)
      BY <2>1, <2>2
    <3>2. Rank(S, j) <= Rank(S, i)
      BY <1>1, <3>1
    <3>3. QED
      BY <1>1, <3>2, BeforeIsTotal
  <2>4. QED
    BY <2>3
<1>4. QED
  BY <1>2, <1>3

\* The rows of a rank below n are n rows, unless they are all there are.
LEMMA RowsOfLowRank ==
    ASSUME TableOK, reader \in ReaderRec, reader.how # "none",
           NEW S \in SUBSET Listed, NEW n \in Nat, NEW top \in S, Rank(S, top) >= n
    PROVE  Cardinality({i \in S : Rank(S, i) < n}) = n
<1> DEFINE low == {i \in S : Rank(S, i) < n}
           high == {i \in S : ~ (Rank(S, i) < n)}
<1>1. /\ IsFiniteSet(S)
      /\ \A i : Rank(S, i) \in Nat
      /\ \A i, j \in S : Before(i, j) => Rank(S, i) < Rank(S, j)
  BY RankOrder
<1>2. IsFiniteSet(low) /\ Cardinality(low) \in Nat
  BY <1>1, FS_Subset, FS_CardinalityType
<1>3. Cardinality(low) >= n
  <2>1. top \in high /\ high \subseteq Listed
    BY <1>1
  <2>2. PICK i \in high : \A j \in high \ {i} : Before(i, j)
    <3> HIDE DEF high
    <3>1. QED
      BY <2>1, FirstAndLastRow
  <2>3. low = {j \in S : Before(j, i)}
    <3>1. ASSUME NEW j \in low
          PROVE  Before(j, i)
      <4>1. j # i /\ ~ Before(i, j)
        BY <1>1, <2>2, <3>1
      <4>2. QED
        BY <4>1, BeforeIsTotal
    <3>2. ASSUME NEW j \in S, Before(j, i)
          PROVE  j \in low
      <4>1. ~ Before(i, j) /\ j # i
        BY <2>2, <3>2, BeforeIsTotal
      <4>2. QED
        BY <2>2, <4>1
    <3>3. QED
      BY <3>1, <3>2
  <2>4. Cardinality(low) = Rank(S, i)
    BY <2>3 DEF Rank
  <2>5. QED
    BY <1>1, <2>2, <2>4
<1>4. Cardinality(low) <= n
  <2>1. CASE low = {}
    BY <2>1, FS_EmptySet
  <2>2. CASE low # {}
    <3>1. PICK i \in low : \A j \in low \ {i} : Before(j, i)
      <4>1. low \subseteq Listed
        OBVIOUS
      <4> HIDE DEF low
      <4>2. QED
        BY <2>2, <4>1, FirstAndLastRow
    <3>2. low \ {i} \subseteq {j \in S : Before(j, i)}
      BY <3>1
    <3>3. IsFiniteSet({j \in S : Before(j, i)})
      BY <1>1, FS_Subset
    <3>4. Cardinality(low \ {i}) <= Rank(S, i)
      BY <3>2, <3>3, FS_Subset DEF Rank
    <3>5. Cardinality(low \ {i}) = Cardinality(low) - 1
      BY <1>2, <3>1, FS_RemoveElement
    <3>6. QED
      BY <1>1, <1>2, <3>1, <3>4, <3>5
  <2>3. QED
    BY <2>1, <2>2
<1>5. QED
  BY <1>2, <1>3, <1>4

-----------------------------------------------------------------------------
(***************************************************************************)
(* The reader.  By cursor, it has seen the rows up to the cursor of those  *)
(* that were there.  By page number, what it has not seen yet has ranks    *)
(* from the next page on, unless a row left the filter.                    *)
(***************************************************************************)
Unseen == reader.standing \ reader.seen

CursorOK ==
    /\ ~ reader.repeated
    /\ reader.step \in {"request", "read", "refused"}
    /\ reader.step = "request"
          => /\ reader.cursor # Absent => reader.cursor \in Listed
             /\ \A i \in reader.seen :
                   /\ i \in Listed /\ reader.cursor # Absent
                   /\ i = reader.cursor \/ Before(i, reader.cursor)
             /\ \A i \in Unseen : afterCursor(i)
    /\ reader.step = "read" => reader.standing \subseteq reader.seen

Offset == (reader.page - 1) * PageLimit

PageOK ==
    /\ reader.page > 0
    /\ reader.step \in {"request", "counted"} /\ ~ reader.shrunk
          => \A i \in Unseen : Rank(Matched(reader.filter), i) >= Offset
    /\ reader.step = "counted" /\ ~ reader.shrunk /\ ~ reader.grown
          => reader.total = Cardinality(Matched(reader.filter))
    /\ reader.step = "read" /\ ~ reader.shrunk /\ ~ reader.grown
          => reader.standing \subseteq reader.seen

ListingInv ==
    /\ TableOK
    /\ reader \in ReaderRec
    /\ reader.how = "none" => reader = Unread
    /\ reader.standing \subseteq Matched(reader.filter)
    /\ reader.how = "cursor" => CursorOK
    /\ reader.how \notin {"none", "cursor"} => PageOK

LEMMA ListingInvInit == ListingInit => ListingInv
<1> SUFFICES ASSUME ListingInit
             PROVE  ListingInv
  OBVIOUS
<1>1. Listed = {}
  BY DEF ListingInit, Listed
<1>2. TableOK
  BY <1>1, FS_EmptySet DEF ListingInit, TableOK
<1>3. Unread \in ReaderRec
  BY DEF Unread, ReaderRec, Filters
<1>4. reader = Unread /\ Unread.how = "none" /\ Unread.standing = {}
  BY DEF ListingInit, Unread
<1>5. QED
  BY <1>2, <1>3, <1>4 DEF ListingInv

LEMMA ListingHolds ==
    ListingInv => CursorNeverRepeats /\ ListedInFull
<1> SUFFICES ASSUME ListingInv
             PROVE  CursorNeverRepeats /\ ListedInFull
  OBVIOUS
<1>1. CASE reader.how = "cursor"
  BY <1>1 DEF ListingInv, CursorOK, CursorNeverRepeats, ListedInFull
<1>2. CASE reader.how = "none"
  <2>1. reader.step = "none"
    BY <1>2 DEF ListingInv, Unread
  <2>2. QED
    BY <1>2, <2>1 DEF CursorNeverRepeats, ListedInFull
<1>3. CASE reader.how \notin {"none", "cursor"}
  BY <1>3 DEF ListingInv, PageOK, CursorNeverRepeats, ListedInFull
<1>4. QED
  BY <1>1, <1>2, <1>3

\* A row is inserted or closes: the others are as they were, and the reader
\* only notes what became of the rows it is to see.
TableMoves ==
    /\ Listed \subseteq Listed'
    /\ \A i \in Listed : table'[i].stamp = table[i].stamp
    /\ reader'.how = reader.how /\ reader'.filter = reader.filter
    /\ reader'.step = reader.step /\ reader'.page = reader.page
    /\ reader'.cursor = reader.cursor /\ reader'.total = reader.total
    /\ reader'.seen = reader.seen /\ reader'.repeated = reader.repeated
    /\ reader'.standing \subseteq reader.standing
    /\ reader.shrunk => reader'.shrunk
    /\ reader.grown => reader'.grown
    /\ ~ reader'.shrunk => Matched(reader.filter) \subseteq Matched(reader.filter)'
    /\ reader.step = "counted" /\ ~ reader'.shrunk /\ ~ reader'.grown
          => Matched(reader.filter)' = Matched(reader.filter)

LEMMA MovesKeep ==
    ASSUME ListingInv, TableOK', reader' \in ReaderRec, TableMoves,
           (reader.standing \subseteq Matched(reader.filter))',
           reader.how = "none" => reader' = reader
    PROVE  ListingInv'
<1>1. \A i, j \in Listed : Before(i, j)' <=> Before(i, j)
  BY DEF TableMoves, Before, Kind
<1>2. reader.standing \subseteq Listed
  BY DEF ListingInv, Matched
<1>3. ASSUME reader.how = "cursor"
      PROVE  CursorOK'
  <2>1. CursorOK
    BY <1>3 DEF ListingInv
  <2>2. Unseen' \subseteq Unseen
    BY DEF Unseen, TableMoves
  <2>3. ASSUME reader.step = "request", NEW i \in Unseen'
        PROVE  afterCursor(i)'
    <3>1. afterCursor(i) /\ i \in Listed /\ (reader.cursor # Absent => reader.cursor \in Listed)
      BY <1>2, <2>1, <2>2, <2>3 DEF CursorOK, Unseen
    <3>2. QED
      BY <3>1 DEF afterCursor, TableMoves, Before, Kind
  <2>4. ASSUME reader.step = "request", NEW i \in reader.seen
        PROVE  (/\ i \in Listed /\ reader.cursor # Absent
                /\ i = reader.cursor \/ Before(i, reader.cursor))'
    <3>1. /\ i \in Listed /\ reader.cursor # Absent /\ reader.cursor \in Listed
          /\ i = reader.cursor \/ Before(i, reader.cursor)
      BY <2>1, <2>4 DEF CursorOK
    <3>2. QED
      BY <3>1 DEF TableMoves, Before, Kind
  <2>5. QED
    BY <2>1, <2>3, <2>4 DEF CursorOK, TableMoves
<1>4. ASSUME reader.how \notin {"none", "cursor"}
      PROVE  PageOK'
  <2>1. PageOK
    BY <1>4 DEF ListingInv
  <2>2. ASSUME reader.step \in {"request", "counted"}, ~ reader'.shrunk, NEW i \in Unseen'
        PROVE  Rank(Matched(reader.filter), i)' >= Offset
    <3> DEFINE S == Matched(reader.filter)
               T == Matched(reader.filter)'
               ahead == {j \in S : Before(j, i)}
               more == {j \in T : Before(j, i)'}
    <3>1. S \subseteq T /\ S \subseteq Listed
      BY <2>2 DEF TableMoves, Matched
    <3>2. i \in Unseen /\ i \in Listed
      BY <1>2 DEF Unseen, TableMoves
    <3>3. ahead \subseteq more
      BY <1>1, <3>1, <3>2
    <3>4. IsFiniteSet(more)
      <4>1. more \subseteq Listed'
        BY DEF Matched
      <4>2. QED
        BY <4>1, FS_Subset DEF TableOK
    <3>5. Cardinality(ahead) <= Cardinality(more) /\ Cardinality(ahead) \in Nat
          /\ Cardinality(more) \in Nat
      <4> HIDE DEF ahead, more
      <4>1. QED
        BY <3>3, <3>4, FS_Subset, FS_CardinalityType
    <3>6. Cardinality(ahead) >= Offset
      BY <2>1, <2>2, <3>2 DEF PageOK, Rank, TableMoves
    <3>7. Offset \in Int
      BY ListingsAssumption DEF Offset, ListingInv, ReaderRec
    <3>8. Cardinality(more) >= Offset
      <4> HIDE DEF ahead, more
      <4>1. QED
        BY <3>5, <3>6, <3>7
    <3>9. QED
      BY <3>8 DEF Rank
  <2>3. Offset' = Offset
    BY DEF Offset, TableMoves
  <2>4. reader.step \in {"request", "counted"} /\ ~ reader'.shrunk
          => \A i \in Unseen' : Rank(Matched(reader.filter), i)' >= Offset'
    BY <2>2, <2>3
  <2>5. QED
    BY <2>1, <2>4 DEF PageOK, TableMoves
<1>5. reader'.how = reader.how /\ (reader'.how = "none" => reader' = Unread)
  BY DEF TableMoves, ListingInv
<1>6. QED
  BY <1>3, <1>4, <1>5 DEF ListingInv

LEMMA RowIsThere ==
    ASSUME NEW row \in RowRec
    PROVE  row # Absent
  BY ListingsAssumption DEF RowRec, RowStatuses

\* The stamp of a new row is of any replica's clock: it may rank anywhere.
LEMMA AddRowStep ==
    ASSUME ListingInv, AddRow
    PROVE  ListingInv'
<1>1. PICK i \in RowIds, t \in Stamps :
          /\ table[i] = Absent
          /\ table' = [table EXCEPT ![i] = [stamp |-> t, status |-> "open"]]
  BY DEF AddRow
<1> DEFINE row == [stamp |-> t, status |-> "open"]
<1>2. row \in RowRec /\ row # Absent
  <2>1. row \in RowRec
    BY DEF RowRec, RowStatuses
  <2>2. QED
    BY <2>1, RowIsThere
<1>3. TableOK
  BY DEF ListingInv
<1>4. /\ table'[i] = row
      /\ \A j \in RowIds \ {i} : table'[j] = table[j]
      /\ table' \in [RowIds -> RowRec \cup {Absent}]
  BY <1>1, <1>2, <1>3 DEF TableOK
<1>5. Listed' = Listed \cup {i} /\ i \notin Listed
  BY <1>1, <1>2, <1>4 DEF Listed
<1>6. TableOK'
  <2>1. IsFiniteSet(Listed)
    BY <1>3 DEF TableOK
  <2>2. IsFiniteSet(Listed \cup {i})
    BY <2>1, FS_AddElement
  <2>3. QED
    BY <1>4, <1>5, <2>2 DEF TableOK
<1>7. \A j \in Listed : table'[j] = table[j]
  BY <1>4, <1>5 DEF Listed
<1>8. \A f : Matched(f) \subseteq Matched(f)'
  BY <1>5, <1>7 DEF Matched, Matches
<1>9. reader \in ReaderRec
  BY DEF ListingInv
<1>10. CASE reader.step = "counted"
  <2>1. reader' = [reader EXCEPT !.grown = TRUE]
    BY <1>10 DEF AddRow
  <2>2. reader' \in ReaderRec /\ reader'.grown
    BY <1>9, <2>1 DEF ReaderRec
  <2>3. /\ reader'.how = reader.how /\ reader'.filter = reader.filter
        /\ reader'.step = reader.step /\ reader'.page = reader.page
        /\ reader'.cursor = reader.cursor /\ reader'.total = reader.total
        /\ reader'.seen = reader.seen /\ reader'.repeated = reader.repeated
        /\ reader'.standing = reader.standing /\ reader'.shrunk = reader.shrunk
    BY <1>9, <2>1 DEF ReaderRec
  <2>4. TableMoves
    BY <1>5, <1>7, <1>8, <2>2, <2>3 DEF TableMoves
  <2>5. reader.how # "none"
    BY <1>10 DEF ListingInv, Unread
  <2>6. (reader.standing \subseteq Matched(reader.filter))'
    BY <1>8, <2>3 DEF ListingInv
  <2>7. QED
    BY <1>6, <2>2, <2>4, <2>5, <2>6, MovesKeep
<1>11. CASE reader.step # "counted"
  <2>1. reader' = reader
    BY <1>11 DEF AddRow
  <2>2. TableMoves
    BY <1>5, <1>7, <1>8, <1>11, <2>1 DEF TableMoves
  <2>3. (reader.standing \subseteq Matched(reader.filter))'
    BY <1>8, <2>1 DEF ListingInv
  <2>4. QED
    BY <1>6, <1>9, <2>1, <2>2, <2>3, MovesKeep
<1>12. QED
  BY <1>10, <1>11

\* A row that leaves the filter is no longer one that the reader is to see.
LEMMA CloseRowStep ==
    ASSUME ListingInv, CloseRow
    PROVE  ListingInv'
<1>1. PICK i \in Matched("open") :
          /\ table' = [table EXCEPT ![i].status = "closed"]
          /\ reader' = [reader EXCEPT
                !.shrunk = @ \/ reader.filter = "open",
                !.grown = @ \/ (reader.step = "counted" /\ reader.filter = "closed"),
                !.standing = IF reader.filter = "open" THEN @ \ {i} ELSE @]
  BY DEF CloseRow
<1>2. TableOK /\ reader \in ReaderRec
  BY DEF ListingInv
<1>3. /\ i \in Listed /\ i \in RowIds /\ table[i] \in RowRec
      /\ table[i].status = "open"
  <2>1. i \in Listed /\ table[i].status = "open"
    BY DEF Matched, Matches, AnyStatus
  <2>2. QED
    BY <1>2, <2>1, ListedRows
<1> DEFINE row == [table[i] EXCEPT !.status = "closed"]
<1>4. /\ row \in RowRec /\ row # Absent
      /\ row.stamp = table[i].stamp /\ row.status = "closed"
  <2>1. row \in RowRec
    BY <1>3 DEF RowRec, RowStatuses
  <2>2. row.stamp = table[i].stamp /\ row.status = "closed"
    BY <1>3 DEF RowRec
  <2>3. QED
    BY <2>1, <2>2, RowIsThere
<1>5. /\ table'[i] = row
      /\ \A j \in RowIds \ {i} : table'[j] = table[j]
      /\ table' \in [RowIds -> RowRec \cup {Absent}]
  <2>1. table' = [table EXCEPT ![i] = row]
    BY <1>1
  <2> HIDE DEF row
  <2>2. QED
    BY <1>2, <1>3, <1>4, <2>1 DEF TableOK
<1>6. Listed' = Listed
  BY <1>3, <1>4, <1>5 DEF Listed
<1>7. TableOK'
  BY <1>2, <1>5, <1>6 DEF TableOK
<1>8. \A j \in Listed : table'[j].stamp = table[j].stamp
  BY <1>4, <1>5 DEF Listed
<1>9. /\ \A f : f # "open" => Matched(f) \subseteq Matched(f)'
      /\ \A f \in Filters : f \notin {"open", "closed"} => Matched(f)' = Matched(f)
      /\ Matched("open") \ {i} \subseteq Matched("open")'
  <2>1. \A j \in Listed : table'[j].status = IF j = i THEN "closed" ELSE table[j].status
    BY <1>4, <1>5 DEF Listed
  <2>2. \A f : Matched(f)' = {j \in Listed : f = AnyStatus \/ table'[j].status = f}
    BY <1>6 DEF Matched, Matches
  <2>3. QED
    BY <1>3, <2>1, <2>2 DEF Matched, Matches, Filters, RowStatuses
<1>10. /\ reader'.how = reader.how /\ reader'.filter = reader.filter
       /\ reader'.step = reader.step /\ reader'.page = reader.page
       /\ reader'.cursor = reader.cursor /\ reader'.total = reader.total
       /\ reader'.seen = reader.seen /\ reader'.repeated = reader.repeated
       /\ reader'.standing = IF reader.filter = "open" THEN reader.standing \ {i}
                             ELSE reader.standing
       /\ reader'.shrunk = (reader.shrunk \/ reader.filter = "open")
       /\ reader'.grown = (reader.grown
                            \/ (reader.step = "counted" /\ reader.filter = "closed"))
  BY <1>1, <1>2 DEF ReaderRec
<1>11. reader' \in ReaderRec
  <2>1. reader.standing \subseteq RowIds /\ reader.shrunk \in BOOLEAN /\ reader.grown \in BOOLEAN
    BY <1>2 DEF ReaderRec
  <2> DEFINE a == reader.shrunk \/ reader.filter = "open"
             b == reader.grown \/ (reader.step = "counted" /\ reader.filter = "closed")
             c == IF reader.filter = "open" THEN reader.standing \ {i} ELSE reader.standing
  <2>2. a \in BOOLEAN /\ b \in BOOLEAN /\ c \in SUBSET RowIds
    BY <2>1
  <2>3. reader' = [reader EXCEPT !.shrunk = a, !.grown = b, !.standing = c]
    BY <1>1
  <2> HIDE DEF a, b, c
  <2>4. QED
    BY <1>2, <2>2, <2>3 DEF ReaderRec
<1>12. TableMoves
  <2>1. reader.filter \in Filters
    BY <1>2 DEF ReaderRec
  <2>2. ~ reader'.shrunk => Matched(reader.filter) \subseteq Matched(reader.filter)'
    BY <1>9, <1>10
  <2>3. reader.step = "counted" /\ ~ reader'.shrunk /\ ~ reader'.grown
          => Matched(reader.filter)' = Matched(reader.filter)
    <3>1. ASSUME reader.step = "counted", ~ reader'.shrunk, ~ reader'.grown
          PROVE  reader.filter \notin {"open", "closed"} /\ reader'.filter = reader.filter
      BY <1>10, <3>1
    <3>2. \A f \in Filters : f \notin {"open", "closed"} => Matched(f)' = Matched(f)
      BY <1>9
    <3>3. QED
      BY <2>1, <3>1, <3>2 DEF Matched, Matches
  <2>4. QED
    BY <1>6, <1>8, <1>10, <2>2, <2>3 DEF TableMoves
<1>13. (reader.standing \subseteq Matched(reader.filter))'
  BY <1>9, <1>10 DEF ListingInv
<1>14. reader.how = "none" => reader' = reader
  <2>1. ASSUME reader.how = "none"
        PROVE  reader' = reader
    <3>1. reader = Unread
      BY <2>1 DEF ListingInv
    <3>2. reader.filter \notin {"open", "closed"} /\ reader.shrunk = FALSE /\ reader.grown = FALSE
      BY <3>1 DEF Unread, AnyStatus
    <3>3. reader' = [reader EXCEPT !.shrunk = FALSE, !.grown = FALSE,
                                   !.standing = reader.standing]
      BY <1>1, <3>2
    <3>4. QED
      BY <3>2, <3>3, <1>2 DEF ReaderRec
  <2>2. QED
    BY <2>1
<1>15. QED
  BY <1>7, <1>11, <1>12, <1>13, <1>14, MovesKeep

LEMMA SameTable ==
    ASSUME table' = table
    PROVE  /\ Listed' = Listed
           /\ \A f : Matched(f)' = Matched(f)
           /\ TableOK => TableOK'
<1>1. Listed' = Listed /\ \A f : Matched(f)' = Matched(f)
  BY DEF Listed, Matched, Matches
<1>2. QED
  BY <1>1 DEF TableOK

LEMMA SameOrder ==
    ASSUME table' = table, reader'.how = reader.how
    PROVE  /\ \A i, j : Before(i, j)' = Before(i, j)
           /\ \A f, i : Rank(Matched(f), i)' = Rank(Matched(f), i)
<1>1. \A i, j : Before(i, j)' = Before(i, j)
  BY DEF Before, Kind
<1>2. \A f : Matched(f)' = Matched(f)
  BY SameTable
<1>3. QED
  BY <1>1, <1>2 DEF Rank

LEMMA MatchedFinite ==
    ASSUME TableOK, NEW f
    PROVE  /\ Matched(f) \subseteq Listed /\ Matched(f) \subseteq RowIds
           /\ IsFiniteSet(Matched(f)) /\ Cardinality(Matched(f)) \in Nat
<1>1. Matched(f) \subseteq Listed /\ Matched(f) \subseteq RowIds
  BY DEF Matched, Listed
<1>2. QED
  BY <1>1, FS_Subset, FS_CardinalityType DEF TableOK

LEMMA StartStep ==
    ASSUME ListingInv, NEW how \in DOMAIN Listing, NEW filter \in Filters,
           StartListing(how, filter)
    PROVE  ListingInv'
<1> DEFINE S == Matched(filter)
<1>1. /\ table' = table
      /\ reader' = [Unread EXCEPT !.how = how, !.filter = filter, !.step = "request",
                                  !.page = 1, !.standing = S]
  BY DEF StartListing
<1>2. TableOK /\ TableOK' /\ S' = S /\ S \subseteq RowIds /\ IsFiniteSet(S)
  BY <1>1, SameTable, MatchedFinite DEF ListingInv
<1>3. reader' = [how |-> how, filter |-> filter, step |-> "request",
                 page |-> 1, cursor |-> Absent, total |-> 0,
                 standing |-> S, seen |-> {},
                 repeated |-> FALSE, shrunk |-> FALSE, grown |-> FALSE]
  <2> HIDE DEF S
  <2>1. QED
    BY <1>1 DEF Unread
<1>4. reader' \in ReaderRec
  <2> HIDE DEF S
  <2>1. QED
    BY <1>2, <1>3 DEF ReaderRec
<1>5. /\ reader'.how = how /\ reader'.filter = filter /\ reader'.step = "request"
      /\ reader'.page = 1 /\ reader'.cursor = Absent
      /\ reader'.standing = S /\ reader'.seen = {} /\ ~ reader'.repeated
  BY <1>3
<1>6. CursorOK'
  BY <1>5 DEF CursorOK, afterCursor
<1>7. PageOK'
  <2>1. Offset' = 0
    BY <1>5, ListingsAssumption DEF Offset
  <2>2. \A i : Rank(S, i)' \in Nat
    <3>1. \A i : {j \in S : Before(j, i)'} \subseteq S
      OBVIOUS
    <3>2. \A i : Cardinality({j \in S : Before(j, i)'}) \in Nat
      <4> HIDE DEF S
      <4>1. QED
        BY <1>2, <3>1, FS_Subset, FS_CardinalityType
    <3>3. QED
      BY <1>2, <3>2 DEF Rank
  <2>3. \A i : Rank(Matched(reader.filter), i)' \in Nat
    BY <1>5, <2>2 DEF Rank, Matched, Matches
  <2>4. QED
    BY <1>5, <2>1, <2>3 DEF PageOK
<1>8. how # "none"
  BY ListingKinds
<1>9. (reader.standing \subseteq Matched(reader.filter))'
  BY <1>2, <1>5 DEF Matched, Matches
<1>10. QED
  BY <1>2, <1>4, <1>5, <1>6, <1>7, <1>8, <1>9 DEF ListingInv

LEMMA ReaderSteps ==
    ASSUME ListingInv, reader.step # "none"
    PROVE  reader.how # "none" /\ reader.how \in DOMAIN Listing
BY DEF ListingInv, Unread, ReaderRec

LEMMA RefusedStep ==
    ASSUME ListingInv, PageRefused
    PROVE  ListingInv'
<1>1. table' = table /\ reader.step = "request"
      /\ reader' = [reader EXCEPT !.step = "refused"]
  BY DEF PageRefused
<1>2. reader \in ReaderRec /\ reader.how # "none"
  BY <1>1, ReaderSteps DEF ListingInv
<1>3. reader' \in ReaderRec
  BY <1>1, <1>2 DEF ReaderRec
<1>4. /\ reader'.how = reader.how /\ reader'.filter = reader.filter
      /\ reader'.step = "refused" /\ reader'.page = reader.page
      /\ reader'.standing = reader.standing /\ reader'.repeated = reader.repeated
  BY <1>1, <1>2 DEF ReaderRec
<1>5. TableOK' /\ (reader.standing \subseteq Matched(reader.filter))'
  BY <1>1, <1>4, SameTable DEF ListingInv
<1>6. /\ reader.how = "cursor" => CursorOK'
      /\ reader.how # "cursor" => PageOK'
  BY <1>2, <1>4 DEF ListingInv, CursorOK, PageOK
<1>7. QED
  BY <1>2, <1>3, <1>4, <1>5, <1>6 DEF ListingInv

LEMMA CountStep ==
    ASSUME ListingInv, CountRows
    PROVE  ListingInv'
<1> DEFINE n == Cardinality(Matched(reader.filter))
<1>1. table' = table /\ reader.step = "request" /\ Kind.counts
      /\ reader' = [reader EXCEPT !.step = "counted", !.grown = FALSE, !.total = n]
  BY DEF CountRows
<1>2. reader \in ReaderRec /\ reader.how # "none" /\ reader.how # "cursor" /\ TableOK
  BY <1>1, ReaderSteps, ListingKinds DEF ListingInv, Kind
<1>3. n \in Nat
  BY <1>2, MatchedFinite
<1>4. reader' \in ReaderRec
  <2> HIDE DEF n
  <2>1. QED
    BY <1>1, <1>2, <1>3 DEF ReaderRec
<1>5. /\ reader'.how = reader.how /\ reader'.filter = reader.filter
      /\ reader'.step = "counted" /\ reader'.page = reader.page
      /\ reader'.standing = reader.standing /\ reader'.seen = reader.seen
      /\ reader'.shrunk = reader.shrunk /\ reader'.total = n
  <2> HIDE DEF n
  <2>1. QED
    BY <1>1, <1>2 DEF ReaderRec
<1>6. TableOK' /\ (reader.standing \subseteq Matched(reader.filter))'
  BY <1>1, <1>2, <1>5, SameTable DEF ListingInv
<1>7. Matched(reader.filter)' = Matched(reader.filter)
      /\ \A i : Rank(Matched(reader.filter), i)' = Rank(Matched(reader.filter), i)
  BY <1>1, <1>5, SameTable, SameOrder DEF Rank, Matched, Matches
<1>8. PageOK'
  <2>1. PageOK
    BY <1>2 DEF ListingInv
  <2>2. Unseen' = Unseen /\ Offset' = Offset
    BY <1>5 DEF Unseen, Offset
  <2>3. QED
    BY <1>1, <1>5, <1>7, <2>1, <2>2 DEF PageOK
<1>9. QED
  BY <1>2, <1>4, <1>5, <1>6, <1>8 DEF ListingInv

LEMMA NextOffset ==
    ASSUME NEW p \in Nat, p > 0, NEW limit \in Nat
    PROVE  /\ (p - 1) * limit \in Nat
           /\ ((p + 1) - 1) * limit = p * limit
           /\ p * limit = (p - 1) * limit + limit
<1>1. PICK q \in Nat : p = q + 1
  <2>1. p - 1 \in Nat /\ p = (p - 1) + 1
    OBVIOUS
  <2>2. QED
    BY <2>1
<1>2. p - 1 = q /\ (p + 1) - 1 = q + 1
  BY <1>1
<1>3. q * limit \in Nat /\ (q + 1) * limit = q * limit + limit
  BY <1>1
<1>4. QED
  BY <1>1, <1>2, <1>3

\* A full page is at the ranks from its offset on.
LEMMA FullPage ==
    ASSUME TableOK, reader \in ReaderRec, reader.how # "none",
           NEW S \in SUBSET Listed, NEW n \in Nat,
           NEW top \in S, Rank(S, top) >= n + PageLimit
    PROVE  Cardinality(RowsAfter(S, n)) = PageLimit
<1> DEFINE low(k) == {i \in S : Rank(S, i) < k}
           page == RowsAfter(S, n)
<1>1. /\ PageLimit \in Nat /\ n + PageLimit \in Nat
      /\ IsFiniteSet(S) /\ \A i : Rank(S, i) \in Nat
  BY ListingsAssumption, RankOrder
<1>2. Cardinality(low(n + PageLimit)) = n + PageLimit /\ Cardinality(low(n)) = n
  <2>1. Rank(S, top) >= n
    BY <1>1
  <2>2. Cardinality(low(n)) = n
    BY <2>1, RowsOfLowRank
  <2>3. ASSUME NEW k \in Nat, Rank(S, top) >= k
        PROVE  Cardinality(low(k)) = k
    BY <2>3, RowsOfLowRank
  <2>4. QED
    BY <1>1, <2>2, <2>3
<1>3. page = low(n + PageLimit) \ low(n) /\ low(n) \subseteq low(n + PageLimit)
  <2>1. page = {i \in S : Rank(S, i) \in n .. (n + PageLimit - 1)}
    BY DEF RowsAfter, Rank
  <2>2. \A i : Rank(S, i) \in n .. (n + PageLimit - 1)
                <=> Rank(S, i) < n + PageLimit /\ ~ (Rank(S, i) < n)
    BY <1>1
  <2>3. \A i : Rank(S, i) < n => Rank(S, i) < n + PageLimit
    BY <1>1
  <2>4. QED
    BY <2>1, <2>2, <2>3
<1>4. IsFiniteSet(low(n + PageLimit))
  BY <1>1, FS_Subset
<1> HIDE DEF low, page
<1>5. Cardinality(page) = Cardinality(low(n + PageLimit))
                          - Cardinality(low(n + PageLimit) \cap low(n))
  BY <1>3, <1>4, FS_Difference
<1>6. low(n + PageLimit) \cap low(n) = low(n)
  BY <1>3
<1>7. Cardinality(page) = (n + PageLimit) - n
  BY <1>2, <1>5, <1>6
<1>8. QED
  BY <1>1, <1>7 DEF page

\* What is unseen after a page is at the ranks after it; after the last page
\* there are none.
LEMMA SelectStep ==
    ASSUME ListingInv, reader.how # "none", SelectPage
    PROVE  ListingInv'
<1> DEFINE S == Matched(reader.filter)
           page == RowsAfter(S, Offset)
           last == LastPage(page)
<1>1. /\ table' = table /\ reader.how # "cursor"
      /\ reader.step = IF Kind.counts THEN "counted" ELSE "request"
      /\ reader' = [NextPageNumber EXCEPT
                       !.step = IF last THEN "read" ELSE "request",
                       !.seen = @ \cup page,
                       !.repeated = @ \/ page \cap reader.seen # {}]
  BY DEF SelectPage, Reads, Offset
<1>2. TableOK /\ reader \in ReaderRec /\ PageOK /\ reader.standing \subseteq S
      /\ reader.page \in Nat /\ reader.page > 0
  BY <1>1 DEF ListingInv, PageOK, ReaderRec
<1>3. PageLimit \in Nat /\ Offset \in Nat
      /\ reader.page * PageLimit = Offset + PageLimit
      /\ ((reader.page + 1) - 1) * PageLimit = Offset + PageLimit
  BY <1>2, NextOffset, ListingsAssumption DEF Offset
<1>4. page \subseteq S /\ page \subseteq RowIds /\ S \subseteq Listed
      /\ Cardinality(S) \in Nat
  BY <1>2, MatchedFinite DEF RowsAfter
<1>5. /\ reader' \in ReaderRec
      /\ reader'.how = reader.how /\ reader'.filter = reader.filter
      /\ reader'.step = (IF last THEN "read" ELSE "request")
      /\ reader'.page = reader.page + 1
      /\ reader'.standing = reader.standing /\ reader'.seen = reader.seen \cup page
      /\ reader'.shrunk = reader.shrunk /\ reader'.grown = reader.grown
  <2> DEFINE step == IF last THEN "read" ELSE "request"
             seen == reader.seen \cup page
             repeated == reader.repeated \/ page \cap reader.seen # {}
  <2>1. /\ step \in {"read", "request"} /\ repeated \in BOOLEAN
        /\ seen \in SUBSET RowIds /\ reader.page + 1 \in Nat
    BY <1>2, <1>4 DEF ReaderRec
  <2>2. reader' = [reader EXCEPT !.page = reader.page + 1, !.step = step,
                                 !.seen = seen, !.repeated = repeated]
    <3> HIDE DEF page, last
    <3>1. QED
      BY <1>1, <1>2 DEF NextPageNumber, ReaderRec
  <2> HIDE DEF seen, repeated, step
  <2>3. reader' \in ReaderRec
    BY <1>2, <2>1, <2>2 DEF ReaderRec
  <2>4. /\ reader'.how = reader.how /\ reader'.filter = reader.filter
        /\ reader'.step = step /\ reader'.page = reader.page + 1
        /\ reader'.standing = reader.standing /\ reader'.seen = seen
        /\ reader'.shrunk = reader.shrunk /\ reader'.grown = reader.grown
    BY <1>2, <2>2 DEF ReaderRec
  <2>5. QED
    BY <2>3, <2>4 DEF step, seen
<1>6. TableOK' /\ S' = S /\ (reader.standing \subseteq Matched(reader.filter))'
  BY <1>1, <1>2, <1>5, SameTable DEF Matched, Matches
<1>7. ASSUME ~ reader.shrunk, NEW i \in reader.standing \ reader'.seen
      PROVE  i \in S /\ Rank(S, i) >= Offset + PageLimit
  <2>1. i \in Unseen /\ i \in S /\ i \notin page
    BY <1>2, <1>5, <1>7 DEF Unseen
  <2>2. Rank(S, i) >= Offset
    BY <1>1, <1>2, <1>7, <2>1 DEF PageOK
  <2>3. Rank(S, i) \notin Offset .. (Offset + PageLimit - 1)
    BY <2>1 DEF RowsAfter, Rank
  <2>4. Rank(S, i) \in Nat
    BY <1>2, <1>4, RankOrder
  <2>5. QED
    BY <1>3, <2>1, <2>2, <2>3, <2>4
<1>8. Offset' = Offset + PageLimit
  BY <1>3, <1>5 DEF Offset
<1>9. ASSUME ~ reader.shrunk, NEW i \in Unseen'
      PROVE  Rank(Matched(reader.filter), i)' >= Offset'
  <2>1. i \in reader.standing \ reader'.seen
    BY <1>5, <1>9 DEF Unseen
  <2>2. Rank(S, i) >= Offset + PageLimit
    BY <1>7, <1>9, <2>1
  <2>3. Rank(Matched(reader.filter), i)' = Rank(S, i)
    BY <1>1, <1>5, SameOrder DEF Rank, Matched, Matches
  <2>4. QED
    BY <1>8, <2>2, <2>3
<1>10. ASSUME last, ~ reader.shrunk, ~ reader.grown
       PROVE  reader.standing \subseteq reader'.seen
  <2> SUFFICES ASSUME NEW i \in reader.standing \ reader'.seen
               PROVE  FALSE
    OBVIOUS
  <2>1. i \in S /\ Rank(S, i) >= Offset + PageLimit
    BY <1>7, <1>10
  <2>2. Rank(S, i) < Cardinality(S) /\ Rank(S, i) \in Nat
    BY <1>2, <1>4, <2>1, RankOrder
  <2>3. CASE Kind.counts
    <3>1. reader.total = Cardinality(S)
      BY <1>1, <1>2, <1>10, <2>3 DEF PageOK
    <3>2. Offset + PageLimit >= reader.total
      BY <1>3, <1>10, <2>3 DEF LastPage, LastOfCounted
    <3>3. QED
      BY <1>3, <1>4, <2>1, <2>2, <3>1, <3>2
  <2>4. CASE ~ Kind.counts
    <3>1. Cardinality(page) < PageLimit
      BY <1>10, <2>4 DEF LastPage, ShortPage
    <3>2. Cardinality(page) = PageLimit
      BY <1>2, <1>3, <1>4, <2>1, FullPage
    <3>3. QED
      BY <1>3, <3>1, <3>2
  <2>5. QED
    BY <2>3, <2>4
<1>11. PageOK'
  <2>1. reader'.page > 0 /\ reader'.step # "counted"
    BY <1>2, <1>5
  <2>2. reader'.step = "read" => last
    BY <1>5
  <2> HIDE DEF S, page, last
  <2>3. QED
    BY <1>5, <1>9, <1>10, <2>1, <2>2 DEF PageOK
<1>12. QED
  BY <1>1, <1>5, <1>6, <1>11 DEF ListingInv

\* A page by cursor is disjoint from what was seen, and the rows that remain
\* are after its last one.
LEMMA PageByCursor ==
    ASSUME TableOK, reader \in ReaderRec, reader.how # "none",
           NEW rest \in SUBSET Listed
    PROVE  /\ Cardinality(rest) <= PageLimit => RowsAfter(rest, 0) = rest
           /\ ~ (Cardinality(rest) <= PageLimit) =>
                 \E i \in RowsAfter(rest, 0) :
                    /\ \A j \in RowsAfter(rest, 0) \ {i} : Before(j, i)
                    /\ \A j \in rest \ RowsAfter(rest, 0) : Before(i, j)
<1> DEFINE page == RowsAfter(rest, 0)
<1>1. /\ PageLimit \in Nat \ {0} /\ Cardinality(rest) \in Nat
      /\ \A i : Rank(rest, i) \in Nat
      /\ \A i, j \in rest : Before(i, j) => Rank(rest, i) < Rank(rest, j)
      /\ \A i \in rest : Rank(rest, i) < Cardinality(rest)
  BY ListingsAssumption, RankOrder, FS_CardinalityType
<1>2. page = {i \in rest : Rank(rest, i) < PageLimit}
  <2>1. page = {i \in rest : Rank(rest, i) \in 0 .. (0 + PageLimit - 1)}
    BY DEF RowsAfter, Rank
  <2>2. \A i : Rank(rest, i) \in 0 .. (0 + PageLimit - 1) <=> Rank(rest, i) < PageLimit
    BY <1>1
  <2>3. QED
    BY <2>1, <2>2
<1> HIDE DEF page
<1>3. ASSUME Cardinality(rest) <= PageLimit
      PROVE  page = rest
  BY <1>1, <1>2, <1>3
<1>4. ASSUME ~ (Cardinality(rest) <= PageLimit)
      PROVE  \E i \in page : /\ \A j \in page \ {i} : Before(j, i)
                             /\ \A j \in rest \ page : Before(i, j)
  <2>1. rest # {}
    BY <1>1, <1>4, FS_EmptySet
  <2>2. PICK first \in rest : \A j \in rest \ {first} : Before(first, j)
    BY <2>1, FirstAndLastRow
  <2>3. {j \in rest : Before(j, first)} = {}
    BY <2>2, BeforeIsTotal
  <2>4. Rank(rest, first) = 0
    BY <2>3, FS_EmptySet DEF Rank
  <2>5. page # {} /\ page \subseteq rest /\ page \subseteq Listed
    BY <1>1, <1>2, <2>4
  <2>6. PICK i \in page : \A j \in page \ {i} : Before(j, i)
    BY <2>5, FirstAndLastRow
  <2>7. ASSUME NEW j \in rest \ page
        PROVE  Before(i, j)
    <3>1. ~ (Rank(rest, j) < PageLimit) /\ Rank(rest, i) < PageLimit /\ i \in rest
      BY <1>2, <2>5
    <3>2. ~ Before(j, i) /\ j # i
      BY <1>1, <3>1
    <3>3. QED
      BY <2>5, <3>2, BeforeIsTotal
  <2>8. QED
    BY <2>6, <2>7
<1>5. QED
  BY <1>3, <1>4 DEF page

LEMMA AfterStep ==
    ASSUME ListingInv, ListAfter
    PROVE  ListingInv'
<1> DEFINE S == Matched(reader.filter)
           rest == {i \in S : afterCursor(i)}
           page == RowsAfter(rest, 0)
           lastRow == CHOOSE i \in page : \A j \in page \ {i} : Before(j, i)
           last == Cardinality(rest) <= PageLimit
           cursor == IF last THEN reader.cursor ELSE lastRow
           repeated == reader.repeated \/ page \cap reader.seen # {}
<1>1. /\ table' = table /\ reader.how = "cursor" /\ reader.step = "request"
      /\ reader' = [IF last THEN reader ELSE [reader EXCEPT !.cursor = lastRow] EXCEPT
                       !.step = IF last THEN "read" ELSE "request",
                       !.seen = @ \cup page,
                       !.repeated = @ \/ page \cap reader.seen # {}]
  BY DEF ListAfter, Reads
<1>2. /\ TableOK /\ reader \in ReaderRec /\ CursorOK /\ reader.standing \subseteq S
      /\ reader.how # "none"
  BY <1>1 DEF ListingInv
<1>3. /\ page \subseteq rest /\ rest \subseteq S /\ S \subseteq Listed
      /\ Listed \subseteq RowIds /\ page \subseteq RowIds
  BY <1>2, MatchedFinite DEF RowsAfter, Listed
<1>4. /\ last => page = rest
      /\ ~ last => /\ lastRow \in page
                   /\ \A j \in page \ {lastRow} : Before(j, lastRow)
                   /\ \A j \in rest \ page : Before(lastRow, j)
  <2>1. last => page = rest
    BY <1>2, <1>3, PageByCursor
  <2>2. ASSUME ~ last
        PROVE  /\ lastRow \in page
               /\ \A j \in page \ {lastRow} : Before(j, lastRow)
               /\ \A j \in rest \ page : Before(lastRow, j)
    <3>1. PICK i \in page : /\ \A j \in page \ {i} : Before(j, i)
                            /\ \A j \in rest \ page : Before(i, j)
      BY <1>2, <1>3, <2>2, PageByCursor
    <3>2. lastRow \in page /\ \A j \in page \ {lastRow} : Before(j, lastRow)
      BY <3>1
    <3>3. lastRow = i
      <4> HIDE DEF page, lastRow
      <4>1. lastRow # i => Before(lastRow, i) /\ Before(i, lastRow)
        BY <3>1, <3>2
      <4>2. lastRow \in Listed /\ i \in Listed
        BY <1>3, <3>1, <3>2
      <4>3. QED
        BY <1>2, <4>1, <4>2, BeforeIsTotal
    <3>4. QED
      BY <3>1, <3>2, <3>3
  <2>3. QED
    BY <2>1, <2>2
<1>5. ASSUME NEW i \in reader.seen, NEW j \in rest
      PROVE  Before(i, j)
  <2>1. /\ i \in Listed /\ reader.cursor \in Listed
        /\ i = reader.cursor \/ Before(i, reader.cursor)
        /\ Before(reader.cursor, j)
    BY <1>1, <1>2 DEF CursorOK, afterCursor
  <2>2. QED
    BY <1>2, <1>3, <2>1, BeforeIsTotal
<1>6. page \cap reader.seen = {}
  BY <1>2, <1>3, <1>5, BeforeIsTotal
<1>7. Unseen \subseteq rest
  BY <1>1, <1>2 DEF CursorOK, Unseen
<1> HIDE DEF page, lastRow, last, rest, S
<1>8. /\ cursor \in RowIds \cup {Absent} /\ ~ repeated /\ repeated \in BOOLEAN
      /\ reader.seen \cup page \in SUBSET RowIds
  BY <1>2, <1>3, <1>4, <1>6 DEF ReaderRec, CursorOK
<1>9. reader' = [reader EXCEPT !.cursor = cursor,
                               !.step = IF last THEN "read" ELSE "request",
                               !.seen = reader.seen \cup page,
                               !.repeated = repeated]
  <2>1. CASE last
    <3>1. cursor = reader.cursor
      BY <2>1
    <3>2. reader' = [reader EXCEPT !.step = IF last THEN "read" ELSE "request",
                                   !.seen = reader.seen \cup page,
                                   !.repeated = repeated]
      BY <1>1, <2>1
    <3> HIDE DEF repeated
    <3>3. QED
      BY <1>2, <3>1, <3>2 DEF ReaderRec
  <2>2. CASE ~ last
    <3>1. cursor = lastRow
      BY <2>2
    <3>2. reader' = [[reader EXCEPT !.cursor = lastRow] EXCEPT
                        !.step = IF last THEN "read" ELSE "request",
                        !.seen = reader.seen \cup page,
                        !.repeated = repeated]
      BY <1>1, <1>2, <2>2 DEF ReaderRec
    <3> HIDE DEF repeated, cursor
    <3>3. QED
      BY <1>2, <3>1, <3>2 DEF ReaderRec
  <2>3. QED
    BY <2>1, <2>2
<1> HIDE DEF cursor, repeated
<1>10. reader' \in ReaderRec
  <2> DEFINE step == IF last THEN "read" ELSE "request"
             seen == reader.seen \cup page
  <2>1. step \in {"read", "request"} /\ seen \in SUBSET RowIds
    BY <1>8
  <2>2. reader' = [reader EXCEPT !.cursor = cursor, !.step = step,
                                 !.seen = seen, !.repeated = repeated]
    BY <1>9
  <2> HIDE DEF seen, step
  <2>3. QED
    BY <1>2, <1>8, <2>1, <2>2 DEF ReaderRec
<1>11. /\ reader'.how = "cursor" /\ reader'.filter = reader.filter
       /\ reader'.step = (IF last THEN "read" ELSE "request")
       /\ reader'.cursor = cursor /\ reader'.standing = reader.standing
       /\ reader'.seen = reader.seen \cup page /\ reader'.repeated = repeated
  BY <1>1, <1>2, <1>9 DEF ReaderRec
<1>12. TableOK' /\ Listed' = Listed
       /\ \A f : Matched(f)' = Matched(f)
       /\ \A i, j : Before(i, j)' = Before(i, j)
  BY <1>1, <1>2, <1>11, SameTable, SameOrder
<1>13. (reader.standing \subseteq Matched(reader.filter))'
  BY <1>2, <1>11, <1>12 DEF S, Matched, Matches
<1>14. ASSUME last
       PROVE  reader.standing \subseteq reader.seen \cup page
  BY <1>4, <1>7, <1>14 DEF Unseen
<1>15. ASSUME ~ last
       PROVE  /\ cursor = lastRow /\ lastRow \in Listed /\ lastRow # Absent
              /\ \A i \in reader.seen \cup page :
                    i \in Listed /\ (i = lastRow \/ Before(i, lastRow))
              /\ \A i \in reader.standing \ (reader.seen \cup page) : Before(lastRow, i)
  <2>1. lastRow \in page /\ lastRow \in rest /\ lastRow \in Listed /\ lastRow # Absent
    BY <1>3, <1>4, <1>15, ListingsAssumption
  <2>2. ASSUME NEW i \in reader.seen
        PROVE  i \in Listed /\ Before(i, lastRow)
    BY <1>1, <1>2, <1>5, <2>1 DEF CursorOK
  <2>3. ASSUME NEW i \in page
        PROVE  i \in Listed /\ (i = lastRow \/ Before(i, lastRow))
    BY <1>3, <1>4, <1>15
  <2>4. ASSUME NEW i \in reader.standing \ (reader.seen \cup page)
        PROVE  Before(lastRow, i)
    BY <1>4, <1>7, <1>15 DEF Unseen
  <2>5. QED
    BY <1>15, <2>1, <2>2, <2>3, <2>4 DEF cursor
<1>16. CursorOK'
  <2>1. CASE last
    BY <1>8, <1>11, <1>14, <2>1 DEF CursorOK
  <2>2. CASE ~ last
    <3> PICK z \in Listed : z = lastRow
      BY <1>15, <2>2
    <3>1. /\ reader'.step = "request" /\ ~ reader'.repeated /\ reader'.cursor = z
          /\ z \in Listed' /\ z # Absent
      BY <1>8, <1>11, <1>12, <1>15, <2>2
    <3>2. ASSUME NEW i \in reader'.seen
          PROVE  i \in Listed' /\ (i = z \/ Before(i, z)')
      BY <1>11, <1>12, <1>15, <2>2
    <3>3. ASSUME NEW i \in Unseen'
          PROVE  Before(z, i)'
      BY <1>11, <1>12, <1>15, <2>2 DEF Unseen
    <3>4. \A i \in reader'.seen : /\ i \in Listed' /\ reader'.cursor # Absent
                                  /\ i = reader'.cursor \/ Before(i, reader.cursor)'
      BY <3>1, <3>2 DEF Before, Kind
    <3>5. \A i \in Unseen' : afterCursor(i)'
      BY <3>1, <3>3 DEF afterCursor, Before, Kind
    <3>6. QED
      BY <3>1, <3>4, <3>5 DEF CursorOK
  <2>3. QED
    BY <2>1, <2>2
<1>17. QED
  BY <1>10, <1>11, <1>12, <1>13, <1>16 DEF ListingInv

LEMMA ListingNextStep ==
    ListingInv /\ [ListingNext]_listingVars => ListingInv'
<1> SUFFICES ASSUME ListingInv, [ListingNext]_listingVars
             PROVE  ListingInv'
  OBVIOUS
<1>1. CASE UNCHANGED listingVars
  <2>1. table' = table /\ reader' = reader
    BY <1>1 DEF listingVars
  <2>2. TableMoves
    BY <2>1, SameTable DEF TableMoves, Matched, Matches, Listed
  <2>3. TableOK' /\ (reader.standing \subseteq Matched(reader.filter))'
    BY <2>1, SameTable DEF ListingInv
  <2>4. reader' \in ReaderRec
    BY <2>1 DEF ListingInv
  <2>5. QED
    BY <2>1, <2>2, <2>3, <2>4, MovesKeep
<1>2. CASE \E how \in DOMAIN Listing : \E filter \in Filters : StartListing(how, filter)
  BY <1>2, StartStep
<1>3. QED
  BY <1>1, <1>2, AddRowStep, CloseRowStep, RefusedStep, CountStep, SelectStep, AfterStep
  DEF ListingNext

\* A client that follows the cursors is never shown a row twice, whatever the
\* clocks that stamped the rows, however many pages there are and whatever is
\* inserted and changes status in between (CursorNeverRepeats).
THEOREM NoRowTwiceByCursor == ListingSpec => []CursorNeverRepeats
<1>1. ListingInv => CursorNeverRepeats
  BY ListingHolds
<1>2. QED
  BY <1>1, ListingInvInit, ListingNextStep, PTL DEF ListingSpec

\* A client that has followed the pages to the end has seen every row that
\* matched throughout: always by cursor, and by page number unless a row left
\* the filter or came in after the last count (ListedInFull).
THEOREM PagesShowAll == ListingSpec => []ListedInFull
<1>1. ListingInv => ListedInFull
  BY ListingHolds
<1>2. QED
  BY <1>1, ListingInvInit, ListingNextStep, PTL DEF ListingSpec
=============================================================================
