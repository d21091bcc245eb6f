----------------------------- MODULE BookProofs -----------------------------
(***************************************************************************)
(* The order book for every instance of the constants: price and time      *)
(* priority, fair trades, statuses that match fills, an uncrossed book,    *)
(* and fills that are the sums of their trades, which is what settlement   *)
(* requires of a market.  What a maker gives is a difference of sums over  *)
(* the makers ahead of it, so the argument is about sums over sets of      *)
(* makers.                                                                 *)
(***************************************************************************)
EXTENDS ExchangeProofs

-----------------------------------------------------------------------------
(***************************************************************************)
(* Who is served before whom.                                              *)
(***************************************************************************)
LEMMA AvailablePlus ==
    ASSUME TypeOK, NEW S \in SUBSET DOMAIN order, NEW T \in SUBSET S,
           NEW i \in S \ T
    PROVE  Available(T) + Remaining(i) <= Available(S)
<1> DEFINE f == [j \in T \cup {i} |-> Remaining(j)]
<1>1. IsFiniteSet(S) /\ IsFiniteSet(T \cup {i})
  BY FiniteTables, FS_Subset
<1>2. \A j \in S : Remaining(j) \in Nat
  BY OrderFields
<1>3. Total(f) = Total([j \in T |-> f[j]]) + Total([j \in {i} |-> f[j]])
  <2>1. DOMAIN f = T \cup {i} /\ T \cap {i} = {} /\ \A j \in DOMAIN f : f[j] \in Int
    BY <1>2
  <2> HIDE DEF f
  <2>2. QED
    BY <1>1, <2>1, TotalOfUnion
<1>4. [j \in T |-> f[j]] = [j \in T |-> Remaining(j)]
  OBVIOUS
<1>5. Total([j \in {i} |-> f[j]]) = Remaining(i)
  <2> DEFINE g == [j \in {i} |-> f[j]]
  <2>1. DOMAIN g = {i} /\ g[i] = Remaining(i) /\ g[i] \in Nat
    BY <1>2
  <2> HIDE DEF g
  <2>2. QED
    BY <2>1, TotalOfOne DEF g
<1>6. Total(f) <= Total([j \in S |-> Remaining(j)])
  <2> DEFINE g == [j \in S |-> Remaining(j)]
  <2>1. /\ IsFiniteSet(DOMAIN g) /\ \A j \in DOMAIN g : g[j] \in Int
        /\ T \cup {i} \in SUBSET DOMAIN g
        /\ f = [j \in T \cup {i} |-> g[j]]
    BY <1>1, <1>2
  <2> HIDE DEF f, g
  <2>2. QED
    BY <2>1, TotalOfPart DEF g
<1> HIDE DEF f
<1>7. QED
  BY <1>3, <1>4, <1>5, <1>6 DEF Available

\* The makers ahead of a maker, which give before it does.
AheadOf(r, i) == {j \in Makers(r) : Ahead(j, i)}

LEMMA AheadOrder ==
    ASSUME TypeOK, NEW r \in Requests, NEW i \in Makers(r), NEW j \in Makers(r),
           Ahead(i, j)
    PROVE  /\ AheadOf(r, i) \subseteq AheadOf(r, j) \ {i}
           /\ i \in AheadOf(r, j)
<1>1. \A k \in Makers(r) :
        /\ k \in Nat /\ order[k].price \in Nat
        /\ order[k].side \in Sides /\ order[k].side # r.side
  <2> SUFFICES ASSUME NEW k \in Makers(r)
               PROVE  /\ k \in Nat /\ order[k].price \in Nat
                      /\ order[k].side \in Sides /\ order[k].side # r.side
    OBVIOUS
  <2>1. k \in DOMAIN order /\ order[k].side # r.side
    BY DEF Makers
  <2>2. k \in Nat
    BY <2>1, ExchangeAssumption DEF TypeOK
  <2>3. order[k].price \in Prices /\ order[k].side \in Sides
    BY <2>1, OrderFields, RequestFields
  <2>4. QED
    BY <2>1, <2>2, <2>3, ScaleAssumption DEF Prices
<1>2. \A k \in Makers(r) : order[k].side = order[i].side
  BY <1>1, RequestFields DEF Sides
<1>3. i \notin AheadOf(r, i)
  BY <1>1 DEF AheadOf, Ahead
<1>4. ASSUME NEW k \in AheadOf(r, i)
      PROVE  k \in AheadOf(r, j)
  <2>1. k \in Makers(r) /\ Ahead(k, i)
    BY DEF AheadOf
  <2>2. Ahead(k, j)
    BY <1>1, <1>2, <2>1 DEF Ahead
  <2>3. QED
    BY <2>1, <2>2 DEF AheadOf
<1>5. QED
  BY <1>3, <1>4 DEF AheadOf

\* A maker gives all it has before one behind it gives anything.
LEMMA ServedFirst ==
    ASSUME TypeOK, NEW r \in Requests, NEW i \in Makers(r), NEW j \in Makers(r),
           Ahead(i, j), Fill(r, j) > 0
    PROVE  Fill(r, i) = Remaining(i)
<1>1. AheadOf(r, j) \in SUBSET DOMAIN order /\ AheadOf(r, i) \in SUBSET DOMAIN order
  BY DEF AheadOf, Makers
<1>2. Available(AheadOf(r, i)) + Remaining(i) <= Available(AheadOf(r, j))
  BY <1>1, AheadOrder, AvailablePlus
<1>3. /\ Available(AheadOf(r, i)) \in Nat /\ Available(AheadOf(r, j)) \in Nat
      /\ Remaining(i) \in Nat /\ Remaining(j) \in Nat /\ r.amount \in Nat
  BY <1>1, AvailableType, OrderFields, RequestFields DEF Makers
<1>4. Available(AheadOf(r, j)) < r.amount
  BY <1>3 DEF Fill, AheadOf
<1>5. QED
  BY <1>2, <1>3, <1>4 DEF Fill, AheadOf

\* When the incoming order is not filled, every maker gave all it had.
LEMMA AllServed ==
    ASSUME TypeOK, NEW r \in Requests, Got(r) < r.amount, NEW i \in Makers(r)
    PROVE  Fill(r, i) = Remaining(i)
<1>1. /\ Makers(r) \in SUBSET DOMAIN order
      /\ AheadOf(r, i) \in SUBSET Makers(r)
      /\ i \in Makers(r) \ AheadOf(r, i)
  <2>1. i \in DOMAIN order /\ i \in Nat
    BY ExchangeAssumption DEF Makers, TypeOK
  <2>2. order[i].price \in Nat
    BY <2>1, OrderFields, RequestFields, ScaleAssumption DEF Prices
  <2>3. QED
    BY <2>1, <2>2 DEF AheadOf, Ahead, Makers
<1>2. Available(AheadOf(r, i)) + Remaining(i) <= Available(Makers(r))
  BY <1>1, AvailablePlus
<1>3. /\ Available(AheadOf(r, i)) \in Nat /\ Available(Makers(r)) \in Nat
      /\ Remaining(i) \in Nat /\ r.amount \in Nat
  BY <1>1, AvailableType, OrderFields, RequestFields
<1>4. Available(Makers(r)) < r.amount
  BY <1>3 DEF Got
<1>5. QED
  BY <1>2, <1>3, <1>4, RequestFields DEF Fill, AheadOf

-----------------------------------------------------------------------------
(***************************************************************************)
(* What a placement does to the book.                                      *)
(***************************************************************************)
LEMMA PlacedBook ==
    ASSUME TypeOK, NEW id \in OrderIds, NEW r \in Requests, Place(id, r)
    PROVE  /\ id \notin DOMAIN order
           /\ DOMAIN order' = DOMAIN order \cup {id}
           /\ order'[id] = r
           /\ \A i \in DOMAIN order : order'[i] = order[i]
           /\ status'[id] = TakerStatus(r) /\ filled'[id] = Got(r)
           /\ \A i \in DOMAIN order \ Matched(r) :
                 status'[i] = status[i] /\ filled'[i] = filled[i]
           /\ \A i \in Matched(r) :
                 /\ i \in DOMAIN order
                 /\ filled'[i] = filled[i] + Fill(r, i)
                 /\ status'[i] = FillStatus(order[i].amount, filled[i] + Fill(r, i))
<1>1. id \notin DOMAIN order
  BY DEF Place
<1>2. order' = [i \in DOMAIN order \cup {id} |-> IF i = id THEN r ELSE order[i]]
  BY DEF Place, Insert
<1>3. filled' = [i \in DOMAIN order \cup {id} |->
                   IF i = id THEN Got(r)
                   ELSE IF i \in Matched(r) THEN filled[i] + Fill(r, i)
                   ELSE filled[i]]
  BY DEF Place
<1>4. status' = [i \in DOMAIN order \cup {id} |->
                   IF i = id THEN TakerStatus(r)
                   ELSE IF i \in Matched(r)
                   THEN FillStatus(order[i].amount, filled[i] + Fill(r, i))
                   ELSE status[i]]
  BY DEF Place
<1>5. Matched(r) \subseteq DOMAIN order
  BY MatchedOrders
<1>6. QED
  BY <1>1, <1>2, <1>3, <1>4, <1>5

\* The trades a placement makes.
LEMMA PlacedTrades ==
    ASSUME TypeOK, NEW id \in OrderIds, NEW r \in Requests, Place(id, r)
    PROVE  /\ DOMAIN trades' = DOMAIN trades \cup (Matched(r) \X {id})
           /\ \A t \in DOMAIN trades : trades'[t] = trades[t]
           /\ \A i \in Matched(r) :
                 /\ <<i, id>> \notin DOMAIN trades
                 /\ trades'[<<i, id>>] = [shares |-> Fill(r, i),
                                          price |-> order[i].price]
<1>1. trades' = [t \in DOMAIN trades \cup (Matched(r) \X {id}) |->
                   IF t \in DOMAIN trades THEN trades[t]
                   ELSE [shares |-> Fill(r, t[1]), price |-> order[t[1]].price]]
  BY DEF Place
<1>2. \A i \in Matched(r) : <<i, id>> \notin DOMAIN trades
  BY PlacedBook DEF TypeOK
<1>3. QED
  BY <1>1, <1>2

\* The amounts and statuses an accepted order and its makers end with.
LEMMA TakerEnds ==
    ASSUME TypeOK, NEW r \in Requests
    PROVE  /\ TakerStatus(r) = "pending" => Got(r) = 0
           /\ TakerStatus(r) = "partial" => Got(r) \in 1 .. r.amount - 1
           /\ TakerStatus(r) = "filled" <=> Got(r) = r.amount
           /\ r.tif = "ioc" => TakerStatus(r) \notin Open
           /\ TakerStatus(r) \in Open => Got(r) < r.amount
<1>1. Got(r) \in Nat /\ Got(r) <= r.amount /\ r.amount \in Nat \ {0}
      /\ r.tif \in {"gtc", "ioc"}
  BY GotBounds, RequestFields
<1>2. QED
  BY <1>1 DEF TakerStatus, FillStatus, Open

LEMMA MakerEnds ==
    ASSUME TypeOK, NEW r \in Requests, NEW i \in Matched(r)
    PROVE  LET total == filled[i] + Fill(r, i)
               ends == FillStatus(order[i].amount, total)
           IN  /\ ends # "pending"
               /\ ends = "partial" => total \in 1 .. order[i].amount - 1
               /\ ends = "filled" <=> total = order[i].amount
<1>1. i \in Makers(r)
  BY DEF Matched
<1>2. /\ i \in DOMAIN order /\ Fill(r, i) <= Remaining(i)
      /\ Fill(r, i) \in Nat \ {0}
  BY <1>1, FillBounds, MatchedOrders
<1>3. /\ filled[i] \in Nat /\ Remaining(i) \in Nat
      /\ filled[i] + Remaining(i) = order[i].amount
      /\ order[i].amount \in Nat
  BY <1>2, OrderFields, RequestFields
<1>4. QED
  BY <1>2, <1>3 DEF FillStatus

-----------------------------------------------------------------------------
(***************************************************************************)
(* The invariants.  BookNotCrossed needs that an open order has something  *)
(* left, which StatusMatchesFill says.                                     *)
(***************************************************************************)
BookInv == StatusMatchesFill /\ BookNotCrossed /\ TradesAreFair

LEMMA QuietSteps ==
    ASSUME Funding \/ Administration \/ Reconcile \/ UNCHANGED vars
    PROVE  UNCHANGED bookVars
<1>1. CASE Funding
  BY <1>1 DEF Funding, CreateWallet, Credit, Debit
<1>2. CASE Administration
  BY <1>2 DEF Administration, UpdateMarketStatus, ResolveEvent
<1>3. CASE Reconcile
  BY <1>3 DEF Reconcile, ReconcileScan, ReconcileRelease
<1>4. CASE UNCHANGED vars
  BY <1>4 DEF vars
<1>5. QED
  BY <1>1, <1>2, <1>3, <1>4

\* Orders only ever close by cancellation: their amounts stay.
LEMMA ClosingKeepsBook ==
    ASSUME TypeOK, BookInv, order' = order, filled' = filled, trades' = trades,
           \A i \in DOMAIN order :
               \/ status'[i] = status[i]
               \/ status[i] \in Open /\ status'[i] = "cancelled"
    PROVE  BookInv'
<1>1. StatusMatchesFill'
  <2> SUFFICES ASSUME NEW i \in DOMAIN order
               PROVE  /\ status'[i] = "pending" => filled[i] = 0
                      /\ status'[i] = "partial" => filled[i] \in 1 .. order[i].amount - 1
                      /\ status'[i] = "filled" <=> filled[i] = order[i].amount
                      /\ order[i].tif = "ioc" => status'[i] \notin Open
    BY DEF StatusMatchesFill
  <2>1. /\ status[i] = "pending" => filled[i] = 0
        /\ status[i] = "partial" => filled[i] \in 1 .. order[i].amount - 1
        /\ status[i] = "filled" <=> filled[i] = order[i].amount
        /\ order[i].tif = "ioc" => status[i] \notin Open
    BY DEF BookInv, StatusMatchesFill
  <2>2. order[i].amount \in Nat \ {0}
    BY OrderFields, RequestFields
  <2>3. QED
    BY <2>1, <2>2 DEF Open
<1>2. BookNotCrossed'
  BY DEF BookInv, BookNotCrossed, Open, SameBook
<1>3. TradesAreFair'
  BY DEF BookInv, TradesAreFair, SameBook, Crosses
<1>4. QED
  BY <1>1, <1>2, <1>3 DEF BookInv

LEMMA PlaceStatuses ==
    ASSUME TypeOK, BookInv, NEW id \in OrderIds, NEW r \in Requests, Place(id, r)
    PROVE  StatusMatchesFill'
<1> SUFFICES ASSUME NEW i \in DOMAIN order'
             PROVE  /\ status'[i] = "pending" => filled'[i] = 0
                    /\ status'[i] = "partial" => filled'[i] \in 1 .. order'[i].amount - 1
                    /\ status'[i] = "filled" <=> filled'[i] = order'[i].amount
                    /\ order'[i].tif = "ioc" => status'[i] \notin Open
  BY DEF StatusMatchesFill
<1>1. CASE i = id
  <2>1. order'[i] = r /\ filled'[i] = Got(r) /\ status'[i] = TakerStatus(r)
    BY <1>1, PlacedBook
  <2> HIDE DEF Open
  <2>2. QED
    BY <2>1, TakerEnds
<1>2. CASE i \in Matched(r)
  <2>1. status[i] \in Open
    BY <1>2 DEF Matched, Makers
  <2>2. i \in DOMAIN order /\ order[i].tif # "ioc"
    BY <1>2, <2>1, MatchedOrders DEF BookInv, StatusMatchesFill
  <2>3. /\ order'[i] = order[i] /\ filled'[i] = filled[i] + Fill(r, i)
        /\ status'[i] = FillStatus(order[i].amount, filled[i] + Fill(r, i))
    BY <1>2, <2>2, PlacedBook
  <2>4. QED
    BY <1>2, <2>2, <2>3, MakerEnds
<1>3. CASE i \in DOMAIN order \ Matched(r)
  <2>1. order'[i] = order[i] /\ filled'[i] = filled[i] /\ status'[i] = status[i]
    BY <1>3, PlacedBook
  <2>2. QED
    BY <1>3, <2>1 DEF BookInv, StatusMatchesFill
<1>4. QED
  BY <1>1, <1>2, <1>3, PlacedBook

\* An order that rests leaves no maker open that it could have matched.
LEMMA RestsUncrossed ==
    ASSUME TypeOK, BookInv, NEW id \in OrderIds, NEW r \in Requests, Place(id, r),
           status'[id] \in Open, NEW i \in Makers(r)
    PROVE  status'[i] = "filled"
<1>1. Got(r) < r.amount
  BY PlacedBook, TakerEnds
<1>2. Fill(r, i) = Remaining(i)
  BY <1>1, AllServed
<1>3. i \in DOMAIN order /\ status[i] \in Open
  BY DEF Makers
<1>4. /\ filled[i] \in Nat /\ Remaining(i) \in Nat
      /\ filled[i] + Remaining(i) = order[i].amount
      /\ order[i].amount \in Nat \ {0}
  BY <1>3, OrderFields, RequestFields
<1>5. filled[i] # order[i].amount
  BY <1>3 DEF BookInv, StatusMatchesFill, Open
<1>6. i \in Matched(r)
  BY <1>2, <1>4, <1>5 DEF Matched
<1>7. status'[i] = FillStatus(order[i].amount, order[i].amount)
  <2>1. status'[i] = FillStatus(order[i].amount, filled[i] + Fill(r, i))
    BY <1>6, PlacedBook
  <2>2. QED
    BY <1>2, <1>4, <2>1
<1>8. QED
  BY <1>4, <1>7 DEF FillStatus

\* An order open after a placement was open before it.
LEMMA OpenBefore ==
    ASSUME TypeOK, NEW id \in OrderIds, NEW r \in Requests, Place(id, r),
           NEW i \in DOMAIN order, status'[i] \in Open
    PROVE  status[i] \in Open
<1>1. CASE i \in Matched(r)
  BY <1>1 DEF Matched, Makers
<1>2. CASE i \notin Matched(r)
  BY <1>2, PlacedBook
<1>3. QED
  BY <1>1, <1>2

LEMMA PlaceUncrossed ==
    ASSUME TypeOK, BookInv, NEW id \in OrderIds, NEW r \in Requests, Place(id, r)
    PROVE  BookNotCrossed'
<1> SUFFICES ASSUME NEW i \in DOMAIN order', NEW j \in DOMAIN order',
                    status'[i] \in Open, status'[j] \in Open,
                    SameBook(order'[i], order'[j]),
                    order'[i].user # order'[j].user,
                    order'[i].side = "buy", order'[j].side = "sell"
             PROVE  order'[i].price < order'[j].price
  BY DEF BookNotCrossed
<1>1. /\ DOMAIN order' = DOMAIN order \cup {id} /\ order'[id] = r
      /\ \A k \in DOMAIN order : order'[k] = order[k]
  BY PlacedBook
<1>2. \A k \in DOMAIN order' : order'[k].price \in Int
  <2>1. \A k \in DOMAIN order' : order'[k] \in Requests
    BY <1>1 DEF TypeOK
  <2>2. QED
    BY <2>1, RequestFields, ScaleAssumption DEF Prices
<1>3. CASE i = id
  <2>1. j \in DOMAIN order
    BY <1>1, <1>3
  <2>2. status[j] \in Open
    BY <2>1, OpenBefore
  <2>3. j \notin Makers(r)
    BY <1>3, RestsUncrossed DEF Open
  <2>4. ~ Crosses(r, order[j].price)
    BY <1>1, <1>3, <2>1, <2>2, <2>3 DEF Makers, SameBook
  <2>5. QED
    BY <1>1, <1>2, <1>3, <2>1, <2>4 DEF Crosses
<1>4. CASE j = id
  <2>1. i \in DOMAIN order
    BY <1>1, <1>4
  <2>2. status[i] \in Open
    BY <2>1, OpenBefore
  <2>3. i \notin Makers(r)
    BY <1>4, RestsUncrossed DEF Open
  <2>4. ~ Crosses(r, order[i].price)
    BY <1>1, <1>4, <2>1, <2>2, <2>3 DEF Makers, SameBook
  <2>5. QED
    BY <1>1, <1>2, <1>4, <2>1, <2>4 DEF Crosses
<1>5. CASE i \in DOMAIN order /\ j \in DOMAIN order
  <2>1. status[i] \in Open /\ status[j] \in Open
    BY <1>5, OpenBefore
  <2>2. QED
    BY <1>1, <1>5, <2>1 DEF BookInv, BookNotCrossed
<1>6. QED
  BY <1>1, <1>3, <1>4, <1>5

LEMMA PlaceFair ==
    ASSUME TypeOK, BookInv, NEW id \in OrderIds, NEW r \in Requests, Place(id, r)
    PROVE  TradesAreFair'
<1> SUFFICES ASSUME NEW t \in DOMAIN trades'
             PROVE  /\ SameBook(order'[t[1]], order'[t[2]])
                    /\ order'[t[1]].user # order'[t[2]].user
                    /\ order'[t[1]].side # order'[t[2]].side
                    /\ trades'[t].shares > 0
                    /\ trades'[t].price = order'[t[1]].price
                    /\ Crosses(order'[t[2]], order'[t[1]].price)
  BY DEF TradesAreFair, SameBook, Crosses
<1>1. CASE t \in DOMAIN trades
  <2>1. t[1] \in DOMAIN order /\ t[2] \in DOMAIN order
    BY <1>1 DEF TypeOK
  <2>2. order'[t[1]] = order[t[1]] /\ order'[t[2]] = order[t[2]]
        /\ trades'[t] = trades[t]
    BY <1>1, <2>1, PlacedBook, PlacedTrades
  <2>3. QED
    BY <1>1, <2>2 DEF BookInv, TradesAreFair
<1>2. CASE t \notin DOMAIN trades
  <2>0. t \in Matched(r) \X {id}
    BY <1>2, PlacedTrades
  <2>1. PICK i \in Matched(r) : t = <<i, id>>
    BY <2>0
  <2>2. i \in Makers(r) /\ i \in DOMAIN order
    BY DEF Matched, Makers
  <2>3. order'[i] = order[i] /\ order'[id] = r
    BY <2>2, PlacedBook
  <2>4. trades'[t] = [shares |-> Fill(r, i), price |-> order[i].price]
    <3>1. trades'[<<i, id>>] = [shares |-> Fill(r, i), price |-> order[i].price]
      BY PlacedTrades
    <3>2. QED
      BY <2>1, <3>1
  <2>5. Fill(r, i) > 0
    BY DEF Matched
  <2>6. QED
    BY <2>1, <2>2, <2>3, <2>4, <2>5 DEF Makers
<1>3. QED
  BY <1>1, <1>2

LEMMA NextBook == TypeOK /\ BookInv /\ [Next]_vars => BookInv'
<1> SUFFICES ASSUME TypeOK, BookInv, [Next]_vars
             PROVE  BookInv'
  OBVIOUS
<1>1. CASE Funding \/ Administration \/ Reconcile \/ UNCHANGED vars
  BY <1>1, QuietSteps, ClosingKeepsBook DEF bookVars
<1>2. ASSUME NEW id \in OrderIds, NEW r \in Requests, Place(id, r)
      PROVE  BookInv'
  BY <1>2, PlaceStatuses, PlaceUncrossed, PlaceFair DEF BookInv
<1>3. ASSUME NEW i \in DOMAIN order, Cancel(i)
      PROVE  BookInv'
  <2>1. \A j \in DOMAIN order : \/ status'[j] = status[j]
                                \/ status[j] \in Open /\ status'[j] = "cancelled"
    BY <1>3 DEF Cancel, TypeOK
  <2>2. QED
    BY <1>3, <2>1, ClosingKeepsBook DEF Cancel
<1>4. ASSUME NEW m \in Markets, SettleMarket(m)
      PROVE  BookInv'
  <2>1. \A j \in DOMAIN order : \/ status'[j] = status[j]
                                \/ status[j] \in Open /\ status'[j] = "cancelled"
    BY <1>4 DEF SettleMarket
  <2>2. order' = order /\ filled' = filled /\ trades' = trades
    BY <1>4 DEF SettleMarket
  <2>3. QED
    BY <2>1, <2>2, ClosingKeepsBook
<1>5. QED
  BY <1>1, <1>2, <1>3, <1>4 DEF Next, PlaceAny, CancelAny, SettleAny

LEMMA BookInvHolds == Spec => []BookInv
<1>1. Init => BookInv
  BY DEF Init, BookInv, StatusMatchesFill, BookNotCrossed, TradesAreFair
<1>2. QED
  BY <1>1, NextBook, TypeCorrect, PTL DEF Spec

\* The status of an order tells how much of it is filled and an IOC never
\* rests, whatever it was matched with (order.Create's matching loop).
THEOREM StatusesMatchFills == Spec => []StatusMatchesFill
BY BookInvHolds, PTL DEF BookInv

\* An incoming order takes every match it can before the rest of it rests.
THEOREM BookStaysUncrossed == Spec => []BookNotCrossed
BY BookInvHolds, PTL DEF BookInv

\* Trades are between two users of one book, at the maker's limit and inside
\* the taker's.
THEOREM AllTradesAreFair == Spec => []TradesAreFair
BY BookInvHolds, PTL DEF BookInv

-----------------------------------------------------------------------------
(***************************************************************************)
(* Priority.                                                               *)
(***************************************************************************)
PriorityStep ==
    \A t \in DOMAIN trades' \ DOMAIN trades :
        \A i \in Makers(order'[t[2]]) : Precedes(i, t[1]) => status'[i] = "filled"

LEMMA NextPriority == TypeOK /\ BookInv /\ [Next]_vars => [PriorityStep]_vars
<1> SUFFICES ASSUME TypeOK, BookInv, Next,
                    NEW t \in DOMAIN trades' \ DOMAIN trades,
                    NEW i \in Makers(order'[t[2]]), Precedes(i, t[1])
             PROVE  status'[i] = "filled"
  BY DEF PriorityStep
<1>1. CASE Funding \/ Administration \/ Reconcile
  BY <1>1, QuietSteps DEF bookVars
<1>2. CASE CancelAny \/ SettleAny
  BY <1>2 DEF CancelAny, Cancel, SettleAny, SettleMarket
<1>3. ASSUME NEW id \in OrderIds, NEW r \in Requests, Place(id, r)
      PROVE  status'[i] = "filled"
  <2>0. t \in Matched(r) \X {id}
    BY <1>3, PlacedTrades
  <2>1. PICK j \in Matched(r) : t = <<j, id>>
    BY <2>0
  <2>2. j \in Makers(r) /\ Fill(r, j) > 0
    BY DEF Matched
  <2>3. i \in Makers(r) /\ Precedes(i, j)
    BY <1>3, <2>1, PlacedBook
  <2>4. i \in DOMAIN order /\ status[i] \in Open
    BY <2>3 DEF Makers
  <2>5. Ahead(i, j)
    BY <2>3 DEF Precedes, Ahead
  <2>6. Fill(r, i) = Remaining(i)
    BY <2>2, <2>3, <2>5, ServedFirst
  <2>7. /\ filled[i] \in Nat /\ Remaining(i) \in Nat
        /\ filled[i] + Remaining(i) = order[i].amount
        /\ order[i].amount \in Nat \ {0}
    BY <2>4, OrderFields, RequestFields
  <2>8. filled[i] # order[i].amount
    BY <2>4 DEF BookInv, StatusMatchesFill, Open
  <2>9. i \in Matched(r)
    BY <2>3, <2>6, <2>7, <2>8 DEF Matched
  <2>10. status'[i] = FillStatus(order[i].amount, order[i].amount)
    <3>1. status'[i] = FillStatus(order[i].amount, filled[i] + Fill(r, i))
      BY <1>3, <2>9, PlacedBook
    <3>2. QED
      BY <2>6, <2>7, <3>1
  <2>11. QED
    BY <2>7, <2>10 DEF FillStatus
<1>4. QED
  BY <1>1, <1>2, <1>3 DEF Next, PlaceAny

\* No trade overtakes a resting order ahead of its maker in price, or in time
\* at the same price: the loop takes all of it first.
THEOREM PriorityKept == Spec => PriorityRespected
<1>1. TypeOK /\ BookInv /\ [Next]_vars => [PriorityStep]_vars
  BY NextPriority
<1>2. QED
  BY <1>1, TypeCorrect, BookInvHolds, PTL DEF Spec, PriorityRespected, PriorityStep

-----------------------------------------------------------------------------
(***************************************************************************)
(* The first and the last of a set of makers: the makers ahead of the      *)
(* first one are a minimal set, and so are those not ahead of the last.    *)
(***************************************************************************)
LEMMA MakersFinite ==
    ASSUME TypeOK, NEW r \in Requests
    PROVE  Makers(r) \subseteq DOMAIN order /\ IsFiniteSet(Makers(r))
<1>1. Makers(r) \subseteq DOMAIN order
  BY DEF Makers
<1>2. QED
  BY <1>1, FiniteTables, FS_Subset

\* Of two makers one is ahead of the other, and none of itself.
LEMMA AheadTotal ==
    ASSUME TypeOK, NEW r \in Requests, NEW i \in Makers(r), NEW j \in Makers(r)
    PROVE  (i = j \/ Ahead(i, j) \/ Ahead(j, i)) /\ ~ Ahead(i, i)
<1>1. \A k \in Makers(r) :
        /\ k \in Nat /\ order[k].price \in Nat
        /\ order[k].side \in Sides /\ order[k].side # r.side
  <2> SUFFICES ASSUME NEW k \in Makers(r)
               PROVE  /\ k \in Nat /\ order[k].price \in Nat
                      /\ order[k].side \in Sides /\ order[k].side # r.side
    OBVIOUS
  <2>1. k \in DOMAIN order /\ order[k].side # r.side
    BY DEF Makers
  <2>2. k \in Nat
    BY <2>1, ExchangeAssumption DEF TypeOK
  <2>3. order[k].price \in Prices /\ order[k].side \in Sides
    BY <2>1, OrderFields, RequestFields
  <2>4. QED
    BY <2>1, <2>2, <2>3, ScaleAssumption DEF Prices
<1>2. order[i].side = order[j].side
  BY <1>1, RequestFields DEF Sides
<1>3. QED
  BY <1>1, <1>2 DEF Ahead

LEMMA FirstMaker ==
    ASSUME TypeOK, NEW r \in Requests, NEW M \in SUBSET Makers(r), M # {}
    PROVE  \E i \in M : \A j \in M : j = i \/ Ahead(i, j)
<1> DEFINE T == {AheadOf(r, i) : i \in M}
<1>1. T \in SUBSET (SUBSET Makers(r)) /\ T # {}
  BY DEF AheadOf
<1>2. PICK X \in T : \A Y \in T : Y \subseteq X => Y = X
  <2> HIDE DEF T
  <2>1. QED
    BY <1>1, MakersFinite, MinimalMember
<1>3. PICK i \in M : X = AheadOf(r, i)
  OBVIOUS
<1>4. ASSUME NEW j \in M, j # i, ~ Ahead(i, j)
      PROVE  FALSE
  <2>1. Ahead(j, i)
    BY <1>4, AheadTotal
  <2>2. AheadOf(r, j) \subseteq AheadOf(r, i) /\ j \in AheadOf(r, i)
    BY <2>1, AheadOrder
  <2>3. j \notin AheadOf(r, j)
    BY AheadTotal DEF AheadOf
  <2>4. AheadOf(r, j) \in T
    OBVIOUS
  <2>5. QED
    BY <1>2, <1>3, <2>2, <2>3, <2>4
<1>5. QED
  BY <1>4

LEMMA LastMaker ==
    ASSUME TypeOK, NEW r \in Requests, NEW M \in SUBSET Makers(r), M # {}
    PROVE  \E i \in M : \A j \in M : j = i \/ Ahead(j, i)
<1> DEFINE Rest(i) == Makers(r) \ AheadOf(r, i)
           T == {Rest(i) : i \in M}
<1>1. T \in SUBSET (SUBSET Makers(r)) /\ T # {}
  OBVIOUS
<1>2. PICK X \in T : \A Y \in T : Y \subseteq X => Y = X
  <2> HIDE DEF T
  <2>1. QED
    BY <1>1, MakersFinite, MinimalMember
<1>3. PICK i \in M : X = Rest(i)
  OBVIOUS
<1>4. ASSUME NEW j \in M, j # i, ~ Ahead(j, i)
      PROVE  FALSE
  <2>1. Ahead(i, j)
    BY <1>4, AheadTotal
  <2>2. AheadOf(r, i) \subseteq AheadOf(r, j) /\ i \in AheadOf(r, j)
    BY <2>1, AheadOrder
  <2>3. i \notin AheadOf(r, i) /\ i \in Makers(r)
    BY AheadTotal DEF AheadOf
  <2>4. Rest(j) \in T
    OBVIOUS
  <2>5. Rest(j) \subseteq Rest(i) /\ i \in Rest(i) /\ i \notin Rest(j)
    BY <2>2, <2>3
  <2> HIDE DEF T, Rest
  <2>6. QED
    BY <1>2, <1>3, <2>4, <2>5
<1>5. QED
  BY <1>4

-----------------------------------------------------------------------------
(***************************************************************************)
(* What the makers give in all.                                            *)
(***************************************************************************)
\* The shares of some makers and of one more.
LEMMA AvailableAnd ==
    ASSUME TypeOK, NEW S \in SUBSET DOMAIN order, NEW i \in DOMAIN order, i \notin S
    PROVE  Available(S \cup {i}) = Available(S) + Remaining(i)
<1> DEFINE f == [j \in S \cup {i} |-> Remaining(j)]
<1>1. IsFiniteSet(S \cup {i})
  BY FiniteTables, FS_Subset
<1>2. \A j \in DOMAIN order : Remaining(j) \in Nat
  BY OrderFields
<1>3. DOMAIN f = S \cup {i} /\ S \cap {i} = {} /\ \A j \in DOMAIN f : f[j] \in Int
  BY <1>2
<1>4. /\ [j \in S |-> f[j]] = [j \in S |-> Remaining(j)]
      /\ [j \in {i} |-> f[j]] = [j \in {i} |-> Remaining(j)]
  OBVIOUS
<1>5. Available(S \cup {i}) = Total(f)
  BY DEF Available
<1> HIDE DEF f
<1>6. Total(f) = Total([j \in S |-> f[j]]) + Total([j \in {i} |-> f[j]])
  BY <1>1, <1>3, TotalOfUnion
<1>7. Total([j \in {i} |-> Remaining(j)]) = Remaining(i)
  BY <1>2, TotalOfOne
<1>8. QED
  BY <1>4, <1>5, <1>6, <1>7 DEF Available

LEMMA AvailableOfPart ==
    ASSUME TypeOK, NEW S \in SUBSET DOMAIN order, NEW T \in SUBSET S
    PROVE  Available(T) <= Available(S)
<1> DEFINE f == [j \in S |-> Remaining(j)]
<1>1. IsFiniteSet(DOMAIN f)
  BY FiniteTables, FS_Subset
<1>2. \A j \in DOMAIN f : f[j] \in Int
  BY OrderFields
<1>3. T \in SUBSET DOMAIN f /\ [j \in T |-> f[j]] = [j \in T |-> Remaining(j)]
  OBVIOUS
<1>4. Available(S) = Total(f)
  BY DEF Available
<1> HIDE DEF f
<1>5. QED
  BY <1>1, <1>2, <1>3, <1>4, TotalOfPart DEF Available

\* When there are more shares than the incoming order asks for, one maker is
\* the last to give: those ahead of it give all they have, it gives the rest,
\* and the others give nothing.
LEMMA LastToGive ==
    ASSUME TypeOK, NEW r \in Requests, Available(Makers(r)) > r.amount
    PROVE  \E l \in Makers(r) :
              /\ \A i \in AheadOf(r, l) : Fill(r, i) = Remaining(i)
              /\ Fill(r, l) = r.amount - Available(AheadOf(r, l))
              /\ \A i \in Makers(r) : i = l \/ i \in AheadOf(r, l) \/ Fill(r, i) = 0
<1> DEFINE before(i) == Available(AheadOf(r, i))
           M == {i \in Makers(r) : before(i) < r.amount}
<1>1. /\ \A i \in Makers(r) : AheadOf(r, i) \in SUBSET Makers(r)
      /\ Makers(r) \in SUBSET DOMAIN order
  BY DEF AheadOf, Makers
<1>2. \A i \in Makers(r) : before(i) \in Nat /\ Remaining(i) \in Nat
  BY <1>1, AvailableType, OrderFields
<1>3. r.amount \in Nat \ {0} /\ Available(Makers(r)) \in Nat
  BY <1>1, RequestFields, AvailableType
<1>4. Available({}) = 0
  <2> DEFINE f == [i \in {} |-> Remaining(i)]
  <2>1. DOMAIN f = {}
    OBVIOUS
  <2>2. Available({}) = Total(f)
    BY DEF Available
  <2> HIDE DEF f
  <2>3. QED
    BY <2>1, <2>2, FS_EmptySet, TotalOfZeros
<1>5. \A i \in Makers(r), j \in Makers(r) : Ahead(i, j) => before(i) + Remaining(i) <= before(j)
  <2> SUFFICES ASSUME NEW i \in Makers(r), NEW j \in Makers(r), Ahead(i, j)
               PROVE  before(i) + Remaining(i) <= before(j)
    OBVIOUS
  <2>1. AheadOf(r, i) \in SUBSET AheadOf(r, j) /\ i \in AheadOf(r, j) \ AheadOf(r, i)
        /\ AheadOf(r, j) \in SUBSET DOMAIN order
    BY <1>1, AheadOrder
  <2>2. QED
    BY <2>1, AvailablePlus
<1>6. \A i \in Makers(r) :
          Fill(r, i) = IF before(i) >= r.amount THEN 0
                       ELSE IF before(i) + Remaining(i) <= r.amount THEN Remaining(i)
                       ELSE r.amount - before(i)
  BY DEF Fill, AheadOf
<1>7. M # {}
  <2>1. Makers(r) # {}
    BY <1>3, <1>4
  <2>2. PICK i \in Makers(r) : \A j \in Makers(r) : j = i \/ Ahead(i, j)
    BY <2>1, FirstMaker
  <2>3. ASSUME NEW j \in AheadOf(r, i)
        PROVE  FALSE
    <3>1. j \in Makers(r) /\ Ahead(j, i) /\ (j = i \/ Ahead(i, j))
      BY <2>2, <2>3 DEF AheadOf
    <3>2. ~ Ahead(i, i) /\ ~ Ahead(j, j)
      BY <3>1, AheadTotal
    <3>3. CASE Ahead(i, j)
      <4>1. j \in AheadOf(r, i) /\ AheadOf(r, i) \subseteq AheadOf(r, j)
        BY <3>1, <3>3, AheadOrder
      <4>2. QED
        BY <3>2, <4>1 DEF AheadOf
    <3>4. QED
      BY <3>1, <3>2, <3>3
  <2>4. AheadOf(r, i) = {}
    BY <2>3
  <2>5. before(i) = 0
    BY <1>4, <2>4
  <2>6. QED
    BY <1>3, <2>5
<1>8. PICK l \in M : \A j \in M : j = l \/ Ahead(j, l)
  BY <1>7, LastMaker
<1> HIDE DEF before
<1>9. l \in Makers(r) /\ before(l) < r.amount
  OBVIOUS
<1>10. ASSUME NEW i \in Makers(r), i # l, i \notin AheadOf(r, l)
       PROVE  before(i) >= r.amount /\ Fill(r, i) = 0
  <2>1. i \notin M
    BY <1>8, <1>10 DEF AheadOf
  <2>2. QED
    BY <1>2, <1>3, <1>6, <1>10, <2>1
<1>11. ASSUME NEW i \in AheadOf(r, l)
       PROVE  Fill(r, i) = Remaining(i)
  <2>1. i \in Makers(r) /\ Ahead(i, l)
    BY <1>11 DEF AheadOf
  <2>2. before(i) + Remaining(i) <= before(l)
    BY <1>5, <1>9, <2>1
  <2>3. QED
    BY <1>2, <1>3, <1>6, <1>9, <2>1, <2>2
<1>12. before(l) + Remaining(l) >= r.amount
  <2>1. l \notin AheadOf(r, l)
    BY <1>9, AheadTotal DEF AheadOf
  <2>2. Available(AheadOf(r, l) \cup {l}) = before(l) + Remaining(l)
    BY <1>1, <1>9, <2>1, AvailableAnd DEF before
  <2>3. CASE Makers(r) = AheadOf(r, l) \cup {l}
    BY <1>2, <1>3, <1>9, <2>2, <2>3
  <2>4. CASE Makers(r) # AheadOf(r, l) \cup {l}
    <3> DEFINE B == Makers(r) \ (AheadOf(r, l) \cup {l})
    <3>1. B \in SUBSET Makers(r) /\ B # {}
      BY <1>1, <1>9, <2>4
    <3>2. PICK b \in B : \A j \in B : j = b \/ Ahead(b, j)
      BY <3>1, FirstMaker
    <3>3. b \in Makers(r) /\ before(b) >= r.amount
      BY <1>10
    <3>4. AheadOf(r, b) \subseteq AheadOf(r, l) \cup {l}
      <4> SUFFICES ASSUME NEW j \in AheadOf(r, b), j \in B
                   PROVE  FALSE
        BY <1>1, <3>3
      <4>1. j \in Makers(r) /\ Ahead(j, b) /\ ~ Ahead(b, b) /\ ~ Ahead(j, j)
        BY <3>3, AheadTotal DEF AheadOf
      <4>2. Ahead(b, j)
        BY <3>2, <4>1
      <4>3. AheadOf(r, b) \subseteq AheadOf(r, j)
        BY <3>3, <4>1, <4>2, AheadOrder
      <4>4. QED
        BY <4>1, <4>3 DEF AheadOf
    <3>5. before(b) <= before(l) + Remaining(l)
      BY <1>1, <1>9, <2>2, <3>4, AvailableOfPart DEF before
    <3>6. QED
      BY <1>2, <1>3, <1>9, <3>3, <3>5
  <2>5. QED
    BY <2>3, <2>4
<1>13. Fill(r, l) = r.amount - before(l)
  BY <1>2, <1>3, <1>6, <1>9, <1>12
<1>14. QED
  BY <1>9, <1>10, <1>11, <1>13 DEF before

\* The makers give in all what the incoming order gets.
LEMMA MakersGive ==
    ASSUME TypeOK, NEW r \in Requests
    PROVE  Total([i \in Makers(r) |-> Fill(r, i)]) = Got(r)
<1> DEFINE M == Makers(r)
           give == [i \in M |-> Fill(r, i)]
<1>1. M \in SUBSET DOMAIN order /\ IsFiniteSet(M)
  BY MakersFinite
<1>2. \A i \in M : Fill(r, i) \in Nat /\ Remaining(i) \in Nat
  BY <1>1, FillBounds, OrderFields
<1>3. r.amount \in Nat \ {0} /\ Available(M) \in Nat
  BY <1>1, RequestFields, AvailableType
<1>4. CASE Available(M) <= r.amount
  <2>1. ASSUME NEW i \in M
        PROVE  Fill(r, i) = Remaining(i)
    <3>1. /\ AheadOf(r, i) \in SUBSET M /\ i \in M \ AheadOf(r, i)
      BY AheadTotal DEF AheadOf
    <3>2. Available(AheadOf(r, i)) + Remaining(i) <= Available(M)
      BY <1>1, <3>1, AvailablePlus
    <3>3. Available(AheadOf(r, i)) \in Nat
      BY <1>1, <3>1, AvailableType
    <3>4. QED
      BY <1>2, <1>3, <1>4, <3>2, <3>3 DEF Fill, AheadOf
  <2>2. give = [i \in M |-> Remaining(i)]
    BY <2>1
  <2>3. Total(give) = Available(M)
    BY <2>2 DEF Available
  <2>4. Got(r) = Available(M)
    BY <1>3, <1>4 DEF Got
  <2>5. QED
    BY <2>3, <2>4
<1>5. CASE Available(M) > r.amount
  <2>1. PICK l \in M :
              /\ \A i \in AheadOf(r, l) : Fill(r, i) = Remaining(i)
              /\ Fill(r, l) = r.amount - Available(AheadOf(r, l))
              /\ \A i \in M : i = l \/ i \in AheadOf(r, l) \/ Fill(r, i) = 0
    BY <1>5, LastToGive
  <2> DEFINE A == AheadOf(r, l)
             some == [i \in A \cup {l} |-> give[i]]
  <2>2. A \in SUBSET M /\ l \notin A
    BY AheadTotal DEF AheadOf
  <2>3. Available(A) \in Nat
    BY <1>1, <2>2, AvailableType
  <2>4. give \in [M -> Nat]
    BY <1>2
  <2>5. A \cup {l} \in SUBSET M /\ IsFiniteSet(A \cup {l})
    BY <1>1, <2>2, FS_Subset
  <2>6. \A i \in M \ (A \cup {l}) : give[i] = 0
    BY <2>1
  <2>7. /\ DOMAIN some = A \cup {l} /\ A \cap {l} = {}
        /\ \A i \in DOMAIN some : some[i] \in Int
    BY <2>2, <2>4
  <2>8. [i \in A |-> some[i]] = [i \in A |-> Remaining(i)]
    BY <2>1, <2>2
  <2>9. Total([i \in A |-> some[i]]) = Available(A)
    BY <2>8 DEF Available
  <2> DEFINE one == [i \in {l} |-> some[i]]
  <2>10. DOMAIN one = {l} /\ one[l] = Fill(r, l) /\ one[l] \in Nat
    BY <1>2
  <2> HIDE DEF give, A
  <2>11. Total(some) = Total(give)
    BY <1>1, <2>4, <2>5, <2>6, TotalOfRest
  <2> HIDE DEF some
  <2>12. Total(some) = Total([i \in A |-> some[i]]) + Total(one)
    BY <2>5, <2>7, TotalOfUnion
  <2> HIDE DEF one
  <2>13. Total(one) = Fill(r, l)
    BY <2>10, TotalOfOne
  <2>14. Fill(r, l) = r.amount - Available(A)
    BY <2>1 DEF A
  <2>15. Got(r) = r.amount
    BY <1>3, <1>5 DEF Got
  <2>16. QED
    BY <1>3, <2>3, <2>9, <2>11, <2>12, <2>13, <2>14, <2>15 DEF give
<1>6. QED
  BY <1>3, <1>4, <1>5

LEMMA MatchedGive ==
    ASSUME TypeOK, NEW r \in Requests
    PROVE  Total([i \in Matched(r) |-> Fill(r, i)]) = Got(r)
<1> DEFINE give == [i \in Makers(r) |-> Fill(r, i)]
<1>1. Matched(r) \in SUBSET Makers(r) /\ IsFiniteSet(Makers(r))
  BY MakersFinite DEF Matched
<1>2. give \in [Makers(r) -> Nat]
  BY FillBounds
<1>3. \A i \in Makers(r) \ Matched(r) : give[i] = 0
  BY <1>2 DEF Matched
<1>4. [i \in Matched(r) |-> give[i]] = [i \in Matched(r) |-> Fill(r, i)]
  BY <1>1
<1>5. Total(give) = Got(r)
  BY MakersGive
<1> HIDE DEF give
<1>6. Total([i \in Matched(r) |-> give[i]]) = Total(give)
  BY <1>1, <1>2, <1>3, TotalOfRest
<1>7. QED
  BY <1>4, <1>5, <1>6

-----------------------------------------------------------------------------
(***************************************************************************)
(* Fills are the sums of the trades.                                       *)
(***************************************************************************)
Shares(T) == Total([t \in T |-> trades[t].shares])

\* The same, as the trades are after a step.
SharesNext(T) == Total([t \in T |-> trades'[t].shares])

TradesIn(m) == {t \in DOMAIN trades : order[t[2]].market = m}

FillsAreTrades ==
    /\ \A i \in DOMAIN order : Shares(TradesOf(i)) = filled[i]
    /\ \A m \in Markets : volume[m] = Shares(TradesIn(m))

LEMMA FillsByTrades == FillsAreTrades <=> FilledMatchesTrades
BY DEF FillsAreTrades, FilledMatchesTrades, Shares, TradesIn, MatchedShares

\* The shares of the trades of T after a placement, when the trades it adds to
\* T are those of the makers in S.
LEMMA SharesAfter ==
    ASSUME TypeOK, NEW id \in OrderIds, NEW r \in Requests, Place(id, r),
           NEW T \in SUBSET DOMAIN trades, NEW S \in SUBSET Matched(r)
    PROVE  SharesNext(T \cup (S \X {id}))
             = Shares(T) + Total([i \in S |-> Fill(r, i)])
<1> DEFINE N == S \X {id}
           f == [t \in T \cup N |-> trades'[t].shares]
           new == [t \in N |-> trades'[t].shares]
           maker == [t \in N |-> t[1]]
           fills == [i \in S |-> Fill(r, i)]
<1>1. /\ \A t \in DOMAIN trades : trades'[t] = trades[t]
      /\ \A i \in S : /\ <<i, id>> \notin DOMAIN trades
                      /\ trades'[<<i, id>>].shares = Fill(r, i)
  <2>1. \A t \in DOMAIN trades : trades'[t] = trades[t]
    BY PlacedTrades
  <2>2. ASSUME NEW i \in S
        PROVE  <<i, id>> \notin DOMAIN trades /\ trades'[<<i, id>>].shares = Fill(r, i)
    <3>1. /\ <<i, id>> \notin DOMAIN trades
          /\ trades'[<<i, id>>] = [shares |-> Fill(r, i), price |-> order[i].price]
      BY PlacedTrades
    <3>2. QED
      BY <3>1
  <2>3. QED
    BY <2>1, <2>2
<1>2. IsFiniteSet(S) /\ \A i \in S : Fill(r, i) \in Nat
  BY MatchedOrders, FS_Subset
<1>3. IsFiniteSet({id})
  BY FS_Singleton
<1>4. IsFiniteSet(N) /\ IsFiniteSet(T)
  BY <1>2, <1>3, FS_Product, FS_Subset, FiniteTables
<1>5. IsFiniteSet(T \cup N)
  BY <1>4, FS_Union
<1>6. T \cap N = {}
  BY <1>1
<1>7. \A t \in T : trades'[t].shares = trades[t].shares /\ trades[t].shares \in Nat
  BY <1>1 DEF TypeOK, TradeRow
<1>8. \A t \in N : /\ t[1] \in S /\ t = <<t[1], id>>
                   /\ trades'[t].shares = Fill(r, t[1])
  BY <1>1
<1>9. new \in [N -> Nat] /\ maker \in [N -> S]
  BY <1>2, <1>8
<1>10. DOMAIN f = T \cup N /\ \A t \in DOMAIN f : f[t] \in Int
  BY <1>2, <1>7, <1>8
<1>11. /\ [t \in T |-> f[t]] = [t \in T |-> trades[t].shares]
       /\ [t \in N |-> f[t]] = new
  BY <1>7
<1>12. \A i \in S : Total(Part(new, N, maker, i)) = Fill(r, i)
  <2> SUFFICES ASSUME NEW i \in S
               PROVE  Total(Part(new, N, maker, i)) = Fill(r, i)
    OBVIOUS
  <2> DEFINE part == Part(new, N, maker, i)
  <2>1. {t \in N : maker[t] = i} = {<<i, id>>}
    BY <1>8
  <2>2. new[<<i, id>>] = Fill(r, i)
    BY <1>1
  <2> HIDE DEF new, N, maker
  <2>3. DOMAIN part = {<<i, id>>} /\ part[<<i, id>>] = Fill(r, i)
    BY <2>1, <2>2 DEF Part
  <2> HIDE DEF part
  <2>4. Total(part) = Fill(r, i)
    BY <1>2, <2>3, TotalOfOne
  <2>5. QED
    BY <2>4 DEF part
<1>13. SharesNext(T \cup N) = Total(f)
  BY DEF SharesNext
<1> HIDE DEF f, new, maker, N
<1>14. [i \in S |-> Total(Part(new, N, maker, i))] = fills
  BY <1>12
<1>15. Total([i \in S |-> Total(Part(new, N, maker, i))]) = Total(new)
  BY <1>2, <1>4, <1>9, TotalByKey
<1>16. Total(f) = Total([t \in T |-> f[t]]) + Total([t \in N |-> f[t]])
  BY <1>5, <1>6, <1>10, TotalOfUnion
<1>17. QED
  BY <1>11, <1>13, <1>14, <1>15, <1>16 DEF Shares, N

LEMMA PlaceFills ==
    ASSUME TypeOK, FillsAreTrades, NEW id \in OrderIds, NEW r \in Requests, Place(id, r)
    PROVE  FillsAreTrades'
<1>1. /\ id \notin DOMAIN order
      /\ DOMAIN order' = DOMAIN order \cup {id}
      /\ order'[id] = r
      /\ \A i \in DOMAIN order : order'[i] = order[i]
      /\ filled'[id] = Got(r)
      /\ \A i \in DOMAIN order \ Matched(r) : filled'[i] = filled[i]
      /\ \A i \in Matched(r) : i \in DOMAIN order /\ filled'[i] = filled[i] + Fill(r, i)
  BY PlacedBook
<1>2. /\ DOMAIN trades' = DOMAIN trades \cup (Matched(r) \X {id})
      /\ DOMAIN trades \subseteq (DOMAIN order) \X (DOMAIN order)
  BY PlacedTrades DEF TypeOK
<1>3. Total([i \in Matched(r) |-> Fill(r, i)]) = Got(r)
  BY MatchedGive
<1>4. Total([i \in {} |-> Fill(r, i)]) = 0
  <2> DEFINE f == [i \in {} |-> Fill(r, i)]
  <2>1. DOMAIN f = {}
    OBVIOUS
  <2> HIDE DEF f
  <2>2. Total(f) = 0
    BY <2>1, FS_EmptySet, TotalOfZeros
  <2>3. QED
    BY <2>2 DEF f
<1>5. \A T \in SUBSET DOMAIN trades, S \in SUBSET Matched(r) :
          SharesNext(T \cup (S \X {id})) = Shares(T) + Total([i \in S |-> Fill(r, i)])
  <2> SUFFICES ASSUME NEW T \in SUBSET DOMAIN trades, NEW S \in SUBSET Matched(r)
               PROVE  SharesNext(T \cup (S \X {id}))
                        = Shares(T) + Total([i \in S |-> Fill(r, i)])
    OBVIOUS
  <2>1. QED
    BY SharesAfter
<1>6. \A T \in SUBSET DOMAIN trades : Shares(T) \in Nat
  <2> SUFFICES ASSUME NEW T \in SUBSET DOMAIN trades
               PROVE  Shares(T) \in Nat
    OBVIOUS
  <2> DEFINE f == [t \in T |-> trades[t].shares]
  <2>1. IsFiniteSet(DOMAIN f) /\ \A t \in DOMAIN f : f[t] \in Int
    BY FiniteTables, FS_Subset DEF TypeOK, TradeRow
  <2> HIDE DEF f
  <2>2. Total(f) \in Nat
    BY <2>1, TotalType
  <2>3. QED
    BY <2>2 DEF f, Shares
<1>7. ASSUME NEW i \in DOMAIN order'
      PROVE  Shares(TradesOf(i))' = filled'[i]
  <2>1. CASE i = id
    <3>1. TradesOf(i)' = {} \cup (Matched(r) \X {id})
      BY <1>1, <1>2, <2>1 DEF TradesOf
    <3>2. Shares({}) = 0
      <4> DEFINE f == [t \in {} |-> trades[t].shares]
      <4>1. DOMAIN f = {}
        OBVIOUS
      <4> HIDE DEF f
      <4>2. Total(f) = 0
        BY <4>1, FS_EmptySet, TotalOfZeros
      <4>3. QED
        BY <4>2 DEF f, Shares
    <3>3. SharesNext({} \cup (Matched(r) \X {id}))
            = Shares({}) + Total([j \in Matched(r) |-> Fill(r, j)])
      BY <1>5
    <3>4. Got(r) \in Nat
      BY GotBounds
    <3>5. Shares(TradesOf(i))' = SharesNext({} \cup (Matched(r) \X {id}))
      BY <3>1 DEF Shares, SharesNext
    <3>6. QED
      BY <1>1, <1>3, <2>1, <3>2, <3>3, <3>4, <3>5
  <2>2. CASE i \in Matched(r)
    <3> DEFINE one == [j \in {i} |-> Fill(r, j)]
    <3>1. i \in DOMAIN order /\ i # id
      BY <1>1, <2>2
    <3>2. TradesOf(i)' = TradesOf(i) \cup ({i} \X {id})
      BY <1>1, <1>2, <2>2, <3>1 DEF TradesOf
    <3>3. TradesOf(i) \in SUBSET DOMAIN trades /\ {i} \in SUBSET Matched(r)
      BY <2>2 DEF TradesOf
    <3>4. SharesNext(TradesOf(i) \cup ({i} \X {id})) = Shares(TradesOf(i)) + Total(one)
      BY <1>5, <3>3
    <3>5. DOMAIN one = {i} /\ one[i] = Fill(r, i) /\ one[i] \in Nat
      BY <2>2, MatchedOrders
    <3> HIDE DEF one
    <3>6. Total(one) = Fill(r, i)
      BY <3>5, TotalOfOne
    <3>7. Shares(TradesOf(i)) = filled[i]
      BY <3>1 DEF FillsAreTrades
    <3>8. Shares(TradesOf(i))' = SharesNext(TradesOf(i) \cup ({i} \X {id}))
      BY <3>2 DEF Shares, SharesNext
    <3>9. QED
      BY <1>1, <2>2, <3>4, <3>6, <3>7, <3>8
  <2>3. CASE i # id /\ i \notin Matched(r)
    <3>1. i \in DOMAIN order
      BY <1>1, <2>3
    <3>2. TradesOf(i)' = TradesOf(i) \cup ({} \X {id})
      BY <1>1, <1>2, <2>3, <3>1 DEF TradesOf
    <3>3. TradesOf(i) \in SUBSET DOMAIN trades
      BY DEF TradesOf
    <3>4. SharesNext(TradesOf(i) \cup ({} \X {id}))
            = Shares(TradesOf(i)) + Total([j \in {} |-> Fill(r, j)])
      BY <1>5, <3>3
    <3>5. Shares(TradesOf(i)) = filled[i] /\ Shares(TradesOf(i)) \in Nat
      BY <1>6, <3>1, <3>3 DEF FillsAreTrades
    <3>6. Shares(TradesOf(i))' = SharesNext(TradesOf(i) \cup ({} \X {id}))
      BY <3>2 DEF Shares, SharesNext
    <3>7. QED
      BY <1>1, <1>4, <2>3, <3>1, <3>4, <3>5, <3>6
  <2>4. QED
    BY <2>1, <2>2, <2>3
<1>8. ASSUME NEW m \in Markets
      PROVE  volume'[m] = Shares(TradesIn(m))'
  <2>1. \A t \in DOMAIN trades : t[2] \in DOMAIN order /\ order'[t[2]] = order[t[2]]
    BY <1>1, <1>2
  <2>2. \A t \in Matched(r) \X {id} : order'[t[2]].market = r.market
    BY <1>1
  <2>3. TradesIn(m) \in SUBSET DOMAIN trades
    BY DEF TradesIn
  <2>4. volume[m] = Shares(TradesIn(m)) /\ volume[m] \in Nat
    BY DEF FillsAreTrades, TypeOK
  <2>5. volume' = [volume EXCEPT ![r.market] = @ + Got(r)]
    BY DEF Place
  <2>6. CASE m = r.market
    <3>1. TradesIn(m)' = TradesIn(m) \cup (Matched(r) \X {id})
      BY <1>2, <2>1, <2>2, <2>6 DEF TradesIn
    <3>2. SharesNext(TradesIn(m) \cup (Matched(r) \X {id}))
            = Shares(TradesIn(m)) + Total([j \in Matched(r) |-> Fill(r, j)])
      BY <1>5, <2>3
    <3>3. volume'[m] = volume[m] + Got(r)
      BY <2>5, <2>6 DEF TypeOK
    <3>4. Shares(TradesIn(m))' = SharesNext(TradesIn(m) \cup (Matched(r) \X {id}))
      BY <3>1 DEF Shares, SharesNext
    <3>5. QED
      BY <1>3, <2>4, <3>2, <3>3, <3>4
  <2>7. CASE m # r.market
    <3>1. TradesIn(m)' = TradesIn(m) \cup ({} \X {id})
      BY <1>2, <2>1, <2>2, <2>7 DEF TradesIn
    <3>2. SharesNext(TradesIn(m) \cup ({} \X {id}))
            = Shares(TradesIn(m)) + Total([j \in {} |-> Fill(r, j)])
      BY <1>5, <2>3
    <3>3. volume'[m] = volume[m]
      BY <2>5, <2>7 DEF TypeOK
    <3>4. Shares(TradesIn(m))' = SharesNext(TradesIn(m) \cup ({} \X {id}))
      BY <3>1 DEF Shares, SharesNext
    <3>5. QED
      BY <1>4, <2>4, <3>2, <3>3, <3>4
  <2>8. QED
    BY <2>6, <2>7
<1>9. QED
  BY <1>7, <1>8 DEF FillsAreTrades

LEMMA NextFills == TypeOK /\ FillsAreTrades /\ [Next]_vars => FillsAreTrades'
<1> SUFFICES ASSUME TypeOK, FillsAreTrades, [Next]_vars
             PROVE  FillsAreTrades'
  OBVIOUS
<1>1. CASE PlaceAny
  BY <1>1, PlaceFills DEF PlaceAny
<1>2. CASE ~ PlaceAny
  <2>1. UNCHANGED <<order, filled, trades, volume>>
    <3>1. CASE Funding \/ Administration \/ Reconcile \/ UNCHANGED vars
      BY <3>1, QuietSteps DEF bookVars
    <3>2. CASE CancelAny
      BY <3>2 DEF CancelAny, Cancel
    <3>3. CASE SettleAny
      BY <3>3 DEF SettleAny, SettleMarket
    <3>4. QED
      BY <1>2, <3>1, <3>2, <3>3 DEF Next
  <2>2. QED
    BY <2>1 DEF FillsAreTrades, Shares, TradesOf, TradesIn
<1>3. QED
  BY <1>1, <1>2

LEMMA InitFills == Init => FillsAreTrades
<1> SUFFICES ASSUME Init
             PROVE  FillsAreTrades
  OBVIOUS
<1>1. ASSUME NEW m \in Markets
      PROVE  volume[m] = Shares(TradesIn(m))
  <2> DEFINE f == [t \in TradesIn(m) |-> trades[t].shares]
  <2>1. DOMAIN f = {} /\ volume[m] = 0
    BY DEF Init, TradesIn
  <2> HIDE DEF f
  <2>2. Total(f) = 0
    BY <2>1, FS_EmptySet, TotalOfZeros
  <2>3. QED
    BY <2>1, <2>2 DEF f, Shares
<1>2. DOMAIN order = {}
  BY DEF Init
<1>3. QED
  BY <1>1, <1>2 DEF FillsAreTrades

\* The filled amount of an order is the sum of its trades and a market's
\* volume the sum of its trades', so that the check settlement makes of every
\* order of a market never fails.
THEOREM FillsMatchTrades == Spec => []FilledMatchesTrades
<1>1. FillsAreTrades => FilledMatchesTrades
  BY FillsByTrades
<1>2. TypeOK /\ FillsAreTrades /\ [Next]_vars => FillsAreTrades'
  BY NextFills
<1>3. QED
  BY <1>1, <1>2, InitFills, TypeCorrect, PTL DEF Spec
=============================================================================
