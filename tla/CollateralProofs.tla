-------------------------- MODULE CollateralProofs --------------------------
(***************************************************************************)
(* Collateral for every instance in which cents are exact: what a wallet   *)
(* has locked is what its orders hold, so that the checks of a settlement  *)
(* never stop it and reconciliation finds nothing.                         *)
(***************************************************************************)
EXTENDS BookProofs, SettlementProofs

-----------------------------------------------------------------------------
(***************************************************************************)
(* Exact values.  Lots at ticks are whole cents, so that nothing is        *)
(* rounded and values add up: by shares, by price and over sums.           *)
(***************************************************************************)
Multiples(d) == {n * d : n \in Nat}

LEMMA MultiplesClosed ==
    ASSUME NEW d \in Nat \ {0}
    PROVE  /\ Multiples(d) \subseteq Nat /\ 0 \in Multiples(d)
           /\ \A x, y \in Multiples(d) : x + y \in Multiples(d)
           /\ \A x, y \in Multiples(d) : x <= y => y - x \in Multiples(d)
<1>1. Multiples(d) \subseteq Nat
  BY DEF Multiples
<1>2. 0 \in Multiples(d)
  BY 0 * d = 0 DEF Multiples
<1>3. ASSUME NEW m \in Nat, NEW n \in Nat
      PROVE  m * d + n * d = (m + n) * d
  OBVIOUS
<1>4. ASSUME NEW m \in Nat, NEW n \in Nat, m * d <= n * d
      PROVE  n * d - m * d \in Multiples(d)
  <2>1. CASE m <= n
    <3>1. n - m \in Nat /\ n * d - m * d = (n - m) * d
      BY <2>1
    <3>2. QED
      BY <3>1 DEF Multiples
  <2>2. CASE n < m
    <3>1. PICK k \in Nat : m = n + k
      <4>1. m - n \in Nat /\ m = n + (m - n)
        BY <2>2
      <4>2. QED
        BY <4>1
    <3>2. m * d = n * d + k * d /\ k * d \in Nat
      BY <3>1
    <3>3. n * d - m * d = 0
      BY <1>4, <3>2
    <3>4. QED
      BY <1>2, <3>3
  <2>3. QED
    BY <2>1, <2>2
<1>5. \A x, y \in Multiples(d) : x + y \in Multiples(d)
  BY <1>3 DEF Multiples
<1>6. \A x, y \in Multiples(d) : x <= y => y - x \in Multiples(d)
  BY <1>4 DEF Multiples
<1>7. QED
  BY <1>1, <1>2, <1>5, <1>6

LEMMA FactorCancels ==
    ASSUME NEW a \in Nat, NEW b \in Nat, NEW d \in Nat \ {0}, a * d = b * d
    PROVE  a = b
<1>1. ASSUME NEW m \in Nat, NEW n \in Nat, m < n
      PROVE  m * d < n * d
  <2>1. PICK k \in Nat : n = m + 1 + k
    <3>1. n - m - 1 \in Nat /\ n = m + 1 + (n - m - 1)
      BY <1>1
    <3>2. QED
      BY <3>1
  <2>2. n * d = m * d + d + k * d /\ k * d \in Nat /\ m * d \in Nat
    BY <2>1
  <2>3. QED
    BY <2>2
<1>2. QED
  BY <1>1

\* A multiple of the denominator is not rounded.
LEMMA ExactDivision ==
    ASSUME NEW k \in Nat, NEW d \in Nat \ {0}
    PROVE  DivideRounded(k * d, d) = k
<1>1. k * d \in Nat
  OBVIOUS
<1>2. (k * d) \div d = k /\ (k * d) % d = 0
  BY <1>1
<1>3. QED
  BY <1>2 DEF DivideRounded

\* Lots at a price on a tick are worth a whole number of cents.
LEMMA ExactValue ==
    ASSUME NEW lot \in Nat \ {0}, NEW tick \in Nat \ {0}, WholeCents(lot, tick),
           NEW s \in Multiples(lot), NEW p \in Multiples(tick)
    PROVE  /\ ProductCents(s, p) \in Nat
           /\ s * p * CentsScale = ProductCents(s, p) * (ShareScale * PriceScale)
<1> DEFINE d == ShareScale * PriceScale
<1>1. d \in Nat \ {0} /\ CentsScale \in Nat
  BY ScaleProduct, ScaleAssumption
<1>2. PICK n \in Nat : lot * tick * CentsScale = n * d
  BY DEF WholeCents, Divides
<1>3. PICK a \in Nat : s = a * lot
  BY DEF Multiples
<1>4. PICK b \in Nat : p = b * tick
  BY DEF Multiples
<1>5. s * p * CentsScale = (a * b * n) * d /\ a * b * n \in Nat
  <2> HIDE DEF d
  <2>1. s * p * CentsScale = (a * b) * (lot * tick * CentsScale)
    BY <1>1, <1>3, <1>4
  <2>2. (a * b) * (n * d) = (a * b * n) * d
    BY <1>1
  <2>3. QED
    BY <1>2, <2>1, <2>2
<1>6. ProductCents(s, p) = a * b * n
  <2> DEFINE k == a * b * n
  <2>1. ProductCents(s, p) = DivideRounded(k * d, d) /\ k \in Nat
    BY <1>5 DEF ProductCents
  <2> HIDE DEF k, d
  <2>2. DivideRounded(k * d, d) = k
    BY <1>1, <2>1, ExactDivision
  <2>3. QED
    BY <2>1, <2>2 DEF k
<1>7. QED
  BY <1>5, <1>6

LEMMA TicksInScale ==
    ASSUME NEW lot \in Nat \ {0}, NEW tick \in Nat \ {0}, WholeCents(lot, tick)
    PROVE  PriceScale \in Multiples(tick)
<1>1. PICK n \in 0 .. PriceScale : PriceScale = n * tick
  BY DEF WholeCents, Divides
<1>2. n \in Nat
  BY ScaleAssumption
<1>3. QED
  BY <1>1, <1>2 DEF Multiples

\* Values add up by shares and by price.
LEMMA ExactSums ==
    ASSUME NEW lot \in Nat \ {0}, NEW tick \in Nat \ {0}, WholeCents(lot, tick),
           NEW s \in Multiples(lot), NEW t \in Multiples(lot),
           NEW p \in Multiples(tick), NEW q \in Multiples(tick)
    PROVE  /\ ProductCents(s + t, p) = ProductCents(s, p) + ProductCents(t, p)
           /\ ProductCents(s, p + q) = ProductCents(s, p) + ProductCents(s, q)
<1> DEFINE d == ShareScale * PriceScale
<1>1. d \in Nat \ {0} /\ CentsScale \in Nat
  BY ScaleProduct, ScaleAssumption
<1>2. s \in Nat /\ t \in Nat /\ p \in Nat /\ q \in Nat
      /\ s + t \in Multiples(lot) /\ p + q \in Multiples(tick)
  BY MultiplesClosed
<1>3. \A x \in Multiples(lot), y \in Multiples(tick) :
          ProductCents(x, y) \in Nat /\ x * y * CentsScale = ProductCents(x, y) * d
  BY ExactValue
<1> HIDE DEF d
<1>4. (ProductCents(s, p) + ProductCents(t, p)) * d = ProductCents(s + t, p) * d
  <2>1. (s + t) * p * CentsScale = s * p * CentsScale + t * p * CentsScale
    BY <1>1, <1>2
  <2>2. (ProductCents(s, p) + ProductCents(t, p)) * d
          = ProductCents(s, p) * d + ProductCents(t, p) * d
    BY <1>1, <1>3
  <2>3. QED
    BY <1>2, <1>3, <2>1, <2>2
<1>5. (ProductCents(s, p) + ProductCents(s, q)) * d = ProductCents(s, p + q) * d
  <2>1. s * (p + q) * CentsScale = s * p * CentsScale + s * q * CentsScale
    BY <1>1, <1>2
  <2>2. (ProductCents(s, p) + ProductCents(s, q)) * d
          = ProductCents(s, p) * d + ProductCents(s, q) * d
    BY <1>1, <1>3
  <2>3. QED
    BY <1>2, <1>3, <2>1, <2>2
<1>6. QED
  <2>1. /\ ProductCents(s + t, p) \in Nat /\ ProductCents(s, p + q) \in Nat
        /\ ProductCents(s, p) + ProductCents(t, p) \in Nat
        /\ ProductCents(s, p) + ProductCents(s, q) \in Nat
    BY <1>2, <1>3
  <2>2. QED
    BY <1>1, <1>4, <1>5, <2>1, FactorCancels

LEMMA ExactPayout ==
    ASSUME NEW lot \in Nat \ {0}, NEW tick \in Nat \ {0}, WholeCents(lot, tick),
           NEW s \in Multiples(lot)
    PROVE  PayoutCents(s) = ProductCents(s, PriceScale)
<1> DEFINE k == ProductCents(s, PriceScale)
<1>1. /\ s \in Nat /\ CentsScale \in Nat /\ ShareScale \in Nat \ {0}
      /\ PriceScale \in Nat \ {0}
  BY MultiplesClosed, ScaleAssumption
<1>2. k \in Nat /\ s * PriceScale * CentsScale = k * (ShareScale * PriceScale)
  BY TicksInScale, ExactValue
<1> HIDE DEF k
<1>3. (s * CentsScale) * PriceScale = (k * ShareScale) * PriceScale
  BY <1>1, <1>2
<1>4. s * CentsScale = k * ShareScale
  <2>1. s * CentsScale \in Nat /\ k * ShareScale \in Nat
    BY <1>1, <1>2
  <2>2. QED
    BY <1>1, <1>3, <2>1, FactorCancels
<1>5. QED
  BY <1>1, <1>2, <1>4, ExactDivision DEF PayoutCents, k

\* The stake of a trade is its collateral at the price it matched.
LEMMA ExactStake ==
    ASSUME NEW lot \in Nat \ {0}, NEW tick \in Nat \ {0}, WholeCents(lot, tick),
           NEW side \in Sides, NEW s \in Multiples(lot),
           NEW p \in Multiples(tick) \cap Prices
    PROVE  /\ ExposurePrice(side, p) \in Multiples(tick)
           /\ StakeCents(side, s, p) = CollateralCents(side, s, p)
           /\ StakeCents(side, s, p) \in Nat
<1>1. p \in Nat /\ PriceScale \in Nat /\ p <= PriceScale /\ PriceScale - p \in Nat
  BY ScaleAssumption DEF Prices
<1>2. PriceScale \in Multiples(tick) /\ PriceScale - p \in Multiples(tick)
  BY <1>1, TicksInScale, MultiplesClosed
<1>3. ExposurePrice(side, p) \in Multiples(tick)
  BY <1>2 DEF ExposurePrice
<1>4. ProductCents(s, p) \in Nat /\ ProductCents(s, PriceScale - p) \in Nat
  BY <1>2, ExactValue
<1>5. PayoutCents(s) = ProductCents(s, p) + ProductCents(s, PriceScale - p)
  <2>1. ProductCents(s, p + (PriceScale - p))
          = ProductCents(s, p) + ProductCents(s, PriceScale - p)
    BY <1>2, ExactSums
  <2>2. p + (PriceScale - p) = PriceScale
    BY <1>1
  <2>3. QED
    BY <2>1, <2>2, ExactPayout
<1>6. CASE side = "buy"
  BY <1>3, <1>4, <1>6 DEF StakeCents, CollateralCents, ExposurePrice
<1>7. CASE side = "sell"
  BY <1>3, <1>4, <1>5, <1>7 DEF StakeCents, CollateralCents, ExposurePrice
<1>8. QED
  BY <1>6, <1>7 DEF Sides

\* What a taker locked for shares is their stake and the price improvement.
LEMMA ExactImprovement ==
    ASSUME NEW lot \in Nat \ {0}, NEW tick \in Nat \ {0}, WholeCents(lot, tick),
           NEW side \in Sides, NEW s \in Multiples(lot),
           NEW limit \in Multiples(tick) \cap Prices,
           NEW p \in Multiples(tick) \cap Prices,
           IF side = "buy" THEN p <= limit ELSE p >= limit
    PROVE  CollateralCents(side, s, limit)
             = StakeCents(side, s, p) + PriceImprovementCents(side, s, limit, p)
<1> DEFINE difference == IF side = "sell" THEN p - limit ELSE limit - p
           exposure == ExposurePrice(side, p)
<1>1. /\ p \in Nat /\ limit \in Nat /\ PriceScale \in Nat
      /\ p <= PriceScale /\ limit <= PriceScale
  BY ScaleAssumption DEF Prices
<1>2. difference \in Multiples(tick) /\ difference \in Nat
  <2>1. p <= limit => limit - p \in Multiples(tick)
    BY MultiplesClosed
  <2>2. limit <= p => p - limit \in Multiples(tick)
    BY MultiplesClosed
  <2>3. QED
    BY <1>1, <2>1, <2>2 DEF Sides
<1>3. ExposurePrice(side, limit) = exposure + difference
  BY <1>1 DEF ExposurePrice, Sides
<1>4. exposure \in Multiples(tick) /\ StakeCents(side, s, p) = ProductCents(s, exposure)
      /\ ProductCents(s, exposure) \in Nat
  BY ExactStake DEF CollateralCents
<1>5. ProductCents(s, exposure + difference)
        = ProductCents(s, exposure) + ProductCents(s, difference)
  <2> HIDE DEF exposure, difference
  <2>1. QED
    BY <1>2, <1>4, ExactSums
<1>6. PriceImprovementCents(side, s, limit, p) = ProductCents(s, difference)
  <2>1. CASE difference = 0
    <3>1. s * 0 * CentsScale = 0
      BY MultiplesClosed, ScaleAssumption
    <3>2. ProductCents(s, 0) = 0
      BY <3>1, ScaleProduct, DivideRoundedZero DEF ProductCents
    <3>3. QED
      BY <2>1, <3>2 DEF PriceImprovementCents
  <2>2. CASE difference > 0
    <3>1. ~ (difference <= 0)
      BY <1>2, <2>2
    <3>2. PriceImprovementCents(side, s, limit, p)
            = IF difference <= 0 THEN 0 ELSE ProductCents(s, difference)
      BY DEF PriceImprovementCents
    <3> HIDE DEF difference
    <3>3. QED
      BY <3>1, <3>2
  <2>3. QED
    BY <1>2, <2>1, <2>2
<1>7. QED
  BY <1>3, <1>4, <1>5, <1>6 DEF CollateralCents

LEMMA TotalOfMultiples ==
    ASSUME NEW d \in Nat \ {0}, NEW S, IsFiniteSet(S), NEW f \in [S -> Multiples(d)]
    PROVE  Total(f) \in Multiples(d)
<1> DEFINE a == [x \in S |-> CHOOSE n \in Nat : f[x] = n * d]
<1>1. \A x \in S : a[x] \in Nat /\ f[x] = a[x] * d
  BY DEF Multiples
<1>2. a \in [S -> Nat]
  BY <1>1
<1>3. f = [x \in S |-> d * a[x]]
  <2>1. \A x \in S : f[x] = d * a[x]
    <3>1. \A n \in Nat : n * d = d * n
      OBVIOUS
    <3> HIDE DEF a
    <3>2. QED
      BY <1>1, <3>1
  <2> HIDE DEF a
  <2>2. QED
    BY <2>1
<1> HIDE DEF a
<1>4. Total(f) = d * Total(a) /\ Total(a) \in Nat
  BY <1>2, <1>3, TotalScaled, TotalNat
<1>5. d * Total(a) = Total(a) * d
  BY <1>4
<1>6. QED
  BY <1>4, <1>5 DEF Multiples

\* The sum of values at one price is the value of the sum.
LEMMA ExactTotal ==
    ASSUME NEW lot \in Nat \ {0}, NEW tick \in Nat \ {0}, WholeCents(lot, tick),
           NEW S, IsFiniteSet(S), NEW f \in [S -> Multiples(lot)],
           NEW p \in Multiples(tick)
    PROVE  Total([x \in S |-> ProductCents(f[x], p)]) = ProductCents(Total(f), p)
<1> DEFINE d == ShareScale * PriceScale
           c == p * CentsScale
           v == [x \in S |-> ProductCents(f[x], p)]
<1>1. d \in Nat \ {0} /\ c \in Nat /\ p \in Nat
  BY ScaleProduct, ScaleAssumption, MultiplesClosed
<1>2. Total(f) \in Multiples(lot)
  BY TotalOfMultiples
<1>3. f \in [S -> Nat] /\ Total(f) \in Nat
  BY <1>2, MultiplesClosed
<1>4. \A s \in Multiples(lot) : ProductCents(s, p) \in Nat
                                /\ s * p * CentsScale = ProductCents(s, p) * d
  BY ExactValue
<1>5. v \in [S -> Nat]
  BY <1>4
<1>6. \A s \in Multiples(lot) : c * s = d * ProductCents(s, p)
  <2> SUFFICES ASSUME NEW s \in Multiples(lot)
               PROVE  c * s = d * ProductCents(s, p)
    OBVIOUS
  <2>1. s \in Nat /\ ProductCents(s, p) \in Nat /\ CentsScale \in Nat
    BY <1>4, MultiplesClosed, ScaleAssumption
  <2>2. c * s = s * p * CentsScale
    BY <1>1, <2>1
  <2>3. ProductCents(s, p) * d = d * ProductCents(s, p)
    BY <1>1, <2>1
  <2>4. QED
    BY <1>4, <2>2, <2>3
<1>7. [x \in S |-> c * f[x]] = [x \in S |-> d * v[x]]
  <2>1. \A x \in S : c * f[x] = d * v[x]
    BY <1>6
  <2> HIDE DEF c, d, v
  <2>2. QED
    BY <2>1
<1> HIDE DEF c, d, v
<1>8. c * Total(f) = d * Total(v)
  <2>1. Total([x \in S |-> c * f[x]]) = c * Total(f)
    BY <1>1, <1>3, TotalScaled
  <2>2. Total([x \in S |-> d * v[x]]) = d * Total(v)
    BY <1>1, <1>5, TotalScaled
  <2>3. QED
    BY <1>7, <2>1, <2>2
<1>9. c * Total(f) = d * ProductCents(Total(f), p)
  BY <1>2, <1>6
<1>10. Total(v) \in Nat /\ ProductCents(Total(f), p) \in Nat
  BY <1>2, <1>4, <1>5, TotalNat
<1>11. Total(v) * d = ProductCents(Total(f), p) * d
  BY <1>1, <1>8, <1>9, <1>10
<1>12. Total(v) = ProductCents(Total(f), p)
  BY <1>1, <1>10, <1>11, FactorCancels
<1>13. QED
  BY <1>12 DEF v

-----------------------------------------------------------------------------
(***************************************************************************)
(* Orders are filled by lots, because all that they compare are lots.      *)
(***************************************************************************)
WholeLots(lot) ==
    /\ \A i \in DOMAIN order : filled[i] \in Multiples(lot)
    /\ \A t \in DOMAIN trades : trades[t].shares \in Multiples(lot)

LEMMA RequestLots ==
    ASSUME NEW lot \in Nat \ {0}, NEW tick \in Nat \ {0}, WholeCents(lot, tick),
           NEW r \in Requests
    PROVE  r.amount \in Multiples(lot) /\ r.price \in Multiples(tick) \cap Prices
<1>1. /\ r.amount \in Nat /\ r.price \in Nat /\ r.price \in Prices
  BY RequestFields, ScaleAssumption DEF Prices
<1>2. PICK n \in 0 .. r.amount : r.amount = n * lot
  BY DEF WholeCents, Divides
<1>3. PICK k \in 0 .. r.price : r.price = k * tick
  BY DEF WholeCents, Divides
<1>4. n \in Nat /\ k \in Nat
  BY <1>1
<1>5. QED
  BY <1>1, <1>2, <1>3, <1>4 DEF Multiples

LEMMA OrderLots ==
    ASSUME TypeOK, NEW lot \in Nat \ {0}, NEW tick \in Nat \ {0}, WholeCents(lot, tick),
           WholeLots(lot), NEW i \in DOMAIN order
    PROVE  /\ Remaining(i) \in Multiples(lot) /\ filled[i] \in Multiples(lot)
           /\ order[i].price \in Multiples(tick) \cap Prices /\ order[i].side \in Sides
           /\ ExposurePrice(order[i].side, order[i].price) \in Multiples(tick)
<1>1. /\ order[i] \in Requests /\ filled[i] \in Multiples(lot)
      /\ filled[i] <= order[i].amount
  BY OrderFields DEF WholeLots, TypeOK
<1>2. /\ order[i].amount \in Multiples(lot) /\ order[i].side \in Sides
      /\ order[i].price \in Multiples(tick) \cap Prices
  BY <1>1, RequestLots, RequestFields
<1>3. Remaining(i) \in Multiples(lot)
  BY <1>1, <1>2, MultiplesClosed DEF Remaining
<1>4. 0 \in Multiples(lot)
  BY MultiplesClosed
<1>5. ExposurePrice(order[i].side, order[i].price) \in Multiples(tick)
  BY <1>2, <1>4, ExactStake
<1>6. QED
  BY <1>1, <1>2, <1>3, <1>5

LEMMA FillLots ==
    ASSUME TypeOK, NEW lot \in Nat \ {0}, NEW tick \in Nat \ {0}, WholeCents(lot, tick),
           WholeLots(lot), NEW r \in Requests
    PROVE  /\ Got(r) \in Multiples(lot) /\ r.amount - Got(r) \in Multiples(lot)
           /\ \A i \in Makers(r) : Fill(r, i) \in Multiples(lot)
<1>1. r.amount \in Multiples(lot)
  BY RequestLots
<1>2. \A S \in SUBSET DOMAIN order : Available(S) \in Multiples(lot)
  <2> SUFFICES ASSUME NEW S \in SUBSET DOMAIN order
               PROVE  Available(S) \in Multiples(lot)
    OBVIOUS
  <2> DEFINE f == [i \in S |-> Remaining(i)]
  <2>1. f \in [S -> Multiples(lot)] /\ IsFiniteSet(S)
    BY OrderLots, FiniteTables, FS_Subset
  <2> HIDE DEF f
  <2>2. Total(f) \in Multiples(lot)
    BY <2>1, TotalOfMultiples
  <2>3. QED
    BY <2>2 DEF f, Available
<1>3. Makers(r) \subseteq DOMAIN order
  BY DEF Makers
<1>4. Got(r) \in Multiples(lot) /\ Got(r) <= r.amount
  BY <1>1, <1>2, <1>3, GotBounds DEF Got
<1>5. ASSUME NEW i \in Makers(r)
      PROVE  Fill(r, i) \in Multiples(lot)
  <2> DEFINE before == Available({j \in Makers(r) : Ahead(j, i)})
  <2>1. before \in Multiples(lot) /\ Remaining(i) \in Multiples(lot)
    BY <1>2, <1>3, OrderLots
  <2>2. r.amount \in Nat /\ before \in Nat
    BY <1>1, <2>1, MultiplesClosed
  <2>3. Fill(r, i) = IF before >= r.amount THEN 0
                     ELSE IF before + Remaining(i) <= r.amount THEN Remaining(i)
                     ELSE r.amount - before
    BY DEF Fill
  <2> HIDE DEF before
  <2>4. /\ 0 \in Multiples(lot)
        /\ \A x, y \in Multiples(lot) : x <= y => y - x \in Multiples(lot)
    BY MultiplesClosed
  <2>5. CASE before >= r.amount
    BY <2>3, <2>4, <2>5
  <2>6. CASE before < r.amount
    <3>1. r.amount - before \in Multiples(lot)
      BY <1>1, <2>1, <2>2, <2>4, <2>6
    <3>2. QED
      BY <2>1, <2>2, <2>3, <2>6, <3>1
  <2>7. QED
    BY <2>2, <2>5, <2>6
<1>6. QED
  BY <1>1, <1>4, <1>5, MultiplesClosed

LEMMA PlaceLots ==
    ASSUME TypeOK, NEW lot \in Nat \ {0}, NEW tick \in Nat \ {0}, WholeCents(lot, tick),
           WholeLots(lot), NEW id \in OrderIds, NEW r \in Requests, Place(id, r)
    PROVE  WholeLots(lot)'
<1>1. /\ Got(r) \in Multiples(lot)
      /\ \A i \in Matched(r) : Fill(r, i) \in Multiples(lot)
  BY FillLots DEF Matched
<1>2. /\ DOMAIN order' = DOMAIN order \cup {id} /\ filled'[id] = Got(r)
      /\ \A i \in DOMAIN order \ Matched(r) : filled'[i] = filled[i]
      /\ \A i \in Matched(r) : i \in DOMAIN order /\ filled'[i] = filled[i] + Fill(r, i)
  BY PlacedBook
<1>3. /\ DOMAIN trades' = DOMAIN trades \cup (Matched(r) \X {id})
      /\ \A t \in DOMAIN trades : trades'[t] = trades[t]
      /\ \A i \in Matched(r) :
            trades'[<<i, id>>] = [shares |-> Fill(r, i), price |-> order[i].price]
  BY PlacedTrades
<1>4. ASSUME NEW i \in DOMAIN order'
      PROVE  filled'[i] \in Multiples(lot)
  <2>1. CASE i = id
    BY <1>1, <1>2, <2>1
  <2>2. CASE i \in Matched(r)
    <3>1. filled'[i] = filled[i] + Fill(r, i) /\ filled[i] \in Multiples(lot)
      BY <1>2, <2>2 DEF WholeLots
    <3>2. QED
      BY <1>1, <2>2, <3>1, MultiplesClosed
  <2>3. CASE i \in DOMAIN order \ Matched(r)
    BY <1>2, <2>3 DEF WholeLots
  <2>4. QED
    BY <1>2, <2>1, <2>2, <2>3
<1>5. ASSUME NEW t \in DOMAIN trades'
      PROVE  trades'[t].shares \in Multiples(lot)
  <2>1. CASE t \in DOMAIN trades
    BY <1>3, <2>1 DEF WholeLots
  <2>2. CASE t \in Matched(r) \X {id}
    <3>1. PICK i \in Matched(r) : t = <<i, id>>
      BY <2>2
    <3>2. trades'[t] = [shares |-> Fill(r, i), price |-> order[i].price]
      BY <1>3, <3>1
    <3>3. trades'[t].shares = Fill(r, i)
      BY <3>2
    <3>4. QED
      BY <1>1, <3>3
  <2>3. QED
    BY <1>3, <2>1, <2>2
<1>6. QED
  BY <1>4, <1>5 DEF WholeLots

LEMMA NextLots ==
    ASSUME TypeOK, NEW lot \in Nat \ {0}, NEW tick \in Nat \ {0}, WholeCents(lot, tick),
           WholeLots(lot), [Next]_vars
    PROVE  WholeLots(lot)'
<1>1. CASE PlaceAny
  BY <1>1, PlaceLots DEF PlaceAny
<1>2. CASE ~ PlaceAny
  <2>1. UNCHANGED <<order, filled, trades>>
    <3>1. CASE Funding \/ Administration \/ Reconcile \/ UNCHANGED vars
      BY <3>1, QuietSteps DEF bookVars
    <3>2. CASE CancelAny
      BY <3>2 DEF CancelAny, Cancel
    <3>3. CASE SettleAny
      BY <3>3 DEF SettleAny, SettleMarket
    <3>4. QED
      BY <1>2, <3>1, <3>2, <3>3 DEF Next
  <2>2. QED
    BY <2>1 DEF WholeLots
<1>3. QED
  BY <1>1, <1>2

-----------------------------------------------------------------------------
(***************************************************************************)
(* What the orders hold after a placement: a maker holds what it held, and *)
(* the new order the collateral that is not given back.                    *)
(***************************************************************************)
StakeIn(i, t) == StakeCents(order[i].side, trades[t].shares, trades[t].price)

LEMMA StakeInTrade ==
    ASSUME TypeOK, TradesAreFair,
           NEW lot \in Nat \ {0}, NEW tick \in Nat \ {0}, WholeCents(lot, tick),
           WholeLots(lot), NEW i \in DOMAIN order, NEW t \in DOMAIN trades
    PROVE  /\ t[1] \in DOMAIN order /\ t[2] \in DOMAIN order /\ t[1] # t[2]
           /\ t = <<t[1], t[2]>>
           /\ trades[t].shares \in Multiples(lot)
           /\ trades[t].price \in Multiples(tick) \cap Prices
           /\ StakeIn(i, t) \in Nat
<1>1. /\ t[1] \in DOMAIN order /\ t[2] \in DOMAIN order /\ t = <<t[1], t[2]>>
  BY DEF TypeOK
<1>2. /\ t[1] # t[2] /\ trades[t].price = order[t[1]].price
  BY <1>1 DEF TradesAreFair
<1>3. /\ trades[t].shares \in Multiples(lot)
      /\ trades[t].price \in Multiples(tick) \cap Prices /\ order[i].side \in Sides
  BY <1>1, <1>2, OrderLots DEF WholeLots
<1>4. StakeIn(i, t) \in Nat
  BY <1>3, ExactStake DEF StakeIn
<1>5. QED
  BY <1>1, <1>2, <1>3, <1>4

LEMMA StakesAfter ==
    ASSUME TypeOK, TradesAreFair,
           NEW lot \in Nat \ {0}, NEW tick \in Nat \ {0}, WholeCents(lot, tick),
           WholeLots(lot), NEW id \in OrderIds, NEW r \in Requests, Place(id, r)
    PROVE  /\ Stake(id)' = Total([i \in Matched(r) |->
                                     StakeCents(r.side, Fill(r, i), order[i].price)])
           /\ \A i \in Matched(r) :
                 Stake(i)' = Stake(i)
                             + StakeCents(order[i].side, Fill(r, i), order[i].price)
           /\ \A i \in DOMAIN order \ Matched(r) : Stake(i)' = Stake(i)
<1>1. /\ id \notin DOMAIN order /\ order'[id] = r
      /\ \A i \in DOMAIN order : order'[i] = order[i]
  BY PlacedBook
<1>2. /\ DOMAIN trades' = DOMAIN trades \cup (Matched(r) \X {id})
      /\ \A t \in DOMAIN trades : trades'[t] = trades[t]
      /\ \A i \in Matched(r) :
            /\ <<i, id>> \notin DOMAIN trades
            /\ trades'[<<i, id>>] = [shares |-> Fill(r, i), price |-> order[i].price]
  BY PlacedTrades
<1>3. /\ Matched(r) \subseteq DOMAIN order /\ IsFiniteSet(Matched(r))
      /\ Matched(r) \subseteq Makers(r)
  BY MatchedOrders DEF Matched
<1>4. \A t \in DOMAIN trades : t[1] \in DOMAIN order /\ t[2] \in DOMAIN order
  BY DEF TypeOK
<1>5. \A side \in Sides : \A i \in Matched(r) :
          StakeCents(side, Fill(r, i), order[i].price) \in Nat
  <2> SUFFICES ASSUME NEW side \in Sides, NEW i \in Matched(r)
               PROVE  StakeCents(side, Fill(r, i), order[i].price) \in Nat
    OBVIOUS
  <2>1. Fill(r, i) \in Multiples(lot) /\ order[i].price \in Multiples(tick) \cap Prices
    BY <1>3, FillLots, OrderLots
  <2>2. QED
    BY <2>1, ExactStake
<1>6. Stake(id)' = Total([i \in Matched(r) |->
                             StakeCents(r.side, Fill(r, i), order[i].price)])
  <2> DEFINE N == Matched(r) \X {id}
             f == [t \in N |-> StakeCents(r.side, Fill(r, t[1]), order[t[1]].price)]
             g == [i \in Matched(r) |-> StakeCents(r.side, Fill(r, i), order[i].price)]
  <2>1. TradesOf(id)' = N
    BY <1>1, <1>2, <1>3, <1>4 DEF TradesOf
  <2>2. \A t \in N : /\ t[1] \in Matched(r)
                     /\ trades'[t].shares = Fill(r, t[1])
                     /\ trades'[t].price = order[t[1]].price
    <3> SUFFICES ASSUME NEW i \in Matched(r)
                 PROVE  /\ trades'[<<i, id>>].shares = Fill(r, i)
                        /\ trades'[<<i, id>>].price = order[i].price
      OBVIOUS
    <3>1. trades'[<<i, id>>] = [shares |-> Fill(r, i), price |-> order[i].price]
      BY <1>2
    <3>2. QED
      BY <3>1
  <2>3. Stake(id)' = Total(f)
    BY <1>1, <2>1, <2>2 DEF Stake
  <2>4. r.side \in Sides
    BY RequestFields
  <2>5. f \in [Matched(r) \X {id} -> Nat]
    BY <1>5, <2>2, <2>4
  <2>6. [i \in Matched(r) |-> f[<<i, id>>]] = g
    OBVIOUS
  <2> HIDE DEF f, g
  <2>7. Total(f) = Total(g)
    BY <1>3, <2>5, <2>6, TotalOfPairs
  <2>8. QED
    BY <2>3, <2>7 DEF g
<1>7. ASSUME NEW i \in Matched(r)
      PROVE  Stake(i)' = Stake(i) + StakeCents(order[i].side, Fill(r, i), order[i].price)
  <2> DEFINE T == TradesOf(i)
             new == StakeCents(order[i].side, Fill(r, i), order[i].price)
             f == [t \in T \cup {<<i, id>>} |->
                      StakeCents(order[i].side, trades'[t].shares, trades'[t].price)]
  <2>1. i \in DOMAIN order /\ i # id /\ order[i].side \in Sides
    BY <1>1, <1>3, OrderLots
  <2>2. TradesOf(i)' = T \cup {<<i, id>>} /\ <<i, id>> \notin T
    BY <1>1, <1>2, <1>3, <1>4, <2>1 DEF TradesOf
  <2>3. IsFiniteSet(T) /\ T \subseteq DOMAIN trades
    BY FiniteTables, FS_Subset DEF TradesOf
  <2>4. f[<<i, id>>] = new /\ new \in Nat
    <3>1. trades'[<<i, id>>] = [shares |-> Fill(r, i), price |-> order[i].price]
      BY <1>2
    <3>2. f[<<i, id>>] = new
      BY <3>1
    <3>3. new \in Nat
      BY <1>5, <2>1
    <3>4. QED
      BY <3>2, <3>3
  <2>5. \A t \in T : f[t] = StakeIn(i, t) /\ f[t] \in Nat
    BY <1>2, <2>1, <2>3, StakeInTrade DEF StakeIn
  <2>6. f \in [T \cup {<<i, id>>} -> Nat]
    <3>1. \A t \in T \cup {<<i, id>>} : f[t] \in Nat
      BY <2>4, <2>5
    <3> HIDE DEF T
    <3>2. QED
      BY <3>1
  <2>7. [t \in T |-> f[t]] = [t \in T |-> StakeIn(i, t)]
    BY <2>5
  <2>8. Stake(i)' = Total(f)
    BY <1>1, <2>1, <2>2 DEF Stake
  <2>9. Stake(i) = Total([t \in T |-> StakeIn(i, t)])
    BY DEF Stake, StakeIn
  <2> HIDE DEF T, f, new
  <2>10. Total(f) = Total([t \in T |-> f[t]]) + f[<<i, id>>]
    BY <2>2, <2>3, <2>6, TotalWithOne
  <2>11. QED
    BY <2>4, <2>7, <2>8, <2>9, <2>10 DEF new
<1>8. ASSUME NEW i \in DOMAIN order \ Matched(r)
      PROVE  Stake(i)' = Stake(i)
  <2>1. TradesOf(i)' = TradesOf(i)
    BY <1>1, <1>2, <1>4 DEF TradesOf
  <2>2. \A t \in TradesOf(i) : trades'[t] = trades[t]
    BY <1>2 DEF TradesOf
  <2>3. QED
    BY <1>1, <2>1, <2>2 DEF Stake
<1>9. QED
  BY <1>6, <1>7, <1>8

LEMMA HeldType ==
    ASSUME TypeOK, NEW i \in DOMAIN order
    PROVE  /\ Held(i) \in Nat
           /\ CollateralCents(order[i].side, Remaining(i), order[i].price) \in Nat
<1>1. /\ Stake(i) \in Nat /\ Remaining(i) \in Nat
      /\ order[i].side \in Sides /\ order[i].price \in Prices
  BY StakeType, OrderFields, RequestFields
<1>2. QED
  BY <1>1, CollateralCentsType DEF Held

\* A maker's remainder is worth less by the stake of the shares it gives.
LEMMA MakersHold ==
    ASSUME TypeOK, TradesAreFair,
           NEW lot \in Nat \ {0}, NEW tick \in Nat \ {0}, WholeCents(lot, tick),
           WholeLots(lot), NEW id \in OrderIds, NEW r \in Requests, Place(id, r),
           NEW i \in DOMAIN order
    PROVE  Held(i)' = Held(i)
<1>1. order'[i] = order[i]
  BY PlacedBook
<1>2. CASE i \notin Matched(r)
  <2>1. status'[i] = status[i] /\ filled'[i] = filled[i]
    <3>1. i \in DOMAIN order \ Matched(r)
      BY <1>2
    <3>2. \A j \in DOMAIN order \ Matched(r) :
             status'[j] = status[j] /\ filled'[j] = filled[j]
      BY PlacedBook
    <3>3. QED
      BY <3>1, <3>2
  <2>2. Stake(i)' = Stake(i)
    BY <1>2, StakesAfter
  <2>3. Remaining(i)' = Remaining(i)
    BY <1>1, <2>1 DEF Remaining
  <2>4. QED
    BY <1>1, <2>1, <2>2, <2>3 DEF Held
<1>3. CASE i \in Matched(r)
  <2> DEFINE side == order[i].side
             price == order[i].price
             e == ExposurePrice(side, price)
             f == Fill(r, i)
             left == Remaining(i) - f
  <2>1. /\ filled'[i] = filled[i] + f
        /\ status'[i] = FillStatus(order[i].amount, filled[i] + f)
    BY <1>3, PlacedBook
  <2>2. status[i] \in Open /\ i \in Makers(r)
    BY <1>3 DEF Matched, Makers
  <2>3. /\ f \in Nat /\ f <= Remaining(i) /\ Remaining(i) \in Nat /\ filled[i] \in Nat
        /\ order[i].amount \in Nat /\ filled[i] + Remaining(i) = order[i].amount
    BY <2>2, FillBounds, OrderFields, RequestFields
  <2>4. Remaining(i)' = left /\ left \in Nat
    BY <1>1, <2>1, <2>3 DEF Remaining
  <2>5. /\ f \in Multiples(lot) /\ Remaining(i) \in Multiples(lot)
        /\ e \in Multiples(tick) /\ side \in Sides /\ price \in Multiples(tick) \cap Prices
    BY <2>2, FillLots, OrderLots
  <2>6. left \in Multiples(lot) /\ left + f = Remaining(i)
    BY <2>3, <2>5, MultiplesClosed
  <2>7. ProductCents(Remaining(i), e) = ProductCents(left, e) + ProductCents(f, e)
    BY <2>5, <2>6, ExactSums
  <2>8. StakeCents(side, f, price) = ProductCents(f, e)
    BY <2>5, ExactStake DEF CollateralCents
  <2>9. Stake(i)' = Stake(i) + StakeCents(side, f, price) /\ Stake(i) \in Nat
    BY <1>3, StakesAfter, StakeType
  <2>10. Held(i) = Stake(i) + ProductCents(Remaining(i), e)
    BY <2>2 DEF Held, CollateralCents
  <2>11. Held(i)' = Stake(i)' + (IF status'[i] \in Open THEN ProductCents(left, e) ELSE 0)
    BY <1>1, <2>4 DEF Held, CollateralCents
  <2>12. ProductCents(left, e) \in Nat /\ ProductCents(f, e) \in Nat
    BY <2>5, <2>6, ExactValue
  <2>13. status'[i] \notin Open => ProductCents(left, e) = 0
    <3>1. status'[i] \notin Open => status'[i] = "filled"
      BY <2>1 DEF FillStatus, Open
    <3>2. status'[i] = "filled" => filled[i] + f = order[i].amount
      BY <1>3, <2>1, MakerEnds
    <3>3. status'[i] = "filled" => left = 0
      BY <2>3, <3>2
    <3>4. ProductCents(0, e) = 0
      BY <2>5, MultiplesClosed, NoSharesNoCents
    <3>5. QED
      BY <3>1, <3>3, <3>4
  <2> HIDE DEF e, left, f, side, price
  <2>14. QED
    BY <2>7, <2>8, <2>9, <2>10, <2>11, <2>12, <2>13
<1>4. QED
  BY <1>2, <1>3

\* What is not given back of a placement's collateral is what the order holds:
\* the stakes of its trades and, if it rests, the collateral of the rest.
LEMMA TakerHolds ==
    ASSUME TypeOK, TradesAreFair,
           NEW lot \in Nat \ {0}, NEW tick \in Nat \ {0}, WholeCents(lot, tick),
           WholeLots(lot), NEW id \in OrderIds, NEW r \in Requests, Place(id, r)
    PROVE  /\ Held(id)' \in Nat
           /\ CollateralCents(r.side, r.amount, r.price) = Held(id)' + PlacementRefund(r)
<1> DEFINE M == Matched(r)
           e == ExposurePrice(r.side, r.price)
           fills == [i \in M |-> Fill(r, i)]
           values == [i \in M |-> ProductCents(fills[i], e)]
           stakes == [i \in M |-> StakeCents(r.side, Fill(r, i), order[i].price)]
           gains == [i \in M |->
                       PriceImprovementCents(r.side, Fill(r, i), r.price, order[i].price)]
           left == r.amount - Got(r)
<1>1. /\ M \subseteq DOMAIN order /\ M \subseteq Makers(r) /\ IsFiniteSet(M)
      /\ \A i \in M : /\ Fill(r, i) \in Multiples(lot)
                      /\ order[i].price \in Multiples(tick) \cap Prices
  <2>1. M \subseteq DOMAIN order /\ M \subseteq Makers(r) /\ IsFiniteSet(M)
    BY MatchedOrders DEF Matched
  <2>2. QED
    BY <2>1, FillLots, OrderLots
<1>2. /\ r.side \in Sides /\ r.price \in Multiples(tick) \cap Prices
      /\ r.amount \in Multiples(lot)
      /\ Got(r) \in Multiples(lot) /\ left \in Multiples(lot)
      /\ Got(r) \in Nat /\ r.amount \in Nat /\ left \in Nat /\ Got(r) + left = r.amount
  <2>1. Got(r) \in Nat /\ Got(r) <= r.amount /\ r.amount \in Nat
    BY GotBounds, RequestFields
  <2>2. QED
    BY <2>1, RequestFields, RequestLots, FillLots
<1>3. e \in Multiples(tick)
  BY <1>2, ExactStake
<1>4. Total(values) = ProductCents(Got(r), e)
  <2>1. fills \in [M -> Multiples(lot)]
    BY <1>1
  <2>2. Total(fills) = Got(r)
    BY MatchedGive
  <2> HIDE DEF fills, M, e
  <2>3. QED
    BY <1>1, <1>3, <2>1, <2>2, ExactTotal
<1>5. stakes \in [M -> Nat] /\ gains \in [M -> Nat]
  <2> SUFFICES ASSUME NEW i \in M
               PROVE  /\ StakeCents(r.side, Fill(r, i), order[i].price) \in Nat
                      /\ PriceImprovementCents(r.side, Fill(r, i), r.price, order[i].price)
                           \in Nat
    OBVIOUS
  <2>1. Fill(r, i) \in Nat
    BY <1>1, MultiplesClosed
  <2>2. QED
    BY <1>1, <1>2, <2>1, ExactStake, PriceImprovementCentsType
<1>6. values = [i \in M |-> stakes[i] + gains[i]]
  <2> SUFFICES ASSUME NEW i \in M
               PROVE  ProductCents(Fill(r, i), e)
                        = StakeCents(r.side, Fill(r, i), order[i].price)
                          + PriceImprovementCents(r.side, Fill(r, i), r.price, order[i].price)
    OBVIOUS
  <2>1. IF r.side = "buy" THEN order[i].price <= r.price ELSE order[i].price >= r.price
    BY <1>1 DEF Makers, Crosses
  <2>2. QED
    BY <1>1, <1>2, <2>1, ExactImprovement DEF CollateralCents
<1>7. Total(values) = Total(stakes) + Total(gains)
      /\ Total(stakes) \in Nat /\ Total(gains) \in Nat
  <2> HIDE DEF values, stakes, gains, M
  <2>1. QED
    BY <1>1, <1>5, <1>6, TotalOfSum, TotalNat
<1>8. ProductCents(r.amount, e) = ProductCents(Got(r), e) + ProductCents(left, e)
      /\ ProductCents(left, e) \in Nat
  <2> HIDE DEF left, e
  <2>1. QED
    BY <1>2, <1>3, ExactSums, ExactValue
<1>9. Held(id)' = Total(stakes) + (IF TakerStatus(r) \in Open THEN ProductCents(left, e)
                                   ELSE 0)
  <2>1. order'[id] = r /\ filled'[id] = Got(r) /\ status'[id] = TakerStatus(r)
    BY PlacedBook
  <2>2. Stake(id)' = Total(stakes)
    BY StakesAfter
  <2>3. Remaining(id)' = left
    BY <2>1 DEF Remaining
  <2> HIDE DEF stakes, left
  <2>4. QED
    BY <2>1, <2>2, <2>3 DEF Held, CollateralCents
<1>10. PlacementRefund(r)
         = Total(gains) + (IF TakerStatus(r) = "cancelled" THEN ProductCents(left, e)
                           ELSE 0)
  BY DEF PlacementRefund, CollateralCents
<1>11. TakerStatus(r) \notin Open /\ TakerStatus(r) # "cancelled"
          => ProductCents(left, e) = 0
  <2>1. TakerStatus(r) \notin Open /\ TakerStatus(r) # "cancelled"
           => TakerStatus(r) = "filled"
    BY DEF TakerStatus, FillStatus, Open
  <2>2. TakerStatus(r) = "filled" => left = 0
    BY <1>2, TakerEnds
  <2>3. ProductCents(0, e) = 0
    BY <1>3, MultiplesClosed, NoSharesNoCents
  <2>4. QED
    BY <2>1, <2>2, <2>3
<1>12. "cancelled" \notin Open
  BY DEF Open
<1>13. CollateralCents(r.side, r.amount, r.price) = ProductCents(r.amount, e)
  BY DEF CollateralCents
<1> HIDE DEF stakes, gains, values, left, e
<1> DEFINE rest == ProductCents(left, e)
           a == Total(stakes)
           b == Total(gains)
<1>14. rest \in Nat /\ a \in Nat /\ b \in Nat
       /\ CollateralCents(r.side, r.amount, r.price) = a + b + rest
  BY <1>4, <1>7, <1>8, <1>13
<1> HIDE DEF rest, a, b
<1>15. CASE TakerStatus(r) \in Open
  <2>1. Held(id)' = a + rest /\ PlacementRefund(r) = b
    BY <1>7, <1>9, <1>10, <1>12, <1>15 DEF rest, a, b
  <2>2. QED
    BY <1>14, <2>1
<1>16. CASE TakerStatus(r) = "cancelled"
  <2>1. Held(id)' = a /\ PlacementRefund(r) = b + rest
    BY <1>7, <1>9, <1>10, <1>12, <1>16 DEF rest, a, b
  <2>2. QED
    BY <1>14, <2>1
<1>17. CASE TakerStatus(r) \notin Open /\ TakerStatus(r) # "cancelled"
  <2>1. Held(id)' = a /\ PlacementRefund(r) = b /\ rest = 0
    BY <1>7, <1>9, <1>10, <1>11, <1>17 DEF rest, a, b
  <2>2. QED
    BY <1>14, <2>1
<1>18. QED
  BY <1>15, <1>16, <1>17

-----------------------------------------------------------------------------
(***************************************************************************)
(* Locked is held: one lemma per action that moves locked money.           *)
(***************************************************************************)
Holding(w) == {i \in DOMAIN order : /\ WalletOf(order[i]) = w
                                    /\ settlement[order[i].market] = Unresolved}

LEMMA HoldingFinite ==
    ASSUME TypeOK, NEW w
    PROVE  /\ Holding(w) \subseteq DOMAIN order /\ IsFiniteSet(Holding(w))
           /\ [i \in Holding(w) |-> Held(i)] \in [Holding(w) -> Nat]
           /\ HeldBy(w) = Total([i \in Holding(w) |-> Held(i)])
           /\ HeldBy(w) \in Nat
<1>1. Holding(w) \subseteq DOMAIN order /\ IsFiniteSet(Holding(w))
  BY FiniteTables, FS_Subset DEF Holding
<1>2. [i \in Holding(w) |-> Held(i)] \in [Holding(w) -> Nat]
  BY <1>1, HeldType
<1>3. HeldBy(w) = Total([i \in Holding(w) |-> Held(i)])
  BY DEF HeldBy, Holding
<1> DEFINE f == [i \in Holding(w) |-> Held(i)]
<1>4. Total(f) \in Nat
  <2> HIDE DEF f
  <2>1. QED
    BY <1>1, <1>2, TotalNat DEF f
<1>5. QED
  BY <1>1, <1>2, <1>3, <1>4

LEMMA PlaceLocked ==
    ASSUME TypeOK, TradesAreFair, SettledMarketIsClosed, LockedIsHeld,
           NEW lot \in Nat \ {0}, NEW tick \in Nat \ {0}, WholeCents(lot, tick),
           WholeLots(lot), NEW id \in OrderIds, NEW r \in Requests, Place(id, r)
    PROVE  LockedIsHeld'
<1> DEFINE collateral == CollateralCents(r.side, r.amount, r.price)
           refund == PlacementRefund(r)
<1>1. PICK kept : kept = Held(id)'
  OBVIOUS
<1>2. kept \in Nat /\ collateral = kept + refund /\ refund \in Nat
  BY <1>1, TakerHolds, PlacementRefundType
<1>3. \A i \in DOMAIN order : Held(i)' = Held(i)
  BY MakersHold
<1>4. /\ id \notin DOMAIN order /\ DOMAIN order' = DOMAIN order \cup {id}
      /\ order'[id] = r /\ \A i \in DOMAIN order : order'[i] = order[i]
  BY PlacedBook
<1>5. settlement' = settlement /\ settlement[r.market] = Unresolved
  BY RequestFields DEF Place, marketVars, AcceptsOrders, SettledMarketIsClosed
<1>6. \A w \in Wallets : Holding(w)' = IF w = WalletOf(r) THEN Holding(w) \cup {id}
                                       ELSE Holding(w)
  BY <1>4, <1>5 DEF Holding
<1>7. locked' = [locked EXCEPT ![WalletOf(r)] = @ + collateral - refund]
  BY DEF Place
<1>8. \A w \in Wallets : locked[w] \in Nat /\ locked[w] = HeldBy(w)
  BY DEF TypeOK, LockedIsHeld
<1> SUFFICES ASSUME NEW w \in Wallets
             PROVE  locked'[w] = HeldBy(w)'
  BY DEF LockedIsHeld
<1>9. /\ Holding(w) \subseteq DOMAIN order /\ IsFiniteSet(Holding(w))
      /\ [i \in Holding(w) |-> Held(i)] \in [Holding(w) -> Nat]
      /\ HeldBy(w) = Total([i \in Holding(w) |-> Held(i)])
  BY HoldingFinite
<1>10. HeldBy(w)' = Total([i \in Holding(w)' |-> Held(i)'])
  BY DEF HeldBy, Holding
<1>11. CASE w = WalletOf(r)
  <2> DEFINE H == Holding(w)
             f == [i \in H \cup {id} |-> Held(i)']
  <2>1. f[id] = kept /\ \A i \in H : f[i] = Held(i) /\ f[i] \in Nat
    BY <1>1, <1>3, <1>9
  <2>2. f \in [H \cup {id} -> Nat] /\ [i \in H |-> f[i]] = [i \in H |-> Held(i)]
    <3>1. \A i \in H \cup {id} : f[i] \in Nat
      BY <1>2, <2>1
    <3> HIDE DEF H
    <3>2. QED
      BY <2>1, <3>1
  <2>3. HeldBy(w)' = Total(f)
    BY <1>6, <1>10, <1>11
  <2>4. id \notin H
    BY <1>4, <1>9
  <2>5. WalletOf(r) \in Wallets /\ locked'[w] = locked[w] + collateral - refund
    BY <1>7, <1>11, RequestFields DEF TypeOK
  <2> HIDE DEF H, f
  <2>6. Total(f) = Total([i \in H |-> f[i]]) + f[id]
    BY <1>9, <2>2, <2>4, TotalWithOne DEF H
  <2>7. Total(f) = HeldBy(w) + kept
    BY <1>9, <2>1, <2>2, <2>6 DEF H
  <2> HIDE DEF collateral, refund
  <2>8. QED
    BY <1>2, <1>8, <2>3, <2>5, <2>7
<1>12. CASE w # WalletOf(r)
  <2>1. locked'[w] = locked[w]
    BY <1>7, <1>12 DEF TypeOK
  <2>2. [i \in Holding(w)' |-> Held(i)'] = [i \in Holding(w) |-> Held(i)]
    BY <1>3, <1>6, <1>9, <1>12
  <2>3. QED
    BY <1>8, <1>9, <1>10, <2>1, <2>2
<1>13. QED
  BY <1>11, <1>12

LEMMA CancelLocked ==
    ASSUME TypeOK, SettledMarketIsClosed, LockedIsHeld, NEW i \in DOMAIN order, Cancel(i)
    PROVE  LockedIsHeld'
<1> DEFINE collateral == CollateralCents(order[i].side, Remaining(i), order[i].price)
           wallet == WalletOf(order[i])
<1>1. /\ UNCHANGED <<order, filled, trades, settlement>>
      /\ status[i] \in Open
      /\ status' = [status EXCEPT ![i] = "cancelled"]
      /\ locked' = [locked EXCEPT ![wallet] = @ - collateral]
  BY DEF Cancel, marketVars
<1>2. \A j \in DOMAIN order : Stake(j)' = Stake(j) /\ Remaining(j)' = Remaining(j)
  BY <1>1 DEF Stake, TradesOf, Remaining
<1>3. \A j \in DOMAIN order : status'[j] = IF j = i THEN "cancelled" ELSE status[j]
  BY <1>1 DEF TypeOK
<1>4. \A j \in DOMAIN order \ {i} : Held(j)' = Held(j)
  BY <1>1, <1>2, <1>3 DEF Held
<1>5. /\ Held(i) = Held(i)' + collateral /\ collateral \in Nat
      /\ Held(i)' = Stake(i) /\ Stake(i) \in Nat
  <2>1. Held(i) = Stake(i) + collateral
    BY <1>1 DEF Held
  <2>2. "cancelled" \notin Open
    BY DEF Open
  <2>3. Held(i)' = Stake(i) + 0
    BY <1>1, <1>2, <1>3, <2>2 DEF Held
  <2>4. Stake(i) \in Nat /\ collateral \in Nat
    BY StakeType, HeldType
  <2> HIDE DEF collateral
  <2>5. QED
    BY <2>1, <2>3, <2>4
<1>6. settlement[order[i].market] = Unresolved /\ order[i].market \in Markets
      /\ wallet \in Wallets
  <2>1. order[i].market \in Markets /\ wallet \in Wallets
    BY OrderFields, RequestFields
  <2>2. QED
    BY <1>1, <2>1 DEF SettledMarketIsClosed, OrdersOf
<1>7. \A w \in Wallets : locked[w] \in Nat /\ locked[w] = HeldBy(w)
  BY DEF TypeOK, LockedIsHeld
<1> SUFFICES ASSUME NEW w \in Wallets
             PROVE  locked'[w] = HeldBy(w)'
  BY DEF LockedIsHeld
<1>8. /\ Holding(w) \subseteq DOMAIN order /\ IsFiniteSet(Holding(w))
      /\ [j \in Holding(w) |-> Held(j)] \in [Holding(w) -> Nat]
      /\ HeldBy(w) = Total([j \in Holding(w) |-> Held(j)])
  BY HoldingFinite
<1>9. Holding(w)' = Holding(w)
  BY <1>1 DEF Holding
<1>10. HeldBy(w)' = Total([j \in Holding(w) |-> Held(j)'])
  BY <1>9 DEF HeldBy, Holding
<1>11. CASE w = wallet
  <2> DEFINE H == Holding(w) \ {i}
             f == [j \in Holding(w) |-> Held(j)]
             g == [j \in Holding(w) |-> Held(j)']
  <2>1. i \in Holding(w) /\ Holding(w) = H \cup {i} /\ i \notin H
    BY <1>6, <1>11 DEF Holding
  <2>2. IsFiniteSet(H)
    BY <1>8, FS_Subset
  <2>3. f \in [H \cup {i} -> Nat]
    BY <1>8, <2>1
  <2>4. \A j \in H : g[j] = f[j]
    BY <1>4, <1>8
  <2>5. g[i] = Stake(i) /\ f[i] = Stake(i) + collateral
    BY <1>5, <2>1
  <2>6. g \in [H \cup {i} -> Nat]
    <3>1. \A j \in Holding(w) : g[j] \in Nat
      BY <1>5, <2>1, <2>3, <2>4, <2>5
    <3>2. QED
      BY <2>1, <3>1
  <2>7. locked'[w] = locked[w] - collateral
    BY <1>1, <1>6, <1>11 DEF TypeOK
  <2>8. HeldBy(w) = Total(f) /\ HeldBy(w)' = Total(g)
    BY <1>8, <1>10
  <2> HIDE DEF H, f, g, collateral
  <2>9. Total(f) = Total([j \in H |-> f[j]]) + f[i]
    BY <2>1, <2>2, <2>3, TotalWithOne
  <2>10. Total(g) = Total([j \in H |-> g[j]]) + g[i]
    BY <2>1, <2>2, <2>6, TotalWithOne
  <2>11. [j \in H |-> f[j]] = [j \in H |-> g[j]]
    BY <2>4
  <2>12. Total([j \in H |-> f[j]]) \in Nat
    <3>1. [j \in H |-> f[j]] \in [H -> Nat]
      BY <2>3
    <3>2. QED
      BY <2>2, <3>1, TotalNat
  <2>13. QED
    BY <1>5, <1>7, <2>5, <2>7, <2>8, <2>9, <2>10, <2>11, <2>12
<1>12. CASE w # wallet
  <2>1. locked'[w] = locked[w]
    BY <1>1, <1>12 DEF TypeOK
  <2>2. i \notin Holding(w)
    BY <1>12 DEF Holding
  <2>3. [j \in Holding(w) |-> Held(j)'] = [j \in Holding(w) |-> Held(j)]
    BY <1>4, <1>8, <2>2
  <2>4. QED
    BY <1>7, <1>8, <1>10, <2>1, <2>3
<1>13. QED
  BY <1>11, <1>12

\* No order of an unsettled market is cancelled.
NoneCancelled ==
    \A i \in DOMAIN order :
        status[i] = "cancelled" => settlement[order[i].market] # Unresolved

\* What an order that is not cancelled holds is what settlement takes for it.
LEMMA HeldIsUsed ==
    ASSUME TypeOK, StatusMatchesFill, NEW i \in DOMAIN order, status[i] # "cancelled"
    PROVE  Held(i) = Stake(i) + SettlementRefund(i)
<1>1. /\ Remaining(i) \in Nat /\ filled[i] \in Nat /\ order[i].amount \in Nat
      /\ filled[i] + Remaining(i) = order[i].amount
      /\ order[i].side \in Sides /\ order[i].price \in Prices
      /\ order[i] \in Requests
  BY OrderFields, RequestFields
<1>2. CASE Remaining(i) = 0
  <2>1. ExposurePrice(order[i].side, order[i].price) \in Nat
    BY <1>1, ScaleAssumption DEF ExposurePrice, Prices
  <2>2. CollateralCents(order[i].side, 0, order[i].price) = 0
    BY <2>1, NoSharesNoCents DEF CollateralCents
  <2>3. QED
    BY <1>2, <2>2 DEF Held, SettlementRefund
<1>3. CASE Remaining(i) > 0
  <2>1. filled[i] # order[i].amount
    BY <1>1, <1>3
  <2>2. status[i] \in Open
    <3>1. status[i] # "filled" /\ status[i] \in OrderStatuses
      BY <2>1 DEF StatusMatchesFill, TypeOK
    <3>2. QED
      BY <3>1 DEF OrderStatuses, Open
  <2>3. QED
    BY <1>3, <2>2 DEF Held, SettlementRefund
<1>4. QED
  BY <1>1, <1>2, <1>3

\* What a settlement takes from a wallet is what its orders there held.
LEMMA UseIsHeld ==
    ASSUME TypeOK, StatusMatchesFill, NoneCancelled, NEW m \in Markets,
           settlement[m] = Unresolved, NEW w \in Wallets
    PROVE  /\ OrdersIn(m, w) \subseteq Holding(w)
           /\ LockedUse(m, w) = Total([i \in OrdersIn(m, w) |-> Held(i)])
           /\ LockedUse(m, w) <= HeldBy(w)
<1> DEFINE H == Holding(w)
           f == [i \in H |-> Held(i)]
<1>1. OrdersIn(m, w) \subseteq H
  BY DEF OrdersIn, OrdersOf, Holding
<1>2. \A i \in OrdersIn(m, w) : Held(i) = Stake(i) + SettlementRefund(i)
  <2>1. \A i \in OrdersIn(m, w) : i \in DOMAIN order /\ status[i] # "cancelled"
    BY DEF OrdersIn, OrdersOf, NoneCancelled
  <2>2. QED
    BY <2>1, HeldIsUsed
<1>3. LockedUse(m, w) = Total([i \in OrdersIn(m, w) |-> Held(i)])
  BY <1>2 DEF LockedUse
<1>4. IsFiniteSet(H) /\ f \in [H -> Nat] /\ HeldBy(w) = Total(f)
  BY HoldingFinite
<1>5. [i \in OrdersIn(m, w) |-> f[i]] = [i \in OrdersIn(m, w) |-> Held(i)]
  BY <1>1
<1> HIDE DEF f, H
<1>6. DOMAIN f = H /\ \A i \in DOMAIN f : f[i] \in Int
  BY <1>4
<1>7. Total([i \in OrdersIn(m, w) |-> f[i]]) <= Total(f)
  BY <1>1, <1>4, <1>6, TotalOfPart
<1>8. QED
  BY <1>1, <1>3, <1>4, <1>5, <1>7 DEF H

LEMMA SettleLocked ==
    ASSUME TypeOK, StatusMatchesFill, NoneCancelled, LockedIsHeld,
           NEW m \in Markets, SettleMarket(m)
    PROVE  LockedIsHeld' /\ NoneCancelled'
<1>1. /\ UNCHANGED <<order, filled, trades>>
      /\ settlement[m] = Unresolved
      /\ settlement' = [settlement EXCEPT ![m] = WinningOption(m)]
      /\ WinningOption(m) # Unresolved
      /\ status' = [i \in DOMAIN order |->
                       IF i \in OrdersOf(m) /\ status[i] \in Open
                       THEN "cancelled" ELSE status[i]]
      /\ locked' = [w \in Wallets |-> locked[w] - LockedUse(m, w)]
  BY DEF SettleMarket, Unsettled
<1>2. \A n \in Markets : settlement'[n] = IF n = m THEN WinningOption(m) ELSE settlement[n]
  BY <1>1 DEF TypeOK
<1>3. \A i \in DOMAIN order : order[i].market \in Markets
  BY OrderFields, RequestFields
<1>4. NoneCancelled'
  BY <1>1, <1>2, <1>3 DEF NoneCancelled, OrdersOf
<1>5. \A i \in DOMAIN order \ OrdersOf(m) : Held(i)' = Held(i)
  <2>1. \A i \in DOMAIN order : Stake(i)' = Stake(i) /\ Remaining(i)' = Remaining(i)
    BY <1>1 DEF Stake, TradesOf, Remaining
  <2>2. \A i \in DOMAIN order \ OrdersOf(m) : status'[i] = status[i]
    BY <1>1
  <2>3. QED
    BY <1>1, <2>1, <2>2 DEF Held
<1>6. ASSUME NEW w \in Wallets
      PROVE  locked'[w] = HeldBy(w)'
  <2> DEFINE H == Holding(w)
             S == OrdersIn(m, w)
             T == H \ S
             f == [i \in H |-> Held(i)]
  <2>1. S \subseteq H /\ LockedUse(m, w) = Total([i \in S |-> Held(i)])
    BY <1>1, UseIsHeld
  <2>2. Holding(w)' = T
    BY <1>1, <1>2, <1>3 DEF Holding, OrdersIn, OrdersOf
  <2>3. T \subseteq DOMAIN order \ OrdersOf(m)
    BY DEF OrdersIn, Holding
  <2>4. HeldBy(w)' = Total([i \in T |-> Held(i)])
    <3>1. HeldBy(w)' = Total([i \in Holding(w)' |-> Held(i)'])
      BY DEF HeldBy, Holding
    <3>2. [i \in Holding(w)' |-> Held(i)'] = [i \in T |-> Held(i)]
      BY <1>5, <2>2, <2>3
    <3>3. QED
      BY <3>1, <3>2
  <2>5. IsFiniteSet(H) /\ f \in [H -> Nat] /\ HeldBy(w) = Total(f)
    BY HoldingFinite
  <2>6. /\ [i \in S |-> f[i]] = [i \in S |-> Held(i)]
        /\ [i \in T |-> f[i]] = [i \in T |-> Held(i)]
    BY <2>1
  <2>7. locked[w] = HeldBy(w) /\ locked'[w] = locked[w] - LockedUse(m, w)
    BY <1>1 DEF LockedIsHeld
  <2>8. H = S \cup T /\ S \cap T = {}
    BY <2>1
  <2>9. IsFiniteSet(S) /\ IsFiniteSet(T)
    BY <2>1, <2>5, FS_Subset
  <2> HIDE DEF f, H, S, T
  <2>10. DOMAIN f = S \cup T /\ \A i \in DOMAIN f : f[i] \in Int
    BY <2>5, <2>8
  <2>11. Total(f) = Total([i \in S |-> f[i]]) + Total([i \in T |-> f[i]])
    BY <2>5, <2>8, <2>10, TotalOfUnion
  <2>12. Total([i \in S |-> f[i]]) \in Nat /\ Total([i \in T |-> f[i]]) \in Nat
    <3>1. [i \in S |-> f[i]] \in [S -> Int] /\ [i \in T |-> f[i]] \in [T -> Int]
      BY <2>10
    <3>2. QED
      BY <2>9, <3>1, TotalNat
  <2>13. QED
    BY <2>1, <2>4, <2>5, <2>6, <2>7, <2>11, <2>12
<1>7. QED
  BY <1>4, <1>6 DEF LockedIsHeld

\* Money that comes in or goes out, statuses of markets and outcomes of events
\* leave what is locked and what is held alone.
LEMMA QuietLocked ==
    ASSUME TypeOK, LockedIsHeld, Funding \/ Administration \/ UNCHANGED vars
    PROVE  LockedIsHeld' /\ settlement' = settlement /\ UNCHANGED bookVars
<1>1. UNCHANGED bookVars
  BY QuietSteps
<1>2. locked' = locked /\ settlement' = settlement
  <2>1. CASE Funding
    BY <2>1 DEF Funding, CreateWallet, Credit, Debit, marketVars
  <2>2. CASE Administration
    BY <2>2 DEF Administration, UpdateMarketStatus, ResolveEvent, walletVars, marketVars
  <2>3. CASE UNCHANGED vars
    BY <2>3 DEF vars, walletVars, marketVars
  <2>4. QED
    BY <2>1, <2>2, <2>3
<1>3. \A w \in Wallets : HeldBy(w)' = HeldBy(w)
  BY <1>1, <1>2 DEF bookVars, HeldBy, Held, Stake, TradesOf, Remaining
<1>4. QED
  BY <1>1, <1>2, <1>3 DEF LockedIsHeld

LEMMA InitLocked ==
    ASSUME Init
    PROVE  LockedIsHeld /\ NoneCancelled /\ \A lot : WholeLots(lot)
<1>1. DOMAIN order = {} /\ DOMAIN trades = {} /\ \A w \in Wallets : locked[w] = 0
  BY DEF Init
<1>2. ASSUME NEW w \in Wallets
      PROVE  HeldBy(w) = 0
  <2> DEFINE f == [i \in Holding(w) |-> Held(i)]
  <2>1. DOMAIN f = {}
    BY <1>1 DEF Holding
  <2>2. HeldBy(w) = Total(f)
    BY DEF HeldBy, Holding
  <2> HIDE DEF f
  <2>3. Total(f) = 0
    BY <2>1, FS_EmptySet, TotalOfZeros
  <2>4. QED
    BY <2>2, <2>3
<1>3. QED
  BY <1>1, <1>2 DEF LockedIsHeld, NoneCancelled, WholeLots

-----------------------------------------------------------------------------
(***************************************************************************)
(* Exact pools.  A trade's two stakes are what its winner is paid, and     *)
(* without rounding an order is paid what its trades are.                  *)
(***************************************************************************)
PaidIn(i, t, option) == IF Wins(i, option) THEN PayoutCents(trades[t].shares) ELSE 0

LEMMA PayoutByTrades ==
    ASSUME TypeOK, TradesAreFair, FillsAreTrades,
           NEW lot \in Nat \ {0}, NEW tick \in Nat \ {0}, WholeCents(lot, tick),
           WholeLots(lot), NEW i \in DOMAIN order, NEW option
    PROVE  /\ \A t \in DOMAIN trades : PaidIn(i, t, option) \in Nat
           /\ Payout(i, option) = Total([t \in TradesOf(i) |-> PaidIn(i, t, option)])
<1> DEFINE T == TradesOf(i)
           shares == [t \in T |-> trades[t].shares]
           paid == [t \in T |-> PaidIn(i, t, option)]
<1>1. IsFiniteSet(T) /\ T \subseteq DOMAIN trades
  BY FiniteTables, FS_Subset DEF TradesOf
<1>2. \A t \in DOMAIN trades : trades[t].shares \in Multiples(lot)
                               /\ trades[t].shares \in Nat
  BY MultiplesClosed DEF WholeLots
<1>3. \A t \in DOMAIN trades : PaidIn(i, t, option) \in Nat
  BY <1>2, PayoutCentsType DEF PaidIn
<1>4. shares \in [T -> Multiples(lot)] /\ Total(shares) = filled[i]
  BY <1>1, <1>2 DEF FillsAreTrades, Shares
<1>5. PayoutCents(filled[i]) = Total([t \in T |-> ProductCents(shares[t], PriceScale)])
  <2>1. filled[i] \in Multiples(lot) /\ PriceScale \in Multiples(tick)
    BY TicksInScale DEF WholeLots
  <2> HIDE DEF T, shares
  <2>2. Total([t \in T |-> ProductCents(shares[t], PriceScale)])
          = ProductCents(Total(shares), PriceScale)
    BY <1>1, <1>4, <2>1, ExactTotal
  <2>3. QED
    BY <1>4, <2>1, <2>2, ExactPayout
<1>6. CASE Wins(i, option)
  <2>1. [t \in T |-> ProductCents(shares[t], PriceScale)] = paid
    <3>1. \A t \in T : PayoutCents(trades[t].shares)
                         = ProductCents(trades[t].shares, PriceScale)
      BY <1>1, <1>2, ExactPayout
    <3>2. QED
      BY <1>6, <3>1 DEF PaidIn
  <2>2. QED
    BY <1>3, <1>5, <1>6, <2>1 DEF Payout
<1>7. CASE ~ Wins(i, option)
  <2>1. DOMAIN paid = T /\ \A t \in DOMAIN paid : paid[t] = 0
    BY <1>7 DEF PaidIn
  <2> HIDE DEF paid, T
  <2>2. Total(paid) = 0
    BY <1>1, <2>1, TotalOfZeros
  <2>3. QED
    BY <1>3, <1>7, <2>2 DEF Payout, paid, T
<1>8. QED
  BY <1>6, <1>7

LEMMA PoolIsConserved ==
    ASSUME TypeOK, TradesAreFair, FillsAreTrades,
           NEW lot \in Nat \ {0}, NEW tick \in Nat \ {0}, WholeCents(lot, tick),
           WholeLots(lot), NEW m \in Markets
    PROVE  PoolConserved(m)
<1> DEFINE option == WinningOption(m)
<1> SUFFICES ASSUME NEW c \in Currencies
             PROVE  LET pool == {i \in OrdersOf(m) : order[i].currency = c}
                    IN  Total([i \in pool |-> Stake(i)])
                          = Total([i \in pool |-> Payout(i, option)])
  BY DEF PoolConserved
<1> DEFINE P == {i \in OrdersOf(m) : order[i].currency = c}
           T == {t \in DOMAIN trades : t[1] \in P}
           stakes == [i \in P |-> Stake(i)]
           payments == [i \in P |-> Payout(i, option)]
           a == [t \in T |-> StakeIn(t[1], t)]
           b == [t \in T |-> StakeIn(t[2], t)]
           x == [t \in T |-> PaidIn(t[1], t, option)]
           y == [t \in T |-> PaidIn(t[2], t, option)]
<1>1. IsFiniteSet(P) /\ P \subseteq DOMAIN order
  BY FiniteTables, FS_Subset DEF OrdersOf
<1>2. \A t \in DOMAIN trades : /\ t[1] \in DOMAIN order /\ t[2] \in DOMAIN order
                               /\ t[1] # t[2] /\ t = <<t[1], t[2]>>
                               /\ trades[t].shares \in Nat /\ trades[t].price \in Prices
  <2> SUFFICES ASSUME NEW t \in DOMAIN trades
               PROVE  /\ t[1] \in DOMAIN order /\ t[2] \in DOMAIN order
                      /\ t[1] # t[2] /\ t = <<t[1], t[2]>>
                      /\ trades[t].shares \in Nat /\ trades[t].price \in Prices
    OBVIOUS
  <2>1. t[1] \in DOMAIN order
    BY DEF TypeOK
  <2>2. QED
    BY <2>1, StakeInTrade, MultiplesClosed
<1>3. \A t \in DOMAIN trades : t[1] \in P <=> t[2] \in P
  <2>1. \A t \in DOMAIN trades : SameBook(order[t[1]], order[t[2]])
    BY DEF TradesAreFair
  <2>2. QED
    BY <1>2, <2>1 DEF OrdersOf, SameBook
<1>4. T \in SUBSET (P \X P) /\ \A t \in T : t[1] # t[2]
  BY <1>2, <1>3
<1>5. \A i \in P : TradesOf(i) = {t \in T : i \in {t[1], t[2]}}
  BY <1>3 DEF TradesOf
<1>6. /\ a \in [T -> Nat] /\ b \in [T -> Nat] /\ stakes \in [P -> Nat]
      /\ ByEnds(stakes, P, T, a, b)
  <2>1. \A t \in T : StakeIn(t[1], t) \in Nat /\ StakeIn(t[2], t) \in Nat
    BY <1>2, StakeInTrade
  <2>2. \A i \in P : Stake(i) \in Nat
    BY <1>1, StakeType
  <2>3. ASSUME NEW i \in P
        PROVE  stakes[i] = Total([t \in {t \in T : i \in {t[1], t[2]}} |->
                                     IF t[1] = i THEN a[t] ELSE b[t]])
    <3>1. stakes[i] = Total([t \in TradesOf(i) |-> StakeIn(i, t)])
      BY DEF Stake, StakeIn
    <3>2. [t \in TradesOf(i) |-> StakeIn(i, t)]
            = [t \in {t \in T : i \in {t[1], t[2]}} |-> IF t[1] = i THEN a[t] ELSE b[t]]
      BY <1>5
    <3>3. QED
      BY <3>1, <3>2
  <2>4. a \in [T -> Nat] /\ b \in [T -> Nat] /\ stakes \in [P -> Nat]
    BY <2>1, <2>2
  <2> HIDE DEF T, P, stakes, a, b
  <2>5. QED
    BY <1>4, <2>3, <2>4 DEF ByEnds
<1>7. /\ x \in [T -> Nat] /\ y \in [T -> Nat] /\ payments \in [P -> Nat]
      /\ ByEnds(payments, P, T, x, y)
  <2>1. \A t \in T : PaidIn(t[1], t, option) \in Nat /\ PaidIn(t[2], t, option) \in Nat
    BY <1>2, PayoutByTrades
  <2>2. \A i \in P : Payout(i, option) \in Nat
    BY <1>1, PayoutType
  <2>3. ASSUME NEW i \in P
        PROVE  payments[i] = Total([t \in {t \in T : i \in {t[1], t[2]}} |->
                                       IF t[1] = i THEN x[t] ELSE y[t]])
    <3>1. payments[i] = Total([t \in TradesOf(i) |-> PaidIn(i, t, option)])
      BY <1>1, PayoutByTrades
    <3>2. [t \in TradesOf(i) |-> PaidIn(i, t, option)]
            = [t \in {t \in T : i \in {t[1], t[2]}} |-> IF t[1] = i THEN x[t] ELSE y[t]]
      BY <1>5
    <3>3. QED
      BY <3>1, <3>2
  <2>4. x \in [T -> Nat] /\ y \in [T -> Nat] /\ payments \in [P -> Nat]
    BY <2>1, <2>2
  <2> HIDE DEF T, P, payments, x, y, option
  <2>5. QED
    BY <1>4, <2>3, <2>4 DEF ByEnds
<1>8. [t \in T |-> a[t] + b[t]] = [t \in T |-> x[t] + y[t]]
  <2> SUFFICES ASSUME NEW t \in T
               PROVE  StakeIn(t[1], t) + StakeIn(t[2], t)
                        = PaidIn(t[1], t, option) + PaidIn(t[2], t, option)
    OBVIOUS
  <2> DEFINE pot == PayoutCents(trades[t].shares)
  <2>1. /\ order[t[1]].side # order[t[2]].side
        /\ order[t[1]].option = order[t[2]].option
    BY DEF TradesAreFair, SameBook
  <2>2. order[t[1]].side \in Sides /\ order[t[2]].side \in Sides
    BY <1>2, OrderFields, RequestFields
  <2>3. pot \in Nat
    BY <1>2, PayoutCentsType
  <2>4. StakeIn(t[1], t) + StakeIn(t[2], t) = pot
    <3>1. /\ StakeCents("buy", trades[t].shares, trades[t].price) \in Int
          /\ StakeCents("sell", trades[t].shares, trades[t].price) \in Int
          /\ StakeCents("buy", trades[t].shares, trades[t].price)
               + StakeCents("sell", trades[t].shares, trades[t].price) = pot
      BY <1>2, StakesMakeThePot
    <3> HIDE DEF pot
    <3>2. QED
      BY <2>1, <2>2, <3>1 DEF StakeIn, Sides
  <2>5. Wins(t[1], option) <=> ~ Wins(t[2], option)
    BY <2>1, <2>2 DEF Wins, Sides
  <2>6. PaidIn(t[1], t, option) + PaidIn(t[2], t, option) = pot
    <3>1. /\ PaidIn(t[1], t, option) = IF Wins(t[1], option) THEN pot ELSE 0
          /\ PaidIn(t[2], t, option) = IF Wins(t[2], option) THEN pot ELSE 0
      BY DEF PaidIn
    <3> HIDE DEF pot, option
    <3>2. QED
      BY <2>3, <2>5, <3>1
  <2>7. QED
    BY <2>4, <2>6
<1>9. Total(stakes) = Total([t \in T |-> a[t] + b[t]])
  <2> HIDE DEF T, P, stakes, a, b
  <2>1. QED
    BY <1>1, <1>4, <1>6, TotalByEnds
<1>10. Total(payments) = Total([t \in T |-> x[t] + y[t]])
  <2> HIDE DEF T, P, payments, x, y
  <2>1. QED
    BY <1>1, <1>4, <1>7, TotalByEnds
<1>11. QED
  BY <1>8, <1>9, <1>10

-----------------------------------------------------------------------------
(***************************************************************************)
(* While no event is resolved: orders rest, match, improve on prices and   *)
(* are cancelled.                                                          *)
(***************************************************************************)
LEMMA TradingLocked ==
    ASSUME TypeOK, BookInv, SettledMarketIsClosed, LockedIsHeld,
           NEW lot \in Nat \ {0}, NEW tick \in Nat \ {0}, WholeCents(lot, tick),
           WholeLots(lot), [TradingNext]_vars
    PROVE  WholeLots(lot)' /\ LockedIsHeld'
<1>1. TradesAreFair
  BY DEF BookInv
<1>2. CASE PlaceAny
  <2>1. LockedIsHeld'
    BY <1>1, <1>2, PlaceLocked DEF PlaceAny
  <2>2. WholeLots(lot)'
    BY <1>2, PlaceLots DEF PlaceAny
  <2>3. QED
    BY <2>1, <2>2
<1>3. CASE CancelAny
  <2>1. LockedIsHeld'
    BY <1>3, CancelLocked DEF CancelAny
  <2>2. [Next]_vars
    BY <1>3 DEF Next
  <2>3. QED
    BY <2>1, <2>2, NextLots
<1>4. CASE Funding \/ Administration \/ UNCHANGED vars
  <2>1. LockedIsHeld'
    BY <1>4, QuietLocked
  <2>2. [Next]_vars
    BY <1>4 DEF Next
  <2>3. QED
    BY <2>1, <2>2, NextLots
<1>5. QED
  BY <1>2, <1>3, <1>4 DEF TradingNext, Administration

LEMMA TradingIsSpec == TradingSpec => Spec
<1>1. [TradingNext]_vars => [Next]_vars
  BY DEF TradingNext, Next, Administration
<1>2. QED
  BY <1>1, PTL DEF TradingSpec, Spec

\* With exact cents a wallet's locked money is what its orders hold, whatever
\* is placed, matched at better prices, left of an IOC order and cancelled
\* (LockedIsHeld).
THEOREM LockedMoneyIsHeld == ExactCents => (TradingSpec => []LockedIsHeld)
<1> SUFFICES ASSUME ExactCents
             PROVE  TradingSpec => []LockedIsHeld
  OBVIOUS
<1> PICK lot \in Nat \ {0}, tick \in Nat \ {0} : WholeCents(lot, tick)
  BY DEF ExactCents
<1>1. Init => WholeLots(lot) /\ LockedIsHeld
  BY InitLocked
<1>2. /\ TypeOK /\ BookInv /\ SettledMarketIsClosed /\ WholeLots(lot) /\ LockedIsHeld
      /\ [TradingNext]_vars
      => WholeLots(lot)' /\ LockedIsHeld'
  BY TradingLocked
<1>3. QED
  BY <1>1, <1>2, TradingIsSpec, TypeCorrect, BookInvHolds, SettledMarketsClosed, PTL
  DEF TradingSpec

-----------------------------------------------------------------------------
(***************************************************************************)
(* Orders that are held to settlement.  The invariant adds that no order   *)
(* of an unsettled market is cancelled and that orders have wallets.       *)
(***************************************************************************)
HaveWallets == \A i \in DOMAIN order : WalletOf(order[i]) \in opened

LEMMA NextWallets ==
    ASSUME TypeOK, HaveWallets, [Next]_vars
    PROVE  HaveWallets'
<1>1. CASE PlaceAny
  <2>1. PICK id \in OrderIds, r \in Requests : Place(id, r)
    BY <1>1 DEF PlaceAny
  <2>2. /\ DOMAIN order' = DOMAIN order \cup {id} /\ order'[id] = r
        /\ \A i \in DOMAIN order : order'[i] = order[i]
    BY <2>1, PlacedBook
  <2>3. WalletOf(r) \in opened /\ opened' = opened
    BY <2>1 DEF Place
  <2>4. QED
    BY <2>2, <2>3 DEF HaveWallets
<1>2. CASE ~ PlaceAny
  <2>1. order' = order
    <3>1. CASE Funding \/ Administration \/ Reconcile \/ UNCHANGED vars
      BY <3>1, QuietSteps DEF bookVars
    <3>2. CASE CancelAny
      BY <3>2 DEF CancelAny, Cancel
    <3>3. CASE SettleAny
      BY <3>3 DEF SettleAny, SettleMarket
    <3>4. QED
      BY <1>2, <3>1, <3>2, <3>3 DEF Next
  <2>2. opened \subseteq opened'
    <3>1. CASE Funding
      BY <3>1 DEF Funding, CreateWallet, Credit, Debit
    <3>2. CASE Administration \/ Reconcile \/ UNCHANGED vars
      BY <3>2 DEF Administration, UpdateMarketStatus, ResolveEvent, Reconcile,
                  ReconcileScan, ReconcileRelease, walletVars, vars
    <3>3. CASE CancelAny
      BY <3>3 DEF CancelAny, Cancel
    <3>4. CASE SettleAny
      BY <3>4 DEF SettleAny, SettleMarket
    <3>5. QED
      BY <1>2, <3>1, <3>2, <3>3, <3>4 DEF Next
  <2>3. QED
    BY <2>1, <2>2 DEF HaveWallets
<1>3. QED
  BY <1>1, <1>2

LEMMA PlaceCancelsNone ==
    ASSUME TypeOK, OrdersRest, NoneCancelled,
           NEW id \in OrderIds, NEW r \in Requests, Place(id, r)
    PROVE  NoneCancelled'
<1>1. settlement' = settlement
  BY DEF Place, marketVars
<1>2. /\ DOMAIN order' = DOMAIN order \cup {id}
      /\ \A i \in DOMAIN order : order'[i] = order[i]
      /\ status'[id] = TakerStatus(r)
      /\ \A i \in DOMAIN order \ Matched(r) : status'[i] = status[i]
      /\ \A i \in Matched(r) :
            status'[i] = FillStatus(order[i].amount, filled[i] + Fill(r, i))
  BY PlacedBook
<1>3. \A amount, got : FillStatus(amount, got) # "cancelled"
  BY DEF FillStatus
<1>4. TakerStatus(r) # "cancelled"
  <2>1. r.tif # "ioc"
    BY DEF OrdersRest
  <2>2. QED
    BY <1>3, <2>1 DEF TakerStatus
<1>5. QED
  BY <1>1, <1>2, <1>3, <1>4 DEF NoneCancelled

LEMMA HoldLocked ==
    ASSUME TypeOK, BookInv, SettledMarketIsClosed, LockedIsHeld, NoneCancelled, OrdersRest,
           NEW lot \in Nat \ {0}, NEW tick \in Nat \ {0}, WholeCents(lot, tick),
           WholeLots(lot), [HoldNext]_vars
    PROVE  WholeLots(lot)' /\ LockedIsHeld' /\ NoneCancelled'
<1>1. TradesAreFair /\ StatusMatchesFill
  BY DEF BookInv
<1>2. WholeLots(lot)'
  <2>1. [Next]_vars
    BY DEF HoldNext, Next
  <2>2. QED
    BY <2>1, NextLots
<1>3. CASE PlaceAny
  <2>1. LockedIsHeld'
    BY <1>1, <1>3, PlaceLocked DEF PlaceAny
  <2>2. NoneCancelled'
    BY <1>3, PlaceCancelsNone DEF PlaceAny
  <2>3. QED
    BY <1>2, <2>1, <2>2
<1>4. CASE SettleAny
  BY <1>1, <1>2, <1>4, SettleLocked DEF SettleAny
<1>5. CASE Funding \/ Administration \/ UNCHANGED vars
  <2>1. LockedIsHeld' /\ settlement' = settlement /\ UNCHANGED bookVars
    BY <1>5, QuietLocked
  <2>2. QED
    BY <1>2, <2>1 DEF NoneCancelled, bookVars
<1>6. QED
  BY <1>3, <1>4, <1>5 DEF HoldNext

LEMMA HoldIsSpec == HoldSpec => Spec
<1>1. [HoldNext]_vars => [Next]_vars
  BY DEF HoldNext, Next
<1>2. QED
  BY <1>1, PTL DEF HoldSpec, Spec

HoldInv == LockedIsHeld /\ NoneCancelled

LEMMA HoldInvHolds ==
    ASSUME OrdersRest, NEW lot \in Nat \ {0}, NEW tick \in Nat \ {0}, WholeCents(lot, tick)
    PROVE  HoldSpec => [](WholeLots(lot) /\ HoldInv)
<1>1. Init => WholeLots(lot) /\ HoldInv
  BY InitLocked DEF HoldInv
<1>2. /\ TypeOK /\ BookInv /\ SettledMarketIsClosed /\ WholeLots(lot) /\ HoldInv
      /\ [HoldNext]_vars
      => WholeLots(lot)' /\ HoldInv'
  BY HoldLocked DEF HoldInv
<1>3. QED
  BY <1>1, <1>2, HoldIsSpec, TypeCorrect, BookInvHolds, SettledMarketsClosed, PTL
  DEF HoldSpec

\* What is held is still all that is locked as markets settle around it: a
\* settlement takes from each wallet what its orders in the market held
\* (LockedIsHeld).
THEOREM LockedIsHeldToSettlement ==
    ExactCents /\ OrdersRest => (HoldSpec => []LockedIsHeld)
<1> SUFFICES ASSUME ExactCents, OrdersRest
             PROVE  HoldSpec => []LockedIsHeld
  OBVIOUS
<1> PICK lot \in Nat \ {0}, tick \in Nat \ {0} : WholeCents(lot, tick)
  BY DEF ExactCents
<1>1. HoldSpec => [](WholeLots(lot) /\ HoldInv)
  BY HoldInvHolds
<1>2. HoldInv => LockedIsHeld
  BY DEF HoldInv
<1>3. QED
  BY <1>1, <1>2, PTL

\* A market whose event resolved to one of its options passes every check of
\* the settlement transaction: fills are their trades, each pool pays what it
\* took and each wallet has locked what is taken (SettlementNeverBlocked).
THEOREM SettlementIsNeverBlocked ==
    ExactCents /\ OrdersRest => (HoldSpec => []SettlementNeverBlocked)
<1> SUFFICES ASSUME ExactCents, OrdersRest
             PROVE  HoldSpec => []SettlementNeverBlocked
  OBVIOUS
<1> PICK lot \in Nat \ {0}, tick \in Nat \ {0} : WholeCents(lot, tick)
  BY DEF ExactCents
<1>1. HoldSpec => [](WholeLots(lot) /\ HoldInv)
  BY HoldInvHolds
<1>2. Init => HaveWallets
  BY DEF Init, HaveWallets
<1>3. TypeOK /\ HaveWallets /\ [Next]_vars => HaveWallets'
  BY NextWallets
<1>4. /\ TypeOK /\ BookInv /\ FilledMatchesTrades /\ WholeLots(lot) /\ HoldInv
      /\ HaveWallets
      => SettlementNeverBlocked
  <2> SUFFICES ASSUME TypeOK, BookInv, FilledMatchesTrades, WholeLots(lot), HoldInv,
                      HaveWallets,
                      NEW m \in Markets, settlement[m] = Unresolved,
                      WinningOption(m) \in MarketOptions[m]
               PROVE  Settleable(m)
    BY DEF SettlementNeverBlocked
  <2>1. ~ SkippedBySettleEvent(m)
    BY DEF SkippedBySettleEvent, HaveWallets, OrdersOf
  <2>2. \A i \in OrdersOf(m) : MatchedShares(i) = filled[i]
    BY DEF FilledMatchesTrades, OrdersOf
  <2>3. PoolConserved(m)
    <3>1. FillsAreTrades /\ TradesAreFair
      BY FillsByTrades DEF BookInv
    <3>2. QED
      BY <3>1, PoolIsConserved
  <2>4. \A w \in Wallets : LockedUse(m, w) <= locked[w]
    <3>1. StatusMatchesFill /\ NoneCancelled
      BY DEF BookInv, HoldInv
    <3>2. \A w \in Wallets : LockedUse(m, w) <= HeldBy(w)
      BY <3>1, UseIsHeld
    <3>3. QED
      BY <3>2 DEF HoldInv, LockedIsHeld
  <2>5. QED
    BY <2>1, <2>2, <2>3, <2>4 DEF Settleable
<1>5. QED
  BY <1>1, <1>2, <1>3, <1>4, HoldIsSpec, TypeCorrect, BookInvHolds, FillsMatchTrades, PTL
  DEF Spec

\* A wallet that has money locked has an order that holds it and is not
\* cancelled, so reconciliation finds no wallet (NothingStranded).
THEOREM NothingIsStranded ==
    ExactCents /\ OrdersRest => (HoldSpec => []NothingStranded)
<1> SUFFICES ASSUME ExactCents, OrdersRest
             PROVE  HoldSpec => []NothingStranded
  OBVIOUS
<1> PICK lot \in Nat \ {0}, tick \in Nat \ {0} : WholeCents(lot, tick)
  BY DEF ExactCents
<1>1. HoldSpec => [](WholeLots(lot) /\ HoldInv)
  BY HoldInvHolds
<1>2. HoldInv => NothingStranded
  <2> SUFFICES ASSUME HoldInv, NEW w \in Stranded
               PROVE  FALSE
    BY DEF NothingStranded
  <2>1. /\ w \in Wallets /\ locked[w] > 0
        /\ \A i \in DOMAIN order : WalletOf(order[i]) = w => status[i] = "cancelled"
    BY DEF Stranded
  <2>2. Holding(w) = {}
    BY <2>1 DEF HoldInv, NoneCancelled, Holding
  <2> DEFINE f == [i \in Holding(w) |-> Held(i)]
  <2>3. DOMAIN f = {} /\ HeldBy(w) = Total(f)
    BY <2>2 DEF HeldBy, Holding
  <2> HIDE DEF f
  <2>4. Total(f) = 0
    BY <2>3, FS_EmptySet, TotalOfZeros
  <2>5. locked[w] = 0
    BY <2>1, <2>3, <2>4 DEF HoldInv, LockedIsHeld
  <2>6. QED
    BY <2>1, <2>5
<1>3. QED
  BY <1>1, <1>2, PTL
=============================================================================
