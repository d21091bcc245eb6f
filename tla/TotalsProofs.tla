---------------------------- MODULE TotalsProofs ----------------------------
(***************************************************************************)
(* Sums of finite functions: what Totals!Total returns.                    *)
(***************************************************************************)
EXTENDS Totals, FiniteSetTheorems, TLAPS

\* The pairs a sum counts.
Pairs(f) == UNION {Units(f, x) : x \in DOMAIN f}

\* A function of integers with a finite domain has a finite set of pairs, so
\* that its sum is a natural number.
LEMMA PairsFinite ==
    ASSUME NEW f, IsFiniteSet(DOMAIN f), \A x \in DOMAIN f : f[x] \in Int
    PROVE  IsFiniteSet(Pairs(f))
<1> DEFINE T == {Units(f, x) : x \in DOMAIN f}
           g == [x \in DOMAIN f |-> Units(f, x)]
<1>1. g \in Surjection(DOMAIN f, T)
  BY DEF Surjection
<1>2. IsFiniteSet(T)
  BY <1>1, FS_Surjection
<1>3. ASSUME NEW U \in T
      PROVE  IsFiniteSet(U)
  <2>1. PICK x \in DOMAIN f : U = Units(f, x)
    OBVIOUS
  <2>2. IsFiniteSet(1 .. f[x])
    BY FS_Interval
  <2>3. IsFiniteSet({x})
    BY FS_Singleton
  <2>4. QED
    BY <2>1, <2>2, <2>3, FS_Product DEF Units
<1>4. QED
  BY <1>2, <1>3, FS_UNION DEF Pairs

THEOREM TotalType ==
    ASSUME NEW f, IsFiniteSet(DOMAIN f), \A x \in DOMAIN f : f[x] \in Int
    PROVE  Total(f) \in Nat
BY PairsFinite, FS_CardinalityType DEF Total, Pairs

\* The same, for a function whose domain is named.
THEOREM TotalNat ==
    ASSUME NEW S, IsFiniteSet(S), NEW f \in [S -> Int]
    PROVE  Total(f) \in Nat
BY TotalType

(***************************************************************************)
(* The sum of two functions, by shifting the pairs of the second above     *)
(* those of the first.                                                     *)
(***************************************************************************)
\* Membership in the pairs of a function, without the union.
LEMMA PairsMember ==
    ASSUME NEW f, NEW x, NEW n
    PROVE  <<x, n>> \in Pairs(f) <=> x \in DOMAIN f /\ n \in 1 .. f[x]
BY DEF Pairs, Units

\* Every element of Pairs is a pair.
LEMMA PairsArePairs ==
    ASSUME NEW f, NEW p \in Pairs(f)
    PROVE  p = <<p[1], p[2]>> /\ p[1] \in DOMAIN f /\ p[2] \in 1 .. f[p[1]]
BY DEF Pairs, Units

THEOREM TotalOfSum ==
    ASSUME NEW S, IsFiniteSet(S), NEW f \in [S -> Nat], NEW g \in [S -> Nat]
    PROVE  Total([x \in S |-> f[x] + g[x]]) = Total(f) + Total(g)
<1> DEFINE h == [x \in S |-> f[x] + g[x]]
           shift == [p \in Pairs(g) |-> <<p[1], p[2] + f[p[1]]>>]
           Upper == {p \in Pairs(h) : p[2] > f[p[1]]}
<1>1. h \in [S -> Nat]
  OBVIOUS
<1>2. IsFiniteSet(Pairs(f)) /\ IsFiniteSet(Pairs(g)) /\ IsFiniteSet(Pairs(h))
  BY <1>1, PairsFinite
<1>3. shift \in Bijection(Pairs(g), Upper)
  <2>1. ASSUME NEW p \in Pairs(g)
        PROVE  shift[p] \in Upper
    <3>1. p[1] \in S /\ p[2] \in 1 .. g[p[1]]
      BY PairsArePairs
    <3>2. p[2] + f[p[1]] \in 1 .. h[p[1]] /\ p[2] + f[p[1]] > f[p[1]]
      BY <3>1
    <3>3. <<p[1], p[2] + f[p[1]]>> \in Pairs(h)
      BY <3>1, <3>2, PairsMember, <1>1
    <3>4. QED
      BY <3>2, <3>3
  <2>2. ASSUME NEW p \in Pairs(g), NEW q \in Pairs(g), shift[p] = shift[q]
        PROVE  p = q
    <3>1. /\ p = <<p[1], p[2]>> /\ p[1] \in S /\ p[2] \in 1 .. g[p[1]]
          /\ q = <<q[1], q[2]>> /\ q[1] \in S /\ q[2] \in 1 .. g[q[1]]
      BY PairsArePairs
    <3>2. p[1] = q[1] /\ p[2] + f[p[1]] = q[2] + f[q[1]]
      BY <2>2
    <3>3. p[2] = q[2]
      BY <3>1, <3>2
    <3>4. QED
      BY <3>1, <3>2, <3>3
  <2>3. ASSUME NEW q \in Upper
        PROVE  \E p \in Pairs(g) : shift[p] = q
    <3>1. q = <<q[1], q[2]>> /\ q[1] \in S /\ q[2] \in 1 .. h[q[1]] /\ q[2] > f[q[1]]
      BY PairsArePairs, <1>1
    <3> DEFINE p == <<q[1], q[2] - f[q[1]]>>
    <3>2. q[2] - f[q[1]] \in 1 .. g[q[1]]
      BY <3>1
    <3>3. p \in Pairs(g)
      BY <3>1, <3>2, PairsMember
    <3>4. q[2] - f[q[1]] + f[q[1]] = q[2]
      BY <3>1
    <3>5. shift[p] = q
      BY <3>1, <3>3, <3>4
    <3>6. QED
      BY <3>3, <3>5
  <2>4. shift \in [Pairs(g) -> Upper]
    BY <2>1
  <2> HIDE DEF h, shift, Upper
  <2>5. shift \in Injection(Pairs(g), Upper)
    BY <2>2, <2>4 DEF Injection, IsInjective
  <2>6. shift \in Surjection(Pairs(g), Upper)
    BY <2>3, <2>4 DEF Surjection
  <2>7. QED
    BY <2>5, <2>6 DEF Bijection
<1>4. IsFiniteSet(Upper) /\ Cardinality(Upper) = Cardinality(Pairs(g))
  BY <1>2, <1>3, FS_Bijection DEF ExistsBijection
<1>5. Pairs(h) = Pairs(f) \cup Upper
  <2>1. ASSUME NEW p \in Pairs(h), p \notin Upper
        PROVE  p \in Pairs(f)
    <3>1. p = <<p[1], p[2]>> /\ p[1] \in S /\ p[2] \in 1 .. h[p[1]]
      BY PairsArePairs, <1>1
    <3>2. p[2] \in 1 .. f[p[1]]
      BY <2>1, <3>1
    <3>3. QED
      BY <3>1, <3>2, PairsMember
  <2>2. ASSUME NEW p \in Pairs(f)
        PROVE  p \in Pairs(h)
    <3>1. p = <<p[1], p[2]>> /\ p[1] \in S /\ p[2] \in 1 .. f[p[1]]
      BY PairsArePairs
    <3>2. p[2] \in 1 .. h[p[1]]
      BY <3>1
    <3>3. QED
      BY <3>1, <3>2, PairsMember, <1>1
  <2>3. QED
    BY <2>1, <2>2
<1>6. Pairs(f) \cap Upper = {}
  <2>1. ASSUME NEW p \in Pairs(f), p \in Upper
        PROVE  FALSE
    <3>1. p[1] \in S /\ p[2] \in 1 .. f[p[1]]
      BY PairsArePairs
    <3>2. QED
      BY <2>1, <3>1
  <2>2. QED
    BY <2>1
<1> HIDE DEF h, shift, Upper
<1>7. Cardinality(Pairs(h)) = Cardinality(Pairs(f)) + Cardinality(Pairs(g))
  <2>1. Cardinality(Pairs(f)) \in Nat /\ Cardinality(Pairs(g)) \in Nat
    BY <1>2, FS_CardinalityType
  <2>2. Cardinality(Pairs(f) \cup Upper) =
            Cardinality(Pairs(f)) + Cardinality(Upper) - Cardinality(Pairs(f) \cap Upper)
    BY <1>2, <1>4, FS_Union
  <2>3. Cardinality({}) = 0
    BY FS_EmptySet
  <2>4. QED
    BY <1>4, <1>5, <1>6, <2>1, <2>2, <2>3
<1>8. QED
  BY <1>7 DEF Total, Pairs, h

(***************************************************************************)
(* Sums over parts of a domain.                                            *)
(***************************************************************************)
LEMMA TotalOfPart ==
    ASSUME NEW f, IsFiniteSet(DOMAIN f), \A x \in DOMAIN f : f[x] \in Int,
           NEW S \in SUBSET DOMAIN f
    PROVE  Total([x \in S |-> f[x]]) <= Total(f)
<1> DEFINE g == [x \in S |-> f[x]]
<1>1. Pairs(g) \subseteq Pairs(f)
  BY DEF Pairs, Units
<1>2. IsFiniteSet(Pairs(f))
  BY PairsFinite
<1> HIDE DEF g
<1>3. Cardinality(Pairs(g)) <= Cardinality(Pairs(f))
  BY <1>1, <1>2, FS_Subset
<1>4. QED
  BY <1>3 DEF Total, Pairs, g

LEMMA TotalOfUnion ==
    ASSUME NEW f, NEW S, NEW T, IsFiniteSet(DOMAIN f),
           \A x \in DOMAIN f : f[x] \in Int,
           DOMAIN f = S \cup T, S \cap T = {}
    PROVE  Total(f) = Total([x \in S |-> f[x]]) + Total([x \in T |-> f[x]])
<1> DEFINE g == [x \in S |-> f[x]]
           h == [x \in T |-> f[x]]
<1>1. Pairs(f) = Pairs(g) \cup Pairs(h)
  BY DEF Pairs, Units
<1>2. Pairs(g) \cap Pairs(h) = {}
  <2> SUFFICES ASSUME NEW p \in Pairs(g), p \in Pairs(h)
               PROVE  FALSE
    OBVIOUS
  <2>1. p[1] \in DOMAIN g /\ p[1] \in DOMAIN h
    BY PairsArePairs
  <2>2. QED
    BY <2>1
<1>3. IsFiniteSet(S) /\ IsFiniteSet(T)
  BY FS_Subset
<1> HIDE DEF g, h
<1>4. IsFiniteSet(Pairs(g)) /\ IsFiniteSet(Pairs(h))
  BY <1>3, PairsFinite DEF g, h
<1>5. /\ Cardinality(Pairs(f)) = Cardinality(Pairs(g)) + Cardinality(Pairs(h))
                                    - Cardinality(Pairs(g) \cap Pairs(h))
      /\ Cardinality(Pairs(g)) \in Nat /\ Cardinality(Pairs(h)) \in Nat
  BY <1>1, <1>4, FS_Union, FS_CardinalityType
<1>6. Cardinality(Pairs(g) \cap Pairs(h)) = 0
  BY <1>2, FS_EmptySet
<1>7. QED
  BY <1>5, <1>6 DEF Total, Pairs, g, h

LEMMA TotalOfOne ==
    ASSUME NEW f, NEW x, DOMAIN f = {x}, f[x] \in Nat
    PROVE  Total(f) = f[x]
<1>1. Pairs(f) = {x} \X (1 .. f[x])
  BY DEF Pairs, Units
<1> DEFINE n == f[x]
<1>2. n \in Nat
  OBVIOUS
<1> HIDE DEF n
<1>3. /\ IsFiniteSet({x}) /\ Cardinality({x}) = 1
      /\ IsFiniteSet(1 .. n) /\ Cardinality(1 .. n) = n
  <2>1. /\ IsFiniteSet(1 .. n)
        /\ Cardinality(1 .. n) = IF 1 > n THEN 0 ELSE n - 1 + 1
    BY <1>2, FS_Interval
  <2>2. Cardinality(1 .. n) = n
    BY <1>2, <2>1
  <2>3. IsFiniteSet({x}) /\ Cardinality({x}) = 1
    BY FS_Singleton
  <2>4. QED
    BY <2>1, <2>2, <2>3
<1>4. Cardinality({x} \X (1 .. n)) = n
  <2>1. Cardinality({x} \X (1 .. n)) = Cardinality({x}) * Cardinality(1 .. n)
    BY <1>3, FS_Product
  <2>2. QED
    BY <1>2, <1>3, <2>1
<1>5. QED
  BY <1>1, <1>2, <1>4 DEF Total, Pairs, n

\* A sum of naturals is zero exactly if all of them are.
LEMMA TotalOfZeros ==
    ASSUME NEW f, IsFiniteSet(DOMAIN f), \A x \in DOMAIN f : f[x] \in Nat
    PROVE  Total(f) = 0 <=> \A x \in DOMAIN f : f[x] = 0
<1>1. IsFiniteSet(Pairs(f))
  BY PairsFinite
<1>2. Total(f) = 0 <=> Pairs(f) = {}
  BY <1>1, FS_EmptySet DEF Total, Pairs
<1>3. ASSUME \A x \in DOMAIN f : f[x] = 0
      PROVE  Pairs(f) = {}
  BY <1>3 DEF Pairs, Units
<1>4. ASSUME NEW x \in DOMAIN f, f[x] # 0
      PROVE  Pairs(f) # {}
  <2>1. 1 \in 1 .. f[x]
    BY <1>4
  <2>2. QED
    BY <2>1, PairsMember
<1>5. QED
  BY <1>2, <1>3, <1>4

\* Elements that contribute nothing may be left out.
LEMMA TotalOfRest ==
    ASSUME NEW S, IsFiniteSet(S), NEW f \in [S -> Nat], NEW T \in SUBSET S,
           \A x \in S \ T : f[x] = 0
    PROVE  Total([x \in T |-> f[x]]) = Total(f)
<1> DEFINE g == [x \in T |-> f[x]]
           h == [x \in S \ T |-> f[x]]
<1>1. IsFiniteSet(T) /\ IsFiniteSet(S \ T)
  BY FS_Subset
<1>2. Total(f) = Total(g) + Total(h)
  <2>1. /\ DOMAIN f = T \cup (S \ T) /\ T \cap (S \ T) = {}
        /\ \A x \in DOMAIN f : f[x] \in Int
    OBVIOUS
  <2>2. QED
    BY <2>1, TotalOfUnion
<1>3. g \in [T -> Int] /\ h \in [S \ T -> Nat] /\ \A x \in DOMAIN h : h[x] = 0
  OBVIOUS
<1> HIDE DEF g, h
<1>4. Total(h) = 0
  BY <1>1, <1>3, TotalOfZeros
<1>5. Total(g) \in Nat
  BY <1>1, <1>3, TotalNat
<1>6. QED
  BY <1>2, <1>4, <1>5 DEF g

(***************************************************************************)
(* A sum by keys: the pairs of each key's part are numbered, and the sum   *)
(* over the keys counts the numbers.                                       *)
(***************************************************************************)
Part(f, S, key, k) == [x \in {y \in S : key[y] = k} |-> f[x]]

THEOREM TotalByKey ==
    ASSUME NEW S, IsFiniteSet(S), NEW f \in [S -> Nat],
           NEW K, IsFiniteSet(K), NEW key \in [S -> K]
    PROVE  Total([k \in K |-> Total(Part(f, S, key, k))]) = Total(f)
<1> DEFINE h == [k \in K |-> Total(Part(f, S, key, k))]
           numbered == [k \in K |->
               CHOOSE b : b \in Bijection(1 .. h[k], Pairs(Part(f, S, key, k)))]
           place == [p \in Pairs(h) |-> numbered[p[1]][p[2]]]
<1>1. ASSUME NEW k \in K
      PROVE  /\ h[k] \in Nat
             /\ numbered[k] \in Bijection(1 .. h[k], Pairs(Part(f, S, key, k)))
  <2> DEFINE part == Part(f, S, key, k)
  <2>1. IsFiniteSet(DOMAIN part) /\ \A x \in DOMAIN part : part[x] \in Int
    BY FS_Subset DEF Part
  <2> HIDE DEF part
  <2>2. IsFiniteSet(Pairs(part))
    BY <2>1, PairsFinite
  <2>3. /\ Cardinality(Pairs(part)) \in Nat
        /\ ExistsBijection(1 .. Cardinality(Pairs(part)), Pairs(part))
    BY <2>2, FS_CardinalityType
  <2>4. Total(part) = Cardinality(Pairs(part))
    BY DEF Total, Pairs
  <2>5. h[k] = Total(part)
    BY DEF part
  <2>6. \E b : b \in Bijection(1 .. h[k], Pairs(part))
    BY <2>3, <2>4, <2>5 DEF ExistsBijection
  <2>7. numbered[k] = CHOOSE b : b \in Bijection(1 .. h[k], Pairs(part))
    BY DEF part
  <2> HIDE DEF h, numbered
  <2>8. QED
    BY <2>3, <2>4, <2>5, <2>6, <2>7 DEF part
<1>2. DOMAIN h = K
  OBVIOUS
<1>3. ASSUME NEW k \in K, NEW q \in Pairs(Part(f, S, key, k))
      PROVE  q \in Pairs(f) /\ key[q[1]] = k
  <2>1. /\ q = <<q[1], q[2]>> /\ q[1] \in S /\ key[q[1]] = k
        /\ q[2] \in 1 .. f[q[1]]
    BY PairsArePairs DEF Part
  <2>2. QED
    BY <2>1, PairsMember
<1>4. ASSUME NEW p \in Pairs(h)
      PROVE  /\ p = <<p[1], p[2]>> /\ p[1] \in K /\ p[2] \in 1 .. h[p[1]]
             /\ place[p] = numbered[p[1]][p[2]]
             /\ place[p] \in Pairs(Part(f, S, key, p[1]))
  <2>1. p = <<p[1], p[2]>> /\ p[1] \in K /\ p[2] \in 1 .. h[p[1]]
    BY <1>2, PairsArePairs
  <2>2. place[p] = numbered[p[1]][p[2]]
    OBVIOUS
  <2> HIDE DEF h, numbered, place
  <2>3. QED
    BY <1>1, <2>1, <2>2 DEF Bijection, Surjection
<1> HIDE DEF h, numbered
<1>5. place \in Bijection(Pairs(h), Pairs(f))
  <2>1. place \in [Pairs(h) -> Pairs(f)]
    BY <1>3, <1>4
  <2>2. ASSUME NEW p \in Pairs(h), NEW q \in Pairs(h), place[p] = place[q]
        PROVE  p = q
    <3>1. /\ p = <<p[1], p[2]>> /\ p[1] \in K /\ p[2] \in 1 .. h[p[1]]
          /\ q = <<q[1], q[2]>> /\ q[1] \in K /\ q[2] \in 1 .. h[q[1]]
          /\ numbered[p[1]][p[2]] = numbered[q[1]][q[2]]
      BY <1>4, <2>2
    <3>2. p[1] = q[1]
      BY <1>3, <1>4, <2>2
    <3>3. p[2] = q[2]
      BY <1>1, <3>1, <3>2 DEF Bijection, Injection, IsInjective
    <3>4. QED
      BY <3>1, <3>2, <3>3
  <2>3. ASSUME NEW q \in Pairs(f)
        PROVE  \E p \in Pairs(h) : place[p] = q
    <3>1. q = <<q[1], q[2]>> /\ q[1] \in S /\ q[2] \in 1 .. f[q[1]]
      BY PairsArePairs
    <3> DEFINE k == key[q[1]]
    <3>2. k \in K
      BY <3>1
    <3>3. q \in Pairs(Part(f, S, key, k))
      <4> DEFINE part == Part(f, S, key, k)
      <4>1. q[1] \in DOMAIN part /\ part[q[1]] = f[q[1]]
        BY <3>1 DEF Part
      <4> HIDE DEF part
      <4>2. <<q[1], q[2]>> \in Pairs(part)
        BY <3>1, <4>1, PairsMember
      <4>3. QED
        BY <3>1, <4>2 DEF part
    <3> HIDE DEF k
    <3>4. PICK n \in 1 .. h[k] : numbered[k][n] = q
      BY <1>1, <3>2, <3>3 DEF Bijection, Surjection
    <3>5. <<k, n>> \in Pairs(h)
      BY <1>2, <3>2, PairsMember
    <3>6. place[<<k, n>>] = q
      BY <3>4, <3>5
    <3>7. QED
      BY <3>5, <3>6
  <2> HIDE DEF place
  <2>4. place \in Injection(Pairs(h), Pairs(f))
    BY <2>1, <2>2 DEF Injection, IsInjective
  <2>5. place \in Surjection(Pairs(h), Pairs(f))
    BY <2>1, <2>3 DEF Surjection
  <2>6. QED
    BY <2>4, <2>5 DEF Bijection
<1>6. IsFiniteSet(Pairs(h))
  <2>1. IsFiniteSet(DOMAIN h) /\ \A k \in DOMAIN h : h[k] \in Int
    BY <1>1, <1>2
  <2>2. QED
    BY <2>1, PairsFinite
<1>7. Cardinality(Pairs(f)) = Cardinality(Pairs(h))
  BY <1>5, <1>6, FS_Bijection DEF ExistsBijection
<1>8. QED
  BY <1>7 DEF Total, Pairs, h

\* A sum grows with its terms and with the elements it is over.
LEMMA TotalGrows ==
    ASSUME NEW S, NEW T, IsFiniteSet(T), S \subseteq T,
           NEW f \in [S -> Nat], NEW g \in [T -> Nat], \A x \in S : f[x] <= g[x]
    PROVE  Total(f) <= Total(g)
<1> DEFINE part == [x \in S |-> g[x]]
           more == [x \in S |-> g[x] - f[x]]
<1>1. IsFiniteSet(S)
  BY FS_Subset
<1>2. part \in [S -> Nat] /\ more \in [S -> Nat] /\ part = [x \in S |-> f[x] + more[x]]
  <2>1. \A x \in S : g[x] \in Nat /\ f[x] \in Nat /\ g[x] - f[x] \in Nat
    OBVIOUS
  <2>2. \A x \in S : f[x] + more[x] = g[x]
    BY <2>1
  <2>3. QED
    BY <2>1, <2>2
<1>3. Total(part) <= Total(g)
  BY TotalOfPart
<1> HIDE DEF part, more
<1>4. Total(part) = Total(f) + Total(more)
  BY <1>1, <1>2, TotalOfSum
<1>5. Total(f) \in Nat /\ Total(more) \in Nat /\ Total(g) \in Nat
  BY <1>1, <1>2, TotalNat
<1>6. QED
  BY <1>3, <1>4, <1>5

\* Two terms that grow by one add two to the sum.
LEMMA TotalOfTwoMore ==
    ASSUME NEW S, IsFiniteSet(S), NEW f \in [S -> Nat], NEW x \in S, NEW y \in S, x # y
    PROVE  Total([z \in S |-> IF z \in {x, y} THEN f[z] + 1 ELSE f[z]]) = Total(f) + 2
<1> DEFINE ones == [z \in S |-> IF z \in {x, y} THEN 1 ELSE 0]
           both == [z \in {x, y} |-> ones[z]]
           first == [z \in {x} |-> both[z]]
           second == [z \in {y} |-> both[z]]
           more == [z \in S |-> f[z] + ones[z]]
<1>1. ones \in [S -> Nat] /\ more = [z \in S |-> IF z \in {x, y} THEN f[z] + 1 ELSE f[z]]
  OBVIOUS
<1>2. DOMAIN both = {x} \cup {y} /\ {x} \cap {y} = {} /\ \A z \in DOMAIN both : both[z] \in Int
  OBVIOUS
<1>3. IsFiniteSet(DOMAIN both)
  <2>1. {x, y} \subseteq S /\ DOMAIN both = {x, y}
    OBVIOUS
  <2>2. QED
    BY <2>1, FS_Subset
<1>4. Total(first) = 1
  <2>1. DOMAIN first = {x} /\ first[x] = 1
    OBVIOUS
  <2> HIDE DEF first
  <2>2. QED
    BY <2>1, TotalOfOne
<1>5. Total(second) = 1
  <2>1. DOMAIN second = {y} /\ second[y] = 1
    OBVIOUS
  <2> HIDE DEF second
  <2>2. QED
    BY <2>1, TotalOfOne
<1>6. Total(both) = Total(first) + Total(second)
  <2> HIDE DEF both
  <2>1. QED
    BY <1>2, <1>3, TotalOfUnion
<1>7. Total(both) = Total(ones)
  <2>1. \A z \in S \ {x, y} : ones[z] = 0
    OBVIOUS
  <2>2. {x, y} \in SUBSET S
    OBVIOUS
  <2> HIDE DEF ones
  <2>3. QED
    BY <1>1, <2>1, <2>2, TotalOfRest
<1> HIDE DEF ones, both, first, second
<1>8. Total(more) = Total(f) + Total(ones)
  BY <1>1, TotalOfSum
<1>9. QED
  BY <1>1, <1>4, <1>5, <1>6, <1>7, <1>8, TotalNat

-----------------------------------------------------------------------------
(***************************************************************************)
(* What is first: a nonempty family of subsets of a finite set has a       *)
(* minimal member, and a nonempty set of natural numbers a least one.      *)
(***************************************************************************)
LEMMA MinimalMember ==
    ASSUME NEW U, IsFiniteSet(U), NEW T \in SUBSET (SUBSET U), T # {}
    PROVE  \E X \in T : \A Y \in T : Y \subseteq X => Y = X
<1>1. FiniteSubsetsOf(U) = SUBSET U
  BY FS_FiniteSubsetsOfFinite
<1>2. IsWellFoundedOn(StrictSubsetOrdering(U), SUBSET U)
  BY <1>1, FS_StrictSubsetOrderingWellFounded
<1>3. \E X \in T : \A Y \in T : ~ (<<Y, X>> \in StrictSubsetOrdering(U))
  BY <1>2, WFMin
<1>4. QED
  BY <1>3 DEF StrictSubsetOrdering

LEMMA LeastNumber ==
    ASSUME NEW S \in SUBSET Nat, S # {}
    PROVE  \E n \in S : \A k \in S : n <= k
<1>1. PICK top \in S : TRUE
  OBVIOUS
<1> DEFINE T == {0 .. n : n \in S \cap (0 .. top)}
<1>2. T \in SUBSET (SUBSET (0 .. top)) /\ T # {}
  <2>1. top \in S \cap (0 .. top)
    BY <1>1
  <2>2. QED
    BY <2>1
<1>3. IsFiniteSet(0 .. top)
  BY <1>1, FS_Interval
<1>4. PICK X \in T : \A Y \in T : Y \subseteq X => Y = X
  <2> DEFINE U == 0 .. top
  <2>1. T \in SUBSET (SUBSET U) /\ T # {} /\ IsFiniteSet(U)
    BY <1>2, <1>3
  <2> HIDE DEF T, U
  <2>2. QED
    BY <2>1, MinimalMember
<1>5. PICK n \in S \cap (0 .. top) : X = 0 .. n
  OBVIOUS
<1>6. ASSUME NEW k \in S, k < n
      PROVE  FALSE
  <2>1. k \in Nat /\ n \in Nat /\ k \in S \cap (0 .. top)
    BY <1>1, <1>6
  <2>2. 0 .. k \in T /\ 0 .. k \subseteq 0 .. n /\ n \in 0 .. n /\ n \notin 0 .. k
    BY <1>6, <2>1
  <2>3. QED
    BY <1>4, <1>5, <2>2
<1>7. QED
  BY <1>6

-----------------------------------------------------------------------------
(***************************************************************************)
(* Sums of multiples, and sums over pairs by their ends.                   *)
(***************************************************************************)
\* One element apart from the others.
LEMMA TotalWithOne ==
    ASSUME NEW S, IsFiniteSet(S), NEW x, x \notin S, NEW f \in [S \cup {x} -> Nat]
    PROVE  Total(f) = Total([y \in S |-> f[y]]) + f[x]
<1> DEFINE one == [y \in {x} |-> f[y]]
<1>1. IsFiniteSet(S \cup {x})
  BY FS_AddElement
<1>2. DOMAIN f = S \cup {x} /\ S \cap {x} = {} /\ \A y \in DOMAIN f : f[y] \in Int
  OBVIOUS
<1>3. Total(f) = Total([y \in S |-> f[y]]) + Total(one)
  BY <1>1, <1>2, TotalOfUnion
<1>4. DOMAIN one = {x} /\ one[x] = f[x] /\ one[x] \in Nat
  OBVIOUS
<1> HIDE DEF one
<1>5. Total(one) = f[x]
  BY <1>4, TotalOfOne
<1>6. QED
  BY <1>3, <1>5

\* A factor of all the terms is a factor of the sum: by the least number that
\* is not, which is not 0 and whose predecessor is.
LEMMA TotalScaled ==
    ASSUME NEW S, IsFiniteSet(S), NEW f \in [S -> Nat], NEW k \in Nat
    PROVE  Total([x \in S |-> k * f[x]]) = k * Total(f)
<1> DEFINE times(n) == [x \in S |-> n * f[x]]
           wrong == {n \in Nat : Total(times(n)) # n * Total(f)}
<1>1. \A n \in Nat : times(n) \in [S -> Nat]
  <2>1. \A n \in Nat, x \in S : n * f[x] \in Nat
    OBVIOUS
  <2>2. QED
    BY <2>1
<1>2. Total(f) \in Nat
  BY TotalNat
<1>3. 0 \notin wrong
  <2> DEFINE zeros == times(0)
  <2>1. DOMAIN zeros = S /\ \A x \in S : zeros[x] = 0
    OBVIOUS
  <2> HIDE DEF zeros
  <2>2. Total(zeros) = 0
    BY <2>1, TotalOfZeros
  <2>3. QED
    BY <1>2, <2>2 DEF zeros
<1>4. ASSUME NEW n \in Nat, n \notin wrong
      PROVE  n + 1 \notin wrong
  <2>1. Total(times(n)) = n * Total(f)
    BY <1>4
  <2>2. times(n + 1) = [x \in S |-> times(n)[x] + f[x]]
    <3>1. \A x \in S : (n + 1) * f[x] = n * f[x] + f[x]
      OBVIOUS
    <3>2. QED
      BY <3>1
  <2>3. times(n) \in [S -> Nat]
    BY <1>1
  <2> HIDE DEF times, wrong
  <2>4. Total(times(n + 1)) = Total(times(n)) + Total(f)
    BY <2>2, <2>3, TotalOfSum
  <2>5. Total(times(n + 1)) = (n + 1) * Total(f)
    BY <1>2, <2>1, <2>4
  <2>6. QED
    BY <2>5 DEF wrong
<1>5. wrong = {}
  <2>1. wrong \subseteq Nat
    OBVIOUS
  <2> HIDE DEF wrong
  <2>2. SUFFICES ASSUME wrong # {}
                 PROVE  FALSE
    OBVIOUS
  <2>3. PICK n \in wrong : \A m \in wrong : n <= m
    BY <2>1, <2>2, LeastNumber
  <2>4. n \in Nat /\ n # 0 /\ n - 1 \in Nat /\ n = (n - 1) + 1
    BY <1>3, <2>1, <2>3
  <2>5. n - 1 \notin wrong
    BY <2>1, <2>3, <2>4
  <2>6. QED
    BY <1>4, <2>3, <2>4, <2>5
<1>6. QED
  BY <1>5

\* A sum over pairs that have one second element is over the first ones.
LEMMA TotalOfPairs ==
    ASSUME NEW S, IsFiniteSet(S), NEW y, NEW f \in [S \X {y} -> Nat]
    PROVE  Total(f) = Total([x \in S |-> f[<<x, y>>]])
<1> DEFINE N == S \X {y}
           first == [t \in N |-> t[1]]
<1>1. IsFiniteSet(N) /\ first \in [N -> S] /\ f \in [N -> Nat]
  <2>1. IsFiniteSet({y})
    BY FS_Singleton
  <2>2. QED
    BY <2>1, FS_Product
<1>2. ASSUME NEW x \in S
      PROVE  Total(Part(f, N, first, x)) = f[<<x, y>>]
  <2> DEFINE part == Part(f, N, first, x)
  <2>1. {t \in N : first[t] = x} = {<<x, y>>} /\ f[<<x, y>>] \in Nat
    OBVIOUS
  <2>2. DOMAIN part = {<<x, y>>} /\ part[<<x, y>>] = f[<<x, y>>]
    BY <2>1 DEF Part
  <2> HIDE DEF part
  <2>3. QED
    BY <2>1, <2>2, TotalOfOne DEF part
<1> HIDE DEF N, first
<1>3. Total([x \in S |-> Total(Part(f, N, first, x))]) = Total(f)
  BY <1>1, TotalByKey
<1>4. [x \in S |-> Total(Part(f, N, first, x))] = [x \in S |-> f[<<x, y>>]]
  BY <1>2
<1>5. QED
  BY <1>3, <1>4

\* What h gives an element is what the pairs of T that it is in give it: a as
\* their first element, b as their second.
ByEnds(h, P, T, a, b) ==
    /\ \A t \in T : t[1] # t[2]
    /\ \A i \in P :
          h[i] = Total([t \in {t \in T : i \in {t[1], t[2]}} |->
                           IF t[1] = i THEN a[t] ELSE b[t]])

LEMMA TotalByEnds ==
    ASSUME NEW P, IsFiniteSet(P), NEW T \in SUBSET (P \X P),
           NEW a \in [T -> Nat], NEW b \in [T -> Nat], NEW h \in [P -> Nat],
           ByEnds(h, P, T, a, b)
    PROVE  Total(h) = Total([t \in T |-> a[t] + b[t]])
<1> DEFINE first == [t \in T |-> t[1]]
           second == [t \in T |-> t[2]]
           fromA == [i \in P |-> Total(Part(a, T, first, i))]
           fromB == [i \in P |-> Total(Part(b, T, second, i))]
<1>1. IsFiniteSet(T) /\ first \in [T -> P] /\ second \in [T -> P]
  BY FS_Product, FS_Subset
<1>2. Total(fromA) = Total(a) /\ Total(fromB) = Total(b)
  <2> HIDE DEF first, second
  <2>1. \A g \in [T -> Nat], key \in [T -> P] :
           Total([i \in P |-> Total(Part(g, T, key, i))]) = Total(g)
    <3> SUFFICES ASSUME NEW g \in [T -> Nat], NEW key \in [T -> P]
                 PROVE  Total([i \in P |-> Total(Part(g, T, key, i))]) = Total(g)
      OBVIOUS
    <3> HIDE DEF fromA, fromB
    <3>1. IsFiniteSet(T)
      BY <1>1
    <3>2. QED
      BY <3>1, TotalByKey
  <2>2. Total([i \in P |-> Total(Part(a, T, first, i))]) = Total(a)
        /\ Total([i \in P |-> Total(Part(b, T, second, i))]) = Total(b)
    BY <1>1, <2>1
  <2>3. QED
    BY <2>1, <2>2
<1>3. fromA \in [P -> Nat] /\ fromB \in [P -> Nat]
  <2> SUFFICES ASSUME NEW i \in P
               PROVE  Total(Part(a, T, first, i)) \in Nat
                      /\ Total(Part(b, T, second, i)) \in Nat
    OBVIOUS
  <2> DEFINE x == Part(a, T, first, i)
             y == Part(b, T, second, i)
  <2> HIDE DEF first, second
  <2>1. IsFiniteSet(DOMAIN x) /\ \A t \in DOMAIN x : x[t] \in Int
    BY <1>1, FS_Subset DEF Part
  <2>2. IsFiniteSet(DOMAIN y) /\ \A t \in DOMAIN y : y[t] \in Int
    BY <1>1, FS_Subset DEF Part
  <2> HIDE DEF x, y
  <2>3. Total(x) \in Nat /\ Total(y) \in Nat
    BY <2>1, <2>2, TotalType
  <2>4. QED
    BY <2>3 DEF x, y
<1>4. ASSUME NEW i \in P
      PROVE  h[i] = fromA[i] + fromB[i]
  <2> DEFINE A == {t \in T : first[t] = i}
             B == {t \in T : second[t] = i}
             f == [t \in {t \in T : i \in {t[1], t[2]}} |->
                      IF t[1] = i THEN a[t] ELSE b[t]]
  <2>1. DOMAIN f = A \cup B /\ A \cap B = {} /\ \A t \in DOMAIN f : f[t] \in Int
    BY DEF ByEnds
  <2>2. IsFiniteSet(DOMAIN f)
    BY <1>1, FS_Subset
  <2>3. [t \in A |-> f[t]] = Part(a, T, first, i)
    BY DEF Part
  <2>4. [t \in B |-> f[t]] = Part(b, T, second, i)
    <3>1. \A t \in B : t[1] # i /\ t \in DOMAIN f
      BY <2>1
    <3>2. \A t \in B : f[t] = b[t]
      BY <3>1
    <3>3. QED
      BY <3>2 DEF Part
  <2>5. h[i] = Total(f)
    BY DEF ByEnds
  <2> HIDE DEF A, B, f, first, second
  <2>6. Total(f) = Total([t \in A |-> f[t]]) + Total([t \in B |-> f[t]])
    BY <2>1, <2>2, TotalOfUnion
  <2>7. QED
    BY <2>3, <2>4, <2>5, <2>6
<1>5. Total([i \in P |-> fromA[i] + fromB[i]]) = Total(fromA) + Total(fromB)
  <2> HIDE DEF fromA, fromB
  <2>1. QED
    BY <1>3, TotalOfSum
<1>6. h = [i \in P |-> fromA[i] + fromB[i]]
  BY <1>4
<1>7. Total([t \in T |-> a[t] + b[t]]) = Total(a) + Total(b)
  BY <1>1, TotalOfSum
<1>8. QED
  BY <1>2, <1>5, <1>6, <1>7
=============================================================================
