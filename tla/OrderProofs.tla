---------------------------- MODULE OrderProofs -----------------------------
(***************************************************************************)
(* Proofs about orders: the amounts of an order (OrderAmounts), for every  *)
(* size and every price that passes PriceValid; market orders priced from  *)
(* a book of any length, with any prices and sizes (MarketOrder); and the  *)
(* creation of orders by any number of goroutines that share the parameter *)
(* caches (ClientOrders).                                                  *)
(***************************************************************************)
EXTENDS MarketOrder, ClientOrders, FiniteSetTheorems, SequenceTheorems, TLAPS

(***************************************************************************)
(* Division with remainder.                                                *)
(***************************************************************************)
LEMMA DivMod ==
  ASSUME NEW n \in Nat, NEW p \in Nat \ {0}
  PROVE  /\ n \div p \in Nat /\ n % p \in 0..(p - 1)
         /\ n = p * (n \div p) + (n % p)
  OBVIOUS

(***************************************************************************)
(* Dividing a number below b * c by b gives a quotient below c.            *)
(***************************************************************************)
LEMMA SmallQuotient ==
  ASSUME NEW a \in Nat, NEW b \in Nat \ {0}, NEW c \in Nat, a < b * c
  PROVE  a \div b < c
<1> DEFINE q == a \div b
<1>1. q \in Nat /\ a % b \in 0..(b - 1) /\ a = b * q + (a % b)
  BY DivMod
<1> HIDE DEF q
<1>2. b * q < b * c
  BY <1>1
<1>3. ASSUME q >= c PROVE FALSE
  <2>1. PICK e \in Nat : q = c + e
    BY <1>1, <1>3
  <2>2. b * q = b * c + b * e /\ b * e \in Nat
    BY <2>1
  <2> QED BY <2>2, <1>2, <1>1
<1> QED BY <1>1, <1>3 DEF q

(***************************************************************************)
(* Rounding up four decimals further and then down is rounding down, for   *)
(* every tick size: a remainder of at most 9999 / 10000 is never carried   *)
(* over (GetMarketOrderRawAmounts, for a price with up to four decimals).  *)
(***************************************************************************)
LEMMA RoundAmountIsFloor ==
  ASSUME NEW n \in Nat, NEW p \in 1..Finer
  PROVE  RoundAmount(n, p) = n \div p
<1> DEFINE r == n % p
<1> DEFINE k == r * Finer + p - 1
<1>0. p \in Nat \ {0} /\ p <= Finer /\ Finer \in Nat \ {0}
  BY DEF Finer
<1>1. r \in 0..(p - 1) /\ n \div p \in Nat
  BY <1>0
<1> HIDE DEF r
<1>2. k \in Nat /\ k < p * Finer
  BY <1>0, <1>1 DEF Finer
<1> HIDE DEF k
<1>3. k \div p \in Nat
  BY <1>0, <1>2
<1>4. k \div p < Finer
  <2>1. \A a \in Nat, b \in Nat \ {0}, c \in Nat : a < b * c => a \div b < c
    BY SmallQuotient
  <2> QED BY <1>0, <1>2, <2>1, Zenon
<1>5. (k \div p) \div Finer = 0
  BY <1>3, <1>4 DEF Finer
<1>6. RoundAmount(n, p) = n \div p + (k \div p) \div Finer
  BY DEF RoundAmount, CeilDiv, r, k
<1> QED BY <1>1, <1>5, <1>6

-----------------------------------------------------------------------------
(***************************************************************************)
(* What is known of the order, with its amounts once they are computed.    *)
(***************************************************************************)
OrderOK ==
  /\ kind \in {"limit", "market"} /\ side \in {"BUY", "SELL"}
  /\ d \in 1..4 /\ size \in Nat
  /\ price \in Nat /\ 10 <= price /\ price <= One - 10
  /\ built \in BOOLEAN

AmountsInv == OrderOK /\ SizeAsAsked /\ AmountsMeanPrice

LEMMA InitAmounts == Init => AmountsInv
<1> SUFFICES ASSUME Init PROVE AmountsInv
  OBVIOUS
<1>1. d \in 1..4 /\ size \in Nat /\ built = FALSE
  BY DecimalsAssumption, SizesAssumption DEF Init
<1>2. One \in {100, 1000, 10000, 100000}
  BY <1>1 DEF One
<1>3. price \in Int /\ 10 <= price /\ price <= One - 10
  BY SizesAssumption, <1>2 DEF Init, Tick
<1>4. kind \in {"limit", "market"} /\ side \in {"BUY", "SELL"} /\ price \in Nat
  BY <1>3 DEF Init
<1>5. built \in BOOLEAN
  BY <1>1, Zenon
<1>6. OrderOK
  BY <1>1, <1>3, <1>4, <1>5, Zenon DEF OrderOK
<1> QED BY <1>1, <1>6 DEF AmountsInv, SizeAsAsked, UsedAsIs, AmountsMeanPrice

(***************************************************************************)
(* The rounded size, the rounded prices and the scale.                     *)
(***************************************************************************)
LEMMA Rounded ==
  ASSUME OrderOK
  PROVE  /\ RoundDown(size) \in Nat
         /\ RoundDown(size) * 10 <= size /\ size - RoundDown(size) * 10 < 10
         /\ RoundDown(price) \in 1..Finer
         /\ RoundNormal(price) \in ((price - 5) \div 10)..((price + 5) \div 10)
         /\ 10 * RoundNormal(price) - price \in -5..5
         /\ Scale \in Nat
<1>1. One \in {100, 1000, 10000, 100000} /\ Scale \in Nat
  BY DEF OrderOK, One, Scale
<1> QED BY <1>1 DEF OrderOK, RoundDown, RoundNormal, Finer

LEMMA BuildAmounts ==
  ASSUME OrderOK, Build
  PROVE  OrderOK' /\ SizeAsAsked' /\ AmountsMeanPrice'
<1> DEFINE s == RoundDown(size)
<1> DEFINE p == RoundDown(price)
<1>1. OrderOK'
  BY DEF OrderOK, Build, One
<1>2. /\ s \in Nat /\ s * 10 <= size /\ size - s * 10 < 10
      /\ p \in 1..Finer /\ Scale \in Nat
  BY Rounded
<1>3. UNCHANGED <<kind, side, d, size, price, balance, Scale>>
  BY DEF Build, Scale
<1>a. kind \in {"limit", "market"} /\ side \in {"BUY", "SELL"} /\ size \in Nat /\ price \in Nat
  BY DEF OrderOK
<1>4. CASE kind = "limit"
  <2> DEFINE t == RoundNormal(price)
  <2>1. IF side = "BUY" THEN maker' = s * t /\ taker' = s ELSE maker' = s /\ taker' = s * t
    BY <1>4 DEF Build, GetOrderRawAmounts
  <2>2. t \in ((price - 5) \div 10)..((price + 5) \div 10) /\ 10 * t - price \in -5..5
    BY Rounded
  <2> HIDE DEF s, t
  <2>3. SizeAsAsked'
    BY <1>a, <1>2, <1>3, <1>4, <2>1 DEF SizeAsAsked, UsedAsIs
  <2>4. AmountsMeanPrice'
    <3>1. \E k \in ((price' - 5) \div 10)..((price' + 5) \div 10) :
            /\ 10 * k - price' \in -5..5
            /\ IF side' = "BUY" THEN maker' = taker' * k ELSE taker' = maker' * k
      BY <1>3, <2>1, <2>2
    <3> QED BY <1>3, <1>4, <3>1, Zenon DEF AmountsMeanPrice
  <2> QED BY <1>1, <2>3, <2>4
<1>5. CASE kind = "market"
  <2>1. /\ maker' = s
        /\ taker' = IF side = "BUY" THEN RoundAmount(s * Scale, p) ELSE s * p
    BY <1>5 DEF Build, GetMarketOrderRawAmounts
  <2> DEFINE e == s * Scale
  <2>2. e \in Nat /\ p \in Nat \ {0} /\ p = price' \div 10
    <3>1. p = price' \div 10
      BY <1>3 DEF RoundDown
    <3> HIDE DEF s, p
    <3>2. e \in Nat /\ p \in Nat \ {0}
      BY <1>2 DEF Finer
    <3> QED BY <3>1, <3>2
  <2>3. RoundAmount(e, p) = e \div p
    <3> HIDE DEF e, s, p
    <3>1. \A n \in Nat, k \in 1..Finer : RoundAmount(n, k) = n \div k
      BY RoundAmountIsFloor
    <3> QED BY <1>2, <2>2, <3>1, Zenon
  <2>4. /\ e \div p \in Nat /\ (e % p) \in 0..(p - 1)
        /\ e = p * (e \div p) + (e % p)
    <3> HIDE DEF e, s, p
    <3> QED BY <2>2, DivMod, Zenon
  <2> HIDE DEF s, p
  <2>5. SizeAsAsked'
    BY <1>a, <1>2, <1>3, <1>5, <2>1 DEF SizeAsAsked, UsedAsIs
  <2>6. CASE side = "BUY"
    <3> DEFINE q == e \div p
    <3>1. taker' = q /\ maker' * Scale' = e
      BY <1>3, <2>1, <2>3, <2>6
    <3> DEFINE m == e % p
    <3>2. q \in Nat /\ m \in 0..(p - 1) /\ e = p * q + m
      BY <2>4
    <3> HIDE DEF e, q, m
    <3>3. q * p <= e /\ e - q * p < p
      BY <2>2, <3>2
    <3> QED BY <1>1, <1>3, <1>5, <2>2, <2>5, <2>6, <3>1, <3>3 DEF AmountsMeanPrice
  <2>7. CASE side = "SELL"
    BY <1>1, <1>3, <1>5, <2>1, <2>2, <2>5, <2>7 DEF AmountsMeanPrice
  <2> QED BY <1>a, <2>6, <2>7
<1> QED BY <1>a, <1>4, <1>5

LEMMA NextAmounts == AmountsInv /\ [Next]_vars => AmountsInv'
<1> SUFFICES ASSUME AmountsInv, [Next]_vars PROVE AmountsInv'
  OBVIOUS
<1>1. CASE Build
  BY <1>1, BuildAmounts DEF AmountsInv
<1>2. CASE UNCHANGED vars
  BY <1>2 DEF vars, AmountsInv, OrderOK, SizeAsAsked, UsedAsIs, AmountsMeanPrice, One, Scale
<1> QED BY <1>1, <1>2 DEF Next

(***************************************************************************)
(* No order is for more than was asked, whatever its size, price and tick  *)
(* size (GetOrderRawAmounts, GetMarketOrderRawAmounts).                    *)
(***************************************************************************)
THEOREM NeverMoreThanAsked == Spec => []SizeAsAsked
<1>1. AmountsInv => SizeAsAsked
  BY DEF AmountsInv
<1> QED BY InitAmounts, NextAmounts, <1>1, PTL DEF Spec

(***************************************************************************)
(* The amounts of every order mean its rounded price, and a buyer at       *)
(* market is never promised more shares than its money pays for: the       *)
(* rounding up in GetMarketOrderRawAmounts never shows.                    *)
(***************************************************************************)
THEOREM AmountsFollowPrice == Spec => []AmountsMeanPrice
<1>1. AmountsInv => AmountsMeanPrice
  BY DEF AmountsInv
<1> QED BY InitAmounts, NextAmounts, <1>1, PTL DEF Spec
-----------------------------------------------------------------------------
(***************************************************************************)
(* Induction over numbers, stated with a set instead of a predicate.       *)
(***************************************************************************)
LEMMA LeastNumber ==
  ASSUME NEW T \in SUBSET Nat, T # {}
  PROVE  \E n \in T : \A m \in T : n <= m
<1>1. IsWellFoundedOn(OpToRel(<, Nat), Nat)
  BY NatLessThanWellFounded, Zenon
<1>2. PICK n \in T : \A m \in T : ~(<<m, n>> \in OpToRel(<, Nat))
  BY <1>1, WFMin, Zenon
<1>3. \A m \in T : ~(m < n)
  BY <1>2 DEF OpToRel
<1>4. QED
  BY <1>3

LEMMA InductionUpTo ==
  ASSUME NEW N \in Nat, NEW T, 0 \in T, \A n \in 1..N : n - 1 \in T => n \in T
  PROVE  \A n \in 0..N : n \in T
<1> DEFINE U == (0..N) \ T
<1>1. SUFFICES ASSUME U # {} PROVE FALSE
  OBVIOUS
<1>2. U \in SUBSET Nat
  OBVIOUS
<1>3. PICK n \in U : \A m \in U : n <= m
  BY <1>1, <1>2, LeastNumber
<1>4. n \in 1..N /\ n - 1 \in 0..N
  BY <1>3
<1>5. n - 1 \in T
  BY <1>3, <1>4
<1>6. QED
  BY <1>3, <1>4, <1>5

-----------------------------------------------------------------------------
(***************************************************************************)
(* Sums over the subsets of a finite set, as MapThenSumSet computes them:  *)
(* an element is chosen and its weight added to the sum of the others.     *)
(***************************************************************************)
Chosen(s) == CHOOSE x \in s : TRUE

SumOf(F, w, s) == IF s = {} THEN 0 ELSE w[Chosen(s)] + F[s \ {Chosen(s)}]

Sums(F, L, w) == F = [s \in SUBSET L |-> SumOf(F, w, s)]

AnyOrder(F, L, w) == \A s \in SUBSET L : \A x \in s : F[s] = w[x] + F[s \ {x}]

SmallSubsets(L, n) == {s \in SUBSET L : Cardinality(s) <= n}

LEMMA SubsetFacts ==
  ASSUME NEW L, IsFiniteSet(L), NEW s \in SUBSET L
  PROVE  /\ IsFiniteSet(s) /\ Cardinality(s) \in Nat /\ Cardinality(s) <= Cardinality(L)
         /\ (Cardinality(s) = 0 <=> s = {})
         /\ \A x \in s : s \ {x} \in SUBSET L /\ Cardinality(s \ {x}) = Cardinality(s) - 1
<1>1. IsFiniteSet(s) /\ Cardinality(s) <= Cardinality(L)
  BY FS_Subset
<1>2. Cardinality(s) \in Nat
  BY <1>1, FS_CardinalityType
<1>3. Cardinality(s) = 0 <=> s = {}
  BY <1>1, FS_EmptySet
<1>4. \A x \in s : Cardinality(s \ {x}) = Cardinality(s) - 1
  BY <1>1, FS_RemoveElement
<1>5. QED
  BY <1>1, <1>2, <1>3, <1>4

LEMMA SumsExist ==
  ASSUME NEW L, IsFiniteSet(L), NEW w \in [L -> Nat]
  PROVE  \E F : Sums(F, L, w)
<1> DEFINE N == Cardinality(L)
           Upto(n) == \E F \in [SmallSubsets(L, n) -> Nat] : \A s \in SmallSubsets(L, n) : F[s] = SumOf(F, w, s)
           T == {n \in 0..N : Upto(n)}
<1>1. N \in Nat
  BY FS_CardinalityType
<1>2. \A s \in SUBSET L : s # {} => Chosen(s) \in s /\ w[Chosen(s)] \in Nat
  BY DEF Chosen
<1>3. Upto(0)
  <2> DEFINE F == [s \in SmallSubsets(L, 0) |-> 0]
  <2>1. \A s \in SmallSubsets(L, 0) : s = {}
    <3>1. \A s \in SUBSET L : Cardinality(s) \in Nat /\ (Cardinality(s) = 0 <=> s = {})
      BY SubsetFacts
    <3>2. QED
      BY <3>1 DEF SmallSubsets
  <2>2. F \in [SmallSubsets(L, 0) -> Nat] /\ \A s \in SmallSubsets(L, 0) : F[s] = SumOf(F, w, s)
    BY <2>1 DEF SumOf
  <2> HIDE DEF F
  <2>3. QED
    BY <2>2
<1>4. ASSUME NEW n \in 1..N, Upto(n - 1)
      PROVE  Upto(n)
  <2>1. PICK F \in [SmallSubsets(L, n - 1) -> Nat] : \A s \in SmallSubsets(L, n - 1) : F[s] = SumOf(F, w, s)
    BY <1>4
  <2> DEFINE G == [s \in SmallSubsets(L, n) |-> SumOf(F, w, s)]
  <2>2. ASSUME NEW s \in SmallSubsets(L, n)
        PROVE  /\ s = {} \/ (s # {} /\ Chosen(s) \in s /\ w[Chosen(s)] \in Nat /\ s \ {Chosen(s)} \in SmallSubsets(L, n - 1))
               /\ SumOf(F, w, s) \in Nat
    <3>1. s \in SUBSET L /\ Cardinality(s) <= n /\ Cardinality(s) \in Nat
      BY SubsetFacts DEF SmallSubsets
    <3>2. CASE s = {}
      BY <3>2 DEF SumOf
    <3>3. CASE s # {}
      <4>1. Chosen(s) \in s /\ w[Chosen(s)] \in Nat
        BY <1>2, <3>1, <3>3
      <4>2. s \ {Chosen(s)} \in SUBSET L /\ Cardinality(s \ {Chosen(s)}) = Cardinality(s) - 1
        BY <3>1, <4>1, SubsetFacts
      <4>3. s \ {Chosen(s)} \in SmallSubsets(L, n - 1)
        BY <3>1, <4>2 DEF SmallSubsets
      <4>4. F[s \ {Chosen(s)}] \in Nat
        BY <4>3
      <4>5. SumOf(F, w, s) \in Nat
        BY <3>3, <4>1, <4>4 DEF SumOf
      <4>6. QED
        BY <3>3, <4>1, <4>3, <4>5
    <3>4. QED
      BY <3>2, <3>3
  <2>3. G \in [SmallSubsets(L, n) -> Nat]
    BY <2>2
  <2>4. \A s \in SmallSubsets(L, n - 1) : s \in SmallSubsets(L, n) /\ G[s] = F[s]
    <3>1. \A s \in SmallSubsets(L, n - 1) : s \in SmallSubsets(L, n)
      <4>1. \A s \in SUBSET L : Cardinality(s) \in Nat
        BY SubsetFacts
      <4>2. QED
        BY <4>1 DEF SmallSubsets
    <3>2. QED
      BY <2>1, <3>1
  <2>5. ASSUME NEW s \in SmallSubsets(L, n)
        PROVE  G[s] = SumOf(G, w, s)
    <3>1. G[s] = SumOf(F, w, s)
      OBVIOUS
    <3> HIDE DEF G
    <3>2. s # {} => G[s \ {Chosen(s)}] = F[s \ {Chosen(s)}]
      BY <2>2, <2>4
    <3>3. QED
      BY <3>1, <3>2 DEF SumOf
  <2> HIDE DEF G
  <2>6. QED
    BY <2>3, <2>5
<1> HIDE DEF Upto
<1>5. 0 \in T
  BY <1>1, <1>3
<1>6. \A n \in 1..N : n - 1 \in T => n \in T
  BY <1>1, <1>4
<1>7. Upto(N)
  <2> HIDE DEF T
  <2>1. \A n \in 0..N : n \in T
    BY <1>1, <1>5, <1>6, InductionUpTo
  <2>2. N \in T
    BY <1>1, <2>1
  <2>3. QED
    BY <2>2 DEF T
<1>8. SmallSubsets(L, N) = SUBSET L
  BY SubsetFacts DEF SmallSubsets
<1>9. PICK F \in [SUBSET L -> Nat] : \A s \in SUBSET L : F[s] = SumOf(F, w, s)
  BY <1>7, <1>8 DEF Upto
<1>10. Sums(F, L, w)
  BY <1>9 DEF Sums
<1>11. QED
  BY <1>10
LEMMA SumsTyped ==
  ASSUME NEW L, IsFiniteSet(L), NEW w \in [L -> Nat], NEW F, Sums(F, L, w)
  PROVE  F[{}] = 0 /\ \A s \in SUBSET L : F[s] \in Nat
<1> DEFINE N == Cardinality(L)
           T == {n \in 0..N : \A s \in SUBSET L : Cardinality(s) = n => F[s] \in Nat}
<1>1. N \in Nat
  BY FS_CardinalityType
<1>2. \A s \in SUBSET L : F[s] = SumOf(F, w, s)
  BY DEF Sums
<1>3. F[{}] = 0
  BY <1>2 DEF SumOf
<1>4. 0 \in T
  <2>1. \A s \in SUBSET L : Cardinality(s) = 0 => s = {}
    BY SubsetFacts
  <2>2. QED
    BY <1>1, <1>3, <2>1
<1>5. ASSUME NEW n \in 1..N, n - 1 \in T
      PROVE  n \in T
  <2>1. SUFFICES ASSUME NEW s \in SUBSET L, Cardinality(s) = n PROVE F[s] \in Nat
    BY <1>1
  <2>2. s # {} /\ \A x \in s : s \ {x} \in SUBSET L /\ Cardinality(s \ {x}) = n - 1
    BY <1>1, <2>1, SubsetFacts
  <2> DEFINE y == Chosen(s)
  <2>3. y \in s
    BY <2>2 DEF Chosen
  <2>4. F[s] = w[y] + F[s \ {y}]
    BY <1>2, <2>2 DEF SumOf
  <2> HIDE DEF y
  <2>5. w[y] \in Nat /\ F[s \ {y}] \in Nat
    BY <1>5, <2>2, <2>3
  <2>6. QED
    BY <2>4, <2>5
<1> HIDE DEF T
<1>6. \A n \in 0..N : n \in T
  BY <1>1, <1>4, <1>5, InductionUpTo
<1>7. ASSUME NEW s \in SUBSET L
      PROVE  F[s] \in Nat
  <2>1. Cardinality(s) \in 0..N
    BY <1>1, SubsetFacts
  <2>2. Cardinality(s) \in T
    BY <1>6, <2>1
  <2>3. QED
    BY <2>2 DEF T
<1>8. QED
  BY <1>3, <1>7

(***************************************************************************)
(* Any element may be added last: the choice does not matter.              *)
(***************************************************************************)
LEMMA SumsAnyOrder ==
  ASSUME NEW L, IsFiniteSet(L), NEW w \in [L -> Nat], NEW F, Sums(F, L, w)
  PROVE  AnyOrder(F, L, w)
<1> DEFINE N == Cardinality(L)
           Good(s) == \A x \in s : F[s] = w[x] + F[s \ {x}]
           T == {n \in 0..N : \A s \in SUBSET L : Cardinality(s) = n => Good(s)}
<1>1. N \in Nat
  BY FS_CardinalityType
<1>2. \A s \in SUBSET L : F[s] = SumOf(F, w, s) /\ F[s] \in Nat
  BY SumsTyped DEF Sums
<1>3. 0 \in T
  <2>1. \A s \in SUBSET L : Cardinality(s) = 0 => s = {}
    BY SubsetFacts
  <2>2. QED
    BY <1>1, <2>1
<1>4. ASSUME NEW n \in 1..N, n - 1 \in T
      PROVE  n \in T
  <2>1. SUFFICES ASSUME NEW s \in SUBSET L, Cardinality(s) = n PROVE Good(s)
    BY <1>1
  <2>2. s # {} /\ \A x \in s : s \ {x} \in SUBSET L /\ Cardinality(s \ {x}) = n - 1
    BY <1>1, <2>1, SubsetFacts
  <2> DEFINE y == Chosen(s)
  <2>3. y \in s
    BY <2>2 DEF Chosen
  <2>4. F[s] = w[y] + F[s \ {y}]
    BY <1>2, <2>2 DEF SumOf
  <2> HIDE DEF y
  <2>5. \A x \in s : w[x] \in Nat /\ Good(s \ {x})
    BY <1>4, <2>2
  <2>6. ASSUME NEW x \in s, x # y
        PROVE  F[s] = w[x] + F[s \ {x}]
    <3> DEFINE r == F[(s \ {y}) \ {x}]
    <3>1. x \in s \ {y} /\ y \in s \ {x} /\ (s \ {y}) \ {x} = (s \ {x}) \ {y}
      BY <2>3, <2>6
    <3>2. F[s \ {y}] = w[x] + r
      BY <2>3, <2>5, <3>1
    <3>3. F[s \ {x}] = w[y] + r
      BY <2>5, <3>1
    <3>4. r \in Nat /\ w[x] \in Nat /\ w[y] \in Nat
      BY <1>2, <2>3, <2>5
    <3> HIDE DEF r
    <3>5. QED
      BY <2>4, <3>2, <3>3, <3>4
  <2>7. QED
    BY <2>4, <2>6
<1> HIDE DEF T
<1>5. \A n \in 0..N : n \in T
  BY <1>1, <1>3, <1>4, InductionUpTo
<1>6. ASSUME NEW s \in SUBSET L
      PROVE  Good(s)
  <2>1. Cardinality(s) \in 0..N
    BY <1>1, SubsetFacts
  <2>2. Cardinality(s) \in T
    BY <1>5, <2>1
  <2>3. QED
    BY <2>2 DEF T
<1>7. QED
  BY <1>6 DEF AnyOrder

LEMMA SumsMonotone ==
  ASSUME NEW L, IsFiniteSet(L), NEW w \in [L -> Nat], NEW F, Sums(F, L, w),
         NEW r \in SUBSET L
  PROVE  \A s \in SUBSET L : r \subseteq s => F[r] <= F[s]
<1> DEFINE N == Cardinality(L)
           T == {n \in 0..N : \A s \in SUBSET L : Cardinality(s) = n /\ r \subseteq s => F[r] <= F[s]}
<1>1. N \in Nat
  BY FS_CardinalityType
<1>2. \A s \in SUBSET L : F[s] \in Nat /\ \A x \in s : F[s] = w[x] + F[s \ {x}]
  BY SumsTyped, SumsAnyOrder DEF AnyOrder
<1>3. 0 \in T
  <2>1. \A s \in SUBSET L : Cardinality(s) = 0 => s = {}
    BY SubsetFacts
  <2>2. \A s \in SUBSET L : Cardinality(s) = 0 /\ r \subseteq s => r = s
    BY <2>1
  <2>3. QED
    BY <1>1, <1>2, <2>2
<1>4. ASSUME NEW n \in 1..N, n - 1 \in T
      PROVE  n \in T
  <2>1. SUFFICES ASSUME NEW s \in SUBSET L, Cardinality(s) = n, r \subseteq s PROVE F[r] <= F[s]
    BY <1>1
  <2>2. CASE r = s
    BY <1>2, <2>2
  <2>3. CASE r # s
    <3>1. PICK x \in s : x \notin r
      BY <2>1, <2>3
    <3>2. s \ {x} \in SUBSET L /\ Cardinality(s \ {x}) = n - 1 /\ r \subseteq s \ {x}
      BY <2>1, <3>1, SubsetFacts
    <3>3. F[r] <= F[s \ {x}]
      BY <1>4, <3>2
    <3>4. F[s] = w[x] + F[s \ {x}] /\ F[s \ {x}] \in Nat /\ w[x] \in Nat /\ F[r] \in Nat
      BY <1>2, <3>1, <3>2
    <3>5. QED
      BY <3>3, <3>4
  <2>4. QED
    BY <2>2, <2>3
<1> HIDE DEF T
<1>5. \A n \in 0..N : n \in T
  BY <1>1, <1>3, <1>4, InductionUpTo
<1>6. ASSUME NEW s \in SUBSET L, r \subseteq s
      PROVE  F[r] <= F[s]
  <2>1. Cardinality(s) \in 0..N
    BY <1>1, SubsetFacts
  <2>2. Cardinality(s) \in T
    BY <1>5, <2>1
  <2>3. QED
    BY <1>6, <2>2 DEF T
<1>7. QED
  BY <1>6

(***************************************************************************)
(* The sums over the subsets of a smaller set are the same.                *)
(***************************************************************************)
Agree(F, G, M) == \A s \in SUBSET M : G[s] = F[s]

LEMMA SumsAgree ==
  ASSUME NEW L, IsFiniteSet(L), NEW w \in [L -> Nat], NEW F, Sums(F, L, w),
         NEW M \in SUBSET L, NEW v \in [M -> Nat], \A x \in M : v[x] = w[x], NEW G, Sums(G, M, v)
  PROVE  Agree(F, G, M)
<1> DEFINE N == Cardinality(M)
           T == {n \in 0..N : \A s \in SUBSET M : Cardinality(s) = n => G[s] = F[s]}
<1>1. IsFiniteSet(M) /\ N \in Nat
  BY FS_Subset, FS_CardinalityType
<1>2. G[{}] = 0 /\ F[{}] = 0
  BY <1>1, SumsTyped
<1>3. \A s \in SUBSET M : \A x \in s : G[s] = v[x] + G[s \ {x}] /\ F[s] = w[x] + F[s \ {x}]
  <2>1. AnyOrder(G, M, v) /\ AnyOrder(F, L, w)
    BY <1>1, SumsAnyOrder
  <2>2. ASSUME NEW s \in SUBSET M, NEW x \in s
        PROVE  G[s] = v[x] + G[s \ {x}] /\ F[s] = w[x] + F[s \ {x}]
    BY <2>1 DEF AnyOrder
  <2>3. QED
    BY <2>2
<1>4. 0 \in T
  <2>1. \A s \in SUBSET M : Cardinality(s) = 0 => s = {}
    BY <1>1, SubsetFacts
  <2>2. QED
    BY <1>1, <1>2, <2>1
<1>5. ASSUME NEW n \in 1..N, n - 1 \in T
      PROVE  n \in T
  <2>1. SUFFICES ASSUME NEW s \in SUBSET M, Cardinality(s) = n PROVE G[s] = F[s]
    BY <1>1
  <2>2. s # {} /\ \A x \in s : s \ {x} \in SUBSET M /\ Cardinality(s \ {x}) = n - 1
    BY <1>1, <2>1, SubsetFacts
  <2>3. PICK x \in s : TRUE
    BY <2>2
  <2>4. G[s \ {x}] = F[s \ {x}] /\ v[x] = w[x]
    BY <1>5, <2>2, <2>3
  <2>5. QED
    BY <1>3, <2>3, <2>4
<1> HIDE DEF T
<1>6. \A n \in 0..N : n \in T
  BY <1>1, <1>4, <1>5, InductionUpTo
<1>7. ASSUME NEW s \in SUBSET M
      PROVE  G[s] = F[s]
  <2>1. Cardinality(s) \in 0..N
    BY <1>1, SubsetFacts
  <2>2. Cardinality(s) \in T
    BY <1>6, <2>1
  <2>3. QED
    BY <2>2 DEF T
<1>8. QED
  BY <1>7 DEF Agree

-----------------------------------------------------------------------------
(***************************************************************************)
(* Orders priced from the book.  total[k] is what the levels from k to the *)
(* best one offer.  The walk adds them in that order, so its invariant is  *)
(* said of a function that adds them up in the same way; that Depth is     *)
(* such a function is DepthFacts below.                                    *)
(***************************************************************************)
AddsUp(total) ==
  /\ total \in [1..(Len(books) + 1) -> Nat]
  /\ total[Len(books) + 1] = 0
  /\ \A k \in 1..Len(books) : total[k] = total[k + 1] + Filled(books[k])

(***************************************************************************)
(* The walk ended at the first level with which the amount is reached, or  *)
(* reached it nowhere: BestSufficientPrice for these totals.               *)
(***************************************************************************)
BestFor(total) ==
  walk \in {"done", "failed"} /\ books # <<>> =>
    \/ \E k \in 1..Len(books) :
         /\ price = books[k].price
         /\ Reaches(total[k], size)
         /\ k < Len(books) => NotEnough(total[k + 1], k + 1)
    \/ /\ NotEnough(total[1], 1)
       /\ price = IF orderType = "FOK" THEN Unset ELSE books[1].price

(***************************************************************************)
(* What the order gives is reached with levels that all satisfy its price: *)
(* MarketOrderFills for these totals.                                      *)
(***************************************************************************)
FilledFor(total) ==
  built /\ walk = "done" /\ orderType = "FOK" /\ OnTick =>
    \E k \in 1..Len(books) :
      /\ \A j \in k..Len(books) : Acceptable(books[j])
      /\ Reaches(total[k], maker * 10)

(***************************************************************************)
(* The book, the loop over it, and what is known of the order meanwhile.   *)
(***************************************************************************)
LevelsSorted == \A j, k \in 1..Len(books) : j < k => Worse(books[j].price, books[k].price)

BookInv ==
  /\ books \in Seq([price : Nat, size : Nat]) /\ LevelsSorted
  /\ orderType \in {"FOK", "FAK"}
  /\ walk \in {"given", "running", "done", "failed"}
  /\ i \in 0..Len(books) /\ sum \in Nat
  /\ walk = "running" => books # <<>> /\ price = Unset
  /\ walk # "given" => kind = "market"
  /\ kind \in {"limit", "market"} /\ side \in {"BUY", "SELL"} /\ d \in 1..4 /\ size \in Nat /\ price \in Nat
  /\ maker \in Nat /\ taker \in Nat
  /\ walk \in {"given", "done"} => OrderOK
  /\ walk = "done" => books # <<>>
  /\ walk = "failed" /\ books = <<>> => price = Unset
  /\ built \in BOOLEAN /\ (built => walk \in {"given", "done"})

SumInv ==
  walk = "running" =>
    /\ \A total : AddsUp(total) => sum = total[i + 1]
    /\ i < Len(books) => NotEnough(sum, i + 1)

WalkInv ==
  /\ BookInv /\ SumInv /\ SizeAsAsked /\ AmountsMeanPrice
  /\ \A total : AddsUp(total) => BestFor(total)

LEMMA TimesMonotone ==
  ASSUME NEW a \in Nat, NEW b \in Nat, NEW c \in Nat, a <= b
  PROVE  a * c <= b * c /\ a * c \in Nat /\ b * c \in Nat
<1> DEFINE e == b - a
<1>1. e \in Nat /\ b = a + e
  OBVIOUS
<1> HIDE DEF e
<1>2. e * c \in Nat /\ a * c \in Nat /\ b * c = a * c + e * c
  BY <1>1
<1>3. QED
  BY <1>1, <1>2

LEMMA OneFacts ==
  ASSUME d \in 1..4
  PROVE  One \in {100, 1000, 10000, 100000} /\ Scale \in Nat
BY DEF One, Scale

LEMMA BuildTypes ==
  ASSUME OrderOK, Build
  PROVE  maker' \in Nat /\ taker' \in Nat
<1> DEFINE s == RoundDown(size)
           p == RoundDown(price)
           t == RoundNormal(price)
<1>1. s \in Nat /\ p \in 1..Finer /\ Scale \in Nat
  BY Rounded
<1>2. t \in Nat
  BY DEF OrderOK, RoundNormal
<1>3. RoundAmount(s * Scale, p) \in Nat
  <2> DEFINE e == s * Scale
  <2>1. e \in Nat
    <3> HIDE DEF s
    <3>1. QED
      BY <1>1
  <2> HIDE DEF e, p
  <2>2. \A n \in Nat, k \in 1..Finer : RoundAmount(n, k) = n \div k
    BY RoundAmountIsFloor
  <2>3. RoundAmount(e, p) = e \div p
    BY <1>1, <2>1, <2>2, Zenon
  <2>4. p \in Nat \ {0}
    BY <1>1 DEF Finer
  <2>5. QED
    BY <2>1, <2>3, <2>4 DEF e
<1>4. CASE kind = "limit"
  <2>1. IF side = "BUY" THEN maker' = s * t /\ taker' = s ELSE maker' = s /\ taker' = s * t
    BY <1>4 DEF Build, GetOrderRawAmounts
  <2> HIDE DEF s, t
  <2>2. QED
    BY <1>1, <1>2, <2>1
<1>5. CASE kind = "market"
  <2>1. /\ maker' = s
        /\ taker' = IF side = "BUY" THEN RoundAmount(s * Scale, p) ELSE s * p
    BY <1>5 DEF Build, GetMarketOrderRawAmounts
  <2>2. s * p \in Nat
    <3> HIDE DEF s, p
    <3>1. QED
      BY <1>1 DEF Finer
  <2>3. QED
    BY <1>1, <1>3, <2>1, <2>2
<1>6. QED
  BY <1>4, <1>5 DEF OrderOK

(***************************************************************************)
(* A level of the book.                                                    *)
(***************************************************************************)
LEMMA LevelTyped ==
  ASSUME books \in Seq([price : Nat, size : Nat])
  PROVE  /\ Len(books) \in Nat
         /\ books # <<>> => Len(books) > 0
         /\ \A k \in 1..Len(books) : books[k].price \in Nat /\ books[k].size \in Nat
<1> DEFINE R == [price : Nat, size : Nat]
<1>1. books \in Seq(R)
  OBVIOUS
<1>2. \A r \in R : r.price \in Nat /\ r.size \in Nat
  OBVIOUS
<1> HIDE DEF R
<1>3. Len(books) \in Nat /\ (books # <<>> => Len(books) > 0)
  BY <1>1
<1>4. \A k \in 1..Len(books) : books[k] \in R
  BY <1>1
<1>5. QED
  BY <1>2, <1>3, <1>4

(***************************************************************************)
(* What a set of levels offers together is such a sum.                     *)
(***************************************************************************)
Offers == [k \in 1..Len(books) |-> Filled(books[k])]

LEMMA OffersTyped ==
  ASSUME books \in Seq([price : Nat, size : Nat])
  PROVE  /\ Offers \in [1..Len(books) -> Nat] /\ IsFiniteSet(1..Len(books))
         /\ \A k \in 1..Len(books) :
              /\ Offers[k] = Filled(books[k]) /\ Filled(books[k]) \in Nat
              /\ Filled(books[k]) = books[k].size * (IF side = "BUY" THEN books[k].price ELSE 1)
<1>1. Len(books) \in Nat /\ \A k \in 1..Len(books) : books[k].price \in Nat /\ books[k].size \in Nat
  BY LevelTyped
<1>2. ASSUME NEW k \in 1..Len(books)
      PROVE  /\ Filled(books[k]) \in Nat
             /\ Filled(books[k]) = books[k].size * (IF side = "BUY" THEN books[k].price ELSE 1)
  <2> DEFINE p == books[k].price
             q == books[k].size
  <2>1. p \in Nat /\ q \in Nat
    BY <1>1
  <2> HIDE DEF p, q
  <2>2. q * p \in Nat /\ q * 1 = q
    BY <2>1
  <2>3. QED
    BY <2>1, <2>2 DEF Filled, p, q
<1>3. IsFiniteSet(1..Len(books))
  BY <1>1, FS_Interval
<1>4. QED
  BY <1>2, <1>3 DEF Offers

LEMMA DepthIsSum ==
  ASSUME books \in Seq([price : Nat, size : Nat]), NEW L \in SUBSET (1..Len(books)),
         NEW F, Sums(F, 1..Len(books), Offers)
  PROVE  Depth(L) = F[L]
<1> DEFINE v == [k \in L |-> Offers[k]]
           Offer(k) == books[k].size * (IF side = "BUY" THEN books[k].price ELSE 1)
           D(G) == [s \in SUBSET L |->
                      IF s = {} THEN 0 ELSE Offer(CHOOSE x \in s : TRUE) + G[s \ {CHOOSE x \in s : TRUE}]]
           C == CHOOSE G : G = D(G)
<1>1. Depth(L) = C[L]
  BY DEF Depth, MapThenSumSet, MapThenFoldSet
<1>2. /\ Offers \in [1..Len(books) -> Nat] /\ IsFiniteSet(1..Len(books))
      /\ \A k \in 1..Len(books) : Offers[k] = Offer(k)
  BY OffersTyped
<1>3. v \in [L -> Nat] /\ IsFiniteSet(L)
  BY <1>2, FS_Subset
<1> HIDE DEF Offer
<1>4. ASSUME NEW G
      PROVE  D(G) = [s \in SUBSET L |-> SumOf(G, v, s)]
  <2>1. ASSUME NEW s \in SUBSET L, s # {}
        PROVE  v[Chosen(s)] = Offer(Chosen(s))
    <3>1. Chosen(s) \in L
      BY <2>1 DEF Chosen
    <3>2. QED
      BY <1>2, <3>1
  <2> HIDE DEF v
  <2>2. QED
    BY <2>1 DEF SumOf, Chosen
<1>5. PICK G : Sums(G, L, v)
  BY <1>3, SumsExist
<1>6. G = D(G)
  BY <1>4, <1>5 DEF Sums
<1> HIDE DEF D
<1>7. C = D(C)
  BY <1>6
<1> HIDE DEF C, v
<1>8. Sums(C, L, v)
  BY <1>4, <1>7 DEF Sums
<1>9. \A x \in L : v[x] = Offers[x]
  BY DEF v
<1>10. Agree(F, C, L)
  BY <1>2, <1>3, <1>8, <1>9, SumsAgree
<1>11. QED
  BY <1>1, <1>10 DEF Agree

LEMMA DepthFacts ==
  ASSUME books \in Seq([price : Nat, size : Nat])
  PROVE  /\ AddsUp([k \in 1..(Len(books) + 1) |-> Depth(k..Len(books))])
         /\ \A L \in SUBSET (1..Len(books)) : \A M \in SUBSET L :
              Depth(L) \in Nat /\ Depth(M) \in Nat /\ Depth(M) <= Depth(L)
<1> DEFINE N == Len(books)
           K == 1..N
           total == [k \in 1..(N + 1) |-> Depth(k..N)]
<1>1. N \in Nat
  BY LevelTyped
<1>2. Offers \in [K -> Nat] /\ IsFiniteSet(K) /\ \A k \in K : Offers[k] = Filled(books[k]) /\ Filled(books[k]) \in Nat
  BY OffersTyped
<1>3. PICK F : Sums(F, K, Offers)
  BY <1>2, SumsExist
<1>4. \A L \in SUBSET K : Depth(L) = F[L]
  BY <1>3, DepthIsSum
<1>5. F[{}] = 0 /\ \A L \in SUBSET K : F[L] \in Nat
  BY <1>2, <1>3, SumsTyped
<1>6. \A M \in SUBSET K : \A L \in SUBSET K : M \subseteq L => F[M] <= F[L]
  BY <1>2, <1>3, SumsMonotone
<1>7. AnyOrder(F, K, Offers)
  BY <1>2, <1>3, SumsAnyOrder
<1>8. \A k \in 1..(N + 1) : k..N \in SUBSET K
  BY <1>1
<1>9. total \in [1..(N + 1) -> Nat]
  BY <1>4, <1>5, <1>8
<1>10. total[N + 1] = 0
  <2>1. N + 1 \in 1..(N + 1) /\ (N + 1)..N = {}
    BY <1>1
  <2>2. QED
    BY <1>4, <1>5, <2>1
<1>11. ASSUME NEW k \in K
       PROVE  total[k] = total[k + 1] + Filled(books[k])
  <2>1. /\ k \in 1..(N + 1) /\ k + 1 \in 1..(N + 1) /\ k \in k..N /\ (k..N) \ {k} = (k + 1)..N
        /\ k..N \in SUBSET K /\ (k + 1)..N \in SUBSET K
    BY <1>1
  <2>2. F[k..N] = Offers[k] + F[(k + 1)..N]
    BY <1>7, <2>1 DEF AnyOrder
  <2>3. total[k] = F[k..N] /\ total[k + 1] = F[(k + 1)..N]
    BY <1>4, <2>1
  <2>4. Offers[k] = Filled(books[k]) /\ Filled(books[k]) \in Nat /\ F[(k + 1)..N] \in Nat
    BY <1>2, <1>5, <2>1
  <2>5. QED
    BY <2>2, <2>3, <2>4
<1>12. AddsUp(total)
  BY <1>9, <1>10, <1>11 DEF AddsUp
<1>13. ASSUME NEW L \in SUBSET K, NEW M \in SUBSET L
       PROVE  Depth(L) \in Nat /\ Depth(M) \in Nat /\ Depth(M) <= Depth(L)
  BY <1>4, <1>5, <1>6
<1>14. QED
  BY <1>12, <1>13

LEMMA WalkInit == OrderInit => WalkInv
<1>1. ASSUME GivenPrice
      PROVE  WalkInv
  <2>1. AmountsInv
    BY <1>1, InitAmounts DEF GivenPrice
  <2>2. maker \in Nat /\ taker \in Nat
    BY <1>1 DEF GivenPrice, Init
  <2>3. books = <<>> /\ Len(books) = 0 /\ books \in Seq([price : Nat, size : Nat]) /\ walk = "given" /\ orderType = "FOK" /\ i = 0 /\ sum = 0 /\ built = FALSE
    BY <1>1 DEF GivenPrice, Init
  <2>4. BookInv
    <3>1. /\ OrderOK /\ kind \in {"limit", "market"} /\ side \in {"BUY", "SELL"}
          /\ d \in 1..4 /\ size \in Nat /\ price \in Nat
      BY <2>1 DEF AmountsInv, OrderOK
    <3>2. /\ walk # "running" /\ walk # "done" /\ walk # "failed"
          /\ walk \in {"given", "running", "done", "failed"} /\ orderType \in {"FOK", "FAK"}
      BY <2>3
    <3>3. i \in 0..Len(books) /\ sum \in Nat /\ LevelsSorted
      BY <2>3 DEF LevelsSorted
    <3>4. QED
      BY <2>2, <2>3, <3>1, <3>2, <3>3, Zenon DEF BookInv
  <2>5. SumInv /\ \A total : BestFor(total)
    BY <2>3 DEF SumInv, BestFor
  <2>6. QED
    BY <2>1, <2>4, <2>5 DEF AmountsInv, WalkInv
<1>2. ASSUME PriceFromBook
      PROVE  WalkInv
  <2>1. /\ kind = "market" /\ side \in {"BUY", "SELL"} /\ orderType \in {"FOK", "FAK"}
        /\ d \in 1..4 /\ size \in Nat /\ price = Unset
        /\ maker = 0 /\ taker = 0 /\ built = FALSE
        /\ \A j, k \in 1..Len(books) : j < k => Worse(books[j].price, books[k].price)
        /\ i = Len(books) /\ sum = 0
        /\ walk = IF books = <<>> THEN "failed" ELSE "running"
    BY <1>2, DecimalsAssumption, SizesAssumption DEF PriceFromBook
  <2>2. books \in Seq([price : Nat, size : Nat])
    <3>1. PICK len \in 0..MaxLevels : books \in [1..len -> [price : BookPrices, size : BookSizes]]
      BY <1>2 DEF PriceFromBook
    <3>2. len \in Nat
      BY BookAssumption
    <3>3. books \in [1..len -> [price : Nat, size : Nat]]
      BY <3>1, BookAssumption
    <3> DEFINE R == [price : Nat, size : Nat]
    <3> HIDE DEF R
    <3>4. books \in Seq(R)
      <4>1. books \in [1..len -> R]
        BY <3>3 DEF R
      <4>2. Seq(R) = UNION {[1..n -> R] : n \in Nat}
        BY SeqDef, Zenon
      <4>3. QED
        BY ONLY <3>2, <4>1, <4>2, Zenon
    <3>5. QED
      BY <3>4 DEF R
  <2>3. Len(books) \in Nat /\ (books # <<>> => Len(books) > 0)
    BY <2>2, LevelTyped
  <2>4. BookInv
    <3>1. /\ walk \in {"given", "running", "done", "failed"} /\ walk # "given" /\ walk # "done"
          /\ walk = "running" => books # <<>>
      BY <2>1
    <3>2. i \in 0..Len(books) /\ sum \in Nat
      BY <2>1, <2>3
    <3>3. price \in Nat /\ maker \in Nat /\ taker \in Nat
      BY <2>1 DEF Unset
    <3>4. built \in BOOLEAN /\ ~built
      BY <2>1
    <3>5. QED
      BY <2>1, <2>2, <3>1, <3>2, <3>3, <3>4, Zenon DEF BookInv, LevelsSorted
  <2>5. SumInv
    BY <2>1, <2>3 DEF SumInv, AddsUp
  <2>6. SizeAsAsked /\ AmountsMeanPrice /\ \A total : BestFor(total)
    BY <2>1 DEF SizeAsAsked, UsedAsIs, AmountsMeanPrice, BestFor
  <2>7. QED
    BY <2>4, <2>5, <2>6 DEF WalkInv
<1>3. QED
  BY <1>1, <1>2 DEF OrderInit

(***************************************************************************)
(* A step of the loop leaves the book as it is, and ends the loop with the *)
(* price unset or with the price of a level.                               *)
(***************************************************************************)
LEMMA BookStep ==
  ASSUME BookInv, walk = "running",
         UNCHANGED <<kind, side, d, size, balance, maker, taker, built, orderType, books>>,
         One' = One,
         i' \in 0..Len(books), sum' \in Nat, price' \in Nat,
         \/ walk' = "running" /\ price' = price
         \/ /\ walk' \in {"done", "failed"}
            /\ walk' = "done" => 10 <= price' /\ price' <= One - 10
  PROVE  BookInv'
<1>1. /\ books' \in Seq([price : Nat, size : Nat]) /\ Len(books') = Len(books)
      /\ books' # <<>> /\ orderType' \in {"FOK", "FAK"}
      /\ kind' = "market" /\ side' \in {"BUY", "SELL"} /\ d' \in 1..4 /\ size' \in Nat
      /\ maker' \in Nat /\ taker' \in Nat /\ built' \in BOOLEAN /\ ~built'
  BY Zenon DEF BookInv
<1>2. LevelsSorted'
  <2>1. /\ LevelsSorted
        /\ side' = side /\ books' = books
    BY Zenon DEF BookInv
  <2>2. QED
    BY ONLY <2>1 DEF Worse, LevelsSorted
<1>3. walk' \in {"running", "done", "failed"} /\ (walk' = "running" => price' = Unset)
  BY DEF BookInv
<1>4. walk' = "done" => OrderOK'
  BY <1>1, Zenon DEF OrderOK
<1>5. i' \in 0..Len(books') /\ sum' \in Nat /\ price' \in Nat
  BY <1>1
<1>6. /\ walk' \in {"given", "running", "done", "failed"} /\ walk' # "given"
      /\ walk' \in {"given", "done"} => OrderOK'
  BY <1>3, <1>4
<1>7. QED
  BY <1>1, <1>2, <1>3, <1>4, <1>5, <1>6, Zenon DEF BookInv

(***************************************************************************)
(* The next level of the book.                                             *)
(***************************************************************************)
LEMMA LevelInv ==
  ASSUME WalkInv, Level
  PROVE  WalkInv'
<1> DEFINE b == books[i]
<1>1. BookInv /\ SumInv
  BY DEF WalkInv
<1>2. /\ walk = "running" /\ i > 0 /\ sum' = sum + Filled(b)
      /\ UNCHANGED <<kind, side, d, size, balance, maker, taker, built, orderType, books>>
  BY DEF Level
<1>3. /\ i \in 1..Len(books) /\ i \in Nat /\ Len(books) \in Nat /\ books # <<>>
      /\ b.price \in Nat /\ b.size \in Nat /\ sum \in Nat /\ ~built /\ kind = "market"
      /\ side \in {"BUY", "SELL"} /\ d \in 1..4 /\ size \in Nat
  <2>1. /\ books \in Seq([price : Nat, size : Nat]) /\ i \in 0..Len(books)
        /\ books # <<>> /\ sum \in Nat /\ ~built /\ kind = "market"
        /\ side \in {"BUY", "SELL"} /\ d \in 1..4 /\ size \in Nat
    BY <1>1, <1>2, Zenon DEF BookInv
  <2>2. /\ Len(books) \in Nat
        /\ \A k \in 1..Len(books) : books[k].price \in Nat /\ books[k].size \in Nat
    BY <2>1, LevelTyped
  <2>3. i \in 1..Len(books) /\ i \in Nat
    BY <1>2, <2>1, <2>2
  <2>4. QED
    BY <2>1, <2>2, <2>3
<1>4. Filled(b) \in Nat /\ sum' \in Nat
  <2>1. Filled(b) \in Nat
    BY <1>3 DEF Filled
  <2>2. QED
    BY <1>2, <1>3, <2>1
<1> HIDE DEF b
<1>5. /\ \A total : AddsUp(total)' <=> AddsUp(total)
      /\ \A n, k : NotEnough(n, k)' <=> NotEnough(n, k)
      /\ Matched(sum') <=> Reaches(sum', size)
      /\ Missed(sum') => NotEnough(sum', i)
  <2>1. One' = One
    BY <1>2 DEF One
  <2>2. \A total : AddsUp(total)' <=> AddsUp(total)
    BY <1>2 DEF AddsUp, Filled
  <2>3. \A n, k : NotEnough(n, k)' <=> NotEnough(n, k)
    BY <1>2, <2>1 DEF NotEnough, Reaches, Exceeds, Inexact
  <2>4. Matched(sum') <=> Reaches(sum', size)
    BY DEF Reaches, Matched, Amount
  <2>5. Missed(sum') => NotEnough(sum', i)
    <3> DEFINE c == size * (IF side = "BUY" THEN One ELSE 1)
               n == sum' * 10
    <3>1. c \in Nat
      BY <1>3, OneFacts
    <3>2. n \in Nat
      <4>1. \A x \in Nat : x * 10 \in Nat
        OBVIOUS
      <4>2. QED
        BY <1>4, <4>1, Zenon
    <3> HIDE DEF c, n
    <3>3. (n < c => ~(n >= c)) /\ (n = c => ~(n > c))
      BY <3>1, <3>2
    <3>4. QED
      BY <3>3 DEF Missed, Amount, NotEnough, Reaches, Exceeds, c, n
  <2>6. QED
    BY <2>2, <2>3, <2>4, <2>5
<1>6. /\ \A total : AddsUp(total) => sum = total[i + 1] /\ sum' = total[i]
      /\ i < Len(books) => NotEnough(sum, i + 1)
  <2>1. ASSUME NEW total, AddsUp(total)
        PROVE  sum = total[i + 1] /\ sum' = total[i]
    <3>1. sum = total[i + 1]
      BY <1>1, <1>2, <2>1 DEF SumInv
    <3>2. total[i] = total[i + 1] + Filled(b)
      BY <1>3, <2>1 DEF AddsUp, b
    <3>3. QED
      BY <1>2, <3>1, <3>2
  <2>2. QED
    BY <1>1, <1>2, <2>1 DEF SumInv
<1>7. SizeAsAsked' /\ AmountsMeanPrice'
  BY <1>2, <1>3 DEF SizeAsAsked, UsedAsIs, AmountsMeanPrice
<1>8. One' = One /\ side' = side
  BY <1>2 DEF One
<1>9. ASSUME Matched(sum'), PriceFound(b.price), i' = i
      PROVE  WalkInv'
  <2>2. /\ price' = b.price /\ walk' \in {"done", "failed"}
        /\ (walk' = "done" => 10 <= b.price /\ b.price <= One - 10)
    BY <1>9 DEF PriceFound, Tick
  <2>3. BookInv'
    BY <1>1, <1>2, <1>3, <1>4, <1>8, <1>9, <2>2, BookStep
  <2>4. SumInv'
    BY <2>2 DEF SumInv
  <2>5. ASSUME NEW total, AddsUp(total)
        PROVE  BestFor(total)'
    <3>1. Reaches(total[i], size) /\ (i < Len(books) => NotEnough(total[i + 1], i + 1))
      BY <1>5, <1>6, <1>9, <2>5
    <3>2. \E k \in 1..Len(books) :
            /\ price' = books[k].price
            /\ Reaches(total[k], size)
            /\ k < Len(books) => NotEnough(total[k + 1], k + 1)
      BY <1>3, <2>2, <3>1 DEF b
    <3>3. \A n : Reaches(n, size)' <=> Reaches(n, size)
      BY <1>2, <1>8 DEF Reaches
    <3>4. \E k \in 1..Len(books)' :
            /\ price' = books'[k].price
            /\ Reaches(total[k], size)'
            /\ k < Len(books)' => NotEnough(total[k + 1], k + 1)'
      BY <1>2, <1>5, <3>2, <3>3
    <3>5. QED
      BY <3>4 DEF BestFor
  <2>6. QED
    BY <1>5, <1>7, <2>3, <2>4, <2>5 DEF WalkInv
<1>10. ASSUME Missed(sum'), i' = i - 1, UNCHANGED <<price, walk>>
       PROVE  WalkInv'
  <2>1. i' = i - 1 /\ price' = price /\ walk' = walk
    BY <1>10
  <2>2. BookInv'
    <3>1. i' \in 0..Len(books) /\ sum' \in Nat /\ price' \in Nat
      BY <1>1, <1>3, <1>4, <2>1 DEF BookInv
    <3>2. walk' = "running" /\ price' = price
      BY <1>2, <2>1
    <3>3. QED
      BY <1>1, <1>2, <1>8, <3>1, <3>2, BookStep
  <2>3. SumInv'
    <3>1. i' + 1 = i /\ NotEnough(sum', i)
      BY <1>3, <1>5, <1>10, <2>1
    <3>2. \A total : AddsUp(total)' => sum' = total[i' + 1]
      BY <1>5, <1>6, <3>1
    <3>3. NotEnough(sum, i + 1)'
      BY <1>2, <1>8, <3>1 DEF NotEnough, Reaches, Exceeds, Inexact
    <3>4. QED
      BY <3>2, <3>3 DEF SumInv
  <2>4. \A total : BestFor(total)'
    BY <1>2, <2>1 DEF BestFor
  <2>5. QED
    BY <1>7, <2>2, <2>3, <2>4 DEF WalkInv
<1>11. QED
  BY <1>9, <1>10 DEF Level, b

(***************************************************************************)
(* The book is used up.                                                    *)
(***************************************************************************)
LEMMA ExhaustedInv ==
  ASSUME WalkInv, Exhausted
  PROVE  WalkInv'
<1>1. BookInv /\ SumInv
  BY DEF WalkInv
<1>2. /\ walk = "running" /\ i = 0
      /\ UNCHANGED <<kind, side, d, size, balance, maker, taker, built, orderType, books, i, sum>>
  BY DEF Exhausted
<1>3. /\ Len(books) \in Nat /\ Len(books) > 0 /\ 1 \in 1..Len(books) /\ books # <<>>
      /\ books[1].price \in Nat /\ ~built /\ price = Unset
      /\ kind = "market" /\ sum \in Nat /\ size \in Nat
  <2>1. /\ books \in Seq([price : Nat, size : Nat]) /\ books # <<>> /\ ~built /\ price = Unset
        /\ kind = "market" /\ sum \in Nat /\ size \in Nat
    BY <1>1, <1>2, Zenon DEF BookInv
  <2>2. Len(books) \in Nat /\ Len(books) > 0 /\ 1 \in 1..Len(books)
    BY <2>1, LevelTyped
  <2>3. books[1].price \in Nat
    BY <2>1, <2>2, LevelTyped
  <2>4. QED
    BY <2>1, <2>2, <2>3
<1>4. One' = One /\ side' = side
  BY <1>2 DEF One
<1>5. \A total : AddsUp(total)' <=> AddsUp(total)
  BY <1>2 DEF AddsUp, Filled
<1>6. \A total : AddsUp(total) => NotEnough(total[1], 1)
  <2>1. /\ \A total : AddsUp(total) => sum = total[i + 1]
        /\ i < Len(books) => NotEnough(sum, i + 1)
    BY <1>1, <1>2 DEF SumInv
  <2>2. i + 1 = 1 /\ i < Len(books)
    BY <1>2, <1>3
  <2>3. QED
    BY <2>1, <2>2
<1>7. SizeAsAsked' /\ AmountsMeanPrice'
  BY <1>2, <1>3 DEF SizeAsAsked, UsedAsIs, AmountsMeanPrice
<1>8. /\ walk' \in {"done", "failed"}
      /\ price' = IF orderType = "FOK" THEN Unset ELSE books[1].price
      /\ walk' = "done" => 10 <= price' /\ price' <= One - 10
  BY <1>3 DEF Exhausted, PriceFound, Tick
<1>9. BookInv'
  <2>1. price' \in Nat /\ i' \in 0..Len(books) /\ sum' \in Nat
    BY <1>2, <1>3, <1>8 DEF Unset
  <2>2. QED
    BY <1>1, <1>2, <1>4, <1>8, <2>1, BookStep
<1>10. SumInv'
  BY <1>8 DEF SumInv
<1>11. ASSUME NEW total, AddsUp(total)
       PROVE  BestFor(total)'
  <2>1. /\ NotEnough(total[1], 1)
        /\ price' = IF orderType = "FOK" THEN Unset ELSE books[1].price
    BY <1>6, <1>8, <1>11
  <2>2. NotEnough(total[1], 1)'
    BY <1>2, <1>4, <2>1 DEF NotEnough, Reaches, Exceeds, Inexact
  <2>3. QED
    BY <1>2, <2>1, <2>2 DEF BestFor
<1>12. QED
  BY <1>5, <1>7, <1>9, <1>10, <1>11 DEF WalkInv

LEMMA WalkStep ==
  ASSUME WalkInv, [OrderNext]_orderVars
  PROVE  WalkInv'
<1>1. CASE UNCHANGED orderVars
  <2>1. UNCHANGED <<kind, side, d, size, price, balance, maker, taker, built, orderType, books, i, sum, walk>>
    BY <1>1 DEF orderVars, vars, walkVars
  <2>2. /\ \A total : AddsUp(total)' <=> AddsUp(total)
        /\ \A n, t : Reaches(n, t)' <=> Reaches(n, t)
        /\ \A n, k : NotEnough(n, k)' <=> NotEnough(n, k)
        /\ \A total : BestFor(total) => BestFor(total)'
    <3>1. /\ \A total : AddsUp(total)' <=> AddsUp(total)
          /\ \A n, t : Reaches(n, t)' <=> Reaches(n, t)
      BY <2>1 DEF AddsUp, Filled, Reaches, One
    <3>2. \A n, k : NotEnough(n, k)' <=> NotEnough(n, k)
      BY <2>1 DEF NotEnough, Reaches, Exceeds, Inexact, One
    <3>3. \A total : BestFor(total) => BestFor(total)'
      BY <2>1, <3>1, <3>2 DEF BestFor
    <3>4. QED
      BY <3>1, <3>2, <3>3
  <2>3. BookInv' /\ SumInv'
    <3>1. BookInv /\ SumInv /\ One' = One
      BY <2>1 DEF WalkInv, One
    <3>2. LevelsSorted' = LevelsSorted /\ OrderOK' = OrderOK
      BY <2>1, <3>1 DEF LevelsSorted, Worse, OrderOK
    <3>3. BookInv'
      BY ONLY <2>1, <3>1, <3>2 DEF BookInv
    <3>4. SumInv'
      BY ONLY <2>1, <2>2, <3>1 DEF SumInv, NotEnough, Reaches, Exceeds, Inexact
    <3>5. QED
      BY <3>3, <3>4
  <2>4. SizeAsAsked' /\ AmountsMeanPrice'
    BY <2>1 DEF WalkInv, SizeAsAsked, UsedAsIs, AmountsMeanPrice, Scale
  <2>5. QED
    BY <2>2, <2>3, <2>4 DEF WalkInv
<1>2. CASE BuildOrder
  <2>1. walk \in {"given", "done"} /\ Build /\ OrderOK
    BY <1>2 DEF BuildOrder, WalkInv, BookInv
  <2>2. UNCHANGED <<kind, side, d, size, price, balance, orderType, books, i, sum, walk>> /\ built'
    BY <1>2 DEF BuildOrder, Build, walkVars
  <2>3. OrderOK' /\ SizeAsAsked' /\ AmountsMeanPrice' /\ maker' \in Nat /\ taker' \in Nat
    BY <2>1, BuildAmounts, BuildTypes
  <2>4. BookInv'
    <3>1. BookInv /\ built' \in BOOLEAN
      BY <2>2 DEF WalkInv, Build, BuildOrder
    <3>2. LevelsSorted'
      BY <2>2, <3>1 DEF BookInv, LevelsSorted, Worse
    <3>3. QED
      BY ONLY <2>1, <2>2, <2>3, <3>1, <3>2 DEF BookInv
  <2>5. SumInv'
    BY <2>1, <2>2 DEF SumInv
  <2>6. /\ \A total : AddsUp(total)' <=> AddsUp(total)
        /\ \A n, t : Reaches(n, t)' <=> Reaches(n, t)
        /\ \A n, k : NotEnough(n, k)' <=> NotEnough(n, k)
    <3>1. /\ \A total : AddsUp(total)' <=> AddsUp(total)
          /\ \A n, t : Reaches(n, t)' <=> Reaches(n, t)
      BY <2>2 DEF AddsUp, Filled, Reaches, One
    <3>2. \A n, k : NotEnough(n, k)' <=> NotEnough(n, k)
      BY <2>2 DEF NotEnough, Reaches, Exceeds, Inexact, One
    <3>3. QED
      BY <3>1, <3>2
  <2>7. \A total : BestFor(total) => BestFor(total)'
    BY <2>2, <2>6 DEF BestFor
  <2>8. QED
    BY <2>3, <2>4, <2>5, <2>6, <2>7 DEF WalkInv
<1>3. QED
  BY <1>1, <1>2, LevelInv, ExhaustedInv DEF OrderNext
(***************************************************************************)
(* A walk that is done ends at a level whose total reaches the amount, and *)
(* the levels before it in the walk are no worse than that one.            *)
(***************************************************************************)
LEMMA NoWorseLevels ==
  ASSUME WalkInv, NEW total, AddsUp(total), walk = "done", orderType = "FOK"
  PROVE  \E k \in 1..Len(books) :
           /\ Reaches(total[k], size) /\ total[k] \in Nat
           /\ \A j \in k..Len(books) :
                /\ books[j].price \in Nat
                /\ IF side = "BUY" THEN books[j].price <= price ELSE books[j].price >= price
<1>1. /\ OrderOK /\ books # <<>> /\ LevelsSorted
      /\ books \in Seq([price : Nat, size : Nat])
  BY Zenon DEF WalkInv, BookInv
<1>2. /\ Len(books) \in Nat
      /\ \A k \in 1..Len(books) : books[k].price \in Nat
  BY <1>1, LevelTyped
<1>3. BestFor(total) /\ price # Unset
  BY <1>1 DEF WalkInv, OrderOK, Unset
<1>4. PICK k \in 1..Len(books) : price = books[k].price /\ Reaches(total[k], size)
  BY <1>1, <1>3 DEF BestFor
<1>5. total[k] \in Nat
  BY <1>2, <1>4 DEF AddsUp
<1>6. ASSUME NEW j \in k..Len(books)
      PROVE  /\ books[j].price \in Nat
             /\ IF side = "BUY" THEN books[j].price <= price ELSE books[j].price >= price
  <2>1. j \in 1..Len(books) /\ (j = k \/ k < j)
    BY <1>2
  <2>2. books[j].price \in Nat /\ books[k].price \in Nat
    BY <1>2, <2>1
  <2>3. k < j => Worse(books[k].price, books[j].price)
    BY <1>1, <2>1 DEF LevelsSorted
  <2>4. QED
    BY <1>4, <2>1, <2>2, <2>3 DEF Worse
<1>7. QED
  BY <1>4, <1>5, <1>6

(***************************************************************************)
(* The two amounts of a market order mean a price no better for the order  *)
(* than the one it was given.                                              *)
(***************************************************************************)
LEMMA AcceptableLevel ==
  ASSUME WalkInv, built, walk = "done", OnTick,
         NEW j \in 1..Len(books), books[j].price \in Nat,
         IF side = "BUY" THEN books[j].price <= price ELSE books[j].price >= price
  PROVE  Acceptable(books[j])
<1> DEFINE q == books[j].price
           p == price \div 10
<1>1. /\ kind = "market" /\ side \in {"BUY", "SELL"} /\ price \in Nat
      /\ maker \in Nat /\ taker \in Nat /\ d \in 1..4
  BY Zenon DEF WalkInv, BookInv
<1>2. p \in Nat /\ 10 * p <= price /\ Scale \in Nat
  BY <1>1, OneFacts
<1>3. AmountsMeanPrice
  BY DEF WalkInv
<1>4. q \in Nat
  OBVIOUS
<1>5. CASE side = "BUY"
  <2>1. price = 10 * p /\ q <= price
    BY <1>1, <1>5 DEF OnTick, Tick
  <2>2. taker * p <= maker * Scale
    BY <1>1, <1>3, <1>5 DEF AmountsMeanPrice
  <2> HIDE DEF p, q
  <2>3. q * taker <= price * taker
    BY <1>1, <1>4, <2>1, TimesMonotone
  <2>4. price * taker = 10 * (taker * p)
    BY <1>1, <1>2, <2>1
  <2>5. taker * p \in Nat /\ maker * Scale \in Nat /\ q * taker \in Nat /\ price * taker \in Nat
    BY <1>1, <1>2, <1>4
  <2>6. q * taker <= maker * Scale * 10
    BY <2>2, <2>3, <2>4, <2>5
  <2>7. QED
    BY <1>5, <2>6 DEF Acceptable, q
<1>6. CASE side = "SELL"
  <2>1. 10 * p <= q
    BY <1>1, <1>2, <1>4, <1>6
  <2>2. taker = maker * p
    BY <1>1, <1>3, <1>6 DEF AmountsMeanPrice
  <2> HIDE DEF p, q
  <2>3. (10 * p) * maker <= q * maker
    BY <1>1, <1>2, <1>4, <2>1, TimesMonotone
  <2>4. taker * 10 = (10 * p) * maker
    BY <1>1, <1>2, <2>2
  <2>5. q * maker >= taker * 10
    BY <2>3, <2>4, <1>1, <1>2, <1>4
  <2>6. QED
    BY <1>6, <2>5 DEF Acceptable, q
<1>7. QED
  BY <1>1, <1>5, <1>6

LEMMA FilledByBook ==
  ASSUME WalkInv, NEW total, AddsUp(total)
  PROVE  FilledFor(total)
<1> SUFFICES ASSUME built, walk = "done", orderType = "FOK", OnTick
             PROVE  \E k \in 1..Len(books) :
                      /\ \A j \in k..Len(books) : Acceptable(books[j])
                      /\ Reaches(total[k], maker * 10)
  BY DEF FilledFor
<1>1. PICK k \in 1..Len(books) :
        /\ Reaches(total[k], size) /\ total[k] \in Nat
        /\ \A j \in k..Len(books) :
             /\ books[j].price \in Nat
             /\ IF side = "BUY" THEN books[j].price <= price ELSE books[j].price >= price
  BY NoWorseLevels
<1>2. \A j \in k..Len(books) : Acceptable(books[j])
  <2>1. Len(books) \in Nat
    BY LevelTyped DEF WalkInv, BookInv
  <2>2. \A j \in k..Len(books) : j \in 1..Len(books)
    BY <2>1
  <2>3. QED
    BY <1>1, <2>2, AcceptableLevel
<1>3. Reaches(total[k], maker * 10)
  <2>1. /\ kind = "market" /\ side \in {"BUY", "SELL"} /\ maker \in Nat /\ size \in Nat
        /\ d \in 1..4 /\ SizeAsAsked
    BY DEF WalkInv, BookInv
  <2>2. maker * 10 <= size
    BY <2>1 DEF SizeAsAsked, UsedAsIs
  <2>3. One \in Nat
    BY <2>1, OneFacts
  <2>4. (maker * 10) * One <= size * One /\ (maker * 10) * One \in Nat /\ size * One \in Nat
    BY <2>1, <2>2, <2>3, TimesMonotone
  <2>5. CASE side = "BUY"
    <3>1. total[k] * 10 >= size * One
      BY <1>1, <2>5 DEF Reaches
    <3>2. total[k] * 10 >= (maker * 10) * One
      BY <1>1, <2>4, <3>1
    <3>3. QED
      BY <2>5, <3>2 DEF Reaches
  <2>6. CASE side = "SELL"
    BY <1>1, <2>1, <2>2, <2>6 DEF Reaches
  <2>7. QED
    BY <2>1, <2>5, <2>6
<1>4. QED
  BY <1>2, <1>3

-----------------------------------------------------------------------------
(***************************************************************************)
(* The amounts of an order whose price was taken from the book keep the    *)
(* same promises as one whose price the caller gave: never more than was   *)
(* asked, and the two amounts mean the price that was found                *)
(* (CreateMarketOrder).                                                    *)
(***************************************************************************)
THEOREM BookPricedAmounts == OrderSpec => [](SizeAsAsked /\ AmountsMeanPrice)
<1>1. WalkInv => SizeAsAsked /\ AmountsMeanPrice
  BY DEF WalkInv
<1>2. QED
  BY WalkInit, WalkStep, <1>1, PTL DEF OrderSpec

(***************************************************************************)
(* The totals of the walk are the depths of the book, so what the walk     *)
(* promises of them is what the properties say of the book.                *)
(***************************************************************************)
DepthFrom == [k \in 1..(Len(books) + 1) |-> Depth(k..Len(books))]

LEMMA DepthOfWalk ==
  ASSUME WalkInv
  PROVE  /\ AddsUp(DepthFrom) /\ BestFor(DepthFrom) /\ FilledFor(DepthFrom)
         /\ Len(books) \in Nat /\ (books # <<>> => Len(books) > 0)
         /\ \A k \in 1..(Len(books) + 1) : DepthFrom[k] = Depth(k..Len(books))
         /\ \A L \in SUBSET (1..Len(books)) : \A M \in SUBSET L :
              Depth(L) \in Nat /\ Depth(M) \in Nat /\ Depth(M) <= Depth(L)
<1>1. books \in Seq([price : Nat, size : Nat])
  BY Zenon DEF WalkInv, BookInv
<1>2. /\ AddsUp(DepthFrom)
      /\ \A L \in SUBSET (1..Len(books)) : \A M \in SUBSET L :
           Depth(L) \in Nat /\ Depth(M) \in Nat /\ Depth(M) <= Depth(L)
  BY <1>1, DepthFacts DEF DepthFrom
<1>3. BestFor(DepthFrom) /\ FilledFor(DepthFrom)
  BY <1>2, FilledByBook DEF WalkInv
<1>4. \A k \in 1..(Len(books) + 1) : DepthFrom[k] = Depth(k..Len(books))
  BY DEF DepthFrom
<1>5. Len(books) \in Nat /\ (books # <<>> => Len(books) > 0)
  BY <1>1, LevelTyped
<1>6. QED
  BY <1>2, <1>3, <1>4, <1>5

LEMMA ReachesMonotone ==
  ASSUME d \in 1..4, NEW m \in Nat, NEW n \in Nat, m <= n, NEW t \in Nat, Reaches(m, t)
  PROVE  Reaches(n, t)
<1> DEFINE c == t * (IF side = "BUY" THEN One ELSE 1)
<1>1. m * 10 >= c /\ c \in Nat
  <2>1. (IF side = "BUY" THEN One ELSE 1) \in Nat
    BY OneFacts
  <2>2. QED
    BY <2>1 DEF Reaches
<1> HIDE DEF c
<1>2. n * 10 >= c
  BY <1>1
<1>3. QED
  BY <1>2 DEF Reaches, c

LEMMA WalkIsBest ==
  ASSUME WalkInv
  PROVE  BestSufficientPrice
<1> DEFINE last == Len(books)
<1>1. /\ BestFor(DepthFrom) /\ last \in Nat /\ (books # <<>> => last > 0)
      /\ \A k \in 1..(last + 1) : DepthFrom[k] = Depth(k..last)
  BY DepthOfWalk
<1>2. /\ (walk = "done" => books # <<>>)
      /\ (walk = "failed" /\ books = <<>> => price = Unset)
  BY Zenon DEF WalkInv, BookInv
<1> SUFFICES ASSUME walk \in {"done", "failed"}
             PROVE  \/ \E k \in 1..last :
                         /\ price = books[k].price
                         /\ Covers(k..last, size)
                         /\ k < last => NotEnough(Depth((k + 1)..last), k + 1)
                    \/ /\ books # <<>> => NotEnough(Depth(1..last), 1)
                       /\ price = IF books = <<>> \/ orderType = "FOK" THEN Unset ELSE books[1].price
  BY DEF BestSufficientPrice
<1>3. CASE books = <<>>
  BY <1>2, <1>3
<1>4. CASE books # <<>>
  <2>1. CASE \E k \in 1..last : /\ price = books[k].price
                                /\ Reaches(DepthFrom[k], size)
                                /\ k < last => NotEnough(DepthFrom[k + 1], k + 1)
    <3>1. PICK k \in 1..last : /\ price = books[k].price
                               /\ Reaches(DepthFrom[k], size)
                               /\ k < last => NotEnough(DepthFrom[k + 1], k + 1)
      BY <2>1
    <3>2. k \in 1..(last + 1) /\ k + 1 \in 1..(last + 1)
      BY <1>1
    <3>3. DepthFrom[k] = Depth(k..last) /\ DepthFrom[k + 1] = Depth((k + 1)..last)
      BY <1>1, <3>2
    <3>4. Covers(k..last, size) /\ (k < last => NotEnough(Depth((k + 1)..last), k + 1))
      BY <3>1, <3>3 DEF Covers
    <3>5. QED
      BY <3>1, <3>4
  <2>2. CASE /\ NotEnough(DepthFrom[1], 1)
             /\ price = IF orderType = "FOK" THEN Unset ELSE books[1].price
    <3>1. DepthFrom[1] = Depth(1..last)
      BY <1>1
    <3>2. QED
      BY <1>4, <2>2, <3>1
  <2>3. QED
    BY <1>1, <1>4, <2>1, <2>2 DEF BestFor
<1>5. QED
  BY <1>3, <1>4

LEMMA WalkFills ==
  ASSUME WalkInv
  PROVE  MarketOrderFills
<1> DEFINE last == Len(books)
           A == {j \in 1..last : Acceptable(books[j])}
<1> SUFFICES ASSUME built, walk = "done", orderType = "FOK", OnTick
             PROVE  Covers(A, maker * 10)
  BY DEF MarketOrderFills
<1>1. d \in 1..4 /\ maker \in Nat
  BY Zenon DEF WalkInv, BookInv
<1>2. /\ FilledFor(DepthFrom) /\ last \in Nat
      /\ \A k \in 1..(last + 1) : DepthFrom[k] = Depth(k..last)
      /\ \A L \in SUBSET (1..last) : \A M \in SUBSET L :
           Depth(L) \in Nat /\ Depth(M) \in Nat /\ Depth(M) <= Depth(L)
  BY DepthOfWalk
<1>3. PICK k \in 1..last : /\ \A j \in k..last : Acceptable(books[j])
                           /\ Reaches(DepthFrom[k], maker * 10)
  BY <1>2 DEF FilledFor
<1>4. k \in 1..(last + 1) /\ k..last \in SUBSET A /\ A \in SUBSET (1..last)
  BY <1>2, <1>3
<1>5. DepthFrom[k] = Depth(k..last)
  BY <1>2, <1>4
<1> HIDE DEF A
<1>6. Depth(A) \in Nat /\ Depth(k..last) \in Nat /\ Depth(k..last) <= Depth(A)
  BY <1>2, <1>4
<1>7. maker * 10 \in Nat /\ Reaches(Depth(k..last), maker * 10)
  BY <1>1, <1>3, <1>5
<1>8. QED
  BY <1>1, <1>6, <1>7, ReachesMonotone DEF Covers

(***************************************************************************)
(* Whatever the book and however the comparison of equal float64 values    *)
(* comes out, a walk ends with the best price at which the book holds the  *)
(* amount, with the worst level's for a FAK order the whole book does not  *)
(* fill, and with none for such a FOK order; only levels that hold the     *)
(* amount exactly may count as too few (CalculateBuyMarketPrice,           *)
(* CalculateSellMarketPrice).                                              *)
(***************************************************************************)
THEOREM WalkFindsBestPrice == OrderSpec => []BestSufficientPrice
<1>1. WalkInv => BestSufficientPrice
  BY WalkIsBest
<1>2. QED
  BY WalkInit, WalkStep, <1>1, PTL DEF OrderSpec

(***************************************************************************)
(* Whatever the book, a fill-or-kill order priced from it asks for no more *)
(* than what the levels hold that satisfy the price its two amounts mean   *)
(* (CreateMarketOrder, GetMarketOrderRawAmounts).                          *)
(***************************************************************************)
THEOREM BookFillsOrder == OrderSpec => []MarketOrderFills
<1>1. WalkInv => MarketOrderFills
  BY WalkFills
<1>2. QED
  BY WalkInit, WalkStep, <1>1, PTL DEF OrderSpec

-----------------------------------------------------------------------------
(***************************************************************************)
(* Order creation by several callers (ClientOrders).                       *)
(*                                                                         *)
(* A goroutine that writes a map holds its lock, and nobody else does.     *)
(***************************************************************************)
LockInv ==
  /\ \A c \in Callers : pc[c] = "write" => lock[param[c]] = c
  /\ \A k \in Kinds : lock[k] # "free" => pc[lock[k]] = "write" /\ param[lock[k]] = k

(***************************************************************************)
(* What a caller carries from one step to the next: a value it is about to *)
(* store, a tick size it is about to use; where in its call it can be; and *)
(* what its last call returned.                                            *)
(***************************************************************************)
InOrder(c) == op[c] \in {"order", "market"}

ValueOK(c) ==
  /\ pc[c] \in {"lock", "write"} => val[c] \in Values(param[c])
  /\ pc[c] = "got" /\ param[c] = "tick" => val[c] \in Ticks
  /\ pc[c] = "reread" => param[c] \in RereadKinds

DraftOK(c) ==
  /\ pc[c] \in {"price", "sign"} => InOrder(c)
  /\ pc[c] = "sign" => param[c] = "neg"
  /\ op[c] = "set" => pc[c] \in {"lock", "write"}

ResultOK(r) ==
  /\ r.op = "tick" => r.price \in Ticks
  /\ r.op \in {"order", "market"} => r.tick \in Ticks

CallerOK(c) == ValueOK(c) /\ DraftOK(c) /\ ResultOK(got[c])

CallersInv == TypeOK /\ LockInv /\ \A c \in Callers : CallerOK(c)

(***************************************************************************)
(* The step leaves what caller e carries alone.                            *)
(***************************************************************************)
Untouched(e) ==
  /\ pc'[e] = pc[e] /\ op'[e] = op[e] /\ param'[e] = param[e] /\ val'[e] = val[e]
  /\ tick'[e] = tick[e] /\ draftPrice'[e] = draftPrice[e] /\ got'[e] = got[e]

Others(c) == \A e \in Callers : e # c => Untouched(e)

LEMMA ValueFacts ==
  /\ Values("tick") = Ticks /\ Values("fee") = {2} /\ Values("neg") = {1}
  /\ \A k \in Kinds : Values(k) \subseteq Nat
  /\ Ticks \subseteq Nat /\ Prices \subseteq Nat /\ PriceOne \in Nat
<1>1. Ticks \subseteq Nat /\ Prices \subseteq Nat /\ PriceOne \in Nat
  BY PricesAssumption
<1>2. Values("tick") = Ticks /\ Values("fee") = {2} /\ Values("neg") = {1}
  BY DEF Values, marketFee
<1>3. {2} \subseteq Nat /\ {1} \subseteq Nat
  OBVIOUS
<1>4. ASSUME NEW k \in Kinds
      PROVE  Values(k) \subseteq Nat
  <2>1. k = "tick" \/ k = "fee" \/ k = "neg"
    BY DEF Kinds
  <2>2. QED
    BY <1>1, <1>2, <1>3, <2>1, Zenon
<1>5. QED
  BY <1>1, <1>2, <1>4

LEMMA UntouchedOK ==
  ASSUME NEW e \in Callers, CallerOK(e), Untouched(e)
  PROVE  CallerOK(e)'
BY DEF CallerOK, ValueOK, DraftOK, ResultOK, InOrder, Untouched, Values

(***************************************************************************)
(* A step of caller c keeps the invariant if it keeps the types and the    *)
(* locks and what c carries afterwards is in order.                        *)
(***************************************************************************)
LEMMA OneCaller ==
  ASSUME CallersInv, NEW c \in Callers, TypeOK', LockInv', Others(c), CallerOK(c)'
  PROVE  CallersInv'
<1>1. ASSUME NEW e \in Callers
      PROVE  CallerOK(e)'
  <2>1. CASE e = c
    BY <2>1
  <2>2. CASE e # c
    BY <2>2, UntouchedOK DEF CallersInv, Others
  <2>3. QED
    BY <2>1, <2>2
<1>2. QED
  BY <1>1 DEF CallersInv

(***************************************************************************)
(* A step of c that neither begins nor ends a write leaves the locks.      *)
(***************************************************************************)
LEMMA LocksKept ==
  ASSUME TypeOK, LockInv, NEW c \in Callers, lock' = lock, Others(c),
         pc[c] # "write", pc'[c] # "write"
  PROVE  LockInv'
<1>1. \A e \in Callers : pc'[e] = "write" => lock'[param'[e]] = e
  BY DEF LockInv, Others, Untouched
<1>2. ASSUME NEW k \in Kinds, lock'[k] # "free"
      PROVE  pc'[lock'[k]] = "write" /\ param'[lock'[k]] = k
  <2>1. lock[k] \in Callers /\ pc[lock[k]] = "write" /\ param[lock[k]] = k
    BY <1>2 DEF TypeOK, LockInv
  <2>2. lock[k] # c
    BY <2>1
  <2>3. QED
    BY <2>1, <2>2 DEF Others, Untouched
<1>3. QED
  BY <1>1, <1>2 DEF LockInv

(***************************************************************************)
(* The end of a call.                                                      *)
(***************************************************************************)
LEMMA ReturnKeeps ==
  ASSUME TypeOK, NEW c \in Callers, NEW r \in Results, Return(c, r), ResultOK(r),
         lock' \in [Kinds -> Callers \cup {"free"}],
         cache' \in [Kinds -> Int], \A k \in Kinds : cache'[k] \in Values(k) \cup {NoEntry},
         orderPrice' \in [Callers -> Prices \cup {NoPrice}]
  PROVE  TypeOK' /\ Others(c) /\ CallerOK(c)' /\ pc'[c] = "idle"
<1>1. /\ got' = [got EXCEPT ![c] = r] /\ pc' = [pc EXCEPT ![c] = "idle"] /\ op' = [op EXCEPT ![c] = "none"]
      /\ param' = [param EXCEPT ![c] = "tick"] /\ val' = [val EXCEPT ![c] = 0] /\ tick' = [tick EXCEPT ![c] = 0]
      /\ draftPrice' = [draftPrice EXCEPT ![c] = 0] /\ seen' = [seen EXCEPT ![c] = {}]
      /\ known' = [known EXCEPT ![c] = {}]
      /\ UNCHANGED <<market, bookPrice, moves, current, crashed, calls>>
  BY DEF Return, world
<1>2. /\ got' \in [Callers -> Results]
      /\ pc' \in [Callers -> {"idle", "lookup", "fetch", "lock", "write", "reread", "got", "price", "sign"}]
      /\ op' \in [Callers -> Operations] /\ param' \in [Callers -> Kinds]
      /\ val' \in [Callers -> Int] /\ tick' \in [Callers -> Int] /\ draftPrice' \in [Callers -> Int]
      /\ seen' \in [Callers -> SUBSET Prices] /\ known' \in [Callers -> SUBSET Ticks]
  BY <1>1 DEF TypeOK, Operations, Kinds
<1>3. TypeOK'
  BY <1>1, <1>2 DEF TypeOK
<1>4. /\ pc'[c] = "idle" /\ op'[c] = "none" /\ param'[c] = "tick" /\ got'[c] = r
      /\ Others(c)
  BY <1>1 DEF TypeOK, Others, Untouched
<1>5. CallerOK(c)'
  BY <1>4 DEF CallerOK, ValueOK, DraftOK, ResultOK, InOrder
<1>6. QED
  BY <1>3, <1>4, <1>5

LEMMA NothingOK == Nothing \in Results /\ ResultOK(Nothing)
BY DEF Answer, Nothing, Results, ResultOK, Operations

LEMMA ReturnInv ==
  ASSUME CallersInv, NEW c \in Callers, NEW r \in Results, Return(c, r), ResultOK(r),
         pc[c] # "write", UNCHANGED cached, orderPrice' \in [Callers -> Prices \cup {NoPrice}]
  PROVE  CallersInv'
<1>1. TypeOK /\ LockInv /\ lock' = lock /\ cache' = cache
  BY DEF CallersInv, cached
<1>2. TypeOK' /\ Others(c) /\ CallerOK(c)' /\ pc'[c] = "idle"
  <2>1. /\ lock' \in [Kinds -> Callers \cup {"free"}]
        /\ cache' \in [Kinds -> Int] /\ \A k \in Kinds : cache'[k] \in Values(k) \cup {NoEntry}
    BY <1>1 DEF TypeOK
  <2>2. QED
    BY <1>1, <2>1, ReturnKeeps
<1>3. LockInv'
  BY <1>1, <1>2, LocksKept
<1>4. QED
  BY <1>2, <1>3, OneCaller

LEMMA FailInv ==
  ASSUME CallersInv, NEW c \in Callers, Fail(c), pc[c] # "write"
  PROVE  CallersInv'
<1>1. Return(c, Nothing) /\ UNCHANGED cached /\ orderPrice' \in [Callers -> Prices \cup {NoPrice}]
  BY DEF Fail, CallersInv, TypeOK
<1>2. QED
  BY <1>1, NothingOK, ReturnInv

(***************************************************************************)
(* A step within a call.                                                   *)
(***************************************************************************)
LEMMA LookupInv ==
  ASSUME CallersInv, NEW c \in Callers, Lookup(c)
  PROVE  CallersInv'
<1> DEFINE k == param[c]
<1>1. TypeOK /\ LockInv /\ CallerOK(c)
  BY DEF CallersInv
<1>2. /\ pc[c] = "lookup" /\ val' = [val EXCEPT ![c] = cache[k]]
      /\ pc' = [pc EXCEPT ![c] = IF cache[k] = NoEntry THEN "fetch" ELSE "got"]
      /\ UNCHANGED <<market, bookPrice, moves, current, cache, lock, op, param, tick, draftPrice, seen, known, orderPrice, got, crashed, calls>>
  BY DEF Lookup, world, cached
<1>3. k \in Kinds /\ cache[k] \in Int /\ cache[k] \in Values(k) \cup {NoEntry}
  BY <1>1 DEF TypeOK
<1>4. TypeOK'
  <2>1. /\ val' \in [Callers -> Int]
        /\ pc' \in [Callers -> {"idle", "lookup", "fetch", "lock", "write", "reread", "got", "price", "sign"}]
    BY <1>1, <1>2, <1>3 DEF TypeOK
  <2>2. QED
    BY <1>1, <1>2, <2>1 DEF TypeOK
<1>5. /\ val'[c] = cache[k] /\ pc'[c] = (IF cache[k] = NoEntry THEN "fetch" ELSE "got")
      /\ op'[c] = op[c] /\ param'[c] = k /\ tick'[c] = tick[c] /\ draftPrice'[c] = draftPrice[c]
      /\ got'[c] = got[c] /\ Others(c)
  BY <1>1, <1>2 DEF TypeOK, Others, Untouched
<1>6. CallerOK(c)'
  <2>1. pc'[c] = "got" /\ param'[c] = "tick" => val'[c] \in Ticks
    BY <1>3, <1>5, ValueFacts
  <2>2. ValueOK(c)'
    BY <1>5, <2>1 DEF ValueOK
  <2>3. DraftOK(c)' /\ ResultOK(got[c])'
    BY <1>1, <1>2, <1>5 DEF CallerOK, DraftOK, ResultOK, InOrder
  <2>4. QED
    BY <2>2, <2>3 DEF CallerOK
<1>7. LockInv'
  BY <1>1, <1>2, <1>5, LocksKept
<1>8. QED
  BY <1>4, <1>5, <1>6, <1>7, OneCaller

LEMMA FetchInv ==
  ASSUME CallersInv, NEW c \in Callers, Fetch(c)
  PROVE  CallersInv'
<1> DEFINE k == param[c]
<1>1. TypeOK /\ LockInv /\ CallerOK(c)
  BY DEF CallersInv
<1>2. /\ pc[c] = "fetch" /\ val' = [val EXCEPT ![c] = market[k]] /\ pc' = [pc EXCEPT ![c] = "lock"]
      /\ UNCHANGED <<market, bookPrice, moves, current, cache, lock, op, param, tick, draftPrice, seen, known, orderPrice, got, crashed, calls>>
  BY DEF Fetch, world, cached
<1>3. k \in Kinds /\ market[k] \in Int /\ market[k] \in Values(k)
  BY <1>1 DEF TypeOK
<1>4. TypeOK'
  <2>1. /\ val' \in [Callers -> Int]
        /\ pc' \in [Callers -> {"idle", "lookup", "fetch", "lock", "write", "reread", "got", "price", "sign"}]
    BY <1>1, <1>2, <1>3 DEF TypeOK
  <2>2. QED
    BY <1>1, <1>2, <2>1 DEF TypeOK
<1>5. /\ val'[c] = market[k] /\ pc'[c] = "lock"
      /\ op'[c] = op[c] /\ param'[c] = k /\ tick'[c] = tick[c] /\ draftPrice'[c] = draftPrice[c]
      /\ got'[c] = got[c] /\ Others(c)
  BY <1>1, <1>2 DEF TypeOK, Others, Untouched
<1>6. CallerOK(c)'
  <2>1. ValueOK(c)'
    BY <1>3, <1>5 DEF ValueOK
  <2>2. DraftOK(c)' /\ ResultOK(got[c])'
    BY <1>1, <1>2, <1>5 DEF CallerOK, DraftOK, ResultOK, InOrder
  <2>3. QED
    BY <2>1, <2>2 DEF CallerOK
<1>7. LockInv'
  BY <1>1, <1>2, <1>5, LocksKept
<1>8. QED
  BY <1>4, <1>5, <1>6, <1>7, OneCaller

LEMMA LockStepInv ==
  ASSUME CallersInv, NEW c \in Callers, Lock(c)
  PROVE  CallersInv'
<1> DEFINE k == param[c]
<1>1. TypeOK /\ LockInv /\ CallerOK(c)
  BY DEF CallersInv
<1>2. /\ pc[c] = "lock" /\ lock[k] = "free"
      /\ lock' = [lock EXCEPT ![k] = c] /\ pc' = [pc EXCEPT ![c] = "write"]
      /\ UNCHANGED <<market, bookPrice, moves, current, cache, op, param, val, tick, draftPrice, seen, known, orderPrice, got, crashed, calls>>
  BY DEF Lock, world, job
<1>3. k \in Kinds
  BY <1>1 DEF TypeOK
<1>4. TypeOK'
  <2>1. /\ lock' \in [Kinds -> Callers \cup {"free"}]
        /\ pc' \in [Callers -> {"idle", "lookup", "fetch", "lock", "write", "reread", "got", "price", "sign"}]
    BY <1>1, <1>2, <1>3 DEF TypeOK
  <2>2. QED
    BY <1>1, <1>2, <2>1 DEF TypeOK
<1>5. /\ val'[c] = val[c] /\ pc'[c] = "write"
      /\ op'[c] = op[c] /\ param'[c] = k /\ tick'[c] = tick[c] /\ draftPrice'[c] = draftPrice[c]
      /\ got'[c] = got[c] /\ Others(c)
  BY <1>1, <1>2 DEF TypeOK, Others, Untouched
<1>6. CallerOK(c)'
  BY <1>1, <1>2, <1>5 DEF CallerOK, ValueOK, DraftOK, ResultOK, InOrder
<1>7. LockInv'
  <2>1. lock'[k] = c /\ \A j \in Kinds : j # k => lock'[j] = lock[j]
    BY <1>1, <1>2, <1>3 DEF TypeOK
  <2>2. ASSUME NEW e \in Callers, pc'[e] = "write"
        PROVE  lock'[param'[e]] = e
    <3>1. CASE e = c
      BY <1>5, <2>1, <3>1
    <3>2. CASE e # c
      <4>1. pc[e] = "write" /\ param'[e] = param[e] /\ param[e] \in Kinds
        BY <1>1, <1>5, <2>2, <3>2 DEF Others, Untouched, TypeOK
      <4>2. lock[param[e]] = e /\ e # "free"
        BY <1>1, <4>1, CallersAssumption DEF LockInv
      <4>3. param[e] # k
        BY <1>2, <4>2
      <4>4. QED
        BY <2>1, <4>1, <4>2, <4>3
    <3>3. QED
      BY <3>1, <3>2
  <2>3. ASSUME NEW j \in Kinds, lock'[j] # "free"
        PROVE  pc'[lock'[j]] = "write" /\ param'[lock'[j]] = j
    <3>1. CASE j = k
      BY <1>5, <2>1, <3>1
    <3>2. CASE j # k
      <4>1. lock[j] \in Callers /\ pc[lock[j]] = "write" /\ param[lock[j]] = j /\ lock'[j] = lock[j]
        BY <1>1, <2>1, <2>3, <3>2 DEF TypeOK, LockInv
      <4>2. lock[j] # c
        BY <1>2, <4>1
      <4>3. QED
        BY <1>5, <4>1, <4>2 DEF Others, Untouched
    <3>3. QED
      BY <3>1, <3>2
  <2>4. QED
    BY <2>2, <2>3 DEF LockInv
<1>8. QED
  BY <1>4, <1>5, <1>6, <1>7, OneCaller

LEMMA UnlockInv ==
  ASSUME TypeOK, LockInv, NEW c \in Callers, pc[c] = "write", pc'[c] # "write",
         lock' = [lock EXCEPT ![param[c]] = "free"], Others(c)
  PROVE  LockInv'
<1> DEFINE k == param[c]
<1>1. k \in Kinds /\ lock[k] = c /\ lock'[k] = "free" /\ \A j \in Kinds : j # k => lock'[j] = lock[j]
  BY DEF TypeOK, LockInv
<1>2. ASSUME NEW e \in Callers, pc'[e] = "write"
      PROVE  lock'[param'[e]] = e
  <2>1. e # c
    BY <1>2
  <2>2. pc[e] = "write" /\ param'[e] = param[e] /\ param[e] \in Kinds /\ lock[param[e]] = e
    BY <1>2, <2>1 DEF Others, Untouched, TypeOK, LockInv
  <2>3. QED
    BY <1>1, <2>1, <2>2
<1>3. ASSUME NEW j \in Kinds, lock'[j] # "free"
      PROVE  pc'[lock'[j]] = "write" /\ param'[lock'[j]] = j
  <2>1. j # k
    BY <1>1, <1>3
  <2>2. lock[j] \in Callers /\ pc[lock[j]] = "write" /\ param[lock[j]] = j /\ lock'[j] = lock[j]
    BY <1>1, <1>3, <2>1 DEF TypeOK, LockInv
  <2>3. lock[j] # c
    BY <2>1, <2>2
  <2>4. QED
    BY <2>2, <2>3 DEF Others, Untouched
<1>4. QED
  BY <1>2, <1>3 DEF LockInv

LEMMA WriteEntryInv ==
  ASSUME CallersInv, NEW c \in Callers, WriteEntry(c)
  PROVE  CallersInv'
<1> DEFINE k == param[c]
<1>1. TypeOK /\ LockInv /\ CallerOK(c)
  BY DEF CallersInv
<1>2. /\ pc[c] = "write" /\ cache' = [cache EXCEPT ![k] = val[c]]
      /\ lock' = [lock EXCEPT ![k] = "free"] /\ orderPrice' = orderPrice
  BY DEF WriteEntry, Unlock
<1>3. k \in Kinds /\ val[c] \in Int /\ val[c] \in Values(k)
  BY <1>1, <1>2 DEF TypeOK, CallerOK, ValueOK
<1>4. /\ lock' \in [Kinds -> Callers \cup {"free"}] /\ cache' \in [Kinds -> Int]
      /\ \A j \in Kinds : cache'[j] \in Values(j) \cup {NoEntry}
      /\ orderPrice' \in [Callers -> Prices \cup {NoPrice}]
  BY <1>1, <1>2, <1>3 DEF TypeOK
<1>5. CASE op[c] = "set"
  <2>1. Return(c, Nothing)
    BY <1>5 DEF WriteEntry
  <2>2. TypeOK' /\ Others(c) /\ CallerOK(c)' /\ pc'[c] = "idle"
    BY <1>1, <1>4, <2>1, NothingOK, ReturnKeeps
  <2>3. LockInv'
    BY <1>1, <1>2, <2>2, UnlockInv
  <2>4. QED
    BY <2>2, <2>3, OneCaller
<1>6. CASE op[c] # "set"
  <2>1. /\ pc' = [pc EXCEPT ![c] = IF k \in RereadKinds THEN "reread" ELSE "got"]
        /\ UNCHANGED <<market, bookPrice, moves, current, op, param, val, tick, draftPrice, seen, known, got, crashed, calls>>
    BY <1>6 DEF WriteEntry, world, job
  <2>2. /\ pc'[c] = (IF k \in RereadKinds THEN "reread" ELSE "got")
        /\ op'[c] = op[c] /\ param'[c] = k /\ val'[c] = val[c] /\ tick'[c] = tick[c]
        /\ draftPrice'[c] = draftPrice[c] /\ got'[c] = got[c] /\ Others(c)
    BY <1>1, <2>1 DEF TypeOK, Others, Untouched
  <2>3. TypeOK'
    <3>1. pc' \in [Callers -> {"idle", "lookup", "fetch", "lock", "write", "reread", "got", "price", "sign"}]
      BY <1>1, <2>1 DEF TypeOK
    <3>2. QED
      BY <1>1, <1>4, <2>1, <3>1 DEF TypeOK
  <2>4. ValueOK(c)'
    <3>1. k = "tick" => val[c] \in Ticks
      BY <1>3, ValueFacts
    <3>2. QED
      BY <2>2, <3>1 DEF ValueOK
  <2>5. DraftOK(c)' /\ ResultOK(got[c])'
    BY <1>1, <1>2, <1>6, <2>2 DEF CallerOK, DraftOK, ResultOK, InOrder
  <2>6. LockInv'
    BY <1>1, <1>2, <2>2, UnlockInv
  <2>7. CallerOK(c)'
    BY <2>4, <2>5 DEF CallerOK
  <2>8. QED
    BY <2>2, <2>3, <2>6, <2>7, OneCaller
<1>7. QED
  BY <1>5, <1>6

LEMMA RereadInv ==
  ASSUME CallersInv, NEW c \in Callers, Reread(c)
  PROVE  CallersInv'
<1> DEFINE k == param[c]
           v == IF cache[k] = NoEntry THEN 0 ELSE cache[k]
<1>1. TypeOK /\ LockInv /\ CallerOK(c)
  BY DEF CallersInv
<1>2. /\ pc[c] = "reread" /\ val' = [val EXCEPT ![c] = v] /\ pc' = [pc EXCEPT ![c] = "got"]
      /\ UNCHANGED <<market, bookPrice, moves, current, cache, lock, op, param, tick, draftPrice, seen, known, orderPrice, got, crashed, calls>>
  BY DEF Reread, world, cached
<1>3. k \in Kinds /\ v \in Int /\ k # "tick"
  BY <1>1, <1>2 DEF TypeOK, CallerOK, ValueOK, RereadKinds
<1> HIDE DEF v
<1>4. TypeOK'
  <2>1. /\ val' \in [Callers -> Int]
        /\ pc' \in [Callers -> {"idle", "lookup", "fetch", "lock", "write", "reread", "got", "price", "sign"}]
    BY <1>1, <1>2, <1>3 DEF TypeOK
  <2>2. QED
    BY <1>1, <1>2, <2>1 DEF TypeOK
<1>5. /\ pc'[c] = "got"
      /\ op'[c] = op[c] /\ param'[c] = k /\ tick'[c] = tick[c] /\ draftPrice'[c] = draftPrice[c]
      /\ got'[c] = got[c] /\ Others(c)
  BY <1>1, <1>2 DEF TypeOK, Others, Untouched
<1>6. CallerOK(c)'
  BY <1>1, <1>2, <1>3, <1>5 DEF CallerOK, ValueOK, DraftOK, ResultOK, InOrder
<1>7. LockInv'
  BY <1>1, <1>2, <1>5, LocksKept
<1>8. QED
  BY <1>4, <1>5, <1>6, <1>7, OneCaller

(***************************************************************************)
(* A step that changes nothing a caller carries and no lock.               *)
(***************************************************************************)
LEMMA NothingTouched ==
  ASSUME CallersInv, TypeOK',
         UNCHANGED <<lock, pc, op, param, val, tick, draftPrice, got>>
  PROVE  CallersInv'
<1>1. \A e \in Callers : CallerOK(e)'
  BY UntouchedOK DEF CallersInv, Untouched
<1>2. LockInv'
  BY DEF CallersInv, LockInv
<1>3. QED
  BY <1>1, <1>2 DEF CallersInv

(***************************************************************************)
(* The beginning of a call: o is the operation, k the parameter it asks    *)
(* for.                                                                    *)
(***************************************************************************)
LEMMA StartInv ==
  ASSUME CallersInv, NEW c \in Callers, NEW o \in Operations, NEW k \in Kinds, NEW first \in {"lookup", "lock"},
         Start(c, o, k, first), orderPrice' = orderPrice,
         current' \in SUBSET Ticks, known' \in [Callers -> SUBSET Ticks],
         val' \in [Callers -> Int], draftPrice' \in [Callers -> Int],
         \A e \in Callers : e # c => val'[e] = val[e] /\ draftPrice'[e] = draftPrice[e],
         first = "lock" => val'[c] \in Values(k), o = "set" => first = "lock",
         o \in {"order", "market"} => k = "tick"
  PROVE  CallersInv'
<1>1. TypeOK /\ LockInv /\ CallerOK(c)
  BY DEF CallersInv
<1>2. /\ pc[c] = "idle" /\ calls < MaxCalls /\ calls' = calls + 1
      /\ op' = [op EXCEPT ![c] = o] /\ param' = [param EXCEPT ![c] = k] /\ pc' = [pc EXCEPT ![c] = first]
      /\ seen' = [seen EXCEPT ![c] = {bookPrice}] /\ got' = [got EXCEPT ![c] = Nothing]
      /\ UNCHANGED <<market, bookPrice, moves, cache, lock, tick, crashed>>
  BY DEF Start, cached
<1>3. TypeOK'
  <2>1. calls' \in 0..MaxCalls
    BY <1>1, <1>2, BoundsAssumption DEF TypeOK
  <2>2. /\ op' \in [Callers -> Operations] /\ param' \in [Callers -> Kinds]
        /\ pc' \in [Callers -> {"idle", "lookup", "fetch", "lock", "write", "reread", "got", "price", "sign"}]
        /\ got' \in [Callers -> Results] /\ seen' \in [Callers -> SUBSET Prices]
    BY <1>1, <1>2, NothingOK DEF TypeOK
  <2>3. QED
    BY <1>1, <1>2, <2>1, <2>2 DEF TypeOK
<1>4. /\ pc'[c] = first /\ op'[c] = o /\ param'[c] = k /\ got'[c] = Nothing /\ Others(c)
  BY <1>1, <1>2 DEF TypeOK, Others, Untouched
<1>5. CallerOK(c)'
  <2>1. ValueOK(c)'
    BY <1>4 DEF ValueOK
  <2>2. DraftOK(c)'
    BY <1>4 DEF DraftOK, InOrder
  <2>3. ResultOK(got[c])'
    BY <1>4 DEF Answer, Nothing, ResultOK
  <2>4. QED
    BY <2>1, <2>2, <2>3 DEF CallerOK
<1>6. LockInv'
  BY <1>1, <1>2, <1>4, LocksKept
<1>7. QED
  BY <1>3, <1>4, <1>5, <1>6, OneCaller

LEMMA BeginInv ==
  ASSUME CallersInv, NEW c \in Callers, NEW o \in Operations \ {"set"}, NEW k \in Kinds,
         Begin(c, o, k, "lookup"), orderPrice' = orderPrice,
         val' \in [Callers -> Int], draftPrice' \in [Callers -> Int],
         \A e \in Callers : e # c => val'[e] = val[e] /\ draftPrice'[e] = draftPrice[e],
         o \in {"order", "market"} => k = "tick"
  PROVE  CallersInv'
<1>1. Start(c, o, k, "lookup") /\ known' = [known EXCEPT ![c] = current] /\ current' = current
  BY DEF Begin
<1>2. current' \in SUBSET Ticks /\ known' \in [Callers -> SUBSET Ticks]
  BY <1>1 DEF CallersInv, TypeOK
<1>3. o \in Operations /\ o # "set"
  OBVIOUS
<1>4. QED
  BY <1>1, <1>2, <1>3, StartInv

LEMMA NowCurrentType ==
  ASSUME TypeOK, NEW t \in Ticks, NowCurrent(t)
  PROVE  current' \in SUBSET Ticks /\ known' \in [Callers -> SUBSET Ticks]
BY DEF TypeOK, NowCurrent

LEMMA NewCallInv ==
  ASSUME CallersInv, NEW c \in Callers, NewCall(c)
  PROVE  CallersInv'
<1>1. TypeOK
  BY DEF CallersInv
<1>2. ASSUME NEW k \in Kinds, Get(c, k)
      PROVE  CallersInv'
  <2>1. Begin(c, "get", k, "lookup") /\ val' = val /\ draftPrice' = draftPrice /\ orderPrice' = orderPrice
    BY <1>2 DEF Get
  <2>2. val' \in [Callers -> Int] /\ draftPrice' \in [Callers -> Int] /\ "get" \in Operations
    BY <1>1, <2>1 DEF TypeOK, Operations
  <2>3. QED
    BY <2>1, <2>2, BeginInv
<1>3. ASSUME NEW k \in Kinds, Clear(c, k)
      PROVE  CallersInv'
  <2>1. /\ calls < MaxCalls /\ calls' = calls + 1 /\ cache' = [cache EXCEPT ![k] = NoEntry]
        /\ UNCHANGED <<market, bookPrice, moves, lock, pc, op, param, val, tick, draftPrice, seen, known, orderPrice, got, crashed>>
    BY <1>3 DEF Clear, ClearedMap, job
  <2>2. calls' \in 0..MaxCalls
    BY <1>1, <2>1, BoundsAssumption DEF TypeOK
  <2>3. cache' \in [Kinds -> Int] /\ \A j \in Kinds : cache'[j] \in Values(j) \cup {NoEntry}
    BY <1>1, <2>1 DEF TypeOK, NoEntry
  <2>4. current' \in SUBSET Ticks
    <3>1. OnTheWay \subseteq Ticks
      BY ValueFacts DEF OnTheWay, CallersInv, CallerOK, ValueOK
    <3>2. market["tick"] \in Ticks
      BY <1>1, ValueFacts DEF TypeOK, Kinds
    <3>3. current' = (IF k = "tick" THEN OnTheWay \cup {market["tick"]} ELSE current)
      BY <1>3 DEF Clear
    <3>4. current \in SUBSET Ticks
      BY <1>1 DEF TypeOK
    <3> HIDE DEF OnTheWay
    <3>5. QED
      BY <3>1, <3>2, <3>3, <3>4
  <2>5. TypeOK'
    BY <1>1, <2>1, <2>2, <2>3, <2>4 DEF TypeOK
  <2>6. QED
    BY <2>1, <2>5, NothingTouched
<1>4. ASSUME NEW k \in Kinds, NEW v \in Values(k), Set(c, k, v)
      PROVE  CallersInv'
  <2>1. /\ Start(c, "set", k, "lock") /\ val' = [val EXCEPT ![c] = v]
        /\ draftPrice' = draftPrice /\ orderPrice' = orderPrice
    BY <1>4 DEF Set
  <2>2. v \in Int
    BY ValueFacts
  <2>3. current' \in SUBSET Ticks /\ known' \in [Callers -> SUBSET Ticks]
    <3>1. CASE k = "tick"
      BY <1>1, <1>4, <3>1, ValueFacts, NowCurrentType DEF Set
    <3>2. CASE k # "tick"
      BY <1>1, <1>4, <3>2 DEF Set, TypeOK
    <3>3. QED
      BY <3>1, <3>2
  <2>4. /\ val' \in [Callers -> Int] /\ draftPrice' \in [Callers -> Int] /\ "set" \in Operations
        /\ val'[c] = v /\ \A e \in Callers : e # c => val'[e] = val[e] /\ draftPrice'[e] = draftPrice[e]
    BY <1>1, <2>1, <2>2 DEF TypeOK, Operations
  <2>5. QED
    BY <2>1, <2>3, <2>4, StartInv
<1>5. CASE ResolveFeeRateBps(c)
  <2>1. Begin(c, "resolve", "fee", "lookup") /\ val' = val /\ draftPrice' = draftPrice /\ orderPrice' = orderPrice
    BY <1>5 DEF ResolveFeeRateBps
  <2>2. /\ val' \in [Callers -> Int] /\ draftPrice' \in [Callers -> Int]
        /\ "resolve" \in Operations /\ "fee" \in Kinds
    BY <1>1, <2>1 DEF TypeOK, Operations, Kinds
  <2>3. QED
    BY <2>1, <2>2, BeginInv
<1>6. ASSUME NEW p \in Prices, CreateOrder(c, p)
      PROVE  CallersInv'
  <2>1. /\ Begin(c, "order", "tick", "lookup") /\ draftPrice' = [draftPrice EXCEPT ![c] = p]
        /\ val' = val /\ orderPrice' = orderPrice
    BY <1>6 DEF CreateOrder
  <2>2. p \in Int
    BY ValueFacts
  <2>3. /\ val' \in [Callers -> Int] /\ draftPrice' \in [Callers -> Int]
        /\ "order" \in Operations /\ "tick" \in Kinds
        /\ \A e \in Callers : e # c => val'[e] = val[e] /\ draftPrice'[e] = draftPrice[e]
    BY <1>1, <2>1, <2>2 DEF TypeOK, Operations, Kinds
  <2>4. QED
    BY <2>1, <2>3, BeginInv
<1>7. CASE CreateMarketOrder(c)
  <2>1. Begin(c, "market", "tick", "lookup") /\ val' = val /\ draftPrice' = draftPrice /\ orderPrice' = orderPrice
    BY <1>7 DEF CreateMarketOrder
  <2>2. /\ val' \in [Callers -> Int] /\ draftPrice' \in [Callers -> Int]
        /\ "market" \in Operations /\ "tick" \in Kinds
    BY <1>1, <2>1 DEF TypeOK, Operations, Kinds
  <2>3. QED
    BY <2>1, <2>2, BeginInv
<1>8. QED
  BY <1>2, <1>3, <1>4, <1>5, <1>6, <1>7, ManagedAssumption DEF NewCall

LEMMA MarketMovesInv ==
  ASSUME CallersInv, MarketMoves
  PROVE  CallersInv'
<1>1. TypeOK
  BY DEF CallersInv
<1>2. /\ moves < MaxMoves /\ moves' = moves + 1
      /\ UNCHANGED <<cache, lock, pc, op, param, val, tick, draftPrice, orderPrice, got, crashed, calls>>
  BY DEF MarketMoves, cached
<1>3. moves' \in 0..MaxMoves
  BY <1>1, <1>2, BoundsAssumption DEF TypeOK
<1> DEFINE Moved == /\ market' \in [Kinds -> Int] /\ \A k \in Kinds : market'[k] \in Values(k)
                    /\ bookPrice' \in Prices /\ seen' \in [Callers -> SUBSET Prices]
                    /\ current' \in SUBSET Ticks /\ known' \in [Callers -> SUBSET Ticks]
<1>4. Moved
  <2>1. ASSUME NEW t \in Ticks, market' = [market EXCEPT !["tick"] = t], NowCurrent(t), UNCHANGED <<bookPrice, seen>>
        PROVE  Moved
    <3>1. t \in Int /\ t \in Values("tick")
      BY ValueFacts
    <3>2. current' \in SUBSET Ticks /\ known' \in [Callers -> SUBSET Ticks]
      BY <1>1, <2>1, NowCurrentType
    <3>3. QED
      BY <1>1, <2>1, <3>1, <3>2 DEF TypeOK
  <2>2. ASSUME bookPrice' \in Prices, UNCHANGED <<market, current, known>>,
               seen' = [e \in Callers |-> IF pc[e] = "idle" THEN seen[e] ELSE seen[e] \cup {bookPrice'}]
        PROVE  Moved
    BY <1>1, <2>2 DEF TypeOK
  <2>3. QED
    BY <2>1, <2>2 DEF MarketMoves
<1>5. TypeOK'
  BY <1>1, <1>2, <1>3, <1>4 DEF TypeOK
<1>6. QED
  BY <1>2, <1>5, NothingTouched

(***************************************************************************)
(* What the caller does with a value it looked up.                         *)
(***************************************************************************)
LEMMA GotValueInv ==
  ASSUME CallersInv, NEW c \in Callers, GotValue(c)
  PROVE  CallersInv'
<1> DEFINE r == [Answer(param[c], val[c]) EXCEPT !.current = known[c]]
<1>1. TypeOK /\ CallerOK(c)
  BY DEF CallersInv
<1>2. pc[c] = "got" /\ Return(c, r) /\ UNCHANGED cached /\ orderPrice' = orderPrice
  BY DEF GotValue
<1>3. param[c] \in Kinds /\ val[c] \in Int /\ (param[c] = "tick" => val[c] \in Ticks)
  BY <1>1, <1>2 DEF TypeOK, CallerOK, ValueOK
<1>4. r \in Results /\ r.op = param[c] /\ r.price = val[c]
  <2>1. known[c] \in SUBSET Ticks
    BY <1>1 DEF TypeOK
  <2>2. QED
    BY <1>3, <2>1 DEF Answer, Results
<1>5. ResultOK(r)
  BY <1>3, <1>4 DEF ResultOK, Kinds
<1>6. orderPrice' \in [Callers -> Prices \cup {NoPrice}]
  BY <1>1, <1>2 DEF TypeOK
<1> HIDE DEF r
<1>7. QED
  BY <1>2, <1>4, <1>5, <1>6, ReturnInv

LEMMA GotFeeInv ==
  ASSUME CallersInv, NEW c \in Callers, GotFee(c)
  PROVE  CallersInv'
<1> DEFINE r == Answer("accepted", val[c])
<1>1. TypeOK
  BY DEF CallersInv
<1>2. /\ pc[c] = "got" /\ UNCHANGED cached /\ orderPrice' = orderPrice
      /\ Return(c, Nothing) \/ Return(c, r)
  BY DEF GotFee
<1>3. r \in Results /\ r.op = "accepted"
  <2>1. val[c] \in Int
    BY <1>1 DEF TypeOK
  <2>2. QED
    BY <2>1 DEF Answer, Results
<1>4. ResultOK(r)
  BY <1>3 DEF ResultOK
<1>5. orderPrice' \in [Callers -> Prices \cup {NoPrice}]
  BY <1>1, <1>2 DEF TypeOK
<1> HIDE DEF r
<1>6. QED
  BY <1>2, <1>3, <1>4, <1>5, NothingOK, ReturnInv

LEMMA GotTickInv ==
  ASSUME CallersInv, NEW c \in Callers, GotTick(c)
  PROVE  CallersInv'
<1>1. TypeOK /\ LockInv /\ CallerOK(c)
  BY DEF CallersInv
<1>2. /\ pc[c] = "got" /\ InOrder(c) /\ param[c] = "tick" /\ pc' = [pc EXCEPT ![c] = "price"]
      /\ UNCHANGED <<market, bookPrice, moves, current, cache, lock, val, op, param, draftPrice, orderPrice, seen, known, got, crashed, calls>>
  BY DEF GotTick, InOrder, world, cached
<1>3. PICK t \in OptionTicks \cup {val[c]} : tick' = [tick EXCEPT ![c] = t]
  BY DEF GotTick
<1>4. t \in Int
  <2>1. OptionTicks \subseteq Int /\ val[c] \in Int
    BY <1>1, ValueFacts, OddTicksAssumption DEF TypeOK, OptionTicks, Unreadable
  <2>2. QED
    BY <2>1
<1>5. TypeOK'
  <2>1. /\ tick' \in [Callers -> Int]
        /\ pc' \in [Callers -> {"idle", "lookup", "fetch", "lock", "write", "reread", "got", "price", "sign"}]
    BY <1>1, <1>2, <1>3, <1>4 DEF TypeOK
  <2>2. QED
    BY <1>1, <1>2, <2>1 DEF TypeOK
<1>6. /\ pc'[c] = "price" /\ op'[c] = op[c] /\ param'[c] = "tick" /\ tick'[c] = t
      /\ got'[c] = got[c] /\ Others(c)
  BY <1>1, <1>2, <1>3 DEF TypeOK, Others, Untouched
<1>7. CallerOK(c)'
  BY <1>1, <1>2, <1>4, <1>6 DEF CallerOK, ValueOK, DraftOK, ResultOK, InOrder
<1>8. LockInv'
  BY <1>1, <1>2, <1>6, LocksKept
<1>9. QED
  BY <1>5, <1>6, <1>7, <1>8, OneCaller

LEMMA GotNegRiskInv ==
  ASSUME CallersInv, NEW c \in Callers, GotNegRisk(c)
  PROVE  CallersInv'
<1>1. TypeOK /\ LockInv /\ CallerOK(c)
  BY DEF CallersInv
<1>2. /\ pc[c] = "got" /\ InOrder(c) /\ param[c] = "neg" /\ pc' = [pc EXCEPT ![c] = "sign"]
      /\ UNCHANGED <<market, bookPrice, moves, current, cache, lock, op, param, val, tick, draftPrice, seen, known, orderPrice, got, crashed, calls>>
  BY DEF GotNegRisk, InOrder, world, cached, job
<1>3. TypeOK'
  <2>1. pc' \in [Callers -> {"idle", "lookup", "fetch", "lock", "write", "reread", "got", "price", "sign"}]
    BY <1>1, <1>2 DEF TypeOK
  <2>2. QED
    BY <1>1, <1>2, <2>1 DEF TypeOK
<1>4. pc'[c] = "sign" /\ Others(c)
  BY <1>1, <1>2 DEF TypeOK, Others, Untouched
<1>5. CallerOK(c)'
  BY <1>1, <1>2, <1>4 DEF CallerOK, ValueOK, DraftOK, ResultOK, InOrder
<1>6. LockInv'
  BY <1>1, <1>2, <1>4, LocksKept
<1>7. QED
  BY <1>3, <1>4, <1>5, <1>6, OneCaller

(***************************************************************************)
(* The price of an order is checked against the tick size it was given, or *)
(* the call ends.                                                          *)
(***************************************************************************)
LEMMA PriceOrderInv ==
  ASSUME CallersInv, NEW c \in Callers, PriceOrder(c)
  PROVE  CallersInv'
<1> DEFINE p == IF op[c] = "order" THEN draftPrice[c]
                ELSE IF orderPrice[c] = NoPrice THEN bookPrice ELSE orderPrice[c]
<1>1. TypeOK /\ LockInv /\ CallerOK(c)
  BY DEF CallersInv
<1>2. /\ pc[c] = "price" /\ cache' = cache /\ lock' = lock
      /\ orderPrice' = [orderPrice EXCEPT ![c] = IF op[c] = "market" THEN p ELSE @]
  BY DEF PriceOrder, cached
<1>3. InOrder(c)
  BY <1>1, <1>2 DEF CallerOK, DraftOK
<1>4. p \in Int /\ (op[c] = "market" => p \in Prices)
  <2>1. draftPrice[c] \in Int /\ bookPrice \in Prices /\ orderPrice[c] \in Prices \cup {NoPrice}
    BY <1>1 DEF TypeOK
  <2>2. Prices \subseteq Int
    BY ValueFacts
  <2>3. QED
    BY <2>1, <2>2
<1>5. IF PriceValid(p, tick[c])
      THEN /\ param' = [param EXCEPT ![c] = "neg"]
           /\ \/ pc' = [pc EXCEPT ![c] = "lookup"] /\ UNCHANGED val
              \/ pc' = [pc EXCEPT ![c] = "sign"] /\ \E v \in Values("neg") : val' = [val EXCEPT ![c] = v]
           /\ draftPrice' = [draftPrice EXCEPT ![c] = p]
           /\ UNCHANGED <<market, bookPrice, moves, current, op, tick, seen, known, got, crashed, calls>>
      ELSE Return(c, Nothing)
  BY DEF PriceOrder, world
<1> HIDE DEF p
<1>6. orderPrice' \in [Callers -> Prices \cup {NoPrice}]
  BY <1>1, <1>2, <1>4 DEF TypeOK
<1>7. CASE PriceValid(p, tick[c])
  <2>1. /\ param' = [param EXCEPT ![c] = "neg"] /\ draftPrice' = [draftPrice EXCEPT ![c] = p]
        /\ UNCHANGED <<market, bookPrice, moves, current, op, tick, seen, known, got, crashed, calls>>
    BY <1>5, <1>7
  <2>2. PICK l \in {"lookup", "sign"}, v \in Int :
          pc' = [pc EXCEPT ![c] = l] /\ val' = [val EXCEPT ![c] = v]
    <3>1. CASE pc' = [pc EXCEPT ![c] = "lookup"] /\ val' = val
      <4>1. val[c] \in Int /\ val' = [val EXCEPT ![c] = val[c]]
        BY <1>1, <3>1 DEF TypeOK
      <4>2. QED
        BY <3>1, <4>1
    <3>2. ASSUME pc' = [pc EXCEPT ![c] = "sign"], NEW v \in Values("neg"), val' = [val EXCEPT ![c] = v]
          PROVE  \E l \in {"lookup", "sign"}, w \in Int :
                    pc' = [pc EXCEPT ![c] = l] /\ val' = [val EXCEPT ![c] = w]
      <4>1. v \in Int
        BY ValueFacts
      <4>2. QED
        BY <3>2, <4>1
    <3>3. QED
      BY <1>5, <1>7, <3>1, <3>2
  <2>3. TypeOK'
    <3>1. /\ val' \in [Callers -> Int] /\ draftPrice' \in [Callers -> Int] /\ param' \in [Callers -> Kinds]
          /\ pc' \in [Callers -> {"idle", "lookup", "fetch", "lock", "write", "reread", "got", "price", "sign"}]
      BY <1>1, <1>4, <2>1, <2>2 DEF TypeOK, Kinds
    <3>2. QED
      BY <1>1, <1>2, <1>6, <2>1, <3>1 DEF TypeOK
  <2>4. /\ pc'[c] \in {"lookup", "sign"} /\ param'[c] = "neg" /\ draftPrice'[c] = p
        /\ op'[c] = op[c] /\ tick'[c] = tick[c] /\ got'[c] = got[c] /\ Others(c)
    BY <1>1, <2>1, <2>2 DEF TypeOK, Others, Untouched
  <2>5. CallerOK(c)'
    BY <1>1, <1>3, <1>7, <2>4 DEF CallerOK, ValueOK, DraftOK, ResultOK, InOrder
  <2>6. LockInv'
    BY <1>1, <1>2, <2>4, LocksKept
  <2>7. QED
    BY <2>3, <2>4, <2>5, <2>6, OneCaller
<1>8. CASE ~PriceValid(p, tick[c])
  BY <1>2, <1>5, <1>6, <1>8, NothingOK, ReturnInv DEF cached
<1>9. QED
  BY <1>7, <1>8

LEMMA SignOrderInv ==
  ASSUME CallersInv, NEW c \in Callers, SignOrder(c)
  PROVE  CallersInv'
<1> DEFINE r == [op |-> op[c], tick |-> tick[c], price |-> draftPrice[c],
                 neg |-> val[c], offered |-> seen[c], current |-> known[c]]
<1>1. TypeOK /\ CallerOK(c)
  BY DEF CallersInv
<1>2. pc[c] = "sign" /\ tick[c] \in Ticks /\ Return(c, r) /\ UNCHANGED cached /\ orderPrice' = orderPrice
  BY DEF SignOrder
<1>3. tick[c] \in Ticks /\ InOrder(c)
  BY <1>1, <1>2 DEF CallerOK, DraftOK
<1>4. r \in Results
  BY <1>1 DEF TypeOK, Results
<1>5. ResultOK(r)
  BY <1>3 DEF ResultOK, InOrder
<1>6. orderPrice' \in [Callers -> Prices \cup {NoPrice}]
  BY <1>1, <1>2 DEF TypeOK
<1> HIDE DEF r
<1>7. QED
  BY <1>2, <1>4, <1>5, <1>6, ReturnInv

LEMMA RoundingPanicsInv ==
  ASSUME CallersInv, NEW c \in Callers, RoundingPanics(c)
  PROVE  CallersInv'
<1>1. /\ pc[c] = "sign" /\ Return(c, Answer("panic", 0)) /\ UNCHANGED cached
      /\ orderPrice' \in [Callers -> Prices \cup {NoPrice}]
  BY DEF RoundingPanics, CallersInv, TypeOK
<1>2. Answer("panic", 0) \in Results /\ ResultOK(Answer("panic", 0))
  BY DEF Answer, Results, ResultOK
<1>3. QED
  BY <1>1, <1>2, ReturnInv

LEMMA CallStepInv ==
  ASSUME CallersInv, NEW c \in Callers, CallStep(c)
  PROVE  CallersInv'
<1>1. ASSUME Fail(c), pc[c] \in {"fetch", "got", "price", "sign"}
      PROVE  CallersInv'
  BY <1>1, FailInv
<1>2. CASE FetchFails(c) \/ TickRefused(c) \/ NoMarketPrice(c) \/ BuildFails(c)
  BY <1>1, <1>2 DEF FetchFails, TickRefused, NoMarketPrice, BuildFails
<1>3. CASE RereadRaces(c)
  <2>1. /\ crashed' = TRUE
        /\ UNCHANGED <<market, bookPrice, moves, current, cache, lock, pc, op, param, val, tick, draftPrice, seen, known, orderPrice, got, calls>>
    BY <1>3 DEF RereadRaces, world, cached, job
  <2>2. TypeOK'
    BY <2>1 DEF CallersInv, TypeOK
  <2>3. QED
    BY <2>1, <2>2, NothingTouched
<1>4. QED
  BY <1>2, <1>3, LookupInv, FetchInv, LockStepInv, WriteEntryInv, RereadInv, GotValueInv, GotFeeInv,
     GotTickInv, GotNegRiskInv, PriceOrderInv, SignOrderInv, RoundingPanicsInv DEF CallStep

LEMMA ClientInitInv == ClientInit => CallersInv
<1> HAVE ClientInit
<1>1. TypeOK
  <2>1. market \in [Kinds -> Int] /\ \A k \in Kinds : market[k] \in Values(k)
    <3>1. Ticks \cup {1, marketFee} \subseteq Int
      BY ValueFacts DEF marketFee
    <3>2. QED
      BY <3>1 DEF ClientInit
  <2>2. /\ got \in [Callers -> Results] /\ calls \in 0..MaxCalls /\ moves \in 0..MaxMoves
        /\ crashed \in BOOLEAN /\ bookPrice \in Prices
    <3>1. got \in [Callers -> Results]
      BY NothingOK DEF ClientInit
    <3>2. calls \in 0..MaxCalls /\ moves \in 0..MaxMoves
      BY BoundsAssumption DEF ClientInit
    <3>3. QED
      BY <3>1, <3>2 DEF ClientInit
  <2>3. /\ cache \in [Kinds -> Int] /\ \A k \in Kinds : cache[k] \in Values(k) \cup {NoEntry}
        /\ lock \in [Kinds -> Callers \cup {"free"}]
    BY DEF ClientInit, NoEntry
  <2>4. /\ pc \in [Callers -> {"idle", "lookup", "fetch", "lock", "write", "reread", "got", "price", "sign"}]
        /\ op \in [Callers -> Operations] /\ param \in [Callers -> Kinds]
        /\ val \in [Callers -> Int] /\ tick \in [Callers -> Int] /\ draftPrice \in [Callers -> Int]
        /\ orderPrice \in [Callers -> Prices \cup {NoPrice}] /\ seen \in [Callers -> SUBSET Prices]
        /\ known \in [Callers -> SUBSET Ticks]
    BY DEF ClientInit, Operations, Kinds
  <2>5. current \in SUBSET Ticks
    <3>1. market["tick"] \in Ticks
      BY <2>1, ValueFacts DEF Kinds
    <3>2. QED
      BY <3>1 DEF ClientInit
  <2>6. QED
    BY <2>1, <2>2, <2>3, <2>4, <2>5 DEF TypeOK
<1>2. LockInv
  BY DEF ClientInit, LockInv
<1>3. ASSUME NEW c \in Callers
      PROVE  CallerOK(c)
  <2>1. pc[c] = "idle" /\ op[c] = "none" /\ got[c] = Nothing
    BY DEF ClientInit
  <2>2. QED
    BY <2>1, NothingOK DEF CallerOK, ValueOK, DraftOK, InOrder
<1>4. QED
  BY <1>1, <1>2, <1>3 DEF CallersInv

(***************************************************************************)
(* For any number of callers, any tick sizes and any prices: every map     *)
(* entry, every value a lookup carries and every order under construction  *)
(* is what its place in the call says, and the write locks exclude.        *)
(***************************************************************************)
THEOREM CallersAccounted == ClientSpec => []CallersInv
<1>1. CallersInv /\ [ClientNext]_clientVars => CallersInv'
  <2> SUFFICES ASSUME CallersInv, [ClientNext]_clientVars
               PROVE  CallersInv'
    OBVIOUS
  <2>1. CASE ClientNext
    BY <2>1, MarketMovesInv, CallStepInv, NewCallInv DEF ClientNext
  <2>2. CASE UNCHANGED clientVars
    <3>1. UNCHANGED <<market, bookPrice, moves, current, cache, lock, pc, op, param, val, tick, draftPrice, seen, known,
                      orderPrice, got, crashed, calls>>
      BY <2>2 DEF clientVars, world, cached, job
    <3>2. TypeOK'
      BY <3>1 DEF CallersInv, TypeOK
    <3>3. QED
      BY <3>1, <3>2, NothingTouched
  <2>3. QED
    BY <2>1, <2>2
<1>2. QED
  BY <1>1, ClientInitInv, PTL DEF ClientSpec

(***************************************************************************)
(* GetTickSize never returns, and no order is ever rounded with, a value   *)
(* that is not a tick size, whatever SetTickSize and ClearTickSizes do     *)
(* meanwhile: the entry is read once, under the lock, or not at all.       *)
(***************************************************************************)
THEOREM TickSizesReal == ClientSpec => []TickSizeIsReal
<1>1. CallersInv => TickSizeIsReal
  BY DEF CallersInv, CallerOK, ResultOK, TickSizeIsReal
<1>2. QED
  BY <1>1, CallersAccounted, PTL

-----------------------------------------------------------------------------
(***************************************************************************)
(* ClearTickSizes makes the client forget (TickSizeIsCurrent).             *)
(*                                                                         *)
(* What a caller carries is current, or was during its call: a tick size   *)
(* it is about to store is current still, one it is about to use was       *)
(* during the call, and the one of its order is not smaller than one that  *)
(* was.                                                                    *)
(***************************************************************************)
NotAbove(T, x) == \E a \in T : a <= x

Carried(c) ==
  /\ pc[c] \in {"lock", "write"} /\ param[c] = "tick" => val[c] \in current
  /\ pc[c] # "idle" /\ op[c] # "set" => current \subseteq known[c]
  /\ pc[c] = "got" /\ param[c] = "tick" => val[c] \in known[c]
  /\ InOrder(c) /\ (pc[c] = "price" \/ param[c] = "neg") =>
       tick[c] = Unreadable \/ NotAbove(known[c], tick[c])

ResultCurrent(r) ==
  /\ r.op = "tick" => r.price \in r.current
  /\ r.op \in {"order", "market"} => NotAbove(r.current, r.tick)

MapCurrent == market["tick"] \in current /\ cache["tick"] \in current \cup {NoEntry}

CurrentInv == MapCurrent /\ \A c \in Callers : Carried(c) /\ ResultCurrent(got[c])

LEMMA CarriedKept ==
  ASSUME NEW e \in Callers, Carried(e), Untouched(e), known[e] \subseteq known'[e],
         pc[e] # "idle" /\ op[e] # "set" => current' \subseteq known'[e],
         pc[e] \in {"lock", "write"} /\ param[e] = "tick" => val[e] \in current'
  PROVE  Carried(e)'
<1>1. InOrder(e)' = InOrder(e)
  BY DEF InOrder, Untouched
<1>2. NotAbove(known[e], tick[e]) => NotAbove(known'[e], tick'[e])
  BY DEF NotAbove, Untouched
<1>3. /\ (pc[e] \in {"lock", "write"} /\ param[e] = "tick" => val[e] \in current)
      /\ (pc[e] = "got" /\ param[e] = "tick" => val[e] \in known[e])
      /\ (InOrder(e) /\ (pc[e] = "price" \/ param[e] = "neg")
            => tick[e] = Unreadable \/ NotAbove(known[e], tick[e]))
  BY DEF Carried
<1>4. /\ pc'[e] = pc[e] /\ op'[e] = op[e] /\ param'[e] = param[e] /\ val'[e] = val[e]
      /\ tick'[e] = tick[e]
  BY DEF Untouched
<1>5. NotAbove(known[e], tick[e])' = NotAbove(known'[e], tick'[e])
  BY DEF NotAbove
<1>6. QED
  BY <1>1, <1>2, <1>3, <1>4, <1>5 DEF Carried

(***************************************************************************)
(* A step of one caller that stores no other tick size than a current one. *)
(***************************************************************************)
LEMMA OneCarrier ==
  ASSUME CurrentInv, NEW c \in Callers, Others(c), UNCHANGED <<market, current>>,
         cache'["tick"] \in current \cup {NoEntry},
         \A e \in Callers : e # c => known'[e] = known[e],
         Carried(c)', ResultCurrent(got'[c])
  PROVE  CurrentInv'
<1>1. MapCurrent'
  BY DEF CurrentInv, MapCurrent
<1>2. ASSUME NEW e \in Callers, e # c
      PROVE  Carried(e)' /\ ResultCurrent(got'[e])
  <2>1. Untouched(e) /\ known'[e] = known[e] /\ Carried(e) /\ ResultCurrent(got[e]) /\ got'[e] = got[e]
    BY <1>2 DEF CurrentInv, Others, Untouched
  <2>2. Carried(e)'
    <3>1. /\ (pc[e] # "idle" /\ op[e] # "set" => current' \subseteq known'[e])
          /\ (pc[e] \in {"lock", "write"} /\ param[e] = "tick" => val[e] \in current')
      BY <2>1 DEF Carried
    <3>2. QED
      BY <2>1, <3>1, CarriedKept
  <2>3. QED
    BY <2>1, <2>2
<1>3. ASSUME NEW e \in Callers
      PROVE  Carried(e)' /\ ResultCurrent(got[e])'
  <2>1. ResultCurrent(got[e])' = ResultCurrent(got'[e])
    BY DEF ResultCurrent, NotAbove
  <2>2. QED
    BY <1>2, <2>1
<1>4. QED
  BY <1>1, <1>3 DEF CurrentInv

(***************************************************************************)
(* The end of a call.                                                      *)
(***************************************************************************)
LEMMA NothingCurrent == ResultCurrent(Nothing)
BY DEF ResultCurrent, Nothing, Answer

LEMMA ReturnCurrent ==
  ASSUME CallersInv, CurrentInv, NEW c \in Callers, NEW r, Return(c, r), ResultCurrent(r),
         cache'["tick"] \in current \cup {NoEntry}
  PROVE  CurrentInv'
<1>1. TypeOK
  BY DEF CallersInv
<1>2. /\ got' = [got EXCEPT ![c] = r] /\ pc' = [pc EXCEPT ![c] = "idle"] /\ op' = [op EXCEPT ![c] = "none"]
      /\ param' = [param EXCEPT ![c] = "tick"] /\ val' = [val EXCEPT ![c] = 0] /\ tick' = [tick EXCEPT ![c] = 0]
      /\ draftPrice' = [draftPrice EXCEPT ![c] = 0] /\ known' = [known EXCEPT ![c] = {}]
      /\ UNCHANGED <<market, current>>
  BY DEF Return, world
<1>3. /\ Others(c) /\ \A e \in Callers : e # c => known'[e] = known[e]
      /\ pc'[c] = "idle" /\ op'[c] = "none" /\ got'[c] = r
  BY <1>1, <1>2 DEF TypeOK, Others, Untouched
<1>4. Carried(c)' /\ ResultCurrent(got'[c])
  BY <1>3 DEF Carried, InOrder
<1>5. QED
  BY <1>2, <1>3, <1>4, OneCarrier

LEMMA CachedCurrent ==
  ASSUME CurrentInv, UNCHANGED cached
  PROVE  cache'["tick"] \in current \cup {NoEntry}
BY DEF CurrentInv, MapCurrent, cached

LEMMA FailCurrent ==
  ASSUME CallersInv, CurrentInv, NEW c \in Callers, Fail(c)
  PROVE  CurrentInv'
<1>1. Return(c, Nothing) /\ UNCHANGED cached
  BY DEF Fail
<1>2. QED
  BY <1>1, CachedCurrent, NothingCurrent, ReturnCurrent

(***************************************************************************)
(* A step of c within its call that changes neither map nor history.       *)
(***************************************************************************)
LEMMA WithinCall ==
  ASSUME CallersInv, CurrentInv, NEW c \in Callers, Others(c), UNCHANGED <<market, current, known, got>>,
         cache'["tick"] \in current \cup {NoEntry}, pc[c] # "idle", op'[c] = op[c],
         (pc'[c] \in {"lock", "write"} /\ param'[c] = "tick") => val'[c] \in current,
         (op[c] # "set" /\ pc'[c] = "got" /\ param'[c] = "tick") => val'[c] \in known[c],
         op[c] = "set" => pc'[c] # "got",
         (InOrder(c) /\ (pc'[c] = "price" \/ param'[c] = "neg")) =>
            tick'[c] = Unreadable \/ NotAbove(known[c], tick'[c])
  PROVE  CurrentInv'
<1>1. NotAbove(known[c], tick[c])' = NotAbove(known[c], tick'[c])
  BY DEF NotAbove
<1>2. pc[c] # "idle" /\ op[c] # "set" => current \subseteq known[c]
  BY DEF CurrentInv, Carried
<1>3. InOrder(c)' = InOrder(c) /\ known'[c] = known[c]
  BY DEF InOrder
<1>4. Carried(c)'
  BY <1>1, <1>2, <1>3 DEF Carried
<1>5. ResultCurrent(got'[c])
  BY DEF CurrentInv
<1>6. QED
  BY <1>4, <1>5, OneCarrier

(***************************************************************************)
(* Lookups: from the map or from the server, a tick size is a current one. *)
(***************************************************************************)
LEMMA LookupCurrent ==
  ASSUME CallersInv, CurrentInv, NEW c \in Callers, Lookup(c)
  PROVE  CurrentInv'
<1>1. TypeOK /\ CallerOK(c) /\ Carried(c) /\ MapCurrent
  BY DEF CallersInv, CurrentInv
<1>2. /\ pc[c] = "lookup" /\ val' = [val EXCEPT ![c] = cache[param[c]]]
      /\ pc' = [pc EXCEPT ![c] = IF cache[param[c]] = NoEntry THEN "fetch" ELSE "got"]
      /\ UNCHANGED <<market, current, known, got, cache, op, param, tick, draftPrice>>
  BY DEF Lookup, world, cached
<1>3. /\ Others(c) /\ val'[c] = cache[param[c]]
      /\ pc'[c] = (IF cache[param[c]] = NoEntry THEN "fetch" ELSE "got")
  BY <1>1, <1>2 DEF TypeOK, Others, Untouched
<1>4. op[c] # "set" /\ current \subseteq known[c]
  BY <1>1, <1>2 DEF CallerOK, DraftOK, Carried
<1>5. param[c] = "neg" /\ InOrder(c) => tick[c] = Unreadable \/ NotAbove(known[c], tick[c])
  BY <1>1 DEF Carried
<1>6. QED
  BY <1>1, <1>2, <1>3, <1>4, <1>5, WithinCall DEF MapCurrent

LEMMA FetchCurrent ==
  ASSUME CallersInv, CurrentInv, NEW c \in Callers, Fetch(c)
  PROVE  CurrentInv'
<1>1. TypeOK /\ Carried(c) /\ MapCurrent
  BY DEF CallersInv, CurrentInv
<1>2. /\ pc[c] = "fetch" /\ val' = [val EXCEPT ![c] = market[param[c]]] /\ pc' = [pc EXCEPT ![c] = "lock"]
      /\ UNCHANGED <<market, current, known, got, cache, op, param, tick, draftPrice>>
  BY DEF Fetch, world, cached
<1>3. Others(c) /\ val'[c] = market[param[c]] /\ pc'[c] = "lock"
  BY <1>1, <1>2 DEF TypeOK, Others, Untouched
<1>4. param[c] = "neg" /\ InOrder(c) => tick[c] = Unreadable \/ NotAbove(known[c], tick[c])
  BY <1>1 DEF Carried
<1>5. QED
  BY <1>1, <1>2, <1>3, <1>4, WithinCall DEF MapCurrent

LEMMA LockCurrent ==
  ASSUME CallersInv, CurrentInv, NEW c \in Callers, Lock(c)
  PROVE  CurrentInv'
<1>1. TypeOK /\ Carried(c) /\ MapCurrent
  BY DEF CallersInv, CurrentInv
<1>2. /\ pc[c] = "lock" /\ pc' = [pc EXCEPT ![c] = "write"]
      /\ UNCHANGED <<market, current, known, got, cache, op, param, val, tick, draftPrice>>
  BY DEF Lock, world, job
<1>3. Others(c) /\ pc'[c] = "write"
  BY <1>1, <1>2 DEF TypeOK, Others, Untouched
<1>4. /\ (param[c] = "neg" /\ InOrder(c) => tick[c] = Unreadable \/ NotAbove(known[c], tick[c]))
      /\ (param[c] = "tick" => val[c] \in current)
  BY <1>1, <1>2 DEF Carried
<1>5. QED
  BY <1>1, <1>2, <1>3, <1>4, WithinCall DEF MapCurrent

LEMMA WriteEntryCurrent ==
  ASSUME CallersInv, CurrentInv, NEW c \in Callers, WriteEntry(c)
  PROVE  CurrentInv'
<1>1. TypeOK /\ Carried(c) /\ MapCurrent
  BY DEF CallersInv, CurrentInv
<1>2. pc[c] = "write" /\ cache' = [cache EXCEPT ![param[c]] = val[c]]
  BY DEF WriteEntry
<1>3. /\ (param[c] = "neg" /\ InOrder(c) => tick[c] = Unreadable \/ NotAbove(known[c], tick[c]))
      /\ (param[c] = "tick" => val[c] \in current)
  BY <1>1, <1>2 DEF Carried
<1>4. cache'["tick"] \in current \cup {NoEntry}
  BY <1>1, <1>2, <1>3 DEF TypeOK, MapCurrent, Kinds
<1>5. CASE op[c] = "set"
  <2>1. Return(c, Nothing)
    BY <1>5 DEF WriteEntry
  <2>2. QED
    BY <1>4, <2>1, NothingCurrent, ReturnCurrent
<1>6. CASE op[c] # "set"
  <2>1. /\ pc' = [pc EXCEPT ![c] = IF param[c] \in RereadKinds THEN "reread" ELSE "got"]
        /\ UNCHANGED <<market, current, known, got, op, param, val, tick, draftPrice>>
    BY <1>6 DEF WriteEntry, world, job
  <2>2. Others(c) /\ pc'[c] \in {"reread", "got"}
    BY <1>1, <2>1 DEF TypeOK, Others, Untouched
  <2>3. current \subseteq known[c]
    BY <1>1, <1>2, <1>6 DEF Carried
  <2>4. QED
    BY <1>2, <1>3, <1>4, <1>6, <2>1, <2>2, <2>3, WithinCall
<1>7. QED
  BY <1>5, <1>6

LEMMA RereadCurrent ==
  ASSUME CallersInv, CurrentInv, NEW c \in Callers, Reread(c)
  PROVE  CurrentInv'
<1>1. TypeOK /\ CallerOK(c) /\ Carried(c) /\ MapCurrent
  BY DEF CallersInv, CurrentInv
<1>2. /\ pc[c] = "reread" /\ pc' = [pc EXCEPT ![c] = "got"]
      /\ val' = [val EXCEPT ![c] = IF cache[param[c]] = NoEntry THEN 0 ELSE cache[param[c]]]
      /\ UNCHANGED <<market, current, known, got, cache, op, param, tick, draftPrice>>
  BY DEF Reread, world, cached
<1>3. Others(c) /\ pc'[c] = "got"
  BY <1>1, <1>2 DEF TypeOK, Others, Untouched
<1>4. op[c] # "set" /\ param[c] # "tick"
  BY <1>1, <1>2 DEF CallerOK, DraftOK, ValueOK, RereadKinds
<1>5. param[c] = "neg" /\ InOrder(c) => tick[c] = Unreadable \/ NotAbove(known[c], tick[c])
  BY <1>1 DEF Carried
<1>6. QED
  BY <1>1, <1>2, <1>3, <1>4, <1>5, WithinCall DEF MapCurrent

(***************************************************************************)
(* The caller's option can only be larger than the tick size looked up,    *)
(* or no number.                                                           *)
(***************************************************************************)
LEMMA GotTickCurrent ==
  ASSUME CallersInv, CurrentInv, NEW c \in Callers, GotTick(c)
  PROVE  CurrentInv'
<1>1. TypeOK /\ CallerOK(c) /\ Carried(c) /\ MapCurrent
  BY DEF CallersInv, CurrentInv
<1>2. /\ pc[c] = "got" /\ op[c] \in {"order", "market"} /\ param[c] = "tick" /\ pc' = [pc EXCEPT ![c] = "price"]
      /\ UNCHANGED <<market, current, known, got, cache, op, param, val, draftPrice>>
  BY DEF GotTick, world, cached
<1>3. PICK t \in OptionTicks \cup {val[c]} : ~IsTickSizeSmaller(t, val[c]) /\ tick' = [tick EXCEPT ![c] = t]
  BY DEF GotTick
<1>4. Others(c) /\ pc'[c] = "price" /\ tick'[c] = t
  BY <1>1, <1>2, <1>3 DEF TypeOK, Others, Untouched
<1>5. t \in Int /\ val[c] \in Int
  <2>1. OptionTicks \subseteq Int /\ val[c] \in Int
    BY <1>1, ValueFacts, OddTicksAssumption DEF TypeOK, OptionTicks, Unreadable
  <2>2. QED
    BY <2>1
<1>6. t = Unreadable \/ val[c] <= t
  BY <1>3, <1>5 DEF IsTickSizeSmaller
<1>7. val[c] \in known[c]
  BY <1>1, <1>2 DEF Carried
<1>8. tick'[c] = Unreadable \/ NotAbove(known[c], tick'[c])
  BY <1>4, <1>6, <1>7 DEF NotAbove
<1>9. QED
  BY <1>1, <1>2, <1>4, <1>8, WithinCall DEF MapCurrent

LEMMA GotNegRiskCurrent ==
  ASSUME CallersInv, CurrentInv, NEW c \in Callers, GotNegRisk(c)
  PROVE  CurrentInv'
<1>1. TypeOK /\ Carried(c) /\ MapCurrent
  BY DEF CallersInv, CurrentInv
<1>2. /\ pc[c] = "got" /\ op[c] \in {"order", "market"} /\ param[c] = "neg" /\ pc' = [pc EXCEPT ![c] = "sign"]
      /\ UNCHANGED <<market, current, known, got, cache, op, param, val, tick, draftPrice>>
  BY DEF GotNegRisk, world, cached, job
<1>3. Others(c) /\ pc'[c] = "sign"
  BY <1>1, <1>2 DEF TypeOK, Others, Untouched
<1>4. param[c] = "neg" /\ InOrder(c) => tick[c] = Unreadable \/ NotAbove(known[c], tick[c])
  BY <1>1 DEF Carried
<1>5. QED
  BY <1>1, <1>2, <1>3, <1>4, WithinCall DEF MapCurrent

LEMMA PriceOrderCurrent ==
  ASSUME CallersInv, CurrentInv, NEW c \in Callers, PriceOrder(c)
  PROVE  CurrentInv'
<1>1. TypeOK /\ CallerOK(c) /\ Carried(c) /\ MapCurrent
  BY DEF CallersInv, CurrentInv
<1>2. pc[c] = "price" /\ cache' = cache
  BY DEF PriceOrder, cached
<1>3. CASE Return(c, Nothing)
  BY <1>1, <1>2, <1>3, NothingCurrent, ReturnCurrent DEF MapCurrent
<1>4. ASSUME NEW p, NEW l \in {"lookup", "sign"},
             param' = [param EXCEPT ![c] = "neg"], pc' = [pc EXCEPT ![c] = l],
             draftPrice' = [draftPrice EXCEPT ![c] = p], \A e \in Callers : e # c => val'[e] = val[e],
             UNCHANGED <<market, current, known, got, op, tick>>
      PROVE  CurrentInv'
  <2>1. Others(c) /\ pc'[c] = l /\ param'[c] = "neg"
    BY <1>1, <1>4 DEF TypeOK, Others, Untouched
  <2>2. InOrder(c) /\ op[c] # "set" /\ (tick[c] = Unreadable \/ NotAbove(known[c], tick[c]))
    BY <1>1, <1>2 DEF CallerOK, DraftOK, Carried
  <2>3. QED
    BY <1>1, <1>2, <1>4, <2>1, <2>2, WithinCall DEF MapCurrent
<1>5. \/ Return(c, Nothing)
      \/ \E l \in {"lookup", "sign"} : \E p :
            /\ param' = [param EXCEPT ![c] = "neg"] /\ pc' = [pc EXCEPT ![c] = l]
            /\ draftPrice' = [draftPrice EXCEPT ![c] = p] /\ (\A e \in Callers : e # c => val'[e] = val[e])
            /\ UNCHANGED <<market, current, known, got, op, tick>>
  <2> DEFINE p == IF op[c] = "order" THEN draftPrice[c]
                  ELSE IF orderPrice[c] = NoPrice THEN bookPrice ELSE orderPrice[c]
  <2>1. \/ Return(c, Nothing)
        \/ /\ param' = [param EXCEPT ![c] = "neg"]
           /\ \/ pc' = [pc EXCEPT ![c] = "lookup"] /\ val' = val
              \/ pc' = [pc EXCEPT ![c] = "sign"] /\ \E v \in Values("neg") : val' = [val EXCEPT ![c] = v]
           /\ draftPrice' = [draftPrice EXCEPT ![c] = p]
           /\ UNCHANGED <<market, current, known, got, op, tick>>
    BY DEF PriceOrder, world
  <2> HIDE DEF p
  <2>2. (val' = val \/ \E v \in Values("neg") : val' = [val EXCEPT ![c] = v])
          => \A e \in Callers : e # c => val'[e] = val[e]
    BY <1>1 DEF TypeOK
  <2>3. CASE Return(c, Nothing)
    BY <2>3
  <2>4. CASE ~Return(c, Nothing)
    <3>1. PICK l \in {"lookup", "sign"} : pc' = [pc EXCEPT ![c] = l]
      BY <2>1, <2>4
    <3>2. /\ param' = [param EXCEPT ![c] = "neg"] /\ draftPrice' = [draftPrice EXCEPT ![c] = p]
          /\ (\A e \in Callers : e # c => val'[e] = val[e])
          /\ UNCHANGED <<market, current, known, got, op, tick>>
      BY <2>1, <2>2, <2>4
    <3>3. QED
      BY <3>1, <3>2
  <2>5. QED
    BY <2>3, <2>4
<1>6. QED
  BY <1>3, <1>4, <1>5

(***************************************************************************)
(* What a call returns.                                                    *)
(***************************************************************************)
LEMMA GotValueCurrent ==
  ASSUME CallersInv, CurrentInv, NEW c \in Callers, GotValue(c)
  PROVE  CurrentInv'
<1> DEFINE r == [Answer(param[c], val[c]) EXCEPT !.current = known[c]]
<1>1. pc[c] = "got" /\ Return(c, r) /\ UNCHANGED cached
  BY DEF GotValue
<1>2. param[c] \in Kinds /\ (param[c] = "tick" => val[c] \in known[c])
  BY <1>1 DEF CallersInv, TypeOK, CurrentInv, Carried
<1>3. ResultCurrent(r)
  <2>1. r.op = param[c] /\ r.price = val[c] /\ r.current = known[c]
    BY DEF Answer
  <2>2. QED
    BY <1>2, <2>1 DEF ResultCurrent, Kinds
<1> HIDE DEF r
<1>4. QED
  BY <1>1, <1>3, CachedCurrent, ReturnCurrent

LEMMA SignOrderCurrent ==
  ASSUME CallersInv, CurrentInv, NEW c \in Callers, SignOrder(c)
  PROVE  CurrentInv'
<1> DEFINE r == [op |-> op[c], tick |-> tick[c], price |-> draftPrice[c],
                 neg |-> val[c], offered |-> seen[c], current |-> known[c]]
<1>1. pc[c] = "sign" /\ tick[c] \in Ticks /\ Return(c, r) /\ UNCHANGED cached
  BY DEF SignOrder
<1>2. tick[c] # Unreadable
  <2>1. tick[c] \in Nat
    BY <1>1, ValueFacts
  <2>2. QED
    BY <2>1 DEF Unreadable
<1>3. InOrder(c) /\ param[c] = "neg"
  BY <1>1 DEF CallersInv, CallerOK, DraftOK
<1>4. NotAbove(known[c], tick[c])
  BY <1>2, <1>3 DEF CurrentInv, Carried
<1>5. ResultCurrent(r)
  <2>1. r.op = op[c] /\ r.tick = tick[c] /\ r.current = known[c]
    OBVIOUS
  <2>2. QED
    BY <1>3, <1>4, <2>1 DEF ResultCurrent, InOrder
<1> HIDE DEF r
<1>6. QED
  BY <1>1, <1>5, CachedCurrent, ReturnCurrent

LEMMA OtherReturnsCurrent ==
  ASSUME CallersInv, CurrentInv, NEW c \in Callers, GotFee(c) \/ RoundingPanics(c)
  PROVE  CurrentInv'
<1>1. ResultCurrent(Answer("accepted", val[c])) /\ ResultCurrent(Answer("panic", 0))
  BY DEF ResultCurrent, Answer
<1>2. /\ UNCHANGED cached
      /\ Return(c, Nothing) \/ Return(c, Answer("accepted", val[c])) \/ Return(c, Answer("panic", 0))
  BY DEF GotFee, RoundingPanics
<1>3. QED
  BY <1>1, <1>2, NothingCurrent, CachedCurrent, ReturnCurrent

LEMMA CallStepCurrent ==
  ASSUME CallersInv, CurrentInv, NEW c \in Callers, CallStep(c)
  PROVE  CurrentInv'
<1>1. CASE FetchFails(c) \/ TickRefused(c) \/ NoMarketPrice(c) \/ BuildFails(c)
  BY <1>1, FailCurrent DEF FetchFails, TickRefused, NoMarketPrice, BuildFails
<1>2. CASE RereadRaces(c)
  <2>1. UNCHANGED <<market, current, known, got, cache, pc, op, param, val, tick, draftPrice>>
    BY <1>2 DEF RereadRaces, world, cached, job
  <2>2. Others(c) /\ Carried(c) /\ ResultCurrent(got[c]) /\ MapCurrent
    BY <2>1 DEF Others, Untouched, CurrentInv
  <2>3. Untouched(c)
    BY <2>1 DEF Untouched
  <2>4. Carried(c)'
    <3>1. /\ (pc[c] # "idle" /\ op[c] # "set" => current' \subseteq known'[c])
          /\ (pc[c] \in {"lock", "write"} /\ param[c] = "tick" => val[c] \in current')
      BY <2>1, <2>2 DEF Carried
    <3>2. QED
      BY <2>1, <2>2, <2>3, <3>1, CarriedKept
  <2>5. QED
    BY <2>1, <2>2, <2>4, OneCarrier DEF MapCurrent
<1>3. QED
  BY <1>1, <1>2, LookupCurrent, FetchCurrent, LockCurrent, WriteEntryCurrent, RereadCurrent, GotValueCurrent,
     GotTickCurrent, GotNegRiskCurrent, PriceOrderCurrent, SignOrderCurrent, OtherReturnsCurrent DEF CallStep

(***************************************************************************)
(* A tick size becomes current for the maps and for every call under way.  *)
(***************************************************************************)
LEMMA CurrentGrows ==
  ASSUME TypeOK, CurrentInv, NEW t \in Ticks, NowCurrent(t), NEW e \in Callers, Untouched(e)
  PROVE  Carried(e)' /\ ResultCurrent(got[e])'
<1>1. Carried(e) /\ ResultCurrent(got[e])
  BY DEF CurrentInv
<1>2. /\ current' = current \cup {t} /\ known[e] \subseteq known'[e]
      /\ (pc[e] # "idle" => known'[e] = known[e] \cup {t})
  BY DEF NowCurrent, TypeOK
<1>3. /\ (pc[e] # "idle" /\ op[e] # "set" => current' \subseteq known'[e])
      /\ (pc[e] \in {"lock", "write"} /\ param[e] = "tick" => val[e] \in current')
  BY <1>1, <1>2 DEF Carried
<1>4. Carried(e)'
  BY <1>1, <1>2, <1>3, CarriedKept
<1>5. ResultCurrent(got[e])'
  <2>1. got'[e] = got[e]
    BY DEF Untouched
  <2>2. QED
    BY <1>1, <2>1 DEF ResultCurrent, NotAbove
<1>6. QED
  BY <1>4, <1>5

LEMMA MarketMovesCurrent ==
  ASSUME CallersInv, CurrentInv, MarketMoves
  PROVE  CurrentInv'
<1>1. TypeOK
  BY DEF CallersInv
<1>2. UNCHANGED <<cache, pc, op, param, val, tick, draftPrice, got>>
  BY DEF MarketMoves, cached
<1>3. \A e \in Callers : Untouched(e)
  BY <1>2 DEF Untouched
<1>4. ASSUME NEW t \in Ticks, market' = [market EXCEPT !["tick"] = t], NowCurrent(t)
      PROVE  CurrentInv'
  <2>1. \A e \in Callers : Carried(e)' /\ ResultCurrent(got[e])'
    BY <1>1, <1>3, <1>4, CurrentGrows
  <2>2. market'["tick"] = t /\ current' = current \cup {t}
    BY <1>1, <1>4 DEF TypeOK, NowCurrent, Kinds
  <2>3. MapCurrent'
    BY <1>2, <2>2 DEF MapCurrent, CurrentInv
  <2>4. QED
    BY <2>1, <2>3 DEF CurrentInv
<1>5. ASSUME UNCHANGED <<market, current, known>>
      PROVE  CurrentInv'
  <2>1. ASSUME NEW e \in Callers
        PROVE  Carried(e)' /\ ResultCurrent(got[e])'
    BY <1>2, <1>5 DEF Carried, ResultCurrent, NotAbove, InOrder, CurrentInv
  <2>2. MapCurrent'
    BY <1>2, <1>5 DEF MapCurrent, CurrentInv
  <2>3. QED
    BY <2>1, <2>2 DEF CurrentInv
<1>6. QED
  BY <1>4, <1>5 DEF MarketMoves

(***************************************************************************)
(* Clear: the entry is gone, and what is on its way to the map is kept in  *)
(* mind.                                                                   *)
(***************************************************************************)
LEMMA ClearCurrent ==
  ASSUME CallersInv, CurrentInv, NEW c \in Callers, NEW k \in Kinds, Clear(c, k)
  PROVE  CurrentInv'
<1>1. TypeOK /\ MapCurrent
  BY DEF CallersInv, CurrentInv
<1>2. /\ cache' = [cache EXCEPT ![k] = NoEntry]
      /\ current' = (IF k = "tick" THEN OnTheWay \cup {market["tick"]} ELSE current)
      /\ UNCHANGED <<market, pc, op, param, val, tick, draftPrice, known, got>>
  BY DEF Clear, ClearedMap, job
<1>3. OnTheWay \subseteq current
  BY DEF OnTheWay, CurrentInv, Carried
<1>4. \A e \in Callers : pc[e] \in {"lock", "write"} /\ param[e] = "tick" => val[e] \in OnTheWay
  BY DEF OnTheWay
<1> HIDE DEF OnTheWay
<1>5. /\ current' \subseteq current
      /\ \A e \in Callers : pc[e] \in {"lock", "write"} /\ param[e] = "tick" => val[e] \in current'
  <2>1. \A e \in Callers : pc[e] \in {"lock", "write"} /\ param[e] = "tick" => val[e] \in current
    BY DEF CurrentInv, Carried
  <2>2. QED
    BY <1>1, <1>2, <1>3, <1>4, <2>1 DEF MapCurrent
<1>6. MapCurrent'
  BY <1>1, <1>2 DEF MapCurrent, TypeOK, Kinds
<1>7. ASSUME NEW e \in Callers
      PROVE  Carried(e)' /\ ResultCurrent(got[e])'
  <2>1. Untouched(e) /\ known'[e] = known[e] /\ Carried(e) /\ ResultCurrent(got[e])
    BY <1>2 DEF Untouched, CurrentInv
  <2>2. pc[e] # "idle" /\ op[e] # "set" => current' \subseteq known'[e]
    BY <1>5, <2>1 DEF Carried
  <2>3. Carried(e)'
    BY <1>5, <2>1, <2>2, CarriedKept
  <2>4. ResultCurrent(got[e])'
    BY <1>2, <2>1 DEF ResultCurrent, NotAbove
  <2>5. QED
    BY <2>3, <2>4
<1>8. QED
  BY <1>6, <1>7 DEF CurrentInv

(***************************************************************************)
(* The beginning of a call.                                                *)
(***************************************************************************)
LEMMA BeginCurrent ==
  ASSUME CallersInv, CurrentInv, NEW c \in Callers, NEW o \in Operations, NEW k \in Kinds,
         Begin(c, o, k, "lookup"), o \in {"order", "market"} => k = "tick",
         \A e \in Callers : e # c => val'[e] = val[e] /\ draftPrice'[e] = draftPrice[e]
  PROVE  CurrentInv'
<1>1. TypeOK /\ MapCurrent
  BY DEF CallersInv, CurrentInv
<1>2. /\ op' = [op EXCEPT ![c] = o] /\ param' = [param EXCEPT ![c] = k] /\ pc' = [pc EXCEPT ![c] = "lookup"]
      /\ got' = [got EXCEPT ![c] = Nothing] /\ known' = [known EXCEPT ![c] = current]
      /\ UNCHANGED <<market, current, cache, tick>>
  BY DEF Begin, Start, cached
<1>3. /\ Others(c) /\ \A e \in Callers : e # c => known'[e] = known[e]
      /\ pc'[c] = "lookup" /\ op'[c] = o /\ param'[c] = k /\ got'[c] = Nothing /\ known'[c] = current
  BY <1>1, <1>2 DEF TypeOK, Others, Untouched
<1>4. Carried(c)'
  BY <1>2, <1>3 DEF Carried, InOrder
<1>5. ResultCurrent(got'[c])
  BY <1>3, NothingCurrent
<1>6. QED
  BY <1>1, <1>2, <1>3, <1>4, <1>5, OneCarrier DEF MapCurrent

LEMMA SetCurrent ==
  ASSUME CallersInv, CurrentInv, NEW c \in Callers, NEW k \in Kinds, NEW v \in Values(k), Set(c, k, v)
  PROVE  CurrentInv'
<1>1. TypeOK /\ MapCurrent
  BY DEF CallersInv, CurrentInv
<1>2. /\ op' = [op EXCEPT ![c] = "set"] /\ param' = [param EXCEPT ![c] = k] /\ pc' = [pc EXCEPT ![c] = "lock"]
      /\ got' = [got EXCEPT ![c] = Nothing] /\ val' = [val EXCEPT ![c] = v]
      /\ UNCHANGED <<market, cache, tick, draftPrice>>
  BY DEF Set, Start, cached
<1>3. /\ Others(c) /\ pc'[c] = "lock" /\ op'[c] = "set" /\ param'[c] = k /\ got'[c] = Nothing /\ val'[c] = v
  BY <1>1, <1>2 DEF TypeOK, Others, Untouched
<1>4. ResultCurrent(got'[c]) /\ (ResultCurrent(got[c])' = ResultCurrent(got'[c]))
  BY <1>3, NothingCurrent DEF ResultCurrent, NotAbove
<1>5. CASE k = "tick"
  <2>1. v \in Ticks /\ NowCurrent(v)
    BY <1>5, ValueFacts DEF Set
  <2>2. current' = current \cup {v}
    BY <2>1 DEF NowCurrent
  <2>3. Carried(c)'
    BY <1>3, <2>2 DEF Carried, InOrder
  <2>4. \A e \in Callers : e # c => Carried(e)' /\ ResultCurrent(got[e])'
    BY <1>1, <1>3, <2>1, CurrentGrows DEF Others
  <2>5. MapCurrent'
    BY <1>1, <1>2, <2>2 DEF MapCurrent
  <2>6. QED
    BY <1>4, <2>3, <2>4, <2>5 DEF CurrentInv
<1>6. CASE k # "tick"
  <2>1. UNCHANGED <<current, known>>
    BY <1>6 DEF Set
  <2>2. Carried(c)'
    BY <1>3, <1>6 DEF Carried, InOrder
  <2>3. QED
    BY <1>1, <1>2, <1>3, <1>4, <2>1, <2>2, OneCarrier DEF MapCurrent
<1>7. QED
  BY <1>5, <1>6

LEMMA NewCallCurrent ==
  ASSUME CallersInv, CurrentInv, NEW c \in Callers, NewCall(c)
  PROVE  CurrentInv'
<1>1. ASSUME NEW k \in Managed, Get(c, k)
      PROVE  CurrentInv'
  <2>1. Begin(c, "get", k, "lookup") /\ val' = val /\ draftPrice' = draftPrice
    BY <1>1 DEF Get
  <2>2. "get" \in Operations /\ k \in Kinds
    BY ManagedAssumption DEF Operations
  <2>3. QED
    BY <2>1, <2>2, BeginCurrent
<1>2. CASE ResolveFeeRateBps(c)
  <2>1. Begin(c, "resolve", "fee", "lookup") /\ val' = val /\ draftPrice' = draftPrice
    BY <1>2 DEF ResolveFeeRateBps
  <2>2. "resolve" \in Operations /\ "fee" \in Kinds
    BY DEF Operations, Kinds
  <2>3. QED
    BY <2>1, <2>2, BeginCurrent
<1>3. ASSUME NEW p \in Prices, CreateOrder(c, p)
      PROVE  CurrentInv'
  <2>1. Begin(c, "order", "tick", "lookup") /\ val' = val /\ draftPrice' = [draftPrice EXCEPT ![c] = p]
    BY <1>3 DEF CreateOrder
  <2>2. "order" \in Operations /\ "tick" \in Kinds
    BY DEF Operations, Kinds
  <2>3. \A e \in Callers : e # c => val'[e] = val[e] /\ draftPrice'[e] = draftPrice[e]
    BY <2>1 DEF CallersInv, TypeOK
  <2>4. QED
    BY <2>1, <2>2, <2>3, BeginCurrent
<1>4. CASE CreateMarketOrder(c)
  <2>1. Begin(c, "market", "tick", "lookup") /\ val' = val /\ draftPrice' = draftPrice
    BY <1>4 DEF CreateMarketOrder
  <2>2. "market" \in Operations /\ "tick" \in Kinds
    BY DEF Operations, Kinds
  <2>3. QED
    BY <2>1, <2>2, BeginCurrent
<1>5. QED
  BY <1>1, <1>2, <1>3, <1>4, ClearCurrent, SetCurrent, ManagedAssumption DEF NewCall

(***************************************************************************)
(* For any number of callers and any tick sizes: a tick size GetTickSize   *)
(* returns is one the market had, or was set to have, since the last       *)
(* ClearTickSizes before the call, or was on its way to the map then, and  *)
(* no order is rounded with a smaller one (GetTickSize, SetTickSize,       *)
(* ClearTickSizes, ResolveTickSize).                                       *)
(***************************************************************************)
THEOREM TickSizesCurrent == ClientSpec => []TickSizeIsCurrent
<1>1. ClientInit => CurrentInv
  <2> HAVE ClientInit
  <2>1. MapCurrent
    BY DEF ClientInit, MapCurrent, Kinds
  <2>2. ASSUME NEW c \in Callers
        PROVE  Carried(c) /\ ResultCurrent(got[c])
    <3>1. pc[c] = "idle" /\ op[c] = "none" /\ got[c] = Nothing
      BY DEF ClientInit
    <3>2. QED
      BY <3>1, NothingCurrent DEF Carried, InOrder
  <2>3. QED
    BY <2>1, <2>2 DEF CurrentInv
<1>2. CallersInv /\ CurrentInv /\ [ClientNext]_clientVars => CurrentInv'
  <2> SUFFICES ASSUME CallersInv, CurrentInv, [ClientNext]_clientVars
               PROVE  CurrentInv'
    OBVIOUS
  <2>1. CASE ClientNext
    BY <2>1, MarketMovesCurrent, CallStepCurrent, NewCallCurrent DEF ClientNext
  <2>2. CASE UNCHANGED clientVars
    <3>1. UNCHANGED <<market, current, known, got, cache, pc, op, param, val, tick>>
      BY <2>2 DEF clientVars, world, cached, job
    <3>2. ASSUME NEW e \in Callers
          PROVE  Carried(e)' /\ ResultCurrent(got[e])'
      BY <3>1 DEF Carried, ResultCurrent, NotAbove, InOrder, CurrentInv
    <3>3. MapCurrent'
      BY <3>1 DEF MapCurrent, CurrentInv
    <3>4. QED
      BY <3>2, <3>3 DEF CurrentInv
  <2>3. QED
    BY <2>1, <2>2
<1>3. CurrentInv => TickSizeIsCurrent
  BY DEF CurrentInv, ResultCurrent, NotAbove, TickSizeIsCurrent
<1>4. QED
  BY <1>1, <1>2, <1>3, CallersAccounted, PTL DEF ClientSpec
=============================================================================
