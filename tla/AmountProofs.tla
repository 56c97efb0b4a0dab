---------------------------- MODULE AmountProofs ----------------------------
(***************************************************************************)
(* Proofs about Amounts, for every width of value and fraction, every base *)
(* and every largest amount that are related as those of amount.c are, and *)
(* for all operands.                                                       *)
(*                                                                         *)
(* A normalized amount is a number written with two digits to the base     *)
(* FRAC_BASE.  Two facts about such numbers carry everything: they are     *)
(* ordered by the value first (Lexicographic), and quotient and remainder  *)
(* are determined (DivModUnique).  From them follows what normalizing an   *)
(* operand does (NormalizeExact), and from that one theorem per operation  *)
(* of amount.c.                                                            *)
(*                                                                         *)
(* What the parser yields is a fold over digits with powers of ten, which  *)
(* the provers do not know; the theorems about programs assume it          *)
(* (ParserExact) and TLC checks it.                                        *)
(***************************************************************************)
EXTENDS Amounts, TLAPS

\* A normalized amount.
Good(a) == a \in Amount /\ a.value <= MAX_AMOUNT_VALUE /\ a.fraction < FRAC_BASE

\* An operand.
Operand(b) ==
    b \in [currency : STRING, value : 0..(ValueRange - 1),
           fraction : 0..(FractionRange - 1)]

---------------------------------------------------------------------------
(* Numbers with a base.                                                    *)

(* A larger value is more, whatever the fractions are.                     *)
LEMMA Lexicographic ==
    ASSUME NEW B \in Nat, NEW v \in Nat, NEW w \in Nat, v < w,
           NEW f \in Nat, f < B, NEW g \in Nat
    PROVE  v * B + f < w * B + g
<1> DEFINE k == w - v - 1
<1>1. k \in Nat /\ w = v + 1 + k
  OBVIOUS
<1> HIDE DEF k
<1>2. w * B = v * B + B + k * B
  BY <1>1
<1>3. v * B \in Nat /\ k * B \in Nat /\ w * B \in Nat
  BY <1>1
<1> DEFINE x == v * B
           y == w * B
           z == k * B
<1>4. x \in Nat /\ y \in Nat /\ z \in Nat /\ y = x + B + z
  BY <1>2, <1>3
<1> HIDE DEF x, y, z
<1>5. x + f < y + g
  BY <1>4
<1> QED BY <1>5 DEF x, y

(* Division with remainder.                                                *)
LEMMA DivMod ==
    ASSUME NEW x \in Nat, NEW u \in Nat \ {0}
    PROVE  /\ x \div u \in Nat /\ x % u \in Nat /\ x % u < u
           /\ x = (x \div u) * u + (x % u)
  BY SMT

(* Quotient and remainder are determined.                                  *)
LEMMA DivModUnique ==
    ASSUME NEW x \in Nat, NEW u \in Nat \ {0}, NEW q \in Nat, NEW r \in Nat,
           r < u, x = q * u + r
    PROVE  x \div u = q /\ x % u = r
<1> DEFINE p == x \div u
           s == x % u
<1>1. p \in Nat /\ s \in Nat /\ s < u /\ x = p * u + s
  BY DivMod
<1> HIDE DEF p, s
<1>2. ~(p < q)
  <2> SUFFICES ASSUME p < q PROVE FALSE
    OBVIOUS
  <2>1. p * u + s < q * u + r
    BY <1>1, Lexicographic
  <2>2. p * u \in Nat /\ q * u \in Nat
    BY <1>1
  <2> QED BY <1>1, <2>1, <2>2
<1>3. ~(q < p)
  <2> SUFFICES ASSUME q < p PROVE FALSE
    OBVIOUS
  <2>1. q * u + r < p * u + s
    BY <1>1, Lexicographic
  <2>2. p * u \in Nat /\ q * u \in Nat
    BY <1>1
  <2> QED BY <1>1, <2>1, <2>2
<1>4. p = q
  BY <1>1, <1>2, <1>3
<1>5. q * u \in Nat
  OBVIOUS
<1>6. s = r
  <2> DEFINE y == q * u
  <2>1. y \in Nat /\ x = y + r /\ x = y + s
    BY <1>1, <1>4, <1>5
  <2> HIDE DEF y
  <2> QED BY <1>1, <2>1
<1> QED BY <1>4, <1>6 DEF p, s

---------------------------------------------------------------------------
(* Normalisation.                                                          *)

(* What TALER_amount_normalize does with an operand of the currency: it is *)
(* worth the same afterwards, with a fraction below one; or it is invalid, *)
(* and then worth more than the largest amount.                            *)
LEMMA NormalizeExact ==
    ASSUME NEW c, c # NoCurrency, NEW v \in 0..(ValueRange - 1),
           NEW f \in 0..(FractionRange - 1)
    PROVE  LET n == Normalize(AmountOf(c, v, f))
           IN \/ /\ n = InvalidAmount
                 /\ v * FRAC_BASE + f > MAX_AMOUNT_VALUE * FRAC_BASE + FRAC_BASE - 1
              \/ /\ n.currency = c /\ n.value \in 0..(ValueRange - 1)
                 /\ n.fraction \in 0..(FRAC_BASE - 1)
                 /\ n = AmountOf(c, n.value, n.fraction)
                 /\ v * FRAC_BASE + f = n.value * FRAC_BASE + n.fraction
                 /\ f < FRAC_BASE => n.value = v /\ n.fraction = f
                 /\ ~(f < FRAC_BASE) => n.value <= MAX_AMOUNT_VALUE
<1> DEFINE a == AmountOf(c, v, f)
           B == FRAC_BASE
           V == ValueRange
           M == MAX_AMOUNT_VALUE
           o == f \div B
           r == f % B
           w == (v + o) % V
<1>0. /\ B \in Nat \ {0} /\ V \in Nat \ {0} /\ M \in Nat /\ M < V
      /\ FractionRange \in Nat /\ FractionRange <= V /\ B <= FractionRange
  BY WidthsAssumption
<1>1. v \in Nat /\ v < V /\ f \in Nat /\ f < V
  BY <1>0
<1>2. a.currency = c /\ a.value = v /\ a.fraction = f /\ IsValid(a)
  BY DEF AmountOf, IsValid
<1>3. CASE f < B
  <2>1. Normalize(a) = a
    BY <1>2, <1>3 DEF Normalize
  <2> QED BY <1>0, <1>1, <1>2, <1>3, <2>1 DEF AmountOf
<1>4. CASE ~(f < B)
  <2>1. Normalize(a) = IF w < o \/ w > M THEN InvalidAmount ELSE AmountOf(c, w, r)
    BY <1>2, <1>4 DEF Normalize
  <2> HIDE DEF a, B, V, M
  <2>2. /\ o \in Nat /\ r \in Nat /\ r < B /\ f = o * B + r
    BY <1>0, <1>1, DivMod
  <2> HIDE DEF o, r
  <2>3. o <= f
    <3>1. o * B >= o
      <4> DEFINE b == B - 1
      <4>1. b \in Nat /\ B = b + 1
        BY <1>0
      <4> HIDE DEF b
      <4>2. o * B = o * b + o /\ o * b \in Nat
        BY <2>2, <4>1
      <4> DEFINE y == o * b
      <4> HIDE DEF y
      <4>3. o * B = y + o /\ y \in Nat
        BY <4>2 DEF y
      <4> QED BY <2>2, <4>3
    <3>2. o * B \in Nat
      BY <1>0, <2>2
    <3> QED BY <1>1, <2>2, <3>1, <3>2
  <2>4. (v + o) * B = v * B + o * B /\ (v + o) * B \in Nat
    BY <1>0, <1>1, <2>2
  <2>5. v * B + f = (v + o) * B + r
    <3> DEFINE x == v * B
               y == o * B
               z == (v + o) * B
    <3>1. x \in Nat /\ y \in Nat /\ z \in Nat /\ z = x + y /\ f = y + r
          /\ r \in Nat /\ f \in Nat
      BY <1>0, <1>1, <2>2, <2>4
    <3> HIDE DEF x, y, z
    <3>2. x + f = z + r
      BY <3>1
    <3> QED BY <3>2 DEF x, z
  <2>6. CASE v + o < V
    <3>1. w = v + o
      BY <1>0, <1>1, <2>2, <2>6, SMT
    <3>2. CASE w > M
      <4>1. M * B + (B - 1) < (v + o) * B + r
        BY <1>0, <1>1, <2>2, <3>1, <3>2, Lexicographic
      <4>2. v * B + f > M * B + B - 1
        <5> DEFINE x == M * B
                   y == v * B
                   z == (v + o) * B
        <5>1. x \in Nat /\ y \in Nat /\ z \in Nat
          BY <1>0, <1>1, <2>4
        <5>2. x + (B - 1) < z + r /\ y + f = z + r
          BY <4>1, <2>5
        <5> HIDE DEF x, y, z
        <5>3. y + f > x + B - 1
          BY <1>0, <1>1, <2>2, <5>1, <5>2
        <5> QED BY <5>3 DEF x, y
      <4>3. Normalize(a) = InvalidAmount
        BY <2>1, <3>2
      <4> QED BY <4>2, <4>3 DEF B, M, a
    <3>3. CASE ~(w > M)
      <4>1. Normalize(a) = AmountOf(c, v + o, r)
        BY <1>0, <1>1, <2>1, <2>2, <3>1, <3>3
      <4> DEFINE n == Normalize(a)
      <4>2. n.currency = c /\ n.value = v + o /\ n.fraction = r
        BY <4>1 DEF AmountOf
      <4> HIDE DEF n
      <4>3. n = AmountOf(c, n.value, n.fraction)
        BY <4>1, <4>2 DEF n
      <4>4. v + o \in 0..(V - 1) /\ r \in 0..(B - 1) /\ v + o <= M
        BY <1>0, <1>1, <2>2, <2>6, <3>1, <3>3
      <4>5. v * B + f = n.value * B + n.fraction
        BY <2>5, <4>2
      <4> QED BY <1>4, <4>2, <4>3, <4>4, <4>5 DEF n, a, B, V, M
    <3> QED BY <3>2, <3>3
  <2>7. CASE ~(v + o < V)
    <3>1. w = v + o - V
      <4>1. v + o \in Nat /\ v + o - V \in Nat /\ v + o - V < V
        BY <1>0, <1>1, <2>2, <2>3, <2>7
      <4>2. v + o = 1 * V + (v + o - V)
        BY <1>0, <1>1, <2>2
      <4> QED BY <1>0, <4>1, <4>2, DivModUnique
    <3>2. w < o
      BY <1>0, <1>1, <2>2, <3>1
    <3>3. Normalize(a) = InvalidAmount
      BY <2>1, <3>2
    <3>4. M * B + (B - 1) < (v + o) * B + r
      BY <1>0, <1>1, <2>2, <2>7, Lexicographic
    <3>5. v * B + f > M * B + B - 1
      <4> DEFINE x == M * B
                 y == v * B
                 z == (v + o) * B
      <4>1. x \in Nat /\ y \in Nat /\ z \in Nat
        BY <1>0, <1>1, <2>4
      <4>2. x + (B - 1) < z + r /\ y + f = z + r
        BY <3>4, <2>5
      <4> HIDE DEF x, y, z
      <4>3. y + f > x + B - 1
        BY <1>0, <1>1, <2>2, <4>1, <4>2
      <4> QED BY <4>3 DEF x, y
    <3> QED BY <3>3, <3>5 DEF B, M, a
  <2> QED BY <2>6, <2>7
<1> QED BY <1>3, <1>4

---------------------------------------------------------------------------
(* Amounts and what they are worth.                                        *)

Largest == MAX_AMOUNT_VALUE * FRAC_BASE + FRAC_BASE - 1
ResultOf(n) == IF n \in 0..Largest THEN n ELSE -1

(* The constants.                                                          *)
LEMMA Widths ==
    /\ FRAC_BASE \in Nat \ {0} /\ MAX_AMOUNT_VALUE \in Nat
    /\ ValueRange \in Nat \ {0} /\ MAX_AMOUNT_VALUE < ValueRange
    /\ FractionRange \in Nat \ {0} /\ 2 * FRAC_BASE <= FractionRange
    /\ Currency # NoCurrency
  BY WidthsAssumption, InputsAssumption

(* Up to the largest value an amount is within the largest amount.         *)
LEMMA WithinLargest ==
    ASSUME NEW v \in Nat, NEW f \in Nat
    PROVE  /\ v * FRAC_BASE + f \in Nat /\ Largest \in Nat
           /\ v <= MAX_AMOUNT_VALUE /\ f < FRAC_BASE => v * FRAC_BASE + f <= Largest
           /\ v > MAX_AMOUNT_VALUE => v * FRAC_BASE + f > Largest
<1> DEFINE B == FRAC_BASE
           M == MAX_AMOUNT_VALUE
           x == v * B
           y == M * B
<1>1. B \in Nat \ {0} /\ M \in Nat
  BY Widths
<1>2. x \in Nat /\ y \in Nat
  BY <1>1
<1>3. Largest = y + (B - 1) /\ Largest \in Nat /\ x + f \in Nat
  <2>1. Largest = y + B - 1
    BY DEF Largest
  <2> HIDE DEF x, y, B, M
  <2> QED BY <1>1, <1>2, <2>1
<1>4. ASSUME v > M PROVE x + f > Largest
  <2>1. M * B + (B - 1) < v * B + f
    <3> HIDE DEF B, M
    <3> QED BY <1>1, <1>4, Lexicographic
  <2>2. y + (B - 1) < x + f
    BY <2>1
  <2> HIDE DEF x, y, B, M
  <2> QED BY <1>1, <1>2, <1>3, <2>2
<1>5. ASSUME v <= M, f < B PROVE x + f <= Largest
  <2>1. CASE v = M
    <3>1. x = y
      BY <2>1
    <3> HIDE DEF x, y, B, M
    <3> QED BY <1>1, <1>2, <1>3, <1>5, <3>1
  <2>2. CASE v < M
    <3>1. v * B + f < M * B + (B - 1)
      <4> HIDE DEF B, M
      <4> QED BY <1>1, <1>5, <2>2, Lexicographic
    <3>2. x + f < y + (B - 1)
      BY <3>1
    <3> HIDE DEF x, y, B, M
    <3> QED BY <1>1, <1>2, <1>3, <3>2
  <2> HIDE DEF B
  <2> QED BY <1>1, <1>5, <2>1, <2>2
<1> QED BY <1>3, <1>4, <1>5

(* Amounts made of their parts.                                            *)
LEMMA MadeGood ==
    ASSUME NEW v \in 0..MAX_AMOUNT_VALUE, NEW f \in 0..(FRAC_BASE - 1)
    PROVE  /\ Good(AmountOf(Currency, v, f))
           /\ UnitsOf(AmountOf(Currency, v, f)) = v * FRAC_BASE + f
<1>1. /\ v \in Nat /\ v <= MAX_AMOUNT_VALUE /\ v \in 0..(ValueRange - 1)
      /\ f \in Nat /\ f < FRAC_BASE /\ f \in 0..(FractionRange - 1)
  BY Widths
<1> QED BY <1>1 DEF Good, Amount, AmountOf, UnitsOf

LEMMA InvalidGood == Good(InvalidAmount) /\ UnitsOf(InvalidAmount) = -1
<1>1. /\ 0 \in 0..(ValueRange - 1) /\ 0 \in 0..(FractionRange - 1)
      /\ 0 <= MAX_AMOUNT_VALUE /\ 0 < FRAC_BASE
  BY Widths
<1> QED BY <1>1, Widths DEF Good, Amount, AmountOf, InvalidAmount, UnitsOf

(* The parts of amounts.                                                   *)
LEMMA GoodParts ==
    ASSUME NEW a, Good(a)
    PROVE  /\ a = AmountOf(a.currency, a.value, a.fraction)
           /\ a.value \in 0..MAX_AMOUNT_VALUE /\ a.fraction \in 0..(FRAC_BASE - 1)
           /\ a.currency \in {Currency, NoCurrency}
           /\ IsValid(a) => a.currency = Currency /\ Normalize(a) = a
           /\ IsValid(a) => UnitsOf(a) = a.value * FRAC_BASE + a.fraction
                              /\ UnitsOf(a) \in 0..Largest
           /\ ~IsValid(a) => UnitsOf(a) = -1
<1>1. /\ a = AmountOf(a.currency, a.value, a.fraction)
      /\ a.value \in 0..MAX_AMOUNT_VALUE /\ a.fraction \in 0..(FRAC_BASE - 1)
      /\ a.currency \in {Currency, NoCurrency}
  BY Widths DEF Good, Amount, AmountOf
<1>2. IsValid(a) => a.currency = Currency /\ Normalize(a) = a
  BY <1>1 DEF Good, IsValid, Normalize
<1>3. ~IsValid(a) => UnitsOf(a) = -1
  BY <1>1, Widths DEF IsValid, UnitsOf
<1>4. IsValid(a) => UnitsOf(a) = a.value * FRAC_BASE + a.fraction
  BY <1>2 DEF UnitsOf
<1>5. a.value * FRAC_BASE + a.fraction \in 0..Largest
  <2> DEFINE v == a.value
             f == a.fraction
  <2>1. v \in Nat /\ f \in Nat /\ v <= MAX_AMOUNT_VALUE /\ f < FRAC_BASE
    BY <1>1, Widths
  <2> HIDE DEF v, f
  <2>2. v * FRAC_BASE + f \in Nat /\ v * FRAC_BASE + f <= Largest /\ Largest \in Nat
    BY <2>1, WithinLargest
  <2>3. v * FRAC_BASE + f \in 0..Largest
    BY <2>2
  <2> QED BY <2>3 DEF v, f
<1> QED BY <1>1, <1>2, <1>3, <1>4, <1>5

(* An operand of the currency has a worth, and is normalized exactly.      *)
LEMMA OperandParts ==
    ASSUME NEW b, Operand(b), b.currency = Currency
    PROVE  /\ IsValid(b) /\ UnitsOf(b) \in Nat
           /\ \/ Normalize(b) = InvalidAmount /\ UnitsOf(b) > Largest
              \/ \E w \in 0..(ValueRange - 1), g \in 0..(FRAC_BASE - 1) :
                    /\ Normalize(b) = AmountOf(Currency, w, g)
                    /\ UnitsOf(b) = w * FRAC_BASE + g
<1> DEFINE v == b.value
           f == b.fraction
           n == Normalize(AmountOf(Currency, v, f))
<1>1. /\ b = AmountOf(Currency, v, f)
      /\ v \in 0..(ValueRange - 1) /\ f \in 0..(FractionRange - 1)
  BY DEF Operand, AmountOf
<1>2. UnitsOf(b) = v * FRAC_BASE + f /\ IsValid(b)
  BY Widths DEF UnitsOf, IsValid
<1>3. Normalize(b) = n
  BY <1>1
<1>4. \/ /\ n = InvalidAmount
         /\ v * FRAC_BASE + f > MAX_AMOUNT_VALUE * FRAC_BASE + FRAC_BASE - 1
      \/ /\ n.currency = Currency /\ n.value \in 0..(ValueRange - 1)
         /\ n.fraction \in 0..(FRAC_BASE - 1)
         /\ n = AmountOf(Currency, n.value, n.fraction)
         /\ v * FRAC_BASE + f = n.value * FRAC_BASE + n.fraction
  <2> HIDE DEF v, f
  <2> QED BY <1>1, Widths, NormalizeExact
<1>5. v * FRAC_BASE + f \in Nat
  <2>1. v \in Nat /\ f \in Nat
    BY <1>1, Widths
  <2> HIDE DEF v, f
  <2> QED BY <2>1, WithinLargest
<1> HIDE DEF v, f, n
<1>6. CASE /\ n = InvalidAmount
           /\ v * FRAC_BASE + f > MAX_AMOUNT_VALUE * FRAC_BASE + FRAC_BASE - 1
  BY <1>2, <1>3, <1>5, <1>6 DEF Largest
<1>7. CASE /\ n.currency = Currency /\ n.value \in 0..(ValueRange - 1)
           /\ n.fraction \in 0..(FRAC_BASE - 1)
           /\ n = AmountOf(Currency, n.value, n.fraction)
           /\ v * FRAC_BASE + f = n.value * FRAC_BASE + n.fraction
  BY <1>2, <1>3, <1>5, <1>7
<1> QED BY <1>4, <1>6, <1>7

---------------------------------------------------------------------------
(* The operations.                                                         *)

(* An amount that is no result counts as -1.                               *)
LEMMA ResultFacts ==
    ASSUME NEW n \in Int
    PROVE  /\ (n > Largest \/ n < 0) => ResultOf(n) = -1
           /\ (n >= 0 /\ n <= Largest) => ResultOf(n) = n
<1>1. Largest \in Nat
  BY WithinLargest
<1> QED BY <1>1 DEF ResultOf

(* The last step of an addition: normalizing carries at most one over.     *)
LEMMA CarryExact ==
    ASSUME NEW x \in 0..MAX_AMOUNT_VALUE, NEW h \in 0..(FractionRange - 1)
    PROVE  LET m == Normalize(AmountOf(Currency, x, h))
           IN Good(m) /\ UnitsOf(m) = ResultOf(x * FRAC_BASE + h)
<1> DEFINE m == Normalize(AmountOf(Currency, x, h))
           u == x * FRAC_BASE + h
<1>1. x \in 0..(ValueRange - 1) /\ x \in Nat /\ h \in Nat
  BY Widths
<1>2. \/ /\ m = InvalidAmount
         /\ u > MAX_AMOUNT_VALUE * FRAC_BASE + FRAC_BASE - 1
      \/ /\ m.currency = Currency /\ m.value \in 0..(ValueRange - 1)
         /\ m.fraction \in 0..(FRAC_BASE - 1)
         /\ m = AmountOf(Currency, m.value, m.fraction)
         /\ u = m.value * FRAC_BASE + m.fraction
         /\ h < FRAC_BASE => m.value = x /\ m.fraction = h
         /\ ~(h < FRAC_BASE) => m.value <= MAX_AMOUNT_VALUE
  BY <1>1, Widths, NormalizeExact
<1>3. u \in Nat
  BY <1>1, WithinLargest
<1> HIDE DEF m, u
<1>4. CASE /\ m = InvalidAmount
           /\ u > MAX_AMOUNT_VALUE * FRAC_BASE + FRAC_BASE - 1
  <2>1. u > Largest
    BY <1>4 DEF Largest
  <2>2. ResultOf(u) = -1
    BY <1>3, <2>1, ResultFacts
  <2> QED BY <1>4, <2>2, InvalidGood DEF u, m
<1>5. CASE /\ m.currency = Currency /\ m.value \in 0..(ValueRange - 1)
           /\ m.fraction \in 0..(FRAC_BASE - 1)
           /\ m = AmountOf(Currency, m.value, m.fraction)
           /\ u = m.value * FRAC_BASE + m.fraction
           /\ h < FRAC_BASE => m.value = x /\ m.fraction = h
           /\ ~(h < FRAC_BASE) => m.value <= MAX_AMOUNT_VALUE
  <2> DEFINE v == m.value
             f == m.fraction
  <2>1. v \in 0..MAX_AMOUNT_VALUE /\ f \in 0..(FRAC_BASE - 1)
    BY <1>5, Widths
  <2>2. m = AmountOf(Currency, v, f) /\ u = v * FRAC_BASE + f
    BY <1>5
  <2> HIDE DEF v, f
  <2>3. Good(m) /\ UnitsOf(m) = u
    BY <2>1, <2>2, MadeGood
  <2>4. v \in Nat /\ f \in Nat /\ v <= MAX_AMOUNT_VALUE /\ f < FRAC_BASE
    BY <2>1, Widths
  <2>5. v * FRAC_BASE + f <= Largest
    BY <2>4, WithinLargest
  <2>6. ResultOf(u) = u
    BY <1>3, <2>2, <2>5, ResultFacts
  <2> QED BY <2>3, <2>6 DEF u, m
<1> QED BY <1>2, <1>4, <1>5

(* Sums of values and fractions.                                           *)
LEMMA Distribute ==
    ASSUME NEW B \in Nat, NEW v \in Nat, NEW w \in Nat, NEW f \in Nat, NEW g \in Nat
    PROVE  (v * B + f) + (w * B + g) = (v + w) * B + (f + g)
<1>1. (v + w) * B = v * B + w * B /\ v * B \in Nat /\ w * B \in Nat
  OBVIOUS
<1> DEFINE x == v * B
           y == w * B
           z == (v + w) * B
<1>2. z = x + y /\ x \in Nat /\ y \in Nat
  BY <1>1
<1> HIDE DEF x, y, z
<1>3. (x + f) + (y + g) = z + (f + g)
  BY <1>2
<1> QED BY <1>3 DEF x, y, z

(* TALER_amount_add is exact, or invalid when the sum is too large.        *)
THEOREM SumExact ==
    ASSUME NEW a, Good(a), NEW b, Operand(b)
    PROVE  /\ Good(Sum(a, b))
           /\ UnitsOf(Sum(a, b)) =
                 IF -1 \in {UnitsOf(a), UnitsOf(b)} THEN -1
                 ELSE ResultOf(UnitsOf(a) + UnitsOf(b))
<1>1. CASE ~SameCurrency(a, b)
  <2>1. Sum(a, b) = InvalidAmount
    BY <1>1 DEF Sum
  <2>2. UnitsOf(a) = -1 \/ UnitsOf(b) = -1
    BY <1>1, GoodParts, Widths DEF SameCurrency, IsValid, UnitsOf
  <2> QED BY <2>1, <2>2, InvalidGood
<1>2. CASE SameCurrency(a, b)
  <2> DEFINE v == a.value
             f == a.fraction
             n1 == Normalize(a)
             n2 == Normalize(b)
             s == UnitsOf(a) + UnitsOf(b)
  <2>1. /\ IsValid(a) /\ a.currency = Currency /\ b.currency = Currency
        /\ n1 = a /\ UnitsOf(a) = v * FRAC_BASE + f
        /\ v \in 0..MAX_AMOUNT_VALUE /\ f \in 0..(FRAC_BASE - 1)
        /\ UnitsOf(a) \in 0..Largest
    BY <1>2, GoodParts DEF SameCurrency
  <2>2. /\ IsValid(b) /\ UnitsOf(b) \in Nat
        /\ \/ n2 = InvalidAmount /\ UnitsOf(b) > Largest
           \/ \E w \in 0..(ValueRange - 1), g \in 0..(FRAC_BASE - 1) :
                 /\ n2 = AmountOf(Currency, w, g)
                 /\ UnitsOf(b) = w * FRAC_BASE + g
    BY <2>1, OperandParts
  <2>3. Largest \in Nat
    BY WithinLargest
  <2>4. /\ s \in Nat /\ -1 \notin {UnitsOf(a), UnitsOf(b)}
    <3> DEFINE x == UnitsOf(a)
               y == UnitsOf(b)
    <3>1. x \in Nat /\ y \in Nat
      BY <2>1, <2>2, <2>3
    <3> HIDE DEF x, y
    <3>2. x + y \in Nat /\ -1 \notin {x, y}
      BY <3>1
    <3> QED BY <3>2 DEF x, y
  <2>5. SUFFICES Good(Sum(a, b)) /\ UnitsOf(Sum(a, b)) = ResultOf(s)
    BY <2>4
  <2>6. CASE n2 = InvalidAmount /\ UnitsOf(b) > Largest
    <3>1. Sum(a, b) = InvalidAmount
      <4>1. ~IsValid(n2)
        BY <2>6 DEF IsValid, InvalidAmount, AmountOf
      <4> QED BY <4>1 DEF Sum
    <3>2. s > Largest
      <4> DEFINE x == UnitsOf(a)
                 y == UnitsOf(b)
      <4>1. x \in Nat /\ y \in Nat /\ y > Largest
        BY <2>1, <2>2, <2>3, <2>6
      <4> HIDE DEF x, y
      <4>2. x + y > Largest
        BY <4>1, <2>3
      <4> QED BY <4>2 DEF x, y
    <3>3. ResultOf(s) = -1
      <4> HIDE DEF s
      <4> QED BY <2>4, <3>2, ResultFacts
    <3> QED BY <3>1, <3>3, InvalidGood
  <2>7. ASSUME NEW w \in 0..(ValueRange - 1), NEW g \in 0..(FRAC_BASE - 1),
               n2 = AmountOf(Currency, w, g), UnitsOf(b) = w * FRAC_BASE + g
        PROVE  Good(Sum(a, b)) /\ UnitsOf(Sum(a, b)) = ResultOf(s)
    <3> DEFINE x == v + w
               h == f + g
    <3>1. /\ v \in Nat /\ w \in Nat /\ f \in Nat /\ g \in Nat /\ x \in Nat /\ h \in Nat
          /\ v < ValueRange /\ w < ValueRange /\ h \in 0..(FractionRange - 1)
      BY <2>1, <2>7, Widths
    <3>2. s = x * FRAC_BASE + h
      <4>1. (v * FRAC_BASE + f) + (w * FRAC_BASE + g) = (v + w) * FRAC_BASE + (f + g)
        <5> HIDE DEF v, f
        <5> QED BY <3>1, Widths, Distribute
      <4> QED BY <2>1, <2>7, <4>1
    <3>3. /\ n2.currency = Currency /\ n2.value = w /\ n2.fraction = g /\ IsValid(n2)
      BY <2>7, Widths DEF AmountOf, IsValid
    <3> DEFINE xx == x % ValueRange
    <3>4. Sum(a, b) = IF xx < v \/ xx > MAX_AMOUNT_VALUE THEN InvalidAmount
                      ELSE Normalize(AmountOf(Currency, xx, h % FractionRange))
      BY <1>2, <2>1, <3>3 DEF Sum
    <3>5. h % FractionRange = h
      <4> HIDE DEF h
      <4>1. h = 0 * FractionRange + h /\ h < FractionRange
        BY <3>1, Widths
      <4> QED BY <3>1, <4>1, Widths, DivModUnique
    <3>6. CASE x < ValueRange
      <4>1. xx = x
        <5> HIDE DEF x
        <5>1. x = 0 * ValueRange + x
          BY <3>1, Widths
        <5> QED BY <3>1, <3>6, <5>1, Widths, DivModUnique
      <4>2. ~(xx < v)
        BY <3>1, <4>1
      <4>3. CASE x > MAX_AMOUNT_VALUE
        <5>1. Sum(a, b) = InvalidAmount
          BY <3>4, <4>1, <4>3
        <5>2. x * FRAC_BASE + h > Largest
          <6> HIDE DEF x, h
          <6> QED BY <3>1, <4>3, WithinLargest
        <5>3. ResultOf(s) = -1
          <6> HIDE DEF s, x, h
          <6> QED BY <2>4, <3>2, <5>2, ResultFacts
        <5> QED BY <5>1, <5>3, InvalidGood
      <4>4. CASE ~(x > MAX_AMOUNT_VALUE)
        <5>1. Sum(a, b) = Normalize(AmountOf(Currency, x, h))
          <6> HIDE DEF x, h
          <6> QED BY <3>4, <3>5, <4>1, <4>2, <4>4
        <5>2. x \in 0..MAX_AMOUNT_VALUE
          BY <3>1, <4>4, Widths
        <5> HIDE DEF x, h, s
        <5> QED BY <3>1, <3>2, <5>1, <5>2, CarryExact
      <4> QED BY <4>3, <4>4
    <3>7. CASE ~(x < ValueRange)
      <4>1. xx = x - ValueRange
        <5>1. x - ValueRange \in Nat /\ x - ValueRange < ValueRange
          BY <3>1, <3>7, Widths
        <5> HIDE DEF x
        <5>2. x = 1 * ValueRange + (x - ValueRange)
          BY <3>1, Widths
        <5> QED BY <3>1, <5>1, <5>2, Widths, DivModUnique
      <4>2. xx < v
        BY <3>1, <4>1, Widths
      <4>3. x > MAX_AMOUNT_VALUE
        BY <3>1, <3>7, Widths
      <4>4. x * FRAC_BASE + h > Largest
        <5> HIDE DEF x, h
        <5> QED BY <3>1, <4>3, WithinLargest
      <4>5. ResultOf(s) = -1
        <5> HIDE DEF s, x, h
        <5> QED BY <2>4, <3>2, <4>4, ResultFacts
      <4>6. Sum(a, b) = InvalidAmount
        BY <3>4, <4>2
      <4> QED BY <4>5, <4>6, InvalidGood
    <3> QED BY <3>6, <3>7
  <2> QED BY <2>2, <2>6, <2>7
<1> QED BY <1>1, <1>2

(* Differences of values and fractions.                                    *)
LEMMA DistributeMinus ==
    ASSUME NEW B \in Nat, NEW v \in Nat, NEW w \in Nat, NEW f \in Int, NEW g \in Int,
           w <= v
    PROVE  (v * B + f) - (w * B + g) = (v - w) * B + (f - g)
<1> DEFINE k == v - w
<1>1. k \in Nat /\ v = k + w
  OBVIOUS
<1> HIDE DEF k
<1>2. v * B = k * B + w * B /\ k * B \in Nat /\ w * B \in Nat /\ v * B \in Nat
  BY <1>1
<1> DEFINE x == k * B
           y == w * B
           z == v * B
<1>3. z = x + y /\ x \in Nat /\ y \in Nat
  BY <1>2
<1> HIDE DEF x, y, z
<1>4. (z + f) - (y + g) = x + (f - g)
  BY <1>3
<1> QED BY <1>4 DEF x, y, z, k

(* A larger value or, for equal values, a larger fraction is more.         *)
LEMMA LessWorth ==
    ASSUME NEW B \in Nat, NEW v \in Nat, NEW w \in Nat, NEW f \in Nat, NEW g \in Nat,
           f < B, v < w \/ (v = w /\ f < g)
    PROVE  (v * B + f) - (w * B + g) < 0
<1>1. v * B + f < w * B + g
  <2>1. CASE v < w
    BY <2>1, Lexicographic
  <2>2. CASE v = w /\ f < g
    <3> DEFINE x == v * B
    <3>1. x \in Nat /\ w * B = x
      BY <2>2
    <3> HIDE DEF x
    <3>2. x + f < x + g
      BY <2>2, <3>1
    <3> QED BY <3>1, <3>2 DEF x
  <2> QED BY <2>1, <2>2
<1> DEFINE x == v * B
           y == w * B
<1>2. x \in Nat /\ y \in Nat /\ x + f < y + g
  BY <1>1
<1> HIDE DEF x, y
<1>3. (x + f) - (y + g) < 0
  BY <1>2
<1> QED BY <1>3 DEF x, y

(* TALER_amount_subtract is exact, or invalid when less than nothing would *)
(* be left.                                                                *)
THEOREM DifferenceExact ==
    ASSUME NEW a, Good(a), NEW b, Operand(b)
    PROVE  /\ Good(Difference(a, b))
           /\ UnitsOf(Difference(a, b)) =
                 IF -1 \in {UnitsOf(a), UnitsOf(b)} THEN -1
                 ELSE ResultOf(UnitsOf(a) - UnitsOf(b))
<1>1. CASE ~SameCurrency(a, b)
  <2>1. Difference(a, b) = InvalidAmount
    BY <1>1 DEF Difference
  <2>2. UnitsOf(a) = -1 \/ UnitsOf(b) = -1
    BY <1>1, GoodParts, Widths DEF SameCurrency, IsValid, UnitsOf
  <2> QED BY <2>1, <2>2, InvalidGood
<1>2. CASE SameCurrency(a, b)
  <2> DEFINE v == a.value
             f == a.fraction
             n1 == Normalize(a)
             n2 == Normalize(b)
             s == UnitsOf(a) - UnitsOf(b)
             D == Difference(a, b)
  <2>1. /\ IsValid(a) /\ a.currency = Currency /\ b.currency = Currency
        /\ n1 = a /\ UnitsOf(a) = v * FRAC_BASE + f
        /\ v \in 0..MAX_AMOUNT_VALUE /\ f \in 0..(FRAC_BASE - 1)
        /\ UnitsOf(a) \in 0..Largest
    BY <1>2, GoodParts DEF SameCurrency
  <2>2. /\ IsValid(b) /\ UnitsOf(b) \in Nat
        /\ \/ n2 = InvalidAmount /\ UnitsOf(b) > Largest
           \/ \E w \in 0..(ValueRange - 1), g \in 0..(FRAC_BASE - 1) :
                 /\ n2 = AmountOf(Currency, w, g)
                 /\ UnitsOf(b) = w * FRAC_BASE + g
    BY <2>1, OperandParts
  <2>3. Largest \in Nat
    BY WithinLargest
  <2>4. /\ s \in Int /\ s <= Largest /\ -1 \notin {UnitsOf(a), UnitsOf(b)}
        /\ UnitsOf(b) > Largest => s < 0
    <3> DEFINE x == UnitsOf(a)
               y == UnitsOf(b)
    <3>1. x \in 0..Largest /\ y \in Nat
      BY <2>1, <2>2
    <3> HIDE DEF x, y
    <3>2. x - y \in Int /\ x - y <= Largest /\ -1 \notin {x, y} /\ (y > Largest => x - y < 0)
      BY <2>3, <3>1
    <3> QED BY <3>2 DEF x, y
  <2>5. SUFFICES Good(D) /\ UnitsOf(D) = ResultOf(s)
    BY <2>4
  <2>6. ASSUME D = InvalidAmount, s < 0 PROVE Good(D) /\ UnitsOf(D) = ResultOf(s)
    <3>1. ResultOf(s) = -1
      <4> HIDE DEF s
      <4> QED BY <2>4, <2>6, ResultFacts
    <3> QED BY <2>6, <3>1, InvalidGood
  <2>7. CASE n2 = InvalidAmount /\ UnitsOf(b) > Largest
    <3>1. ~IsValid(n2)
      BY <2>7 DEF IsValid, InvalidAmount, AmountOf
    <3>2. D = InvalidAmount
      BY <3>1 DEF Difference
    <3> QED BY <2>4, <2>6, <2>7, <3>2
  <2>8. ASSUME NEW w \in 0..(ValueRange - 1), NEW g \in 0..(FRAC_BASE - 1),
               n2 = AmountOf(Currency, w, g), UnitsOf(b) = w * FRAC_BASE + g
        PROVE  Good(D) /\ UnitsOf(D) = ResultOf(s)
    <3>1. /\ v \in Nat /\ w \in Nat /\ f \in Nat /\ g \in Nat
          /\ v <= MAX_AMOUNT_VALUE /\ f < FRAC_BASE /\ g < FRAC_BASE
      BY <2>1, <2>8, Widths
    <3>2. s = (v * FRAC_BASE + f) - (w * FRAC_BASE + g)
      BY <2>1, <2>8
    <3>3. /\ n2.currency = Currency /\ n2.value = w /\ n2.fraction = g /\ IsValid(n2)
      BY <2>8, Widths DEF AmountOf, IsValid
    <3> DEFINE value == IF f < g THEN v - 1 ELSE v
               fraction == IF f < g THEN f + FRAC_BASE ELSE f
    <3>4. D = IF (f < g /\ v = 0) \/ value < w THEN InvalidAmount
              ELSE AmountOf(Currency, value - w, fraction - g)
      BY <1>2, <2>1, <3>3 DEF Difference
    <3>5. ASSUME v < w \/ (v = w /\ f < g) PROVE s < 0
      <4>1. (v * FRAC_BASE + f) - (w * FRAC_BASE + g) < 0
        <5> HIDE DEF v, f
        <5> QED BY <3>1, <3>5, Widths, LessWorth
      <4> QED BY <3>2, <4>1
    <3>6. ASSUME NEW p \in 0..MAX_AMOUNT_VALUE, NEW h \in 0..(FRAC_BASE - 1),
                 D = AmountOf(Currency, p, h), s = p * FRAC_BASE + h
          PROVE  Good(D) /\ UnitsOf(D) = ResultOf(s)
      <4>1. p \in Nat /\ h \in Nat
        BY Widths
      <4>2. p * FRAC_BASE + h \in Nat
        BY <4>1, WithinLargest
      <4>3. ResultOf(s) = s
        <5> HIDE DEF s
        <5> QED BY <2>4, <3>6, <4>2, ResultFacts
      <4>4. Good(D) /\ UnitsOf(D) = p * FRAC_BASE + h
        BY <3>6, MadeGood
      <4> QED BY <3>6, <4>3, <4>4
    <3>7. CASE ~(f < g)
      <4>1. value = v /\ fraction = f
        BY <3>7
      <4>2. CASE v < w
        BY <2>6, <3>4, <3>5, <4>1, <4>2
      <4>3. CASE ~(v < w)
        <5> DEFINE p == v - w
                   h == f - g
        <5>1. p \in 0..MAX_AMOUNT_VALUE /\ h \in 0..(FRAC_BASE - 1)
          BY <3>1, <3>7, <4>3, Widths
        <5>2. D = AmountOf(Currency, p, h)
          BY <3>4, <3>7, <4>1, <4>3
        <5>3. (v * FRAC_BASE + f) - (w * FRAC_BASE + g) = (v - w) * FRAC_BASE + (f - g)
          <6> HIDE DEF v, f
          <6>1. w <= v
            BY <3>1, <4>3
          <6> QED BY <3>1, <6>1, Widths, DistributeMinus
        <5>4. s = p * FRAC_BASE + h
          BY <3>2, <5>3
        <5> HIDE DEF p, h
        <5> QED BY <3>6, <5>1, <5>2, <5>4
      <4> QED BY <4>2, <4>3
    <3>8. CASE f < g
      <4>1. value = v - 1 /\ fraction = f + FRAC_BASE
        BY <3>8
      <4>2. CASE v <= w
        <5>1. (f < g /\ v = 0) \/ value < w
          BY <3>1, <3>8, <4>1, <4>2
        <5>2. v < w \/ (v = w /\ f < g)
          BY <3>1, <3>8, <4>2
        <5> QED BY <2>6, <3>4, <3>5, <5>1, <5>2
      <4>3. CASE ~(v <= w)
        <5> DEFINE p == v - 1 - w
                   h == (f + FRAC_BASE) - g
        <5>1. p \in 0..MAX_AMOUNT_VALUE /\ h \in 0..(FRAC_BASE - 1)
          BY <3>1, <3>8, <4>3, Widths
        <5>2. D = AmountOf(Currency, p, h)
          <6>1. ~((f < g /\ v = 0) \/ value < w)
            BY <3>1, <4>1, <4>3
          <6> QED BY <3>4, <4>1, <6>1
        <5>3. v * FRAC_BASE + f = (v - 1) * FRAC_BASE + (f + FRAC_BASE)
          <6> HIDE DEF v, f
          <6> DEFINE k == v - 1
          <6>1. k \in Nat /\ v = k + 1
            BY <3>1, <4>3
          <6> HIDE DEF k
          <6>2. v * FRAC_BASE = k * FRAC_BASE + FRAC_BASE /\ k * FRAC_BASE \in Nat
            BY <6>1, Widths
          <6> DEFINE x == k * FRAC_BASE
          <6>3. v * FRAC_BASE = x + FRAC_BASE /\ x \in Nat
            BY <6>2
          <6> HIDE DEF x
          <6>4. v * FRAC_BASE + f = x + (f + FRAC_BASE)
            BY <3>1, <6>3, Widths
          <6> QED BY <6>4 DEF x, k
        <5>4. ((v - 1) * FRAC_BASE + (f + FRAC_BASE)) - (w * FRAC_BASE + g)
                = (v - 1 - w) * FRAC_BASE + ((f + FRAC_BASE) - g)
          <6> DEFINE k == v - 1
                     l == f + FRAC_BASE
          <6>1. k \in Nat /\ w <= k /\ l \in Int
            BY <3>1, <4>3, Widths
          <6> HIDE DEF k, l
          <6>2. (k * FRAC_BASE + l) - (w * FRAC_BASE + g) = (k - w) * FRAC_BASE + (l - g)
            BY <3>1, <6>1, Widths, DistributeMinus
          <6> QED BY <6>2 DEF k, l
        <5>5. s = p * FRAC_BASE + h
          BY <3>2, <5>3, <5>4
        <5> HIDE DEF p, h
        <5> QED BY <3>6, <5>1, <5>2, <5>5
      <4> QED BY <4>2, <4>3
    <3> QED BY <3>7, <3>8
  <2> QED BY <2>2, <2>7, <2>8
<1> QED BY <1>1, <1>2

(* TALER_amount_divide is exact, rounded down to the smallest unit.        *)
THEOREM QuotientExact ==
    ASSUME NEW a, Good(a), IsValid(a), NEW k \in Divisors
    PROVE  /\ Good(Quotient(a, k))
           /\ UnitsOf(Quotient(a, k)) = UnitsOf(a) \div k
<1> DEFINE B == FRAC_BASE
           v == a.value
           f == a.fraction
           u == UnitsOf(a)
<1>1. /\ a.currency = Currency /\ Normalize(a) = a /\ u = v * B + f
      /\ v \in 0..MAX_AMOUNT_VALUE /\ f \in 0..(B - 1) /\ u \in 0..Largest
      /\ Largest \in Nat
  BY GoodParts, WithinLargest
<1>2. /\ k \in Nat \ {0} /\ k * B <= ValueRange /\ B \in Nat \ {0}
      /\ v \in Nat /\ f \in Nat /\ f < B /\ u \in Nat
  BY <1>1, WidthsAssumption
<1>3. CASE k = 1
  <2>1. Quotient(a, k) = a
    BY <1>1, <1>3 DEF Quotient
  <2>2. u \div k = u
    <3> HIDE DEF u
    <3>1. u = u * k + 0
      BY <1>2, <1>3
    <3> QED BY <1>2, <1>3, <3>1, DivModUnique
  <2> QED BY <2>1, <2>2
<1>4. CASE k # 1
  <2> DEFINE q == v \div k
             m == v % k
             x == m * B + f
             t == x \div k
             r == x % k
  <2>1. q \in Nat /\ m \in Nat /\ m < k /\ v = q * k + m
    <3> HIDE DEF v
    <3> QED BY <1>2, DivMod
  <2>2. Quotient(a, k) =
          Normalize(AmountOf(Currency, q, ((x % ValueRange) \div k) % FractionRange))
    BY <1>1, <1>4 DEF Quotient
  <2> HIDE DEF q, m
  <2>3. x \in Nat /\ x < k * B
    <3>1. m * B + f < k * B + 0
      <4> HIDE DEF B, f
      <4> QED BY <1>2, <2>1, Lexicographic
    <3>2. m * B \in Nat /\ k * B \in Nat
      BY <1>2, <2>1
    <3> QED BY <1>2, <3>1, <3>2
  <2> HIDE DEF x
  <2>4. x % ValueRange = x
    <3>1. x = 0 * ValueRange + x /\ x < ValueRange /\ ValueRange \in Nat \ {0}
      <4>1. k * B \in Nat
        BY <1>2
      <4> QED BY <1>2, <2>3, <4>1, Widths
    <3> QED BY <2>3, <3>1, DivModUnique
  <2>5. t \in Nat /\ r \in Nat /\ r < k /\ x = t * k + r
    BY <1>2, <2>3, DivMod
  <2> HIDE DEF t, r
  <2>6. t < B
    <3> SUFFICES ASSUME ~(t < B) PROVE FALSE
      OBVIOUS
    <3>1. CASE t = B
      <4> DEFINE y == k * B
      <4>1. t * k = y /\ y \in Nat
        BY <1>2, <3>1
      <4>2. x = y + r /\ x < y
        BY <2>3, <2>5, <4>1
      <4> HIDE DEF y
      <4> QED BY <2>5, <4>1, <4>2
    <3>2. CASE t # B
      <4>1. B < t
        BY <1>2, <2>5, <3>2
      <4>2. B * k + 0 < t * k + r
        <5> HIDE DEF B
        <5> QED BY <1>2, <2>5, <4>1, Lexicographic
      <4> DEFINE y == k * B
      <4>3. y \in Nat /\ B * k = y
        BY <1>2
      <4>4. y < x /\ x < y
        BY <2>3, <2>5, <4>2, <4>3
      <4> HIDE DEF y
      <4> QED BY <2>3, <4>3, <4>4
    <3> QED BY <3>1, <3>2
  <2>7. t % FractionRange = t
    <3>1. t = 0 * FractionRange + t /\ t < FractionRange /\ FractionRange \in Nat \ {0}
      BY <2>5, <2>6, Widths
    <3> QED BY <2>5, <3>1, DivModUnique
  <2>8. q \in 0..MAX_AMOUNT_VALUE
    <3>1. q * k >= q
      <4> DEFINE j == k - 1
      <4>1. j \in Nat /\ k = j + 1
        BY <1>2
      <4> HIDE DEF j
      <4>2. q * k = q * j + q /\ q * j \in Nat
        BY <2>1, <4>1
      <4> DEFINE y == q * j
      <4> HIDE DEF y
      <4>3. q * k = y + q /\ y \in Nat
        BY <4>2 DEF y
      <4> QED BY <2>1, <4>3
    <3>2. q * k \in Nat
      BY <1>2, <2>1
    <3> DEFINE z == q * k
    <3>3. z \in Nat /\ z >= q /\ v = z + m
      BY <2>1, <3>1, <3>2
    <3> HIDE DEF z
    <3> QED BY <1>1, <1>2, <2>1, <3>3, Widths
  <2>9. Quotient(a, k) = AmountOf(Currency, q, t)
    <3> DEFINE n == AmountOf(Currency, q, t)
    <3>1. Quotient(a, k) = Normalize(n)
      BY <2>2, <2>4, <2>7 DEF t
    <3>2. n.fraction < FRAC_BASE /\ IsValid(n)
      BY <2>6, Widths DEF AmountOf, IsValid
    <3> QED BY <3>1, <3>2 DEF Normalize
  <2>10. Good(Quotient(a, k)) /\ UnitsOf(Quotient(a, k)) = q * B + t
    <3>1. t \in 0..(FRAC_BASE - 1)
      BY <2>5, <2>6, Widths
    <3> QED BY <2>8, <2>9, <3>1, MadeGood
  <2>11. u = (q * B + t) * k + r
    <3>1. v * B = (q * B) * k + m * B
      <4>1. v * B = (q * k) * B + m * B
        BY <1>2, <2>1
      <4>2. (q * k) * B = (q * B) * k
        BY <1>2, <2>1, SMT
      <4> QED BY <4>1, <4>2
    <3>2. (q * B + t) * k = (q * B) * k + t * k
      <4> DEFINE y == q * B
      <4>1. y \in Nat
        BY <1>2, <2>1
      <4> HIDE DEF y
      <4>2. (y + t) * k = y * k + t * k
        BY <1>2, <2>5, <4>1
      <4> QED BY <4>2 DEF y
    <3>3. (q * B) * k \in Nat /\ t * k \in Nat /\ m * B \in Nat
      <4>1. q * B \in Nat
        BY <1>2, <2>1
      <4> DEFINE y == q * B
      <4> HIDE DEF y
      <4>2. y * k \in Nat
        BY <1>2, <4>1 DEF y
      <4> QED BY <1>2, <2>1, <2>5, <4>2 DEF y
    <3> DEFINE X == (q * B) * k
               Y == t * k
               Z == m * B
               W == (q * B + t) * k
    <3>4. /\ X \in Nat /\ Y \in Nat /\ Z \in Nat /\ W = X + Y /\ v * B = X + Z
          /\ x = Z + f /\ x = Y + r
      BY <2>5, <3>1, <3>2, <3>3 DEF x
    <3>5. u = X + Z + f
      BY <1>1, <3>4
    <3> HIDE DEF X, Y, Z, W, u
    <3>6. u = W + r
      BY <1>2, <2>5, <3>4, <3>5
    <3> QED BY <3>6 DEF W
  <2>12. u \div k = q * B + t
    <3>1. q * B + t \in Nat
      BY <1>2, <2>1, <2>5
    <3> DEFINE y == q * B + t
    <3>2. y \in Nat /\ u = y * k + r
      BY <2>11, <3>1
    <3> HIDE DEF y, u
    <3>3. u \div k = y
      BY <1>2, <2>5, <3>2, DivModUnique
    <3> QED BY <3>3 DEF y
  <2> QED BY <2>10, <2>12
<1> QED BY <1>3, <1>4

\* A unit that divides one unit of currency, or none.
DividingUnit(u) ==
    /\ u.currency = Currency /\ u.value = 0
    /\ u.fraction # 0 => FRAC_BASE % u.fraction = 0

(* TALER_amount_round_down keeps amounts normalized, for every unit.       *)
LEMMA RoundedGood ==
    ASSUME NEW a, Good(a), NEW u \in RoundUnits
    PROVE  Good(RoundedDown(a, u))
<1> DEFINE v == a.value
           f == a.fraction
           d == u.fraction
           e == u.value
<1>1. /\ a = AmountOf(a.currency, v, f)
      /\ v \in 0..MAX_AMOUNT_VALUE /\ f \in 0..(FRAC_BASE - 1)
      /\ IsValid(a) => a.currency = Currency
  BY GoodParts
<1>2. d \in Nat /\ e \in Nat
  BY InputsAssumption, Widths
<1>3. ASSUME NEW w \in 0..MAX_AMOUNT_VALUE, NEW g \in 0..(FRAC_BASE - 1), IsValid(a)
      PROVE  Good(AmountOf(a.currency, w, g))
  BY <1>1, <1>3, MadeGood
<1>4. CASE SameCurrency(a, u) /\ d # 0 /\ e = 0
  <2> DEFINE r == f % d
  <2>1. r \in Nat /\ r <= f
    <3> HIDE DEF f, d
    <3>1. f \in Nat /\ d \in Nat \ {0}
      BY <1>1, <1>2, <1>4, Widths
    <3> DEFINE q == f \div d
    <3>2. q \in Nat /\ r \in Nat /\ f = q * d + r
      BY <3>1, DivMod
    <3> HIDE DEF q, r
    <3>3. q * d \in Nat
      BY <3>1, <3>2
    <3> QED BY <3>2, <3>3
  <2>2. RoundedDown(a, u) = AmountOf(a.currency, v, f - r)
    <3>1. RoundedDown(a, u) = [a EXCEPT !.fraction = f - r]
      BY <1>4 DEF RoundedDown
    <3> DEFINE x == f - r
               c == a.currency
    <3>2. RoundedDown(a, u) = [a EXCEPT !.fraction = x] /\ a = AmountOf(c, v, f)
      BY <1>1, <3>1
    <3> HIDE DEF x, c, v, f
    <3>3. RoundedDown(a, u) = AmountOf(c, v, x)
      BY <3>2 DEF AmountOf
    <3> QED BY <3>3 DEF x, c
  <2>3. f - r \in 0..(FRAC_BASE - 1)
    BY <1>1, <2>1, Widths
  <2> QED BY <1>1, <1>3, <1>4, <2>2, <2>3 DEF SameCurrency
<1>5. CASE SameCurrency(a, u) /\ d = 0 /\ e # 0
  <2> DEFINE r == v % e
  <2>1. r \in Nat /\ r <= v
    <3> HIDE DEF v, e
    <3>1. v \in Nat /\ e \in Nat \ {0}
      BY <1>1, <1>2, <1>5, Widths
    <3> DEFINE q == v \div e
    <3>2. q \in Nat /\ r \in Nat /\ v = q * e + r
      BY <3>1, DivMod
    <3> HIDE DEF q, r
    <3>3. q * e \in Nat
      BY <3>1, <3>2
    <3> QED BY <3>2, <3>3
  <2>2. RoundedDown(a, u) = a \/ RoundedDown(a, u) = AmountOf(a.currency, v - r, 0)
    BY <1>5 DEF RoundedDown
  <2>3. v - r \in 0..MAX_AMOUNT_VALUE /\ 0 \in 0..(FRAC_BASE - 1)
    BY <1>1, <2>1, Widths
  <2> QED BY <1>1, <1>3, <1>5, <2>2, <2>3 DEF SameCurrency
<1>6. CASE ~(SameCurrency(a, u) /\ (d # 0 \/ e # 0))
  BY <1>6 DEF RoundedDown
<1>7. d = 0 \/ e = 0
  BY InputsAssumption
<1> QED BY <1>4, <1>5, <1>6, <1>7

(* TALER_amount_round_down is exact for a unit that divides one unit of    *)
(* currency.  (For a unit of one or more it is not, run whole_unit.)       *)
THEOREM RoundedExact ==
    ASSUME NEW a, Good(a), IsValid(a), NEW u \in RoundUnits, DividingUnit(u)
    PROVE  /\ UnitsOf(u) \in Nat
           /\ UnitsOf(RoundedDown(a, u)) =
                 IF UnitsOf(u) = 0 THEN UnitsOf(a)
                 ELSE UnitsOf(a) - (UnitsOf(a) % UnitsOf(u))
<1> DEFINE B == FRAC_BASE
           v == a.value
           f == a.fraction
           d == u.fraction
           n == UnitsOf(a)
<1>1. /\ a = AmountOf(Currency, v, f) /\ a.currency = Currency
      /\ v \in 0..MAX_AMOUNT_VALUE /\ f \in 0..(B - 1) /\ n = v * B + f
  BY GoodParts
<1>2. B \in Nat \ {0} /\ v \in Nat /\ f \in Nat /\ f < B /\ d \in Nat
  BY <1>1, InputsAssumption, Widths
<1>3. UnitsOf(u) = d
  <2>1. UnitsOf(u) = 0 * B + d
    BY DEF UnitsOf, DividingUnit
  <2> QED BY <1>2, <2>1
<1>4. SameCurrency(a, u) /\ u.value = 0
  BY <1>1, Widths DEF SameCurrency, IsValid, DividingUnit
<1>5. CASE d = 0
  BY <1>2, <1>3, <1>4, <1>5 DEF RoundedDown
<1>6. CASE d # 0
  <2> DEFINE r == f % d
             x == f - r
             q == f \div d
             e == B \div d
  <2>1. RoundedDown(a, u) = [a EXCEPT !.fraction = x]
    BY <1>4, <1>6 DEF RoundedDown
  <2>2. q \in Nat /\ r \in Nat /\ r < d /\ f = q * d + r /\ d \in Nat \ {0}
    <3> HIDE DEF f, d
    <3> QED BY <1>2, <1>6, DivMod
  <2>3. e \in Nat /\ B = e * d
    <3>1. B % d = 0
      BY <1>6 DEF DividingUnit
    <3> HIDE DEF B, d
    <3>2. e \in Nat /\ B = e * d + (B % d)
      BY <1>2, <2>2, DivMod
    <3> HIDE DEF e
    <3>3. e * d \in Nat
      BY <2>2, <3>2
    <3> QED BY <3>1, <3>2, <3>3
  <2> HIDE DEF r, q, e
  <2>4. x \in Nat /\ x <= f
    <3>1. q * d \in Nat
      BY <2>2
    <3> DEFINE y == q * d
    <3>2. y \in Nat /\ f = y + r
      BY <2>2, <3>1
    <3> HIDE DEF y
    <3> QED BY <1>2, <2>2, <3>2
  <2>5. RoundedDown(a, u) = AmountOf(Currency, v, x)
    <3>1. a = [currency |-> Currency, value |-> v, fraction |-> f]
      BY <1>1 DEF AmountOf
    <3> HIDE DEF x, v, f
    <3> QED BY <2>1, <3>1 DEF AmountOf
  <2>6. UnitsOf(RoundedDown(a, u)) = v * B + x
    <3>1. x \in 0..(FRAC_BASE - 1)
      BY <1>2, <2>4, Widths
    <3> HIDE DEF x, v
    <3> QED BY <1>1, <2>5, <3>1, MadeGood
  <2>7. n = (v * e + q) * d + r
    <3>1. v * B = (v * e) * d
      BY <1>2, <2>2, <2>3, SMT
    <3>2. (v * e + q) * d = (v * e) * d + q * d
      <4> DEFINE y == v * e
      <4>1. y \in Nat
        BY <1>2, <2>3
      <4> HIDE DEF y
      <4>2. (y + q) * d = y * d + q * d
        BY <2>2, <4>1
      <4> QED BY <4>2 DEF y
    <3>3. (v * e) * d \in Nat /\ q * d \in Nat
      <4> DEFINE y == v * e
      <4>1. y \in Nat
        BY <1>2, <2>3
      <4> HIDE DEF y
      <4>2. y * d \in Nat /\ q * d \in Nat
        BY <2>2, <4>1
      <4> QED BY <4>2 DEF y
    <3> DEFINE X == (v * e) * d
               Y == q * d
               W == (v * e + q) * d
    <3>4. X \in Nat /\ Y \in Nat /\ W = X + Y /\ v * B = X /\ f = Y + r
      BY <2>2, <3>1, <3>2, <3>3
    <3>5. n = X + f
      BY <1>1, <3>4
    <3> HIDE DEF X, Y, W, n
    <3>6. n = W + r
      BY <1>2, <2>2, <3>4, <3>5
    <3> QED BY <3>6 DEF W
  <2>8. n % d = r
    <3> DEFINE y == v * e + q
    <3>1. y \in Nat /\ n = y * d + r
      BY <1>2, <2>2, <2>3, <2>7
    <3>2. n \in Nat
      BY <1>1, <1>2
    <3> HIDE DEF y, n, d
    <3> QED BY <2>2, <3>1, <3>2, DivModUnique
  <2>9. n - (n % d) = v * B + x
    <3> DEFINE y == v * B
    <3>1. y \in Nat /\ n = y + f
      BY <1>1, <1>2
    <3> HIDE DEF y, n
    <3>2. n - r = y + (f - r)
      BY <1>2, <2>2, <3>1
    <3> QED BY <2>8, <3>2 DEF y
  <2> QED BY <1>2, <1>3, <1>6, <2>6, <2>9
<1> QED BY <1>5, <1>6

(* TALER_amount_cmp orders amounts by what they are worth.                 *)
THEOREM CmpExact ==
    ASSUME NEW a, Good(a), NEW b, Operand(b), SameCurrency(a, b),
           IsValid(Normalize(b))
    PROVE  LET n == UnitsOf(a) - UnitsOf(b)
           IN Cmp(a, b) = IF n < 0 THEN -1 ELSE IF n > 0 THEN 1 ELSE 0
<1> DEFINE B == FRAC_BASE
           v == a.value
           f == a.fraction
<1>1. /\ a.currency = Currency /\ b.currency = Currency /\ Normalize(a) = a
      /\ v \in 0..MAX_AMOUNT_VALUE /\ f \in 0..(B - 1) /\ UnitsOf(a) = v * B + f
  BY GoodParts DEF SameCurrency
<1>2. PICK w \in 0..(ValueRange - 1), g \in 0..(B - 1) :
           Normalize(b) = AmountOf(Currency, w, g) /\ UnitsOf(b) = w * B + g
  BY <1>1, OperandParts DEF IsValid, InvalidAmount, AmountOf
<1>3. /\ B \in Nat \ {0} /\ v \in Nat /\ f \in Nat /\ f < B
      /\ w \in Nat /\ g \in Nat /\ g < B
  BY <1>1, <1>2, Widths
<1>4. Normalize(b).value = w /\ Normalize(b).fraction = g
  BY <1>2 DEF AmountOf
<1> DEFINE Sign(i, j) == IF i < j THEN -1 ELSE IF i > j THEN 1 ELSE 0
           x == v * B + f
           y == w * B + g
<1>5. Cmp(a, b) = IF v = w THEN Sign(f, g) ELSE Sign(v, w)
  BY <1>1, <1>4 DEF Cmp
<1>6. x \in Nat /\ y \in Nat
  BY <1>3
<1>7. ASSUME v < w \/ (v = w /\ f < g) PROVE x - y < 0
  <2> HIDE DEF B, v, f
  <2> QED BY <1>3, <1>7, LessWorth
<1>8. ASSUME w < v \/ (v = w /\ g < f) PROVE x - y > 0
  <2>1. y - x < 0
    <3> HIDE DEF B, v, f
    <3> QED BY <1>3, <1>8, LessWorth
  <2> HIDE DEF x, y
  <2> QED BY <1>6, <2>1
<1>9. ASSUME v = w, f = g PROVE x - y = 0
  <2>1. x = y
    BY <1>9
  <2> HIDE DEF x, y
  <2> QED BY <1>6, <2>1
<1>10. UnitsOf(a) - UnitsOf(b) = x - y /\ x - y \in Int
  <2>1. UnitsOf(a) - UnitsOf(b) = x - y
    BY <1>1, <1>2
  <2> HIDE DEF x, y
  <2> QED BY <1>6, <2>1
<1> DEFINE n == x - y
<1>11. n \in Int /\ UnitsOf(a) - UnitsOf(b) = n
  BY <1>10
<1> HIDE DEF x, y, B, v, f
<1>12. CASE v < w \/ (v = w /\ f < g)
  <2>1. n < 0 /\ Cmp(a, b) = -1
    BY <1>3, <1>5, <1>7, <1>12
  <2> HIDE DEF n
  <2> QED BY <1>11, <2>1
<1>13. CASE w < v \/ (v = w /\ g < f)
  <2>1. n > 0 /\ Cmp(a, b) = 1
    BY <1>3, <1>5, <1>8, <1>13
  <2> HIDE DEF n
  <2> QED BY <1>11, <2>1
<1>14. CASE v = w /\ f = g
  <2>1. n = 0 /\ Cmp(a, b) = 0
    BY <1>3, <1>5, <1>9, <1>14
  <2> HIDE DEF n
  <2> QED BY <1>11, <2>1
<1> QED BY <1>3, <1>12, <1>13, <1>14

---------------------------------------------------------------------------
(* Programs that compute with amounts.                                     *)

\* What the theorems below take from TALER_string_to_amount, for the strings
\* that are read: the result is exact, or invalid when there is none.
ParserExact ==
    \A s \in Strings :
        /\ Good(StringToAmount(s))
        /\ UnitsOf(StringToAmount(s)) = E!Result(Meaning(s))

LEMMA InitGood == Init => AmountsTypeOK
<1>1. 0 \in 0..MAX_AMOUNT_VALUE /\ 0 \in 0..(FRAC_BASE - 1)
  BY Widths
<1>2. Good(Zero)
  BY <1>1, MadeGood DEF Zero
<1> QED BY <1>2 DEF Init, AmountsTypeOK, Good

(* Every command leaves the register normalized.                           *)
LEMMA NextGood == ParserExact /\ AmountsTypeOK /\ [Next]_vars => AmountsTypeOK'
<1> SUFFICES ASSUME ParserExact, AmountsTypeOK, [Next]_vars PROVE Good(acc')
  BY DEF AmountsTypeOK, Good
<1>0. Good(acc)
  BY DEF AmountsTypeOK, Good
<1>1. ASSUME NEW s \in Strings, Load(s) PROVE Good(acc')
  BY <1>1 DEF Load, ParserExact
<1>2. ASSUME NEW b \in Operands, Add(b) \/ Subtract(b) PROVE Good(acc')
  <2>1. Operand(b)
    BY InputsAssumption DEF Operand
  <2> QED BY <1>0, <1>2, <2>1, SumExact, DifferenceExact DEF Add, Subtract
<1>3. ASSUME NEW k \in Divisors, Divide(k) PROVE Good(acc')
  BY <1>0, <1>3, QuotientExact DEF Divide
<1>4. ASSUME NEW u \in RoundUnits, Round(u) PROVE Good(acc')
  BY <1>0, <1>4, RoundedGood DEF Round
<1>5. CASE UNCHANGED vars
  BY <1>0, <1>5 DEF vars
<1> QED BY <1>1, <1>2, <1>3, <1>4, <1>5 DEF Next

(* Whatever a program does with amounts, the register is normalized and    *)
(* within the largest amount.                                              *)
THEOREM AlwaysNormalized ==
    ASSUME ParserExact
    PROVE  Spec => []AmountsTypeOK
  BY InitGood, NextGood, PTL DEF Spec

(* Comparing the register with an operand orders amounts by their worth.   *)
THEOREM ComparisonsExact ==
    ASSUME ParserExact
    PROVE  Spec => []ComparisonExact
<1>1. AmountsTypeOK => ComparisonExact
  <2> SUFFICES ASSUME AmountsTypeOK PROVE ComparisonExact
    OBVIOUS
  <2>1. Good(acc)
    BY DEF AmountsTypeOK, Good
  <2>2. \A b \in Operands : Operand(b)
    BY InputsAssumption DEF Operand
  <2> QED BY <2>1, <2>2, CmpExact DEF ComparisonExact
<1> QED BY <1>1, AlwaysNormalized, PTL

(* A command computes the exact result.                                    *)
LEMMA NextExact ==
    ASSUME ParserExact, \A u \in RoundUnits : DividingUnit(u),
           AmountsTypeOK, [Next]_vars
    PROVE  [E!ExactNext]_(E!exactVars)
<1>0. Good(acc)
  BY DEF AmountsTypeOK, Good
<1> DEFINE n == UnitsOf(acc)
<1>1. \A m : E!Result(m) = ResultOf(m)
  BY DEF E!Result, E!Invalid, ResultOf, Largest
<1>2. SUFFICES ASSUME Next PROVE \E cmd \in ExactCommands : E!Do(cmd)
  BY DEF E!ExactNext, E!exactVars, vars, LastExact
<1>3. ASSUME NEW s \in Strings, Load(s) PROVE \E cmd \in ExactCommands : E!Do(cmd)
  <2> PICK cmd : cmd = Command("load", Meaning(s))
    OBVIOUS
  <2>1. cmd.name = "load" /\ cmd.arg = Meaning(s)
    BY DEF Command
  <2>2. cmd \in ExactCommands
    BY DEF ExactCommands
  <2>3. LastExact' = cmd
    BY <1>3 DEF Load, LastExact, Command
  <2>4. E!Exact(cmd) = E!Result(Meaning(s))
    BY <2>1 DEF E!Exact
  <2>5. UnitsOf(acc)' = E!Result(Meaning(s))
    BY <1>3 DEF Load, ParserExact, UnitsOf
  <2> QED BY <2>2, <2>3, <2>4, <2>5 DEF E!Do
<1>4. ASSUME NEW b \in Operands, Add(b) PROVE \E cmd \in ExactCommands : E!Do(cmd)
  <2> PICK cmd : cmd = Command("add", UnitsOf(b))
    OBVIOUS
  <2>1. cmd.name = "add" /\ cmd.arg = UnitsOf(b)
    BY DEF Command
  <2>2. cmd \in ExactCommands
    BY DEF ExactCommands
  <2>3. LastExact' = cmd
    BY <1>4 DEF Add, LastExact, Command, UnitsOf
  <2>4. E!Exact(cmd) = IF -1 \in {n, UnitsOf(b)} THEN -1 ELSE ResultOf(n + UnitsOf(b))
    BY <1>1, <2>1 DEF E!Exact, E!Invalid
  <2>5. Operand(b)
    BY InputsAssumption DEF Operand
  <2>6. UnitsOf(acc)' = UnitsOf(Sum(acc, b))
    BY <1>4 DEF Add, UnitsOf
  <2> QED BY <1>0, <2>2, <2>3, <2>4, <2>5, <2>6, SumExact DEF E!Do
<1>5. ASSUME NEW b \in Operands, Subtract(b)
      PROVE  \E cmd \in ExactCommands : E!Do(cmd)
  <2> PICK cmd : cmd = Command("subtract", UnitsOf(b))
    OBVIOUS
  <2>1. cmd.name = "subtract" /\ cmd.arg = UnitsOf(b)
    BY DEF Command
  <2>2. cmd \in ExactCommands
    BY DEF ExactCommands
  <2>3. LastExact' = cmd
    BY <1>5 DEF Subtract, LastExact, Command, UnitsOf
  <2>4. E!Exact(cmd) = IF -1 \in {n, UnitsOf(b)} THEN -1 ELSE ResultOf(n - UnitsOf(b))
    BY <1>1, <2>1 DEF E!Exact, E!Invalid
  <2>5. Operand(b)
    BY InputsAssumption DEF Operand
  <2>6. UnitsOf(acc)' = UnitsOf(Difference(acc, b))
    BY <1>5 DEF Subtract, UnitsOf
  <2> QED BY <1>0, <2>2, <2>3, <2>4, <2>5, <2>6, DifferenceExact DEF E!Do
<1>6. ASSUME NEW k \in Divisors, Divide(k) PROVE \E cmd \in ExactCommands : E!Do(cmd)
  <2> PICK cmd : cmd = Command("divide", k)
    OBVIOUS
  <2>1. cmd.name = "divide" /\ cmd.arg = k
    BY DEF Command
  <2>2. cmd \in ExactCommands
    BY DEF ExactCommands
  <2>3. LastExact' = cmd
    BY <1>6 DEF Divide, LastExact, Command
  <2>4. n # -1 /\ k # -1 /\ IsValid(acc)
    <3>1. n \in 0..Largest /\ IsValid(acc)
      BY <1>0, <1>6, GoodParts DEF Divide
    <3> HIDE DEF n
    <3> QED BY <3>1, WidthsAssumption
  <2>5. E!Exact(cmd) = n \div k
    BY <2>1, <2>4 DEF E!Exact, E!Invalid
  <2>6. UnitsOf(acc)' = UnitsOf(Quotient(acc, k))
    BY <1>6 DEF Divide, UnitsOf
  <2> QED BY <1>0, <2>2, <2>3, <2>4, <2>5, <2>6, QuotientExact DEF E!Do
<1>7. ASSUME NEW u \in RoundUnits, Round(u) PROVE \E cmd \in ExactCommands : E!Do(cmd)
  <2> PICK cmd : cmd = Command("round", UnitsOf(u))
    OBVIOUS
  <2>1. cmd.name = "round" /\ cmd.arg = UnitsOf(u)
    BY DEF Command
  <2>2. cmd \in ExactCommands
    BY DEF ExactCommands
  <2>3. LastExact' = cmd
    BY <1>7 DEF Round, LastExact, Command, UnitsOf
  <2>4. UnitsOf(acc)' = UnitsOf(RoundedDown(acc, u))
    BY <1>7 DEF Round, UnitsOf
  <2>5. CASE IsValid(acc)
    <3>1. /\ UnitsOf(u) \in Nat
          /\ UnitsOf(RoundedDown(acc, u)) =
                 IF UnitsOf(u) = 0 THEN n ELSE n - (n % UnitsOf(u))
      BY <1>0, <2>5, RoundedExact
    <3>2. n # -1 /\ UnitsOf(u) # -1
      <4>1. n \in 0..Largest
        BY <1>0, <2>5, GoodParts
      <4> DEFINE m == UnitsOf(u)
      <4>2. m \in Nat
        BY <3>1
      <4> HIDE DEF n, m
      <4>3. n # -1 /\ m # -1
        BY <4>1, <4>2
      <4> QED BY <4>3 DEF n, m
    <3>3. E!Exact(cmd) = IF UnitsOf(u) = 0 THEN n ELSE n - (n % UnitsOf(u))
      BY <2>1, <3>2 DEF E!Exact, E!Invalid
    <3> QED BY <2>2, <2>3, <2>4, <3>1, <3>3 DEF E!Do
  <2>6. CASE ~IsValid(acc)
    <3>1. n = -1
      BY <1>0, <2>6, GoodParts
    <3>2. E!Exact(cmd) = -1
      BY <2>1, <3>1 DEF E!Exact, E!Invalid
    <3>3. RoundedDown(acc, u) = acc
      BY <2>6 DEF RoundedDown, SameCurrency
    <3> QED BY <2>2, <2>3, <2>4, <3>1, <3>2, <3>3 DEF E!Do
  <2> QED BY <2>5, <2>6
<1> QED BY <1>2, <1>3, <1>4, <1>5, <1>6, <1>7 DEF Next

(* The arithmetic of amount.c implements exact arithmetic for every width, *)
(* base and largest amount that are related as those of the code are, for  *)
(* all operands and divisors, normalized or not.  The units must divide    *)
(* one unit of currency, which the configuration is not checked for        *)
(* (run whole_unit shows what happens with others); that the parser is     *)
(* exact is left to the run amounts.                                       *)
THEOREM ArithmeticExact ==
    ASSUME ParserExact, \A u \in RoundUnits : DividingUnit(u)
    PROVE  Spec => ImplementsExact
<1>1. Init => E!ExactInit
  <2>1. 0 \in 0..MAX_AMOUNT_VALUE /\ 0 \in 0..(FRAC_BASE - 1)
    BY Widths
  <2>2. UnitsOf(Zero) = 0
    <3>1. UnitsOf(Zero) = 0 * FRAC_BASE + 0
      BY <2>1, MadeGood DEF Zero
    <3> QED BY <3>1, Widths
  <2> QED BY <2>2 DEF Init, E!ExactInit, LastExact, Command
<1>2. AmountsTypeOK /\ [Next]_vars => [E!ExactNext]_(E!exactVars)
  BY NextExact
<1>3. Spec => []AmountsTypeOK
  BY AlwaysNormalized
<1> QED BY <1>1, <1>2, <1>3, PTL DEF Spec, ImplementsExact, E!ExactSpec
=============================================================================
