---------------------------- MODULE MoneyProofs ----------------------------
(***************************************************************************)
(* Proofs about the sums of rows in CoinSpending: a coin is never          *)
(* overspent, its history always adds up, and no money is created.  They   *)
(* go through the changes of the ledger that CoinProofs establishes.  The  *)
(* last part is about CoinHistory: refusals are proven to the client.      *)
(***************************************************************************)
EXTENDS CoinProofs, CoinHistory

---------------------------------------------------------------------------
(* Sums of the amounts of rows.                                            *)

AmountsOK(rows) == IsFiniteSet(rows) /\ \A x \in rows : x.amt \in Nat

LEMMA SumAmtNat ==
    ASSUME NEW rows, AmountsOK(rows)
    PROVE  SumAmt(rows) \in Nat
PROOF
<1> DEFINE f == [x \in rows |-> x.amt]
<1>1. \A x \in rows : f[x] \in Nat
  BY DEF AmountsOK
<1>2. SumAmt(rows) = SumFunctionOnSet(f, rows)
  BY DEF SumAmt, SumFunction
<1> HIDE DEF f
<1> QED
  BY <1>1, <1>2, SumNat DEF AmountsOK

LEMMA SumAmtAdd ==
    ASSUME NEW rows, AmountsOK(rows), NEW x, x \notin rows, x.amt \in Nat
    PROVE  /\ AmountsOK(rows \cup {x})
           /\ SumAmt(rows \cup {x}) = SumAmt(rows) + x.amt
PROOF
<1> DEFINE f == [y \in rows |-> y.amt]
           T == rows \cup {x}
           g == [y \in T |-> y.amt]
<1>1. IsFiniteSet(rows) /\ IsFiniteSet(T) /\ \A y \in T : y.amt \in Nat
  BY FS_AddElement DEF AmountsOK
<1>2. /\ \A y \in T : g[y] \in Int
      /\ \A y \in rows : f[y] \in Int /\ f[y] = g[y]
      /\ g[x] = x.amt
  BY <1>1
<1>3. SumAmt(rows) = SumFunctionOnSet(f, rows) /\ SumAmt(T) = SumFunctionOnSet(g, T)
  BY DEF SumAmt, SumFunction
<1> HIDE DEF f, g
<1>4. SumFunctionOnSet(f, rows) = SumFunctionOnSet(g, rows)
  BY ONLY <1>1, <1>2, SumEqual
<1>5. SumFunctionOnSet(g, T) = SumFunctionOnSet(g, rows) + g[x]
  BY ONLY <1>1, <1>2, x \notin rows, SumAdd DEF T
<1> QED
  BY <1>1, <1>2, <1>3, <1>4, <1>5 DEF AmountsOK

LEMMA SumAmtSubset ==
    ASSUME NEW rows, AmountsOK(rows), NEW part, part \subseteq rows
    PROVE  AmountsOK(part)
PROOF
  BY FS_Subset DEF AmountsOK

LEMMA SumAmtEmpty == SumAmt({}) = 0 /\ AmountsOK({})
PROOF
  BY SumEmpty, FS_EmptySet DEF SumAmt, SumFunction, AmountsOK

(* The sum over some rows is the sum of the amounts of all rows, cut off.  *)
LEMMA SumAmtPart ==
    ASSUME NEW rows, AmountsOK(rows), NEW part, part \subseteq rows
    PROVE  SumAmt(part) = SumFunctionOnSet([x \in rows |-> x.amt], part)
PROOF
<1> DEFINE f == [x \in rows |-> x.amt]
           g == [x \in part |-> x.amt]
<1>1. IsFiniteSet(part) /\ \A x \in part : g[x] \in Int /\ g[x] = f[x]
  BY FS_Subset DEF AmountsOK
<1>2. SumAmt(part) = SumFunctionOnSet(g, part)
  BY DEF SumAmt, SumFunction
<1> HIDE DEF f, g
<1>3. SumFunctionOnSet(g, part) = SumFunctionOnSet(f, part)
  BY ONLY <1>1, SumEqual
<1> QED
  BY <1>2, <1>3 DEF f

LEMMA SumAmtMonotone ==
    ASSUME NEW rows, AmountsOK(rows), NEW part, part \subseteq rows
    PROVE  SumAmt(part) <= SumAmt(rows)
PROOF
<1> DEFINE f == [x \in rows |-> x.amt]
<1>1. IsFiniteSet(rows) /\ \A x \in rows : f[x] \in Nat
  BY DEF AmountsOK
<1>2. /\ SumAmt(part) = SumFunctionOnSet(f, part)
      /\ SumAmt(rows) = SumFunctionOnSet(f, rows)
  BY SumAmtPart
<1> HIDE DEF f
<1>3. SumFunctionOnSet(f, part) <= SumFunctionOnSet(f, rows)
  BY ONLY <1>1, part \subseteq rows, SumSubset
<1> QED
  BY <1>2, <1>3

(* Rows that are charged to keys, each of which can pay for its rows.      *)
LEMMA SumAmtCharged ==
    ASSUME NEW rows, AmountsOK(rows), NEW K, IsFiniteSet(K), NEW g, NEW b,
           \A x \in rows : g[x] \in K,
           \A k \in K : b[k] \in Int /\ SumAmt({x \in rows : g[x] = k}) <= b[k]
    PROVE  SumAmt(rows) <= SumFunctionOnSet(b, K)
PROOF
<1> DEFINE f == [x \in rows |-> x.amt]
<1>1. IsFiniteSet(rows) /\ \A x \in rows : f[x] \in Int /\ g[x] \in K
  BY DEF AmountsOK
<1>2. SumAmt(rows) = SumFunctionOnSet(f, rows)
  BY SumAmtPart
<1>3. \A k \in K : /\ b[k] \in Int
                   /\ SumFunctionOnSet(f, {x \in rows : g[x] = k}) <= b[k]
  <2> TAKE k \in K
  <2> DEFINE part == {x \in rows : g[x] = k}
  <2>1. part \subseteq rows /\ b[k] \in Int /\ SumAmt(part) <= b[k]
    OBVIOUS
  <2> HIDE DEF part
  <2>2. SumAmt(part) = SumFunctionOnSet(f, part)
    BY <2>1, SumAmtPart
  <2>3. b[k] \in Int /\ SumFunctionOnSet(f, part) <= b[k]
    BY <2>1, <2>2
  <2> QED
    BY <2>3 DEF part
<1> HIDE DEF f
<1>4. SumFunctionOnSet(f, rows) <= SumFunctionOnSet(b, K)
  BY ONLY <1>1, <1>3, IsFiniteSet(K), SumCharged
<1> QED
  BY <1>2, <1>4

LEMMA SumAmtSingle ==
    ASSUME NEW x, x.amt \in Nat
    PROVE  SumAmt({x}) = x.amt
PROOF
<1>1. SumAmt({} \cup {x}) = SumAmt({}) + x.amt
  BY SumAmtEmpty, SumAmtAdd
<1>2. {} \cup {x} = {x}
  OBVIOUS
<1> QED
  BY <1>1, <1>2, SumAmtEmpty

(* The rows of one coin, after one row was added to a table.               *)
OfCoin(rows, c) == {y \in rows : y.coin = c}

LEMMA RowsOfCoin ==
    ASSUME NEW rows, AmountsOK(rows), NEW x, x \notin rows, x.amt \in Nat, NEW c
    PROVE  SumAmt(OfCoin(rows \cup {x}, c))
             = SumAmt(OfCoin(rows, c)) + (IF x.coin = c THEN x.amt ELSE 0)
PROOF
<1> DEFINE S == OfCoin(rows, c)
           T == OfCoin(rows \cup {x}, c)
<1>1. AmountsOK(S)
  BY SumAmtSubset DEF OfCoin
<1>2. SumAmt(S) \in Nat
  BY <1>1, SumAmtNat
<1>3. CASE x.coin = c
  <2>1. T = S \cup {x} /\ x \notin S
    BY <1>3 DEF OfCoin
  <2> HIDE DEF S, T
  <2>2. SumAmt(S \cup {x}) = SumAmt(S) + x.amt
    BY <1>1, <2>1, SumAmtAdd
  <2>3. SumAmt(T) = SumAmt(S) + (IF x.coin = c THEN x.amt ELSE 0)
    BY <1>3, <2>1, <2>2
  <2> QED
    BY <2>3 DEF S, T
<1>4. CASE x.coin # c
  <2>1. T = S
    BY <1>4 DEF OfCoin
  <2> HIDE DEF S, T
  <2>2. SumAmt(T) = SumAmt(S) + (IF x.coin = c THEN x.amt ELSE 0)
    BY <1>2, <1>4, <2>1
  <2> QED
    BY <2>2 DEF S, T
<1> QED
  BY <1>3, <1>4

---------------------------------------------------------------------------
(* What the totals of a coin are made of.                                  *)

DepositedBy(c) == SumAmt(DepositsOf(c))
MeltedBy(c) == SumAmt(MeltsOf(c))
RefundedTo(c) == SumAmt(RefundsOf(c))
RefundFees(c) == Cardinality(RefundsOf(c)) * FeeRefund[DenomOf[c]]
FeeBack(c) == IF RefundsOf(c) # {} THEN FeeDeposit[DenomOf[c]] ELSE 0
RecoupedFrom(c) == SumAmt(RecoupsOf(c)) + SumAmt(RecoupRefreshesOf(c))
OldRecoups(c) == SumAmt(OldCoinRecoupsOf(c))

\* Without recoups.
NetSpent(c) ==
    DepositedBy(c) + MeltedBy(c) + RefundFees(c) - (RefundedTo(c) + FeeBack(c))

TableAmounts ==
    /\ AmountsOK(deposits) /\ AmountsOK(refunds)
    /\ AmountsOK(refresh_commitments)
    /\ AmountsOK(recoup) /\ AmountsOK(recoup_refresh)

LEMMA TablesHaveAmounts ==
    ASSUME WellFormed
    PROVE  TableAmounts
PROOF
  BY DEF WellFormed, TypeOK, TablesTypeOK, FiniteTables, TableAmounts, AmountsOK,
         DepositRow, RefundRow, MeltRow, RecoupRow

LEMMA TotalsTyped ==
    ASSUME WellFormed, NEW c \in Coins
    PROVE  /\ DepositedBy(c) \in Nat /\ MeltedBy(c) \in Nat
           /\ RefundedTo(c) \in Nat /\ RefundFees(c) \in Nat
           /\ FeeBack(c) \in Nat /\ RecoupedFrom(c) \in Nat
           /\ OldRecoups(c) \in Nat
           /\ Value[DenomOf[c]] \in Nat /\ FeeDeposit[DenomOf[c]] \in Nat
           /\ FeeRefund[DenomOf[c]] \in Nat /\ FeeRefresh[DenomOf[c]] \in Nat
PROOF
<1>1. /\ Value[DenomOf[c]] \in Nat /\ FeeDeposit[DenomOf[c]] \in Nat
      /\ FeeRefund[DenomOf[c]] \in Nat /\ FeeRefresh[DenomOf[c]] \in Nat
  BY DenominationsAssumption, CoinsAssumption
<1>2. /\ AmountsOK(DepositsOf(c)) /\ AmountsOK(MeltsOf(c))
      /\ AmountsOK(RefundsOf(c)) /\ AmountsOK(RecoupsOf(c))
      /\ AmountsOK(RecoupRefreshesOf(c)) /\ AmountsOK(OldCoinRecoupsOf(c))
  BY TablesHaveAmounts, SumAmtSubset
     DEF TableAmounts, DepositsOf, MeltsOf, RefundsOf, RecoupsOf,
         RecoupRefreshesOf, OldCoinRecoupsOf
<1>3. Cardinality(RefundsOf(c)) \in Nat
  BY <1>2, FS_CardinalityType DEF AmountsOK
<1>4. RefundFees(c) \in Nat
  BY <1>1, <1>3 DEF RefundFees
<1> QED
  BY <1>1, <1>2, <1>4, SumAmtNat
     DEF DepositedBy, MeltedBy, RefundedTo, FeeBack, RecoupedFrom, OldRecoups

LEMMA TotalsAre ==
    ASSUME WellFormed, NEW c \in Coins, NEW off \in Nat
    PROVE  /\ TransactionTotals(c, FALSE, off) = off + NetSpent(c)
           /\ TransactionTotals(c, TRUE, off)
                = off + NetSpent(c) + RecoupedFrom(c) - OldRecoups(c)
           /\ NetSpent(c) \in Int
PROOF
<1> DEFINE spent == off + DepositedBy(c) + MeltedBy(c) + RefundFees(c)
           refunded == RefundedTo(c) + FeeBack(c)
<1>1. /\ TransactionTotals(c, FALSE, off) = spent - refunded
      /\ TransactionTotals(c, TRUE, off)
           = spent + RecoupedFrom(c) - (refunded + OldRecoups(c))
  BY DEF TransactionTotals, DepositedBy, MeltedBy, RefundedTo, RefundFees,
         FeeBack, RecoupedFrom, OldRecoups
<1>2. NetSpent(c) = DepositedBy(c) + MeltedBy(c) + RefundFees(c) - refunded
  BY DEF NetSpent
<1>3. /\ DepositedBy(c) \in Nat /\ MeltedBy(c) \in Nat
      /\ RefundedTo(c) \in Nat /\ RefundFees(c) \in Nat
      /\ FeeBack(c) \in Nat /\ RecoupedFrom(c) \in Nat
      /\ OldRecoups(c) \in Nat
  BY TotalsTyped
<1> DEFINE without == TransactionTotals(c, FALSE, off)
           with == TransactionTotals(c, TRUE, off)
<1>4. /\ without = spent - refunded
      /\ with = spent + RecoupedFrom(c) - (refunded + OldRecoups(c))
  BY <1>1
<1> HIDE DEF without, with
<1>5. /\ without = off + NetSpent(c)
      /\ with = off + NetSpent(c) + RecoupedFrom(c) - OldRecoups(c)
      /\ NetSpent(c) \in Int
  BY ONLY off \in Nat, <1>2, <1>3, <1>4
<1> QED
  BY <1>5 DEF without, with

\* The total of calculate_transaction_list_totals over the whole history.
Total(c) == NetSpent(c) + RecoupedFrom(c) - OldRecoups(c)

LEMMA TotalIs ==
    ASSUME WellFormed, NEW c \in Coins
    PROVE  /\ TransactionTotals(c, TRUE, 0) = Total(c)
           /\ Total(c) \in Int /\ NetSpent(c) \in Int
PROOF
<1>1. RecoupedFrom(c) \in Nat /\ OldRecoups(c) \in Nat /\ NetSpent(c) \in Int
  BY TotalsTyped, TotalsAre
<1>2. TransactionTotals(c, TRUE, 0)
        = 0 + NetSpent(c) + RecoupedFrom(c) - OldRecoups(c)
  BY TotalsAre
<1>3. 0 + NetSpent(c) + RecoupedFrom(c) - OldRecoups(c) = Total(c)
  BY <1>1 DEF Total
<1>4. Total(c) \in Int
  BY <1>1 DEF Total
<1> QED
  BY <1>1, <1>2, <1>3, <1>4, Zenon

---------------------------------------------------------------------------
(* How each change of the ledger changes the totals of a coin.             *)

LEMMA TotalQuiet ==
    ASSUME UNCHANGED <<deposits, refunds, refresh_commitments,
                       refresh_revealed, recoup, recoup_refresh>>,
           NEW c
    PROVE  /\ NetSpent(c)' = NetSpent(c) /\ Total(c)' = Total(c)
           /\ RecoupedFrom(c)' = RecoupedFrom(c)
           /\ OldRecoups(c)' = OldRecoups(c)
PROOF
  BY DEF Total, NetSpent, DepositedBy, MeltedBy, RefundedTo, RefundFees, FeeBack,
         RecoupedFrom, OldRecoups, DepositsOf, MeltsOf, RefundsOf, RecoupsOf,
         RecoupRefreshesOf, OldCoinRecoupsOf

LEMMA TotalDeposited ==
    ASSUME CoinInv, NEW d, Deposited(d), NEW c \in Coins
    PROVE  /\ NetSpent(c)' = NetSpent(c) + (IF d.coin = c THEN d.amt ELSE 0)
           /\ RecoupedFrom(c)' = RecoupedFrom(c)
           /\ OldRecoups(c)' = OldRecoups(c)
PROOF
<1>1. /\ deposits' = deposits \cup {d} /\ d \notin deposits /\ d.amt \in Nat
      /\ UNCHANGED <<refunds, refresh_commitments, refresh_revealed,
                     recoup, recoup_refresh>>
  BY DEF Deposited, DepositsFor, DepositRow
<1>2. AmountsOK(deposits)
  BY TablesHaveAmounts DEF CoinInv, TableAmounts
<1>3. DepositedBy(c)' = DepositedBy(c) + (IF d.coin = c THEN d.amt ELSE 0)
  <2>1. SumAmt(OfCoin(deposits \cup {d}, c))
          = SumAmt(OfCoin(deposits, c)) + (IF d.coin = c THEN d.amt ELSE 0)
    BY ONLY <1>1, <1>2, RowsOfCoin
  <2> QED
    BY <1>1, <2>1 DEF DepositedBy, DepositsOf, OfCoin
<1>4. /\ MeltedBy(c)' = MeltedBy(c) /\ RefundedTo(c)' = RefundedTo(c)
      /\ RefundFees(c)' = RefundFees(c) /\ FeeBack(c)' = FeeBack(c)
      /\ RecoupedFrom(c)' = RecoupedFrom(c) /\ OldRecoups(c)' = OldRecoups(c)
  BY <1>1 DEF MeltedBy, RefundedTo, RefundFees, FeeBack, RecoupedFrom,
       OldRecoups, MeltsOf, RefundsOf, RecoupsOf, RecoupRefreshesOf,
       OldCoinRecoupsOf
<1>5. /\ DepositedBy(c) \in Nat /\ MeltedBy(c) \in Nat
      /\ RefundedTo(c) \in Nat /\ RefundFees(c) \in Nat
      /\ FeeBack(c) \in Nat
  BY TotalsTyped DEF CoinInv
<1>6. NetSpent(c)' = DepositedBy(c)' + MeltedBy(c) + RefundFees(c)
                       - (RefundedTo(c) + FeeBack(c))
  BY <1>4 DEF NetSpent
<1>7. NetSpent(c)' = NetSpent(c) + (IF d.coin = c THEN d.amt ELSE 0)
  BY <1>1, <1>3, <1>5, <1>6 DEF NetSpent
<1> QED
  BY <1>4, <1>7

LEMMA TotalMelted ==
    ASSUME CoinInv, NEW m, Melted(m), NEW c \in Coins
    PROVE  /\ NetSpent(c)' = NetSpent(c) + (IF m.coin = c THEN m.amt ELSE 0)
           /\ MeltedBy(c)' = MeltedBy(c) + (IF m.coin = c THEN m.amt ELSE 0)
           /\ RecoupedFrom(c)' = RecoupedFrom(c)
           /\ OldRecoups(c)' = OldRecoups(c)
PROOF
<1>1. /\ refresh_commitments' = refresh_commitments \cup {m}
      /\ m \notin refresh_commitments /\ m.amt \in Nat
      /\ UNCHANGED <<deposits, refunds, refresh_revealed,
                     recoup, recoup_refresh>>
  BY DEF Melted, MeltsFor, MeltRow
<1>2. AmountsOK(refresh_commitments)
  BY TablesHaveAmounts DEF CoinInv, TableAmounts
<1>3. MeltedBy(c)' = MeltedBy(c) + (IF m.coin = c THEN m.amt ELSE 0)
  <2>1. SumAmt(OfCoin(refresh_commitments \cup {m}, c))
          = SumAmt(OfCoin(refresh_commitments, c)) + (IF m.coin = c THEN m.amt ELSE 0)
    BY ONLY <1>1, <1>2, RowsOfCoin
  <2> QED
    BY <1>1, <2>1 DEF MeltedBy, MeltsOf, OfCoin
<1>4. /\ DepositedBy(c)' = DepositedBy(c) /\ RefundedTo(c)' = RefundedTo(c)
      /\ RefundFees(c)' = RefundFees(c) /\ FeeBack(c)' = FeeBack(c)
      /\ RecoupedFrom(c)' = RecoupedFrom(c) /\ OldRecoups(c)' = OldRecoups(c)
  BY <1>1 DEF DepositedBy, RefundedTo, RefundFees, FeeBack, RecoupedFrom,
       OldRecoups, DepositsOf, RefundsOf, RecoupsOf, RecoupRefreshesOf,
       OldCoinRecoupsOf
<1>5. /\ DepositedBy(c) \in Nat /\ MeltedBy(c) \in Nat
      /\ RefundedTo(c) \in Nat /\ RefundFees(c) \in Nat
      /\ FeeBack(c) \in Nat
  BY TotalsTyped DEF CoinInv
<1>6. NetSpent(c)' = DepositedBy(c) + MeltedBy(c)' + RefundFees(c)
                       - (RefundedTo(c) + FeeBack(c))
  BY <1>4 DEF NetSpent
<1>7. NetSpent(c)' = NetSpent(c) + (IF m.coin = c THEN m.amt ELSE 0)
  BY <1>1, <1>3, <1>5, <1>6 DEF NetSpent
<1> QED
  BY <1>3, <1>4, <1>7

(* A refund pays the refund fee, and the first one of a coin gives the     *)
(* deposit fee back.                                                       *)
LEMMA TotalRefunding ==
    ASSUME CoinInv, NEW f, Refunding(f), NEW c \in Coins
    PROVE  /\ f.coin # c => NetSpent(c)' = NetSpent(c)
           /\ f.coin = c =>
                 NetSpent(c)' = NetSpent(c) + FeeRefund[DenomOf[c]] - f.amt
                     - (IF RefundsOf(c) = {} THEN FeeDeposit[DenomOf[c]] ELSE 0)
           /\ RecoupedFrom(c)' = RecoupedFrom(c)
           /\ OldRecoups(c)' = OldRecoups(c)
PROOF
<1>1. /\ refunds' = refunds \cup {f} /\ f \notin refunds /\ f.amt \in Nat
      /\ UNCHANGED <<deposits, refresh_commitments, refresh_revealed,
                     recoup, recoup_refresh>>
  BY DEF Refunding, RefundsFor, RefundRow
<1>2. AmountsOK(refunds)
  BY TablesHaveAmounts DEF CoinInv, TableAmounts
<1>3. RefundedTo(c)' = RefundedTo(c) + (IF f.coin = c THEN f.amt ELSE 0)
  <2>1. SumAmt(OfCoin(refunds \cup {f}, c))
          = SumAmt(OfCoin(refunds, c)) + (IF f.coin = c THEN f.amt ELSE 0)
    BY ONLY <1>1, <1>2, RowsOfCoin
  <2> QED
    BY <1>1, <2>1 DEF RefundedTo, RefundsOf, OfCoin
<1>4. /\ DepositedBy(c)' = DepositedBy(c) /\ MeltedBy(c)' = MeltedBy(c)
      /\ RecoupedFrom(c)' = RecoupedFrom(c) /\ OldRecoups(c)' = OldRecoups(c)
  BY <1>1 DEF DepositedBy, MeltedBy, RecoupedFrom, OldRecoups, DepositsOf,
       MeltsOf, RecoupsOf, RecoupRefreshesOf, OldCoinRecoupsOf
<1>5. /\ DepositedBy(c) \in Nat /\ MeltedBy(c) \in Nat
      /\ RefundedTo(c) \in Nat /\ RefundFees(c) \in Nat
      /\ FeeBack(c) \in Nat /\ FeeRefund[DenomOf[c]] \in Nat
      /\ FeeDeposit[DenomOf[c]] \in Nat
  BY TotalsTyped DEF CoinInv
<1>6. NetSpent(c)' = DepositedBy(c) + MeltedBy(c) + RefundFees(c)'
                       - (RefundedTo(c)' + FeeBack(c)')
  BY <1>4 DEF NetSpent
<1>7. CASE f.coin # c
  <2>1. RefundsOf(c)' = RefundsOf(c)
    BY <1>1, <1>7 DEF RefundsOf
  <2>2. RefundFees(c)' = RefundFees(c) /\ FeeBack(c)' = FeeBack(c)
    BY <2>1 DEF RefundFees, FeeBack
  <2>3. RefundedTo(c)' = RefundedTo(c)
    BY <2>1 DEF RefundedTo
  <2>4. NetSpent(c)' = NetSpent(c)
    BY <1>6, <2>2, <2>3 DEF NetSpent
  <2> QED
    BY <1>4, <1>7, <2>4
<1>8. CASE f.coin = c
  <2>1. /\ RefundsOf(c)' = RefundsOf(c) \cup {f} /\ f \notin RefundsOf(c)
        /\ RefundsOf(c)' # {}
    BY <1>1, <1>8 DEF RefundsOf
  <2>2. IsFiniteSet(RefundsOf(c))
    BY <1>2, FS_Subset DEF AmountsOK, RefundsOf
  <2>3. /\ Cardinality(RefundsOf(c)') = Cardinality(RefundsOf(c)) + 1
        /\ Cardinality(RefundsOf(c)) \in Nat
    BY <2>1, <2>2, FS_AddElement, FS_CardinalityType
  <2>4. RefundFees(c)' = RefundFees(c) + FeeRefund[DenomOf[c]]
    <3> DEFINE n == Cardinality(RefundsOf(c))
               k == Cardinality(RefundsOf(c)')
               e == FeeRefund[DenomOf[c]]
    <3>1. RefundFees(c)' = k * e /\ RefundFees(c) = n * e
      BY DEF RefundFees
    <3>2. n \in Nat /\ k = n + 1 /\ e \in Nat
      BY <1>5, <2>3
    <3> HIDE DEF n, k, e
    <3>3. k * e = n * e + e
      BY <3>2
    <3> QED
      BY <3>1, <3>3 DEF e
  <2>5. FeeBack(c)' = FeeBack(c) + (IF RefundsOf(c) = {}
                                    THEN FeeDeposit[DenomOf[c]] ELSE 0)
    BY <1>5, <2>1 DEF FeeBack
  <2> DEFINE back == IF RefundsOf(c) = {} THEN FeeDeposit[DenomOf[c]] ELSE 0
  <2>6. back \in Nat
    BY <1>5
  <2>7. /\ RefundedTo(c)' = RefundedTo(c) + f.amt
        /\ FeeBack(c)' = FeeBack(c) + back
    BY <1>3, <1>8, <2>5
  <2> HIDE DEF back
  <2>8. NetSpent(c)' = NetSpent(c) + FeeRefund[DenomOf[c]] - f.amt - back
    BY <1>1, <1>5, <1>6, <2>4, <2>6, <2>7 DEF NetSpent
  <2> QED
    BY <1>4, <1>8, <2>8 DEF back
<1> QED
  BY <1>7, <1>8

(* A recoup takes what is left on the coin.                                *)
LEMMA RecoupTakesRest ==
    ASSUME WellFormed, NEW k, NEW a, Recouped(k, a) \/ RecoupRefreshed(k, a)
    PROVE  /\ k \in Coins /\ a \in Nat
           /\ a = Value[DenomOf[k]] - Total(k) /\ Total(k) >= 0
PROOF
<1>1. /\ k \in Coins /\ a \in 1..Value[DenomOf[k]]
      /\ a = Value[DenomOf[k]] - TransactionTotals(k, TRUE, 0)
      /\ TransactionTotals(k, TRUE, 0) >= 0
  BY Zenon DEF Recouped, RecoupRefreshed
<1>2. Value[DenomOf[k]] \in Nat
  BY <1>1, DenominationsAssumption, CoinsAssumption
<1>3. TransactionTotals(k, TRUE, 0) = Total(k)
  BY <1>1, TotalIs
<1>4. a = Value[DenomOf[k]] - Total(k) /\ Total(k) >= 0
  BY <1>1, <1>3, Zenon
<1>5. a \in 1..Value[DenomOf[k]]
  BY <1>1, Zenon
<1>6. a \in Nat
  BY ONLY <1>2, <1>5
<1> QED
  BY <1>1, <1>4, <1>6, Zenon

LEMMA TotalRecouped ==
    ASSUME CoinInv, NEW k, NEW a, Recouped(k, a), NEW c \in Coins
    PROVE  /\ NetSpent(c)' = NetSpent(c)
           /\ RecoupedFrom(c)' = RecoupedFrom(c) + (IF k = c THEN a ELSE 0)
           /\ OldRecoups(c)' = OldRecoups(c)
PROOF
<1> DEFINE x == [coin |-> k, amt |-> a, uuid |-> NextUuid(recoup)]
<1>1. /\ recoup' = recoup \cup {x} /\ x.coin = k /\ x.amt = a
      /\ x.uuid = NextUuid(recoup) /\ a \in Nat
      /\ UNCHANGED <<deposits, refunds, refresh_commitments, refresh_revealed,
                     recoup_refresh>>
  <2>1. a \in Nat
    BY RecoupTakesRest DEF CoinInv
  <2> QED
    BY <2>1 DEF Recouped, InsertRecoupRequest
<1> HIDE DEF x
<1>2. AmountsOK(recoup) /\ \A p \in recoup : p.uuid <= Cardinality(recoup)
  BY TablesHaveAmounts DEF CoinInv, TableAmounts, RowsOK, RecoupsOK
<1>3. x \notin recoup
  BY <1>1, <1>2, FreshUuid DEF AmountsOK
<1>4. SumAmt(OfCoin(recoup \cup {x}, c))
        = SumAmt(OfCoin(recoup, c)) + (IF x.coin = c THEN x.amt ELSE 0)
  BY ONLY <1>1, <1>2, <1>3, RowsOfCoin
<1>5. /\ SumAmt(RecoupsOf(c))' = SumAmt(RecoupsOf(c)) + (IF k = c THEN a ELSE 0)
      /\ SumAmt(RecoupRefreshesOf(c))' = SumAmt(RecoupRefreshesOf(c))
  BY <1>1, <1>4 DEF OfCoin, RecoupsOf, RecoupRefreshesOf
<1>6. SumAmt(RecoupsOf(c)) \in Nat /\ SumAmt(RecoupRefreshesOf(c)) \in Nat
  BY TablesHaveAmounts, SumAmtSubset, SumAmtNat
     DEF CoinInv, TableAmounts, RecoupsOf, RecoupRefreshesOf
<1>7. RecoupedFrom(c)' = RecoupedFrom(c) + (IF k = c THEN a ELSE 0)
  BY <1>1, <1>5, <1>6 DEF RecoupedFrom
<1>8. NetSpent(c)' = NetSpent(c) /\ OldRecoups(c)' = OldRecoups(c)
  BY <1>1 DEF NetSpent, DepositedBy, MeltedBy, RefundedTo, RefundFees, FeeBack,
       OldRecoups, DepositsOf, MeltsOf, RefundsOf, OldCoinRecoupsOf
<1> QED
  BY <1>7, <1>8

(* A fresh coin has one commitment, so its recoup refills one old coin.    *)
LEMMA OneCommitment ==
    ASSUME WellFormed, NEW k, NEW rc \in refresh_revealed, k \in FreshOf[rc],
           NEW other \in refresh_revealed, k \in FreshOf[other]
    PROVE  other = rc
PROOF
  BY CoinsAssumption DEF WellFormed, TypeOK, TablesTypeOK

LEMMA TotalRecoupRefreshed ==
    ASSUME CoinInv, NEW k, NEW a, RecoupRefreshed(k, a),
           NEW rc \in refresh_revealed, k \in FreshOf[rc], NEW c \in Coins
    PROVE  /\ NetSpent(c)' = NetSpent(c)
           /\ RecoupedFrom(c)' = RecoupedFrom(c) + (IF k = c THEN a ELSE 0)
           /\ OldRecoups(c)' = OldRecoups(c)
                                 + (IF OldCoinOf[rc] = c THEN a ELSE 0)
PROOF
<1> DEFINE x == [coin |-> k, amt |-> a, uuid |-> NextUuid(recoup_refresh)]
<1>1. /\ recoup_refresh' = recoup_refresh \cup {x} /\ x.coin = k /\ x.amt = a
      /\ x.uuid = NextUuid(recoup_refresh) /\ a \in Nat
      /\ UNCHANGED <<deposits, refunds, refresh_commitments, refresh_revealed,
                     recoup>>
  <2>1. a \in Nat
    BY RecoupTakesRest DEF CoinInv
  <2> QED
    BY <2>1 DEF RecoupRefreshed, InsertRecoupRefreshRequest
<1> HIDE DEF x
<1>2. /\ AmountsOK(recoup_refresh)
      /\ \A p \in recoup_refresh : p.uuid <= Cardinality(recoup_refresh)
  BY TablesHaveAmounts DEF CoinInv, TableAmounts, RowsOK, RecoupsOK
<1>3. x \notin recoup_refresh
  BY <1>1, <1>2, FreshUuid DEF AmountsOK
<1>4. SumAmt(OfCoin(recoup_refresh \cup {x}, c))
        = SumAmt(OfCoin(recoup_refresh, c)) + (IF x.coin = c THEN x.amt ELSE 0)
  BY ONLY <1>1, <1>2, <1>3, RowsOfCoin
<1>5. /\ SumAmt(RecoupRefreshesOf(c))'
           = SumAmt(RecoupRefreshesOf(c)) + (IF k = c THEN a ELSE 0)
      /\ SumAmt(RecoupsOf(c))' = SumAmt(RecoupsOf(c))
  BY <1>1, <1>4 DEF OfCoin, RecoupsOf, RecoupRefreshesOf
<1>6. SumAmt(RecoupsOf(c)) \in Nat /\ SumAmt(RecoupRefreshesOf(c)) \in Nat
  BY TablesHaveAmounts, SumAmtSubset, SumAmtNat
     DEF CoinInv, TableAmounts, RecoupsOf, RecoupRefreshesOf
<1>7. RecoupedFrom(c)' = RecoupedFrom(c) + (IF k = c THEN a ELSE 0)
  BY <1>1, <1>5, <1>6 DEF RecoupedFrom
<1>8. NetSpent(c)' = NetSpent(c)
  BY <1>1 DEF NetSpent, DepositedBy, MeltedBy, RefundedTo, RefundFees, FeeBack,
       DepositsOf, MeltsOf, RefundsOf
<1>9. AmountsOK(OldCoinRecoupsOf(c)) /\ OldRecoups(c) \in Nat
  BY <1>2, SumAmtSubset, SumAmtNat DEF OldCoinRecoupsOf, OldRecoups
<1>10. CASE OldCoinOf[rc] = c
  <2>1. OldCoinRecoupsOf(c)' = OldCoinRecoupsOf(c) \cup {x}
    BY <1>1, <1>10 DEF OldCoinRecoupsOf
  <2>2. x \notin OldCoinRecoupsOf(c)
    BY <1>3 DEF OldCoinRecoupsOf
  <2>3. SumAmt(OldCoinRecoupsOf(c) \cup {x}) = SumAmt(OldCoinRecoupsOf(c)) + x.amt
    BY <1>1, <1>9, <2>2, SumAmtAdd
  <2> QED
    BY <1>1, <1>7, <1>8, <1>10, <2>1, <2>3 DEF OldRecoups
<1>11. CASE OldCoinOf[rc] # c
  <2>1. \A o \in refresh_revealed : k \in FreshOf[o] => o = rc
    BY OneCommitment DEF CoinInv
  <2>2. OldCoinRecoupsOf(c)' = OldCoinRecoupsOf(c)
    BY <1>1, <1>11, <2>1 DEF OldCoinRecoupsOf
  <2> QED
    BY <1>7, <1>8, <1>9, <1>11, <2>2 DEF OldRecoups
<1> QED
  BY <1>10, <1>11

LEMMA TotalRevealed ==
    ASSUME CoinInv, NEW rc, Revealed(rc), NEW c \in Coins
    PROVE  /\ NetSpent(c)' = NetSpent(c)
           /\ RecoupedFrom(c)' = RecoupedFrom(c)
           /\ OldRecoups(c)' = OldRecoups(c)
PROOF
<1>1. /\ rc \in Rcs /\ refresh_revealed' = refresh_revealed \cup {rc}
      /\ UNCHANGED <<deposits, refunds, refresh_commitments, recoup,
                     recoup_refresh>>
  BY DEF Revealed
<1>2. \A p \in recoup_refresh : p.coin \in FreshOf[rc] => rc \in refresh_revealed
  BY <1>1, CoinsAssumption
     DEF CoinInv, RowsOK, RecoupsOK, WellFormed, TypeOK, TablesTypeOK
<1>3. OldCoinRecoupsOf(c)' = OldCoinRecoupsOf(c)
  BY <1>1, <1>2 DEF OldCoinRecoupsOf
<1> QED
  BY <1>1, <1>3 DEF NetSpent, DepositedBy, MeltedBy, RefundedTo, RefundFees,
       FeeBack, RecoupedFrom, OldRecoups, DepositsOf, MeltsOf, RefundsOf,
       RecoupsOf, RecoupRefreshesOf

LEMMA TotalInit ==
    ASSUME Init, NEW c \in Coins
    PROVE  /\ Total(c) = 0 /\ NetSpent(c) = 0
           /\ RecoupedFrom(c) = 0 /\ OldRecoups(c) = 0
PROOF
<1>1. /\ DepositsOf(c) = {} /\ MeltsOf(c) = {} /\ RefundsOf(c) = {}
      /\ RecoupsOf(c) = {} /\ RecoupRefreshesOf(c) = {}
      /\ OldCoinRecoupsOf(c) = {}
  BY DEF Init, DepositsOf, MeltsOf, RefundsOf, RecoupsOf, RecoupRefreshesOf,
         OldCoinRecoupsOf
<1>2. /\ DepositedBy(c) = 0 /\ MeltedBy(c) = 0 /\ RefundedTo(c) = 0
      /\ FeeBack(c) = 0 /\ RecoupedFrom(c) = 0 /\ OldRecoups(c) = 0
  BY <1>1, SumAmtEmpty DEF DepositedBy, MeltedBy, RefundedTo, FeeBack,
       RecoupedFrom, OldRecoups
<1>3. FeeRefund[DenomOf[c]] \in Nat
  BY DenominationsAssumption, CoinsAssumption
<1>4. RefundFees(c) = 0
  BY <1>1, <1>3, FS_EmptySet DEF RefundFees
<1> QED
  BY <1>2, <1>4 DEF Total, NetSpent

---------------------------------------------------------------------------
(* A coin is never overspent.                                              *)

LEMMA OverspentStep ==
    ASSUME CoinInv, CoinInv', LedgerStep,
           \A c \in Coins \ late : Total(c) <= Value[DenomOf[c]],
           NEW c \in Coins \ late'
    PROVE  Total(c)' <= Value[DenomOf[c]]
PROOF
<1> DEFINE v == Value[DenomOf[c]]
<1>0. /\ RecoupedFrom(c) \in Nat /\ OldRecoups(c) \in Nat /\ v \in Nat
      /\ NetSpent(c) \in Int /\ Total(c) \in Int
      /\ FeeDeposit[DenomOf[c]] \in Nat /\ FeeRefund[DenomOf[c]] \in Nat
  BY TotalsTyped, TotalIs DEF CoinInv
<1>1. c \notin late /\ Total(c) <= v
  BY DEF LedgerStep, ledger, Withdrawn, Deposited, Melted, Revealed, Refunding,
         Recouped, RecoupRefreshed
<1>2. Total(c)' = NetSpent(c)' + RecoupedFrom(c)' - OldRecoups(c)'
  BY DEF Total
<1>3. CASE UNCHANGED ledger \/ \E k : Withdrawn(k)
  BY <1>1, <1>3, TotalQuiet DEF ledger, Withdrawn
<1>4. ASSUME NEW d, Deposited(d)
      PROVE  Total(c)' <= v
  <2>1. /\ NetSpent(c)' = NetSpent(c) + (IF d.coin = c THEN d.amt ELSE 0)
        /\ RecoupedFrom(c)' = RecoupedFrom(c) /\ OldRecoups(c)' = OldRecoups(c)
    BY <1>4, TotalDeposited
  <2>2. CASE d.coin # c
    BY <1>0, <1>1, <1>2, <2>1, <2>2 DEF Total
  <2>3. CASE d.coin = c
    <3>1. d.amt \in Nat /\ TransactionTotals(c, FALSE, d.amt) \in 0..v
      BY <1>4, <2>3 DEF Deposited, DepositRow
    <3>2. TransactionTotals(c, FALSE, d.amt) = d.amt + NetSpent(c)
      BY <3>1, TotalsAre DEF CoinInv
    <3>3. d.amt + NetSpent(c) \in 0..v
      BY <3>1, <3>2
    <3>4. RecoupsOf(c) = {} /\ RecoupRefreshesOf(c) = {}
      BY <1>4, <2>3 DEF Deposited
    <3>5. RecoupedFrom(c) = 0
      BY <3>4, SumAmtEmpty DEF RecoupedFrom
    <3> QED
      BY <1>0, <1>2, <2>1, <2>3, <3>1, <3>3, <3>5
  <2> QED
    BY <2>2, <2>3
<1>5. ASSUME NEW m, Melted(m)
      PROVE  Total(c)' <= v
  <2>1. /\ NetSpent(c)' = NetSpent(c) + (IF m.coin = c THEN m.amt ELSE 0)
        /\ RecoupedFrom(c)' = RecoupedFrom(c) /\ OldRecoups(c)' = OldRecoups(c)
    BY <1>5, TotalMelted
  <2>2. CASE m.coin # c
    BY <1>0, <1>1, <1>2, <2>1, <2>2 DEF Total
  <2>3. CASE m.coin = c
    <3>1. m.amt \in Nat /\ TransactionTotals(c, TRUE, m.amt) \in 0..v
      BY <1>5, <2>3 DEF Melted, MeltRow
    <3>2. TransactionTotals(c, TRUE, m.amt)
            = m.amt + NetSpent(c) + RecoupedFrom(c) - OldRecoups(c)
      BY <3>1, TotalsAre DEF CoinInv
    <3>3. m.amt + NetSpent(c) + RecoupedFrom(c) - OldRecoups(c) \in 0..v
      BY <3>1, <3>2
    <3> QED
      BY <1>0, <1>2, <2>1, <2>3, <3>1, <3>3
  <2> QED
    BY <2>2, <2>3
<1>6. ASSUME NEW f, Refunding(f)
      PROVE  Total(c)' <= v
  <2>1. RecoupedFrom(c)' = RecoupedFrom(c) /\ OldRecoups(c)' = OldRecoups(c)
    BY <1>6, TotalRefunding
  <2>2. NetSpent(c)' \in Int /\ NetSpent(c)' <= NetSpent(c)
    <3>1. CASE f.coin # c
      BY <1>0, <1>6, <3>1, TotalRefunding
    <3>2. CASE f.coin = c
      <4> DEFINE back == IF RefundsOf(c) = {} THEN FeeDeposit[DenomOf[c]] ELSE 0
      <4>1. back \in Nat /\ f.amt \in Nat /\ FeeRefund[DenomOf[c]] <= f.amt
        BY <1>0, <1>6, <3>2 DEF Refunding, RefundRow
      <4>2. NetSpent(c)' = NetSpent(c) + FeeRefund[DenomOf[c]] - f.amt - back
        BY <1>6, <3>2, TotalRefunding
      <4> HIDE DEF back
      <4> QED
        BY <1>0, <4>1, <4>2
    <3> QED
      BY <3>1, <3>2
  <2> QED
    BY <1>0, <1>1, <1>2, <2>1, <2>2 DEF Total
<1>7. ASSUME NEW k, NEW a, Recouped(k, a)
      PROVE  Total(c)' <= v
  <2>1. /\ NetSpent(c)' = NetSpent(c) /\ OldRecoups(c)' = OldRecoups(c)
        /\ RecoupedFrom(c)' = RecoupedFrom(c) + (IF k = c THEN a ELSE 0)
    BY <1>7, TotalRecouped
  <2>2. k = c => a = v - Total(c)
    BY <1>7, RecoupTakesRest DEF CoinInv
  <2> QED
    BY <1>0, <1>1, <1>2, <2>1, <2>2 DEF Total
<1>8. ASSUME NEW k, NEW a, RecoupRefreshed(k, a)
      PROVE  Total(c)' <= v
  <2>1. PICK rc \in refresh_revealed : k \in FreshOf[rc]
    BY <1>8 DEF RecoupRefreshed
  <2>2. /\ NetSpent(c)' = NetSpent(c)
        /\ RecoupedFrom(c)' = RecoupedFrom(c) + (IF k = c THEN a ELSE 0)
        /\ OldRecoups(c)' = OldRecoups(c)
                              + (IF OldCoinOf[rc] = c THEN a ELSE 0)
    BY <1>8, <2>1, TotalRecoupRefreshed
  <2>3. k = c => a = v - Total(c)
    BY <1>8, RecoupTakesRest DEF CoinInv
  <2>4. a \in Nat
    BY <1>8, RecoupTakesRest DEF CoinInv
  <2> QED
    BY <1>0, <1>1, <1>2, <2>2, <2>3, <2>4 DEF Total
<1>9. ASSUME NEW rc, Revealed(rc)
      PROVE  Total(c)' <= v
  BY <1>1, <1>2, <1>9, TotalRevealed DEF Total
<1> QED
  BY <1>3, <1>4, <1>5, <1>6, <1>7, <1>8, <1>9 DEF LedgerStep

(* Whatever order deposits, melts, refunds and recoups of a coin commit    *)
(* in, their total stays within the value of the coin, unless a deposit    *)
(* overtook a recoup.                                                      *)
THEOREM NeverOverspent == Spec => []CoinNotOverspent
PROOF
<1> DEFINE Within == \A c \in Coins \ late : Total(c) <= Value[DenomOf[c]]
<1>1. CoinInv /\ Within => CoinNotOverspent
  BY TotalIs DEF CoinNotOverspent, CoinInv
<1>2. Init => Within
  <2> SUFFICES ASSUME Init, NEW c \in Coins PROVE Total(c) <= Value[DenomOf[c]]
    OBVIOUS
  <2> QED
    BY TotalInit, DenominationsAssumption, CoinsAssumption
<1>3. CoinInv /\ CoinInv' /\ Within /\ [Next]_vars => Within'
  <2> SUFFICES ASSUME CoinInv, CoinInv', Within, [Next]_vars
               PROVE  Within'
    OBVIOUS
  <2>1. LedgerStep
    BY StepOfLedger DEF CoinInv
  <2> QED
    BY <2>1, OverspentStep
<1> HIDE DEF Within
<1> QED
  BY <1>1, <1>2, <1>3, AlwaysCoinInv, PTL DEF Spec

---------------------------------------------------------------------------
(* Histories add up.                                                       *)

\* Refunding a deposit costs at least the deposit fee that it gives back.
\* (Where it costs less, the statements below are false: the full refund
\* of a coin's only deposit leaves more on the coin than it is worth.)
RefundFeesCover == \A d \in Denoms : FeeDeposit[d] <= FeeRefund[d]

(* Each refund is charged to the deposit it belongs to.                    *)
LEMMA RefundsCharged ==
    ASSUME CoinInv, NEW c \in Coins
    PROVE  RefundedTo(c) <= DepositedBy(c)
PROOF
<1> DEFINE A == RefundsOf(c)
           K == DepositsOf(c)
           g == [f \in A |-> CHOOSE d \in K : d.contract = f.contract]
           b == [d \in K |-> d.amt]
<1>1. AmountsOK(A) /\ AmountsOK(K)
  BY TablesHaveAmounts, SumAmtSubset
     DEF CoinInv, TableAmounts, DepositsOf, RefundsOf
<1>2. \A f \in A : /\ g[f] \in K /\ g[f].contract = f.contract
                   /\ f.amt <= g[f].amt
  <2> TAKE f \in A
  <2>1. PICK d \in DepositsFor(f.coin, f.contract) : f.amt <= d.amt
    BY DEF CoinInv, RowsOK, RefundsOK, RefundsWithinDeposits, RefundsOf
  <2>2. d \in K /\ d.contract = f.contract
    BY DEF DepositsFor, DepositsOf, RefundsOf
  <2>3. \A e \in K : e.contract = f.contract => e = d
    BY <2>2 DEF CoinInv, RowsOK, DepositsOK, DepositsOf
  <2>4. g[f] = d
    BY <2>2, <2>3
  <2> QED
    BY <2>1, <2>2, <2>4
<1> HIDE DEF g
<1>3. \A d \in K : /\ b[d] \in Int
                   /\ SumAmt({f \in A : g[f] = d}) <= b[d]
  <2> TAKE d \in K
  <2> DEFINE part == {f \in A : g[f] = d}
  <2>1. b[d] = d.amt /\ d.amt \in Nat
    BY <1>1 DEF AmountsOK
  <2>2. CASE part = {}
    BY <2>1, <2>2, SumAmtEmpty
  <2>3. CASE part # {}
    <3>1. PICK f \in A : g[f] = d
      BY <2>3
    <3>2. part = {f}
      <4>1. ASSUME NEW h \in A, g[h] = d
            PROVE  h = f
        <5>1. h.coin = f.coin /\ h.contract = f.contract /\ h \in refunds
          BY <1>2, <3>1, <4>1 DEF RefundsOf
        <5>2. RefundsFor(f.coin, f.contract) = {f}
          BY DEF CoinInv, RowsOK, RefundsOK, RefundsWithinDeposits, RefundsOf
        <5> QED
          BY <5>1, <5>2 DEF RefundsFor
      <4> QED
        BY <3>1, <4>1
    <3>3. f.amt \in Nat /\ f.amt <= d.amt
      BY <1>1, <1>2, <3>1 DEF AmountsOK
    <3>4. SumAmt({f}) = f.amt
      BY <3>3, SumAmtSingle
    <3> HIDE DEF part, b
    <3>5. b[d] \in Int /\ SumAmt(part) <= b[d]
      BY <2>1, <3>2, <3>3, <3>4
    <3> QED
      BY <3>5 DEF part
  <2> QED
    BY <2>2, <2>3
<1>4. IsFiniteSet(K) /\ \A f \in A : g[f] \in K
  BY <1>1, <1>2 DEF AmountsOK
<1>5. SumAmt(K) = SumFunctionOnSet(b, K)
  BY DEF SumAmt, SumFunction
<1> HIDE DEF A, K, b
<1>6. SumAmt(A) <= SumFunctionOnSet(b, K)
  BY ONLY <1>1, <1>3, <1>4, SumAmtCharged
<1> QED
  BY <1>5, <1>6 DEF A, K, RefundedTo, DepositedBy

LEMMA FeeBackCovered ==
    ASSUME CoinInv, RefundFeesCover, NEW c \in Coins
    PROVE  FeeBack(c) <= RefundFees(c)
PROOF
<1>1. /\ FeeDeposit[DenomOf[c]] <= FeeRefund[DenomOf[c]]
      /\ FeeDeposit[DenomOf[c]] \in Nat /\ FeeRefund[DenomOf[c]] \in Nat
      /\ RefundFees(c) \in Nat
  BY TotalsTyped, CoinsAssumption DEF RefundFeesCover, CoinInv
<1>2. CASE RefundsOf(c) = {}
  BY <1>1, <1>2 DEF FeeBack
<1>3. CASE RefundsOf(c) # {}
  <2>1. IsFiniteSet(RefundsOf(c))
    BY FS_Subset DEF CoinInv, WellFormed, FiniteTables, RefundsOf
  <2> DEFINE n == Cardinality(RefundsOf(c))
             e == FeeRefund[DenomOf[c]]
  <2>2. n \in Nat /\ n # 0
    BY <1>3, <2>1, FS_EmptySet, FS_CardinalityType
  <2>3. RefundFees(c) = n * e /\ e \in Nat /\ FeeBack(c) = FeeDeposit[DenomOf[c]]
    BY <1>1, <1>3 DEF RefundFees, FeeBack
  <2>4. FeeDeposit[DenomOf[c]] <= e
    BY <1>1
  <2> HIDE DEF n, e
  <2>5. e <= n * e
    <3>1. n - 1 \in Nat /\ (n - 1) * e \in Nat
      BY <2>2, <2>3
    <3>2. n * e = (n - 1) * e + e
      BY <2>2, <2>3
    <3> QED
      BY <2>3, <3>1, <3>2
  <2>6. n * e \in Nat
    BY <2>2, <2>3
  <2> QED
    BY <1>1, <2>3, <2>4, <2>5, <2>6
<1> QED
  BY <1>2, <1>3

LEMMA NetCoversMelts ==
    ASSUME CoinInv, RefundFeesCover, NEW c \in Coins
    PROVE  MeltedBy(c) <= NetSpent(c)
PROOF
<1>1. /\ DepositedBy(c) \in Nat /\ MeltedBy(c) \in Nat
      /\ RefundedTo(c) \in Nat /\ RefundFees(c) \in Nat
      /\ FeeBack(c) \in Nat
  BY TotalsTyped DEF CoinInv
<1>2. RefundedTo(c) <= DepositedBy(c) /\ FeeBack(c) <= RefundFees(c)
  BY RefundsCharged, FeeBackCovered
<1> QED
  BY <1>1, <1>2 DEF NetSpent

\* No more is recouped from a coin than it is worth.
RecoupedWithin == \A c \in Coins : RecoupedFrom(c) <= Value[DenomOf[c]]

(* The recoups of the fresh coins of a commitment are charged to the       *)
(* coins, and the coins to the melt.                                       *)
LEMMA FreshRecoupsCharged ==
    ASSUME CoinInv, RecoupedWithin, NEW rc \in Rcs
    PROVE  SumAmt({p \in recoup_refresh : p.coin \in FreshOf[rc]})
             <= RefreshCost(rc)
PROOF
<1> USE DenominationsAssumption, CoinsAssumption
<1> DEFINE A == {p \in recoup_refresh : p.coin \in FreshOf[rc]}
           K == FreshOf[rc]
           g == [p \in A |-> p.coin]
           b == [k \in K |-> AmountRequired(k)]
<1>1. AmountsOK(recoup_refresh) /\ AmountsOK(A)
  BY TablesHaveAmounts, SumAmtSubset DEF CoinInv, TableAmounts
<1>2. IsFiniteSet(K) /\ K \subseteq Coins /\ \A p \in A : g[p] \in K
  OBVIOUS
<1>3. \A k \in K : b[k] \in Nat /\ Value[DenomOf[k]] <= b[k]
  BY <1>2 DEF AmountRequired
<1>4. \A k \in K : b[k] \in Int /\ SumAmt({p \in A : g[p] = k}) <= b[k]
  <2> TAKE k \in K
  <2>1. {p \in A : g[p] = k} = RecoupRefreshesOf(k)
    BY DEF RecoupRefreshesOf
  <2>2. SumAmt(RecoupsOf(k)) \in Nat /\ SumAmt(RecoupRefreshesOf(k)) \in Nat
    BY TablesHaveAmounts, SumAmtSubset, SumAmtNat
       DEF CoinInv, TableAmounts, RecoupsOf, RecoupRefreshesOf
  <2>3. RecoupedFrom(k) <= Value[DenomOf[k]] /\ Value[DenomOf[k]] \in Nat
    BY <1>2 DEF RecoupedWithin
  <2>4. b[k] \in Nat /\ Value[DenomOf[k]] <= b[k]
    BY <1>3
  <2> HIDE DEF b
  <2>5. SumAmt(RecoupRefreshesOf(k)) <= b[k]
    BY <2>2, <2>3, <2>4 DEF RecoupedFrom
  <2> DEFINE part == {p \in A : g[p] = k}
  <2>6. part = RecoupRefreshesOf(k)
    BY <2>1
  <2> HIDE DEF A, g, part
  <2>7. b[k] \in Int /\ SumAmt(part) <= b[k]
    BY <2>4, <2>5, <2>6
  <2> QED
    BY <2>7 DEF part
<1>5. RefreshCost(rc) = FeeRefresh[DenomOf[OldCoinOf[rc]]] + SumFunctionOnSet(b, K)
  BY DEF RefreshCost, SumFunction
<1>6. FeeRefresh[DenomOf[OldCoinOf[rc]]] \in Nat
  OBVIOUS
<1> HIDE DEF A, K, g, b
<1>7. SumAmt(A) <= SumFunctionOnSet(b, K)
  BY ONLY <1>1, <1>2, <1>4, SumAmtCharged
<1>8. SumFunctionOnSet(b, K) \in Nat
  BY ONLY <1>2, <1>3, SumNat
<1>9. SumAmt(A) \in Nat
  BY <1>1, SumAmtNat
<1>10. SumAmt(A) <= RefreshCost(rc)
  BY <1>5, <1>6, <1>7, <1>8, <1>9
<1> QED
  BY <1>10 DEF A

LEMMA OldRecoupsCharged ==
    ASSUME CoinInv, RecoupedWithin, NEW c \in Coins
    PROVE  OldRecoups(c) <= MeltedBy(c)
PROOF
<1> DEFINE A == OldCoinRecoupsOf(c)
           K == MeltsOf(c)
           g == [p \in A |-> CHOOSE m \in K : /\ p.coin \in FreshOf[m.rc]
                                             /\ m.rc \in refresh_revealed]
           b == [m \in K |-> m.amt]
<1>1. /\ AmountsOK(A) /\ AmountsOK(K) /\ AmountsOK(recoup_refresh)
      /\ refresh_revealed \subseteq Rcs
  BY TablesHaveAmounts, SumAmtSubset
     DEF CoinInv, TableAmounts, OldCoinRecoupsOf, MeltsOf, WellFormed, TypeOK,
         TablesTypeOK
<1>2. \A p \in A : /\ g[p] \in K /\ p.coin \in FreshOf[g[p].rc]
                   /\ g[p].rc \in refresh_revealed
  <2> TAKE p \in A
  <2>1. PICK rc \in refresh_revealed : p.coin \in FreshOf[rc] /\ OldCoinOf[rc] = c
    BY DEF OldCoinRecoupsOf
  <2>2. PICK m \in MeltsFor(rc) : m.coin = OldCoinOf[rc]
    BY DEF CoinInv, RowsOK, MeltsOK, PaidFor
  <2>3. m \in K /\ m.rc = rc
    BY <2>1, <2>2 DEF MeltsFor, MeltsOf
  <2> QED
    BY <2>1, <2>3
<1> HIDE DEF g
<1>3. \A m \in K : b[m] \in Int /\ SumAmt({p \in A : g[p] = m}) <= b[m]
  <2> TAKE m \in K
  <2> DEFINE part == {p \in A : g[p] = m}
             all == {p \in recoup_refresh : p.coin \in FreshOf[m.rc]}
  <2>1. b[m] = m.amt /\ m.amt \in Nat
    BY <1>1 DEF AmountsOK
  <2>2. CASE part = {}
    BY <2>1, <2>2, SumAmtEmpty
  <2>3. CASE part # {}
    <3>1. m.rc \in refresh_revealed /\ m.rc \in Rcs
      BY <1>1, <1>2, <2>3
    <3>2. RefreshCost(m.rc) <= m.amt
      BY <3>1 DEF CoinInv, RowsOK, MeltsOK, PaidFor, MeltsFor, MeltsOf
    <3>3. part \subseteq all
      BY <1>2 DEF OldCoinRecoupsOf
    <3>4. SumAmt(all) <= RefreshCost(m.rc)
      BY <3>1, FreshRecoupsCharged
    <3>5. AmountsOK(all) /\ AmountsOK(part)
      <4>1. all \subseteq recoup_refresh
        OBVIOUS
      <4> HIDE DEF all, part
      <4> QED
        BY <1>1, <3>3, <4>1, SumAmtSubset
    <3>6. RefreshCost(m.rc) \in Int
      <4> DEFINE h == [k \in FreshOf[m.rc] |-> AmountRequired(k)]
      <4>1. IsFiniteSet(FreshOf[m.rc]) /\ \A k \in FreshOf[m.rc] : h[k] \in Int
        BY <3>1, DenominationsAssumption, CoinsAssumption DEF AmountRequired
      <4>2. RefreshCost(m.rc) = FeeRefresh[DenomOf[OldCoinOf[m.rc]]]
                                  + SumFunctionOnSet(h, FreshOf[m.rc])
        BY DEF RefreshCost, SumFunction
      <4>3. FeeRefresh[DenomOf[OldCoinOf[m.rc]]] \in Nat
        BY <3>1, DenominationsAssumption, CoinsAssumption
      <4> HIDE DEF h
      <4>4. SumFunctionOnSet(h, FreshOf[m.rc]) \in Int
        BY ONLY <4>1, SumInt
      <4> QED
        BY <4>2, <4>3, <4>4
    <3> HIDE DEF part, all, b
    <3>7. SumAmt(part) <= SumAmt(all) /\ SumAmt(part) \in Nat /\ SumAmt(all) \in Nat
      BY <3>3, <3>5, SumAmtMonotone, SumAmtNat
    <3>8. b[m] \in Int /\ SumAmt(part) <= b[m]
      BY <2>1, <3>2, <3>4, <3>6, <3>7
    <3> QED
      BY <3>8 DEF part
  <2> QED
    BY <2>2, <2>3
<1>4. IsFiniteSet(K) /\ \A p \in A : g[p] \in K
  BY <1>1, <1>2 DEF AmountsOK
<1>5. SumAmt(K) = SumFunctionOnSet(b, K)
  BY DEF SumAmt, SumFunction
<1> HIDE DEF A, K, b
<1>6. SumAmt(A) <= SumFunctionOnSet(b, K)
  BY ONLY <1>1, <1>3, <1>4, SumAmtCharged
<1> QED
  BY <1>5, <1>6 DEF A, K, OldRecoups, MeltedBy

LEMMA RecoupedStep ==
    ASSUME CoinInv, CoinInv', LedgerStep, RefundFeesCover, RecoupedWithin
    PROVE  RecoupedWithin'
PROOF
<1> SUFFICES ASSUME NEW c \in Coins
             PROVE  RecoupedFrom(c)' <= Value[DenomOf[c]]
  BY DEF RecoupedWithin
<1> DEFINE v == Value[DenomOf[c]]
<1>0. /\ RecoupedFrom(c) \in Nat /\ OldRecoups(c) \in Nat /\ v \in Nat
      /\ NetSpent(c) \in Int /\ Total(c) \in Int /\ MeltedBy(c) \in Nat
      /\ RecoupedFrom(c) <= v
  BY TotalsTyped, TotalIs DEF CoinInv, RecoupedWithin
<1>1. MeltedBy(c) <= NetSpent(c) /\ OldRecoups(c) <= MeltedBy(c)
  BY NetCoversMelts, OldRecoupsCharged
<1>2. ASSUME RecoupedFrom(c)' = RecoupedFrom(c)
      PROVE  RecoupedFrom(c)' <= v
  BY <1>0, <1>2
<1>3. ASSUME NEW a \in Nat, a = v - Total(c),
             RecoupedFrom(c)' = RecoupedFrom(c) + a
      PROVE  RecoupedFrom(c)' <= v
  BY <1>0, <1>1, <1>3 DEF Total
<1>4. CASE UNCHANGED ledger \/ \E k : Withdrawn(k)
  BY <1>2, <1>4, TotalQuiet DEF ledger, Withdrawn
<1>5. ASSUME NEW d, Deposited(d) PROVE RecoupedFrom(c)' <= v
  BY <1>2, <1>5, TotalDeposited
<1>6. ASSUME NEW m, Melted(m) PROVE RecoupedFrom(c)' <= v
  BY <1>2, <1>6, TotalMelted
<1>7. ASSUME NEW f, Refunding(f) PROVE RecoupedFrom(c)' <= v
  BY <1>2, <1>7, TotalRefunding
<1>8. ASSUME NEW rc, Revealed(rc) PROVE RecoupedFrom(c)' <= v
  BY <1>2, <1>8, TotalRevealed
<1>9. ASSUME NEW k, NEW a, Recouped(k, a) \/ RecoupRefreshed(k, a)
      PROVE  RecoupedFrom(c)' <= v
  <2>1. RecoupedFrom(c)' = RecoupedFrom(c) + (IF k = c THEN a ELSE 0)
    <3>1. CASE Recouped(k, a)
      BY <3>1, TotalRecouped
    <3>2. CASE RecoupRefreshed(k, a)
      <4>1. PICK rc \in refresh_revealed : k \in FreshOf[rc]
        BY <3>2 DEF RecoupRefreshed
      <4> QED
        BY <3>2, <4>1, TotalRecoupRefreshed
    <3> QED
      BY <1>9, <3>1, <3>2
  <2>2. a \in Nat /\ (k = c => a = v - Total(c))
    BY <1>9, RecoupTakesRest DEF CoinInv
  <2>3. CASE k = c
    BY <1>3, <2>1, <2>2, <2>3
  <2>4. CASE k # c
    BY <1>0, <1>2, <2>1, <2>4
  <2> QED
    BY <2>3, <2>4
<1> QED
  BY <1>4, <1>5, <1>6, <1>7, <1>8, <1>9 DEF LedgerStep

LEMMA AlwaysRecoupedWithin ==
    ASSUME RefundFeesCover
    PROVE  Spec => []RecoupedWithin
PROOF
<1>1. Init => RecoupedWithin
  BY TotalInit, DenominationsAssumption, CoinsAssumption DEF RecoupedWithin
<1>2. CoinInv /\ CoinInv' /\ RecoupedWithin /\ [Next]_vars => RecoupedWithin'
  BY StepOfLedger, RecoupedStep DEF CoinInv
<1> QED
  BY <1>1, <1>2, AlwaysCoinInv, PTL DEF Spec

LEMMA HistoriesAddUp ==
    ASSUME CoinInv, RefundFeesCover, RecoupedWithin
    PROVE  RefundsConsistent
PROOF
<1>1. ASSUME NEW c \in Coins
      PROVE  /\ TransactionTotals(c, FALSE, 0) >= 0
             /\ TransactionTotals(c, TRUE, 0) >= 0
  <2> DEFINE without == TransactionTotals(c, FALSE, 0)
             with == TransactionTotals(c, TRUE, 0)
  <2>1. /\ without = 0 + NetSpent(c)
        /\ with = 0 + NetSpent(c) + RecoupedFrom(c) - OldRecoups(c)
    BY TotalsAre DEF CoinInv
  <2>2. /\ RecoupedFrom(c) \in Nat /\ OldRecoups(c) \in Nat
        /\ NetSpent(c) \in Int /\ MeltedBy(c) \in Nat
        /\ MeltedBy(c) <= NetSpent(c) /\ OldRecoups(c) <= MeltedBy(c)
    BY TotalsTyped, TotalIs, NetCoversMelts, OldRecoupsCharged DEF CoinInv
  <2> HIDE DEF without, with
  <2>3. without >= 0 /\ with >= 0
    BY <2>1, <2>2
  <2> QED
    BY <2>3 DEF without, with
<1>2. ASSUME NEW c \in Coins, NEW b \in BOOLEAN
      PROVE  TransactionTotals(c, b, 0) >= 0
  <2>1. b = TRUE \/ b = FALSE
    OBVIOUS
  <2> QED
    BY <1>1, <2>1, Zenon
<1>3. TotalsComputable
  BY <1>2, Zenon DEF TotalsComputable
<1>4. RefundsWithinDeposits
  BY DEF CoinInv, RowsOK, RefundsOK
<1> QED
  BY <1>3, <1>4 DEF RefundsConsistent

(* Where a refund costs at least the deposit fee, no history of a coin     *)
(* ever ends in an amount below zero: refunds are charged to their         *)
(* deposits, recoups of fresh coins to the melt that paid for them.        *)
THEOREM RefundsAlwaysConsistent ==
    ASSUME RefundFeesCover
    PROVE  Spec => []RefundsConsistent
PROOF
<1>1. CoinInv /\ RecoupedWithin => RefundsConsistent
  BY HistoriesAddUp
<1> QED
  BY <1>1, AlwaysCoinInv, AlwaysRecoupedWithin, PTL

---------------------------------------------------------------------------
(* No money is created.  The fees that are not earned yet are counted      *)
(* where the money still is: the deposit fee with the deposit until a      *)
(* refund gives it back, the whole melt until the fresh coins are signed.  *)

Left(c) == Value[DenomOf[c]] - Total(c)
Owed(d) == d.amt - SumAmt(RefundsFor(d.coin, d.contract))
Kept(m) == IF m.rc \in refresh_revealed THEN FeeRefresh[DenomOf[m.coin]]
                                        ELSE m.amt

InReserves == SumFunctionOnSet(reserves, Reserves)
InCoins == SumFunctionOnSet([c \in Issued |-> Left(c)], Issued)
InDeposits == SumFunctionOnSet([d \in deposits |-> Owed(d)], deposits)
InMelts ==
    SumFunctionOnSet([m \in refresh_commitments |-> Kept(m)], refresh_commitments)
InWithdrawals ==
    SumFunctionOnSet([c \in reserves_out |-> FeeWithdraw[DenomOf[c]]], reserves_out)

MoneyKept ==
    InReserves + InCoins + InDeposits + InMelts + InWithdrawals
      <= SumFunction(InitialBalance)

(* Rows are about coins that were issued: the others are untouched.        *)
LEMMA UnissuedUntouched ==
    ASSUME CoinInv, NEW c \in Coins, c \notin Issued
    PROVE  Total(c) = 0
PROOF
<1>1. DepositsOf(c) = {} /\ MeltsOf(c) = {}
  BY DEF CoinInv, RowsOK, DepositsOK, MeltsOK, DepositsOf, MeltsOf
<1>2. RefundsOf(c) = {}
  BY <1>1 DEF CoinInv, RowsOK, RefundsOK, RefundsWithinDeposits, RefundsOf,
              DepositsOf, DepositsFor
<1>3. RecoupsOf(c) = {} /\ RecoupRefreshesOf(c) = {}
  BY DEF CoinInv, RowsOK, RecoupsOK, RecoupsOf, RecoupRefreshesOf, Issued
<1>4. OldCoinRecoupsOf(c) = {}
  BY <1>1 DEF CoinInv, RowsOK, MeltsOK, PaidFor, MeltsFor, MeltsOf, OldCoinRecoupsOf
<1>5. /\ DepositedBy(c) = 0 /\ MeltedBy(c) = 0 /\ RefundedTo(c) = 0
      /\ FeeBack(c) = 0 /\ RecoupedFrom(c) = 0 /\ OldRecoups(c) = 0
  BY <1>1, <1>2, <1>3, <1>4, SumAmtEmpty
     DEF DepositedBy, MeltedBy, RefundedTo, FeeBack, RecoupedFrom, OldRecoups
<1>6. FeeRefund[DenomOf[c]] \in Nat
  BY DenominationsAssumption, CoinsAssumption
<1>7. RefundFees(c) = 0
  BY <1>2, <1>6, FS_EmptySet DEF RefundFees
<1> QED
  BY <1>5, <1>7 DEF Total, NetSpent

LEMMA FiniteIssued ==
    ASSUME WellFormed
    PROVE  IsFiniteSet(Issued) /\ Issued \subseteq Coins
PROOF
<1> DEFINE f == [rc \in refresh_revealed |-> FreshOf[rc]]
           T == {FreshOf[rc] : rc \in refresh_revealed}
<1>1. /\ IsFiniteSet(refresh_revealed) /\ refresh_revealed \subseteq Rcs
      /\ IsFiniteSet(reserves_out) /\ reserves_out \subseteq Coins
  BY DEF WellFormed, TypeOK, TablesTypeOK, FiniteTables
<1>2. f \in Surjection(refresh_revealed, T)
  BY DEF Surjection
<1>3. \A F \in T : IsFiniteSet(F) /\ F \subseteq Coins
  BY <1>1, CoinsAssumption
<1> HIDE DEF f, T
<1>4. IsFiniteSet(T)
  BY <1>1, <1>2, FS_Surjection
<1>5. IsFiniteSet(UNION T) /\ UNION T \subseteq Coins
  BY <1>3, <1>4, FS_UNION
<1>6. IsFiniteSet(reserves_out \cup UNION T)
  BY <1>1, <1>5, FS_Union
<1> QED
  BY <1>1, <1>5, <1>6 DEF T, Issued

SumsOK ==
    /\ InReserves \in Int /\ InCoins \in Int /\ InDeposits \in Int
    /\ InMelts \in Int /\ InWithdrawals \in Int
    /\ IsFiniteSet(Issued) /\ Issued \subseteq Coins
    /\ IsFiniteSet(deposits) /\ IsFiniteSet(refresh_commitments)
    /\ IsFiniteSet(reserves_out) /\ reserves_out \subseteq Coins
    /\ \A c \in Issued : Left(c) \in Int
    /\ \A d \in deposits : Owed(d) \in Int
    /\ \A m \in refresh_commitments : Kept(m) \in Int
    /\ \A r \in Reserves : reserves[r] \in Int
    /\ \A c \in Coins : FeeWithdraw[DenomOf[c]] \in Int

LEMMA SumsTyped ==
    ASSUME CoinInv
    PROVE  SumsOK
PROOF
<1>1. ASSUME NEW c \in Issued
      PROVE  Left(c) \in Int
  <2>1. c \in Coins
    BY FiniteIssued DEF CoinInv
  <2>2. Total(c) \in Int /\ Value[DenomOf[c]] \in Nat
    BY <2>1, TotalIs, TotalsTyped DEF CoinInv
  <2> QED
    BY <2>2 DEF Left
<1>2. ASSUME NEW d \in deposits
      PROVE  Owed(d) \in Int
  <2>1. d.amt \in Nat /\ AmountsOK(refunds)
    BY TablesHaveAmounts DEF CoinInv, TableAmounts, AmountsOK
  <2>2. SumAmt(RefundsFor(d.coin, d.contract)) \in Nat
    BY <2>1, SumAmtSubset, SumAmtNat DEF RefundsFor
  <2> QED
    BY <2>1, <2>2 DEF Owed
<1>3. ASSUME NEW m \in refresh_commitments
      PROVE  Kept(m) \in Int
  BY DenominationsAssumption, CoinsAssumption
     DEF CoinInv, WellFormed, TypeOK, TablesTypeOK, MeltRow, Kept
<1>4. /\ \A r \in Reserves : reserves[r] \in Int
      /\ \A c \in Coins : FeeWithdraw[DenomOf[c]] \in Int
  BY DenominationsAssumption, CoinsAssumption
     DEF CoinInv, WellFormed, TypeOK, TablesTypeOK
<1>5. /\ IsFiniteSet(deposits) /\ IsFiniteSet(refresh_commitments)
      /\ IsFiniteSet(reserves_out) /\ reserves_out \subseteq Coins
      /\ IsFiniteSet(Issued) /\ IsFiniteSet(Reserves)
  BY FiniteIssued, ReservesAssumption
     DEF CoinInv, WellFormed, TypeOK, TablesTypeOK, FiniteTables
<1>6. InReserves \in Int
  BY <1>4, <1>5, SumInt DEF InReserves
<1>7. InCoins \in Int
  <2> DEFINE f == [c \in Issued |-> Left(c)]
  <2>1. \A c \in Issued : f[c] \in Int
    BY <1>1
  <2> HIDE DEF f
  <2>2. SumFunctionOnSet(f, Issued) \in Int
    BY <1>5, <2>1, SumInt
  <2> QED
    BY <2>2 DEF f, InCoins
<1>8. InDeposits \in Int
  <2> DEFINE f == [d \in deposits |-> Owed(d)]
  <2>1. \A d \in deposits : f[d] \in Int
    BY <1>2
  <2> HIDE DEF f
  <2>2. SumFunctionOnSet(f, deposits) \in Int
    BY <1>5, <2>1, SumInt
  <2> QED
    BY <2>2 DEF f, InDeposits
<1>9. InMelts \in Int
  <2> DEFINE f == [m \in refresh_commitments |-> Kept(m)]
  <2>1. \A m \in refresh_commitments : f[m] \in Int
    BY <1>3
  <2> HIDE DEF f
  <2>2. SumFunctionOnSet(f, refresh_commitments) \in Int
    BY <1>5, <2>1, SumInt
  <2> QED
    BY <2>2 DEF f, InMelts
<1>10. InWithdrawals \in Int
  <2> DEFINE f == [c \in reserves_out |-> FeeWithdraw[DenomOf[c]]]
  <2>1. \A c \in reserves_out : f[c] \in Int
    BY <1>4, <1>5
  <2> HIDE DEF f
  <2>2. SumFunctionOnSet(f, reserves_out) \in Int
    BY <1>5, <2>1, SumInt
  <2> QED
    BY <2>2 DEF f, InWithdrawals
<1> QED
  <2>1. /\ \A c \in Issued : Left(c) \in Int
        /\ \A d \in deposits : Owed(d) \in Int
        /\ \A m \in refresh_commitments : Kept(m) \in Int
    BY <1>1, <1>2, <1>3, Zenon
  <2>2. Issued \subseteq Coins
    BY FiniteIssued DEF CoinInv
  <2> QED
    BY ONLY <1>4, <1>5, <1>6, <1>7, <1>8, <1>9, <1>10, <2>1, <2>2, Zenon DEF SumsOK

(* Sums of a function and of the function it turns into.                   *)
LEMMA SumGrows ==
    ASSUME NEW f, NEW g, NEW S, NEW T, IsFiniteSet(S), IsFiniteSet(T),
           S \cap T = {}, \A x \in S : f[x] \in Int /\ g[x] = f[x],
           \A x \in T : g[x] \in Int
    PROVE  SumFunctionOnSet(g, S \cup T)
             = SumFunctionOnSet(f, S) + SumFunctionOnSet(g, T)
PROOF
<1>1. \A x \in S \cup T : g[x] \in Int
  OBVIOUS
<1>2. SumFunctionOnSet(g, S) = SumFunctionOnSet(f, S)
  BY SumEqual
<1> QED
  BY <1>1, <1>2, SumUnion

GrowsAt(f, g, S, x) ==
    /\ IsFiniteSet(S) /\ x \notin S /\ g[x] \in Int
    /\ \A y \in S : f[y] \in Int /\ g[y] = f[y]

LEMMA SumGrowsByOne ==
    ASSUME NEW f, NEW g, NEW S, NEW x, GrowsAt(f, g, S, x)
    PROVE  SumFunctionOnSet(g, S \cup {x}) = SumFunctionOnSet(f, S) + g[x]
PROOF
<1>0. /\ IsFiniteSet(S) /\ x \notin S
      /\ \A y \in S : f[y] \in Int /\ f[y] = g[y]
  BY DEF GrowsAt
<1>1. \A y \in S \cup {x} : g[y] \in Int
  BY DEF GrowsAt
<1>2. SumFunctionOnSet(f, S) = SumFunctionOnSet(g, S)
  BY <1>0, SumEqual
<1>3. IsFiniteSet(S) /\ x \notin S
  BY <1>0
<1>4. SumFunctionOnSet(g, S \cup {x}) = SumFunctionOnSet(g, S) + g[x]
  BY ONLY <1>1, <1>3, SumAdd
<1> QED
  BY <1>2, <1>4

\* Two elements change.
ChangesAt(f, g, S, x, y) ==
    /\ IsFiniteSet(S) /\ x \in S /\ y \in S /\ x # y
    /\ \A z \in S : f[z] \in Int /\ g[z] \in Int
    /\ \A z \in S : z # x /\ z # y => f[z] = g[z]

LEMMA SumChangeTwo ==
    ASSUME NEW f, NEW g, NEW S, NEW x, NEW y, ChangesAt(f, g, S, x, y)
    PROVE  SumFunctionOnSet(g, S)
             = SumFunctionOnSet(f, S) + g[x] - f[x] + g[y] - f[y]
PROOF
<1>0. /\ IsFiniteSet(S) /\ x \in S /\ y \in S /\ x # y
      /\ \A z \in S : f[z] \in Int /\ g[z] \in Int
      /\ \A z \in S : z # x /\ z # y => f[z] = g[z]
  BY DEF ChangesAt
<1> DEFINE h == [z \in S |-> IF z = x THEN g[x] ELSE f[z]]
<1>1. /\ \A z \in S : h[z] \in Int
      /\ \A z \in S \ {x} : f[z] = h[z]
      /\ \A z \in S \ {y} : h[z] = g[z]
      /\ h[x] = g[x] /\ h[y] = f[y]
  BY <1>0
<1> HIDE DEF h
<1>a. \A z \in S : f[z] \in Int /\ h[z] \in Int
  BY <1>0, <1>1
<1>b. \A z \in S \ {x} : f[z] = h[z]
  BY <1>0, <1>1
<1>2. SumFunctionOnSet(h, S) = SumFunctionOnSet(f, S) + h[x] - f[x]
  BY ONLY <1>0, <1>a, <1>b, SumChange
<1>c. \A z \in S : h[z] \in Int /\ g[z] \in Int
  BY <1>0, <1>1
<1>d. \A z \in S \ {y} : h[z] = g[z]
  BY <1>0, <1>1
<1>3. SumFunctionOnSet(g, S) = SumFunctionOnSet(h, S) + g[y] - h[y]
  BY ONLY <1>0, <1>c, <1>d, SumChange
<1>4. /\ SumFunctionOnSet(f, S) \in Int /\ SumFunctionOnSet(h, S) \in Int
      /\ SumFunctionOnSet(g, S) \in Int
  BY <1>0, <1>1, SumInt
<1>5. f[x] \in Int /\ f[y] \in Int /\ g[x] \in Int /\ g[y] \in Int
  BY <1>0
<1> QED
  BY <1>1, <1>2, <1>3, <1>4, <1>5

(* What is left on the coins when one coin changes, when two change, and   *)
(* when coins are signed.                                                  *)
LEMMA CoinChanges ==
    ASSUME CoinInv, SumsOK', Issued' = Issued, NEW k \in Issued,
           \A c \in Issued \ {k} : Left(c)' = Left(c)
    PROVE  InCoins' = InCoins + Left(k)' - Left(k)
PROOF
<1> DEFINE f == [c \in Issued |-> Left(c)]
           g == [c \in Issued' |-> Left(c)']
<1>1. IsFiniteSet(Issued)
  BY FiniteIssued DEF CoinInv
<1>2. \A c \in Issued : Left(c) \in Int /\ Left(c)' \in Int
  BY SumsTyped DEF SumsOK
<1>3. /\ \A c \in Issued : f[c] \in Int /\ g[c] \in Int
      /\ \A c \in Issued \ {k} : f[c] = g[c]
      /\ f[k] = Left(k) /\ g[k] = Left(k)'
  BY <1>2
<1>4. InCoins = SumFunctionOnSet(f, Issued) /\ InCoins' = SumFunctionOnSet(g, Issued)
  BY DEF InCoins
<1> HIDE DEF f, g
<1>5. SumFunctionOnSet(g, Issued) = SumFunctionOnSet(f, Issued) + g[k] - f[k]
  BY <1>1, <1>3, SumChange
<1> QED
  BY <1>3, <1>4, <1>5

LEMMA TwoCoinsChange ==
    ASSUME CoinInv, SumsOK', Issued' = Issued,
           NEW k \in Issued, NEW o \in Issued, k # o,
           \A c \in Issued \ {k, o} : Left(c)' = Left(c)
    PROVE  InCoins' = InCoins + Left(k)' - Left(k) + Left(o)' - Left(o)
PROOF
<1> DEFINE f == [c \in Issued |-> Left(c)]
           g == [c \in Issued' |-> Left(c)']
<1>1. IsFiniteSet(Issued)
  BY FiniteIssued DEF CoinInv
<1>2. \A c \in Issued : Left(c) \in Int /\ Left(c)' \in Int
  BY SumsTyped DEF SumsOK
<1>3. /\ \A c \in Issued : f[c] \in Int /\ g[c] \in Int
      /\ \A c \in Issued \ {k, o} : f[c] = g[c]
      /\ f[k] = Left(k) /\ g[k] = Left(k)' /\ f[o] = Left(o) /\ g[o] = Left(o)'
  BY <1>2
<1>4. InCoins = SumFunctionOnSet(f, Issued) /\ InCoins' = SumFunctionOnSet(g, Issued)
  BY DEF InCoins
<1> HIDE DEF f, g
<1>5. SumFunctionOnSet(g, Issued)
        = SumFunctionOnSet(f, Issued) + g[k] - f[k] + g[o] - f[o]
  <2>1. \A c \in Issued : f[c] \in Int /\ g[c] \in Int
    BY <1>3
  <2>2. \A c \in Issued : c # k /\ c # o => f[c] = g[c]
    BY <1>3
  <2>3. ChangesAt(f, g, Issued, k, o)
    BY <1>1, <2>1, <2>2 DEF ChangesAt
  <2> QED
    BY <2>3, SumChangeTwo
<1> QED
  BY <1>3, <1>4, <1>5

LEMMA CoinsSigned ==
    ASSUME CoinInv, SumsOK', NEW F, F \subseteq Issued', F \cap Issued = {},
           Issued' = Issued \cup F, \A c \in Coins : Left(c)' = Left(c)
    PROVE  /\ InCoins' = InCoins
                + SumFunctionOnSet([c \in F |-> Value[DenomOf[c]]], F)
           /\ SumFunctionOnSet([c \in F |-> Value[DenomOf[c]]], F) \in Nat
           /\ IsFiniteSet(F) /\ F \subseteq Coins
PROOF
<1> DEFINE f == [c \in Issued |-> Left(c)]
           g == [c \in Issued' |-> Left(c)']
           h == [c \in F |-> Value[DenomOf[c]]]
<1>1. /\ IsFiniteSet(Issued) /\ Issued \subseteq Coins
      /\ IsFiniteSet(Issued') /\ Issued' \subseteq Coins
  BY FiniteIssued DEF CoinInv, SumsOK
<1>2. IsFiniteSet(F) /\ F \subseteq Coins
  BY <1>1, FS_Subset
<1>3. \A c \in F : Left(c)' = Value[DenomOf[c]] /\ Value[DenomOf[c]] \in Nat
  <2> TAKE c \in F
  <2>1. Total(c) = 0 /\ Value[DenomOf[c]] \in Nat
    BY <1>2, UnissuedUntouched, TotalsTyped DEF CoinInv
  <2>2. Left(c) = Value[DenomOf[c]]
    BY <2>1 DEF Left
  <2> QED
    BY <1>2, <2>1, <2>2
<1>4. \A c \in Issued : Left(c) \in Int
  BY SumsTyped DEF SumsOK
<1>5. /\ \A c \in Issued : f[c] \in Int /\ g[c] = f[c]
      /\ \A c \in F : h[c] \in Nat /\ g[c] = h[c]
  BY <1>1, <1>2, <1>3, <1>4
<1>6. InCoins = SumFunctionOnSet(f, Issued) /\ InCoins' = SumFunctionOnSet(g, Issued')
  BY DEF InCoins
<1> HIDE DEF f, g, h
<1>7. SumFunctionOnSet(g, Issued \cup F)
        = SumFunctionOnSet(f, Issued) + SumFunctionOnSet(g, F)
  BY <1>1, <1>2, <1>5, SumGrows
<1>8. SumFunctionOnSet(g, F) = SumFunctionOnSet(h, F)
  BY <1>2, <1>5, SumEqual
<1>9. SumFunctionOnSet(h, F) \in Nat
  BY <1>2, <1>5, SumNat
<1>10. InCoins' = InCoins + SumFunctionOnSet(h, F)
  BY <1>6, <1>7, <1>8
<1> QED
  BY <1>2, <1>9, <1>10 DEF h

LEMMA CoinsUnchanged ==
    ASSUME CoinInv, Issued' = Issued, \A c \in Coins : Left(c)' = Left(c)
    PROVE  InCoins' = InCoins
PROOF
  BY SumsTyped DEF SumsOK, InCoins

LEMMA SumSingle ==
    ASSUME NEW f, NEW x, f[x] \in Int
    PROVE  SumFunctionOnSet(f, {x}) = f[x]
PROOF
<1>1. IsFiniteSet({}) /\ x \notin {} /\ {} \cup {x} = {x}
  BY FS_EmptySet
<1>2. \A y \in {} \cup {x} : f[y] \in Int
  OBVIOUS
<1>3. SumFunctionOnSet(f, {} \cup {x}) = SumFunctionOnSet(f, {}) + f[x]
  BY ONLY <1>1, <1>2, SumAdd
<1>4. SumFunctionOnSet(f, {}) = 0
  BY SumEmpty
<1> QED
  BY <1>1, <1>3, <1>4

---------------------------------------------------------------------------
(* What each change of the ledger does to the money.                       *)

(* A withdrawal moves the value and the fee out of the reserve; a coin     *)
(* that was signed before (as a fresh coin) adds nothing.                  *)
LEMMA MoneyWithdrawn ==
    ASSUME CoinInv, SumsOK', NEW k, Withdrawn(k)
    PROVE  /\ InDeposits' = InDeposits /\ InMelts' = InMelts
           /\ InReserves' + InCoins' + InWithdrawals'
                <= InReserves + InCoins + InWithdrawals
PROOF
<1> DEFINE v == Value[DenomOf[k]]
           w == FeeWithdraw[DenomOf[k]]
<1>0. /\ k \in Coins /\ k \notin reserves_out
      /\ reserves_out' = reserves_out \cup {k}
      /\ reserves' = [reserves EXCEPT ![ReserveOf[k]] = @ - (v + w)]
      /\ UNCHANGED <<deposits, refunds, refresh_commitments,
                     refresh_revealed, recoup, recoup_refresh>>
  BY DEF Withdrawn, InsertWithdraw
<1>1. v \in Nat /\ w \in Nat /\ ReserveOf[k] \in Reserves
  BY <1>0, DenominationsAssumption, CoinsAssumption
<1>2. SumsOK
  BY SumsTyped
<1>3. InDeposits' = InDeposits /\ InMelts' = InMelts
  BY <1>0 DEF InDeposits, InMelts, Owed, Kept, RefundsFor
<1>4. InReserves' = InReserves - (v + w)
  <2>1. /\ reserves'[ReserveOf[k]] = reserves[ReserveOf[k]] - (v + w)
        /\ \A r \in Reserves \ {ReserveOf[k]} : reserves[r] = reserves'[r]
    BY <1>0, <1>1 DEF CoinInv, WellFormed, TypeOK, TablesTypeOK
  <2>2. \A r \in Reserves : reserves[r] \in Int /\ reserves'[r] \in Int
    BY <1>2 DEF SumsOK
  <2>3. \A r \in Reserves \ {ReserveOf[k]} : reserves[r] = reserves'[r]
    BY <2>1
  <2>4. SumFunctionOnSet(reserves', Reserves)
          = SumFunctionOnSet(reserves, Reserves)
              + reserves'[ReserveOf[k]] - reserves[ReserveOf[k]]
    <3> DEFINE f == reserves
               g == reserves'
               x == ReserveOf[k]
    <3>1. /\ \A r \in Reserves : f[r] \in Int /\ g[r] \in Int
          /\ x \in Reserves /\ IsFiniteSet(Reserves)
      BY <1>1, <2>2, ReservesAssumption
    <3>2. \A r \in Reserves \ {x} : f[r] = g[r]
      BY <2>3
    <3> HIDE DEF f, g, x
    <3>3. SumFunctionOnSet(g, Reserves)
            = SumFunctionOnSet(f, Reserves) + g[x] - f[x]
      BY ONLY <3>1, <3>2, SumChange
    <3> QED
      BY <3>3 DEF f, g, x
  <2>5. InReserves \in Int /\ reserves[ReserveOf[k]] \in Int
    BY <1>1, <1>2, <2>2 DEF SumsOK
  <2> HIDE DEF v, w
  <2> QED
    BY <1>1, <2>1, <2>4, <2>5 DEF InReserves
<1>5. InWithdrawals' = InWithdrawals + w
  <2> DEFINE f == [c \in reserves_out |-> FeeWithdraw[DenomOf[c]]]
             g == [c \in reserves_out' |-> FeeWithdraw[DenomOf[c]]]
  <2>1. /\ \A c \in reserves_out : f[c] \in Int /\ g[c] = f[c]
        /\ g[k] = w /\ IsFiniteSet(reserves_out)
    BY <1>0, <1>2 DEF SumsOK
  <2>2. /\ InWithdrawals = SumFunctionOnSet(f, reserves_out)
        /\ InWithdrawals' = SumFunctionOnSet(g, reserves_out')
    BY DEF InWithdrawals
  <2> HIDE DEF f, g
  <2>3. SumFunctionOnSet(g, reserves_out \cup {k})
          = SumFunctionOnSet(f, reserves_out) + g[k]
    <3>1. GrowsAt(f, g, reserves_out, k)
      BY <1>0, <1>1, <2>1 DEF GrowsAt
    <3> QED
      BY <3>1, SumGrowsByOne
  <2> QED
    BY <1>0, <2>1, <2>2, <2>3
<1>6. \A c \in Coins : Left(c)' = Left(c)
  BY <1>0, TotalQuiet DEF Left
<1>7. InCoins' \in Int /\ InCoins' <= InCoins + v
  <2>1. CASE k \in Issued
    <3>1. Issued' = Issued
      BY <1>0, <2>1 DEF Issued
    <3> QED
      BY <1>1, <1>2, <1>6, <3>1, CoinsUnchanged DEF SumsOK
  <2>2. CASE k \notin Issued
    <3> DEFINE h == [c \in {k} |-> Value[DenomOf[c]]]
    <3>1. Issued' = Issued \cup {k}
      BY <1>0 DEF Issued
    <3>2. InCoins' = InCoins + SumFunctionOnSet(h, {k})
      BY <1>6, <2>2, <3>1, CoinsSigned
    <3>3. h[k] = v
      OBVIOUS
    <3> HIDE DEF h
    <3>4. SumFunctionOnSet(h, {k}) = v
      BY <1>1, <3>3, SumSingle
    <3> QED
      BY <1>1, <1>2, <3>2, <3>4 DEF SumsOK
  <2> QED
    BY <2>1, <2>2
<1>8. InReserves \in Int /\ InCoins \in Int /\ InWithdrawals \in Int
  BY <1>2 DEF SumsOK
<1> HIDE DEF v, w
<1>9. InReserves' = InReserves - (v + w) /\ InWithdrawals' = InWithdrawals + w
  BY <1>4, <1>5
<1>10. InReserves' + InCoins' + InWithdrawals'
         <= InReserves + InCoins + InWithdrawals
  <2>1. v \in Int /\ w \in Int
    BY <1>1
  <2>2. /\ InReserves' \in Int /\ InWithdrawals' \in Int /\ InCoins' \in Int
        /\ InCoins' <= InCoins + v
    BY <1>7 DEF SumsOK
  <2> DEFINE a == InReserves
             b == InWithdrawals
             c == InCoins
             aa == InReserves'
             bb == InWithdrawals'
             cc == InCoins'
  <2>3. /\ a \in Int /\ b \in Int /\ c \in Int
        /\ aa \in Int /\ bb \in Int /\ cc \in Int
        /\ aa = a - (v + w) /\ bb = b + w /\ cc <= c + v
    BY <1>8, <1>9, <2>2
  <2> HIDE DEF a, b, c, aa, bb, cc
  <2>4. aa + cc + bb <= a + c + b
    BY ONLY <2>1, <2>3
  <2> QED
    BY <2>4 DEF a, b, c, aa, bb, cc
<1> QED
  BY <1>3, <1>10

LEMMA MoneyDeposited ==
    ASSUME CoinInv, SumsOK', NEW d, Deposited(d)
    PROVE  /\ InReserves' = InReserves /\ InMelts' = InMelts
           /\ InWithdrawals' = InWithdrawals
           /\ InCoins' + InDeposits' = InCoins + InDeposits
PROOF
<1>0. /\ d.coin \in Issued /\ d.amt \in Nat /\ d \notin deposits
      /\ deposits' = deposits \cup {d} /\ DepositsFor(d.coin, d.contract) = {}
      /\ UNCHANGED <<reserves, reserves_out, refunds, refresh_commitments,
                     refresh_revealed, recoup, recoup_refresh>>
  BY DEF Deposited, DepositRow, DepositsFor
<1>1. SumsOK
  BY SumsTyped
<1>2. /\ InReserves' = InReserves /\ InMelts' = InMelts
      /\ InWithdrawals' = InWithdrawals /\ Issued' = Issued
  BY <1>0 DEF InReserves, InMelts, InWithdrawals, Kept, Issued
<1>3. /\ \A c \in Issued \ {d.coin} : Left(c)' = Left(c)
      /\ Left(d.coin)' = Left(d.coin) - d.amt
  <2> SUFFICES ASSUME NEW c \in Issued
               PROVE  Left(c)' = Left(c) - (IF d.coin = c THEN d.amt ELSE 0)
    BY <1>0, <1>1 DEF SumsOK
  <2>1. c \in Coins
    BY <1>1 DEF SumsOK
  <2>2. /\ Total(c) \in Int /\ Value[DenomOf[c]] \in Nat
        /\ NetSpent(c) \in Int /\ RecoupedFrom(c) \in Nat /\ OldRecoups(c) \in Nat
    BY <2>1, TotalIs, TotalsTyped DEF CoinInv
  <2>3. /\ NetSpent(c)' = NetSpent(c) + (IF d.coin = c THEN d.amt ELSE 0)
        /\ RecoupedFrom(c)' = RecoupedFrom(c) /\ OldRecoups(c)' = OldRecoups(c)
    BY <2>1, TotalDeposited
  <2> QED
    BY <1>0, <2>2, <2>3 DEF Left, Total
<1>4. InCoins' = InCoins + Left(d.coin)' - Left(d.coin)
  BY <1>0, <1>2, <1>3, CoinChanges
<1>5. InDeposits' = InDeposits + d.amt
  <2> DEFINE f == [e \in deposits |-> Owed(e)]
             g == [e \in deposits' |-> Owed(e)']
  <2>1. \A e : Owed(e)' = Owed(e)
    BY <1>0 DEF Owed, RefundsFor
  <2>2. RefundsFor(d.coin, d.contract) = {}
    BY <1>0 DEF CoinInv, RowsOK, RefundsOK, RefundsWithinDeposits, RefundsFor,
                DepositsFor
  <2>3. Owed(d) = d.amt
    BY <1>0, <2>2, SumAmtEmpty DEF Owed
  <2>4. /\ \A e \in deposits : f[e] \in Int /\ g[e] = f[e]
        /\ g[d] = d.amt /\ IsFiniteSet(deposits)
    BY <1>0, <1>1, <2>1, <2>3 DEF SumsOK
  <2>5. InDeposits = SumFunctionOnSet(f, deposits) /\ InDeposits' = SumFunctionOnSet(g, deposits')
    BY DEF InDeposits
  <2> HIDE DEF f, g
  <2>6. SumFunctionOnSet(g, deposits \cup {d}) = SumFunctionOnSet(f, deposits) + g[d]
    <3>1. GrowsAt(f, g, deposits, d)
      BY <1>0, <2>4 DEF GrowsAt
    <3> QED
      BY <3>1, SumGrowsByOne
  <2> QED
    BY <1>0, <2>4, <2>5, <2>6
<1>6. Left(d.coin) \in Int
  BY <1>0, <1>1 DEF SumsOK
<1> QED
  BY <1>0, <1>1, <1>2, <1>3, <1>4, <1>5, <1>6 DEF SumsOK

LEMMA MoneyMelted ==
    ASSUME CoinInv, SumsOK', NEW m, Melted(m)
    PROVE  /\ InReserves' = InReserves /\ InDeposits' = InDeposits
           /\ InWithdrawals' = InWithdrawals
           /\ InCoins' + InMelts' <= InCoins + InMelts
PROOF
<1>0. /\ m.coin \in Issued /\ m.amt \in Nat /\ m \notin refresh_commitments
      /\ FeeRefresh[DenomOf[m.coin]] <= m.amt /\ m.coin \in Coins
      /\ refresh_commitments' = refresh_commitments \cup {m}
      /\ UNCHANGED <<reserves, reserves_out, deposits, refunds,
                     refresh_revealed, recoup, recoup_refresh>>
  BY DEF Melted, MeltRow, MeltsFor
<1>1. SumsOK
  BY SumsTyped
<1>2. /\ InReserves' = InReserves /\ InDeposits' = InDeposits
      /\ InWithdrawals' = InWithdrawals /\ Issued' = Issued
  BY <1>0 DEF InReserves, InDeposits, InWithdrawals, Owed, RefundsFor, Issued
<1>3. /\ \A c \in Issued \ {m.coin} : Left(c)' = Left(c)
      /\ Left(m.coin)' = Left(m.coin) - m.amt
  <2> SUFFICES ASSUME NEW c \in Issued
               PROVE  Left(c)' = Left(c) - (IF m.coin = c THEN m.amt ELSE 0)
    BY <1>0, <1>1 DEF SumsOK
  <2>1. c \in Coins
    BY <1>1 DEF SumsOK
  <2>2. /\ Total(c) \in Int /\ Value[DenomOf[c]] \in Nat
        /\ NetSpent(c) \in Int /\ RecoupedFrom(c) \in Nat /\ OldRecoups(c) \in Nat
    BY <2>1, TotalIs, TotalsTyped DEF CoinInv
  <2>3. /\ NetSpent(c)' = NetSpent(c) + (IF m.coin = c THEN m.amt ELSE 0)
        /\ RecoupedFrom(c)' = RecoupedFrom(c) /\ OldRecoups(c)' = OldRecoups(c)
    BY <2>1, TotalMelted
  <2> QED
    BY <1>0, <2>2, <2>3 DEF Left, Total
<1>4. InCoins' = InCoins + Left(m.coin)' - Left(m.coin)
  BY <1>0, <1>2, <1>3, CoinChanges
<1>5. InMelts' = InMelts + Kept(m) /\ Kept(m) \in Int /\ Kept(m) <= m.amt
  <2> DEFINE f == [n \in refresh_commitments |-> Kept(n)]
             g == [n \in refresh_commitments' |-> Kept(n)']
  <2>1. \A n : Kept(n)' = Kept(n)
    BY <1>0 DEF Kept
  <2>2. Kept(m) \in Int /\ Kept(m) <= m.amt
    BY <1>0, DenominationsAssumption, CoinsAssumption DEF Kept
  <2>3. /\ \A n \in refresh_commitments : f[n] \in Int /\ g[n] = f[n]
        /\ g[m] = Kept(m) /\ IsFiniteSet(refresh_commitments)
    BY <1>0, <1>1, <2>1 DEF SumsOK
  <2>4. /\ InMelts = SumFunctionOnSet(f, refresh_commitments)
        /\ InMelts' = SumFunctionOnSet(g, refresh_commitments')
    BY DEF InMelts
  <2> HIDE DEF f, g
  <2>5. SumFunctionOnSet(g, refresh_commitments \cup {m})
          = SumFunctionOnSet(f, refresh_commitments) + g[m]
    <3>1. GrowsAt(f, g, refresh_commitments, m)
      BY <1>0, <2>2, <2>3 DEF GrowsAt
    <3> QED
      BY <3>1, SumGrowsByOne
  <2> QED
    BY <1>0, <2>2, <2>3, <2>4, <2>5
<1>6. Left(m.coin) \in Int
  BY <1>0, <1>1 DEF SumsOK
<1> QED
  BY <1>0, <1>1, <1>2, <1>3, <1>4, <1>5, <1>6 DEF SumsOK

\* Coins pay for themselves: a refund moves money from a deposit back to
\* the coin, and keeps the refund fee.
LEMMA MoneyRefunding ==
    ASSUME CoinInv, SumsOK', RefundFeesCover, NEW f, Refunding(f)
    PROVE  /\ InReserves' = InReserves /\ InMelts' = InMelts
           /\ InWithdrawals' = InWithdrawals
           /\ InCoins' + InDeposits' <= InCoins + InDeposits
PROOF
<1>0. /\ f.amt \in Nat /\ f \in RefundRow /\ refunds' = refunds \cup {f}
      /\ RefundsFor(f.coin, f.contract) = {}
      /\ UNCHANGED <<reserves, reserves_out, deposits, refresh_commitments,
                     refresh_revealed, recoup, recoup_refresh>>
  BY DEF Refunding, RefundRow
<1>1. SumsOK
  BY SumsTyped
<1>2. /\ InReserves' = InReserves /\ InMelts' = InMelts
      /\ InWithdrawals' = InWithdrawals /\ Issued' = Issued
  BY <1>0 DEF InReserves, InMelts, InWithdrawals, Kept, Issued
<1>3. PICK d \in deposits : d.coin = f.coin /\ d.contract = f.contract
  BY DEF Refunding, DepositsFor
<1>4. \A e \in deposits : e.coin = f.coin /\ e.contract = f.contract => e = d
  BY <1>3 DEF CoinInv, RowsOK, DepositsOK
<1>5. f.coin \in Issued /\ f.coin \in Coins
  BY <1>1, <1>3 DEF CoinInv, RowsOK, DepositsOK, SumsOK
<1> DEFINE cost == FeeRefund[DenomOf[f.coin]]
           back == IF RefundsOf(f.coin) = {} THEN FeeDeposit[DenomOf[f.coin]] ELSE 0
<1>6. cost \in Nat /\ back \in Nat /\ back <= cost
  BY <1>5, TotalsTyped, CoinsAssumption DEF CoinInv, RefundFeesCover
<1>7. \A c \in Issued \ {f.coin} : Left(c)' = Left(c)
  <2> TAKE c \in Issued \ {f.coin}
  <2>1. c \in Coins
    BY <1>1 DEF SumsOK
  <2>2. /\ NetSpent(c)' = NetSpent(c) /\ RecoupedFrom(c)' = RecoupedFrom(c)
        /\ OldRecoups(c)' = OldRecoups(c)
    BY <2>1, TotalRefunding
  <2> QED
    BY <2>2 DEF Left, Total
<1>8. Left(f.coin)' = Left(f.coin) - (cost - f.amt - back)
  <2>1. /\ NetSpent(f.coin)' = NetSpent(f.coin) + cost - f.amt - back
        /\ RecoupedFrom(f.coin)' = RecoupedFrom(f.coin)
        /\ OldRecoups(f.coin)' = OldRecoups(f.coin)
    BY <1>5, TotalRefunding
  <2>2. /\ NetSpent(f.coin) \in Int /\ RecoupedFrom(f.coin) \in Nat
        /\ OldRecoups(f.coin) \in Nat /\ Value[DenomOf[f.coin]] \in Nat
    BY <1>5, TotalIs, TotalsTyped DEF CoinInv
  <2> HIDE DEF cost, back
  <2> QED
    BY <1>0, <1>6, <2>1, <2>2 DEF Left, Total
<1>9. InCoins' = InCoins + Left(f.coin)' - Left(f.coin)
  BY <1>1, <1>2, <1>5, <1>7, CoinChanges
<1>10. InDeposits' = InDeposits - f.amt
  <2> DEFINE u == [e \in deposits |-> Owed(e)]
             w == [e \in deposits' |-> Owed(e)']
  <2>1. \A e \in deposits : e # d => Owed(e)' = Owed(e)
    BY <1>0, <1>4 DEF Owed, RefundsFor
  <2>2. Owed(d)' = Owed(d) - f.amt /\ Owed(d) \in Int
    <3>1. RefundsFor(d.coin, d.contract)' = {f} /\ RefundsFor(d.coin, d.contract) = {}
      BY <1>0, <1>3 DEF RefundsFor
    <3>2. SumAmt({f}) = f.amt /\ SumAmt({}) = 0
      BY <1>0, SumAmtSingle, SumAmtEmpty
    <3>3. d.amt \in Nat
      BY TablesHaveAmounts DEF CoinInv, TableAmounts, AmountsOK
    <3> QED
      BY <1>0, <3>1, <3>2, <3>3 DEF Owed
  <2>3. \A e \in deposits : u[e] \in Int /\ w[e] \in Int
    BY <1>0, <1>1 DEF SumsOK
  <2>4. \A e \in deposits \ {d} : u[e] = w[e]
    BY <1>0, <2>1
  <2>5. u[d] = Owed(d) /\ w[d] = Owed(d)'
    BY <1>0
  <2>6. InDeposits = SumFunctionOnSet(u, deposits) /\ InDeposits' = SumFunctionOnSet(w, deposits')
    BY DEF InDeposits
  <2>7. IsFiniteSet(deposits) /\ d \in deposits
    BY <1>1 DEF SumsOK
  <2> HIDE DEF u, w
  <2>8. SumFunctionOnSet(w, deposits) = SumFunctionOnSet(u, deposits) + w[d] - u[d]
    BY ONLY <2>3, <2>4, <2>7, SumChange
  <2>9. SumFunctionOnSet(u, deposits) \in Int
    BY <1>1, <2>6 DEF SumsOK
  <2> QED
    BY <1>0, <2>2, <2>5, <2>6, <2>8, <2>9
<1> DEFINE left == Left(f.coin)
           c1 == InCoins
           c2 == InCoins'
           d1 == InDeposits
           d2 == InDeposits'
<1>11. /\ left \in Int /\ c1 \in Int /\ d1 \in Int
       /\ c2 = c1 + (left - (cost - f.amt - back)) - left
       /\ d2 = d1 - f.amt
  BY <1>1, <1>5, <1>8, <1>9, <1>10 DEF SumsOK
<1> HIDE DEF cost, back, left, c1, c2, d1, d2
<1>12. c2 + d2 <= c1 + d1
  BY ONLY <1>0, <1>6, <1>11
<1> QED
  BY <1>2, <1>12 DEF c1, c2, d1, d2

\* A recoup moves what is left on a coin to the reserve.
LEMMA MoneyRecouped ==
    ASSUME CoinInv, SumsOK', NEW k, NEW a, Recouped(k, a)
    PROVE  /\ InDeposits' = InDeposits /\ InMelts' = InMelts
           /\ InWithdrawals' = InWithdrawals
           /\ InCoins' + InReserves' = InCoins + InReserves
PROOF
<1>0. /\ k \in Coins /\ k \in reserves_out /\ k \in Issued /\ a \in Nat
      /\ reserves' = [reserves EXCEPT ![ReserveOf[k]] = @ + a]
      /\ UNCHANGED <<reserves_out, deposits, refunds, refresh_commitments,
                     refresh_revealed, recoup_refresh>>
  <2>1. k \in Coins /\ a \in Nat
    BY RecoupTakesRest DEF CoinInv
  <2> QED
    BY <2>1 DEF Recouped, InsertRecoupRequest, Issued
<1>1. SumsOK
  BY SumsTyped
<1>2. /\ InDeposits' = InDeposits /\ InMelts' = InMelts
      /\ InWithdrawals' = InWithdrawals /\ Issued' = Issued
  BY <1>0 DEF InDeposits, InMelts, InWithdrawals, Owed, Kept, RefundsFor, Issued
<1>3. /\ \A c \in Issued \ {k} : Left(c)' = Left(c)
      /\ Left(k)' = Left(k) - a
  <2> SUFFICES ASSUME NEW c \in Issued
               PROVE  Left(c)' = Left(c) - (IF k = c THEN a ELSE 0)
    BY <1>0, <1>1 DEF SumsOK
  <2>1. c \in Coins
    BY <1>1 DEF SumsOK
  <2>2. /\ Value[DenomOf[c]] \in Nat
        /\ NetSpent(c) \in Int /\ RecoupedFrom(c) \in Nat /\ OldRecoups(c) \in Nat
    BY <2>1, TotalIs, TotalsTyped DEF CoinInv
  <2>3. /\ NetSpent(c)' = NetSpent(c) /\ OldRecoups(c)' = OldRecoups(c)
        /\ RecoupedFrom(c)' = RecoupedFrom(c) + (IF k = c THEN a ELSE 0)
    BY <2>1, TotalRecouped
  <2> QED
    BY <1>0, <2>2, <2>3 DEF Left, Total
<1>4. InCoins' = InCoins + Left(k)' - Left(k)
  BY <1>0, <1>2, <1>3, CoinChanges
<1>5. InReserves' = InReserves + a
  <2> DEFINE f == reserves
             g == reserves'
             x == ReserveOf[k]
  <2>1. /\ x \in Reserves /\ IsFiniteSet(Reserves)
    BY <1>0, CoinsAssumption, ReservesAssumption
  <2>2. \A r \in Reserves : f[r] \in Int /\ g[r] \in Int
    BY <1>1 DEF SumsOK
  <2>3. \A r \in Reserves \ {x} : f[r] = g[r]
    BY <1>0 DEF CoinInv, WellFormed, TypeOK, TablesTypeOK
  <2>4. g[x] = f[x] + a
    BY <1>0, <2>1 DEF CoinInv, WellFormed, TypeOK, TablesTypeOK
  <2>5. InReserves = SumFunctionOnSet(f, Reserves) /\ InReserves' = SumFunctionOnSet(g, Reserves)
    BY DEF InReserves
  <2> HIDE DEF f, g, x
  <2>6. SumFunctionOnSet(g, Reserves) = SumFunctionOnSet(f, Reserves) + g[x] - f[x]
    BY ONLY <2>1, <2>2, <2>3, SumChange
  <2>7. SumFunctionOnSet(f, Reserves) \in Int
    BY <1>1, <2>5 DEF SumsOK
  <2>8. f[x] \in Int
    BY <2>1, <2>2
  <2> QED
    BY <1>0, <2>4, <2>5, <2>6, <2>7, <2>8
<1>6. Left(k) \in Int
  BY <1>0, <1>1 DEF SumsOK
<1> QED
  BY <1>0, <1>1, <1>2, <1>3, <1>4, <1>5, <1>6 DEF SumsOK

\* A recoup of a fresh coin moves what is left on it to the old coin.
LEMMA MoneyRecoupRefreshed ==
    ASSUME CoinInv, SumsOK', NEW k, NEW a, RecoupRefreshed(k, a)
    PROVE  /\ InDeposits' = InDeposits /\ InMelts' = InMelts
           /\ InWithdrawals' = InWithdrawals /\ InReserves' = InReserves
           /\ InCoins' = InCoins
PROOF
<1>0. /\ k \in Coins /\ a \in Nat
      /\ UNCHANGED <<reserves, reserves_out, deposits, refunds,
                     refresh_commitments, refresh_revealed, recoup>>
  <2>1. k \in Coins /\ a \in Nat
    BY RecoupTakesRest DEF CoinInv
  <2> QED
    BY <2>1 DEF RecoupRefreshed
<1>1. SumsOK
  BY SumsTyped
<1>2. /\ InDeposits' = InDeposits /\ InMelts' = InMelts
      /\ InWithdrawals' = InWithdrawals /\ InReserves' = InReserves
      /\ Issued' = Issued
  BY <1>0 DEF InDeposits, InMelts, InWithdrawals, InReserves, Owed, Kept,
              RefundsFor, Issued
<1>3. PICK rc \in refresh_revealed : k \in FreshOf[rc]
  BY DEF RecoupRefreshed
<1> DEFINE o == OldCoinOf[rc]
<1>4. k \in Issued /\ o \in Issued
  <2>1. PICK m \in MeltsFor(rc) : m.coin = OldCoinOf[rc]
    BY DEF CoinInv, RowsOK, MeltsOK, PaidFor
  <2> QED
    BY <1>3, <2>1 DEF CoinInv, RowsOK, MeltsOK, MeltsFor, Issued
<1>5. ASSUME NEW c \in Issued
      PROVE  Left(c)' = Left(c) - (IF k = c THEN a ELSE 0)
                                + (IF o = c THEN a ELSE 0)
  <2>1. c \in Coins
    BY <1>1 DEF SumsOK
  <2>2. /\ Value[DenomOf[c]] \in Nat
        /\ NetSpent(c) \in Int /\ RecoupedFrom(c) \in Nat /\ OldRecoups(c) \in Nat
    BY <2>1, TotalIs, TotalsTyped DEF CoinInv
  <2>3. /\ NetSpent(c)' = NetSpent(c)
        /\ OldRecoups(c)' = OldRecoups(c) + (IF o = c THEN a ELSE 0)
        /\ RecoupedFrom(c)' = RecoupedFrom(c) + (IF k = c THEN a ELSE 0)
    BY <1>3, <2>1, TotalRecoupRefreshed
  <2> HIDE DEF o
  <2> QED
    BY <1>0, <2>2, <2>3 DEF Left, Total
<1> HIDE DEF o
<1>6. \A c \in Issued : Left(c) \in Int
  BY <1>1 DEF SumsOK
<1>7. CASE k = o
  <2>1. \A c \in Issued : Left(c)' = Left(c)
    BY <1>0, <1>5, <1>6, <1>7
  <2>2. InCoins' = InCoins + Left(k)' - Left(k)
    BY <1>2, <1>4, <2>1, CoinChanges
  <2> QED
    BY <1>1, <1>2, <1>4, <1>6, <2>1, <2>2 DEF SumsOK
<1>8. CASE k # o
  <2>1. \A c \in Issued \ {k, o} : Left(c)' = Left(c)
    BY <1>5, <1>6
  <2>2. Left(k)' = Left(k) - a /\ Left(o)' = Left(o) + a
    BY <1>0, <1>4, <1>5, <1>6, <1>8
  <2>3. InCoins' = InCoins + Left(k)' - Left(k) + Left(o)' - Left(o)
    BY <1>2, <1>4, <1>8, <2>1, TwoCoinsChange
  <2>4. InCoins \in Int /\ Left(k) \in Int /\ Left(o) \in Int
    BY <1>1, <1>4, <1>6 DEF SumsOK
  <2> QED
    BY <1>0, <1>2, <2>2, <2>3, <2>4
<1> QED
  BY <1>7, <1>8

\* A reveal signs fresh coins that the melt paid for.
LEMMA MoneyRevealed ==
    ASSUME CoinInv, SumsOK', NEW rc, Revealed(rc)
    PROVE  /\ InDeposits' = InDeposits /\ InReserves' = InReserves
           /\ InWithdrawals' = InWithdrawals
           /\ InCoins' + InMelts' <= InCoins + InMelts
PROOF
<1>0. /\ rc \in Rcs /\ PaidFor(rc)
      /\ refresh_revealed' = refresh_revealed \cup {rc}
      /\ UNCHANGED <<reserves, reserves_out, deposits, refunds,
                     refresh_commitments, recoup, recoup_refresh>>
  BY DEF Revealed
<1>1. SumsOK
  BY SumsTyped
<1>2. /\ InDeposits' = InDeposits /\ InWithdrawals' = InWithdrawals
      /\ InReserves' = InReserves
  BY <1>0 DEF InDeposits, InWithdrawals, InReserves, Owed, RefundsFor
<1>3. \A c \in Coins : Left(c)' = Left(c)
  BY TotalRevealed DEF Left, Total
<1>4. CASE rc \in refresh_revealed
  <2>1. Issued' = Issued /\ InMelts' = InMelts
    BY <1>0, <1>4 DEF Issued, InMelts, Kept
  <2>2. InCoins' = InCoins
    BY <1>3, <2>1, CoinsUnchanged
  <2> QED
    BY <1>1, <1>2, <2>1, <2>2 DEF SumsOK
<1>5. CASE rc \notin refresh_revealed
  <2> DEFINE F == FreshOf[rc] \ Issued
             worth == SumFunctionOnSet([c \in F |-> Value[DenomOf[c]]], F)
  <2>1. PICK m \in MeltsFor(rc) : m.coin = OldCoinOf[rc] /\ RefreshCost(rc) <= m.amt
    BY <1>0 DEF PaidFor
  <2>2. /\ m \in refresh_commitments /\ m.rc = rc /\ m.amt \in Nat
        /\ \A n \in refresh_commitments \ {m} : n.rc # rc
        /\ FeeRefresh[DenomOf[m.coin]] \in Nat
    <3>1. m \in refresh_commitments /\ m.rc = rc
      BY <2>1 DEF MeltsFor
    <3>2. \A n \in refresh_commitments \ {m} : n.rc # rc
      BY <3>1 DEF CoinInv, RowsOK, MeltsOK
    <3>3. m.amt \in Nat /\ m.coin \in Coins
      BY <3>1 DEF CoinInv, WellFormed, TypeOK, TablesTypeOK, MeltRow
    <3> QED
      BY <3>1, <3>2, <3>3, DenominationsAssumption, CoinsAssumption
  <2>3. /\ InCoins' = InCoins + worth /\ worth \in Nat
        /\ IsFiniteSet(F) /\ F \subseteq Coins
    <3>1. F \subseteq Issued' /\ F \cap Issued = {} /\ Issued' = Issued \cup F
      BY <1>0 DEF Issued
    <3> HIDE DEF F
    <3> QED
      BY <1>3, <3>1, CoinsSigned
  <2>4. InMelts' = InMelts + FeeRefresh[DenomOf[m.coin]] - m.amt
    <3> DEFINE f == [n \in refresh_commitments |-> Kept(n)]
               g == [n \in refresh_commitments' |-> Kept(n)']
    <3>1. \A n \in refresh_commitments : f[n] \in Int /\ g[n] \in Int
      BY <1>0, <1>1 DEF SumsOK
    <3>2. \A n \in refresh_commitments \ {m} : f[n] = g[n]
      BY <1>0, <2>2 DEF Kept
    <3>3. f[m] = m.amt /\ g[m] = FeeRefresh[DenomOf[m.coin]]
      BY <1>0, <1>5, <2>2 DEF Kept
    <3>4. /\ InMelts = SumFunctionOnSet(f, refresh_commitments)
          /\ InMelts' = SumFunctionOnSet(g, refresh_commitments')
      BY DEF InMelts
    <3>5. IsFiniteSet(refresh_commitments) /\ m \in refresh_commitments
      BY <1>1, <2>2 DEF SumsOK
    <3> HIDE DEF f, g
    <3>6. SumFunctionOnSet(g, refresh_commitments)
            = SumFunctionOnSet(f, refresh_commitments) + g[m] - f[m]
      BY ONLY <3>1, <3>2, <3>5, SumChange
    <3>7. InMelts \in Int
      BY <1>1 DEF SumsOK
    <3> QED
      BY <1>0, <2>2, <3>3, <3>4, <3>6, <3>7
  <2>5. worth + FeeRefresh[DenomOf[m.coin]] <= RefreshCost(rc)
    <3> DEFINE K == FreshOf[rc]
               h == [c \in F |-> Value[DenomOf[c]]]
               v == [c \in K |-> Value[DenomOf[c]]]
               b == [c \in K |-> AmountRequired(c)]
    <3>1. /\ IsFiniteSet(K) /\ K \subseteq Coins /\ F \subseteq K
      BY <1>0, CoinsAssumption
    <3>2. \A c \in K : v[c] \in Nat /\ b[c] \in Nat /\ v[c] <= b[c]
      BY <3>1, DenominationsAssumption, CoinsAssumption DEF AmountRequired
    <3>3. \A c \in F : h[c] = v[c] /\ h[c] \in Int
      <4>1. \A c \in F : c \in K
        BY <3>1
      <4> HIDE DEF F, K
      <4>2. \A c \in F : h[c] = Value[DenomOf[c]] /\ v[c] = Value[DenomOf[c]]
        BY <4>1
      <4> QED
        BY <3>2, <4>1, <4>2
    <3>4. RefreshCost(rc) = FeeRefresh[DenomOf[m.coin]] + SumFunctionOnSet(b, K)
      BY <2>1 DEF RefreshCost, SumFunction
    <3>5. worth = SumFunctionOnSet(h, F)
      OBVIOUS
    <3> HIDE DEF K, h, v, b, F, worth
    <3>6. SumFunctionOnSet(h, F) = SumFunctionOnSet(v, F)
      <4>1. \A c \in F : h[c] \in Int /\ h[c] = v[c]
        BY <3>3
      <4> QED
        BY ONLY <2>3, <4>1, SumEqual
    <3>7. SumFunctionOnSet(v, F) <= SumFunctionOnSet(v, K)
      BY <3>1, <3>2, SumSubset
    <3>8. SumFunctionOnSet(v, K) <= SumFunctionOnSet(b, K)
      <4>1. \A c \in K : v[c] \in Int /\ b[c] \in Int /\ v[c] <= b[c]
        BY <3>2
      <4> QED
        BY ONLY <3>1, <4>1, SumMonotone
    <3>9. SumFunctionOnSet(v, K) \in Int /\ SumFunctionOnSet(b, K) \in Int
      <4>1. \A c \in K : v[c] \in Nat
        BY <3>2
      <4>2. \A c \in K : b[c] \in Nat
        BY <3>2
      <4> QED
        BY <3>1, <4>1, <4>2, SumNat
    <3> QED
      BY <2>2, <2>3, <3>4, <3>5, <3>6, <3>7, <3>8, <3>9
  <2>6. RefreshCost(rc) \in Int
    <3> DEFINE K == FreshOf[rc]
               b == [c \in K |-> AmountRequired(c)]
    <3>1. IsFiniteSet(K) /\ \A c \in K : b[c] \in Int
      BY <1>0, DenominationsAssumption, CoinsAssumption DEF AmountRequired
    <3>2. RefreshCost(rc) = FeeRefresh[DenomOf[m.coin]] + SumFunctionOnSet(b, K)
      BY <2>1 DEF RefreshCost, SumFunction
    <3> HIDE DEF K, b
    <3>3. SumFunctionOnSet(b, K) \in Int
      BY ONLY <3>1, SumInt
    <3> QED
      BY <2>2, <3>2, <3>3
  <2> DEFINE fee == FeeRefresh[DenomOf[m.coin]]
             c1 == InCoins
             c2 == InCoins'
             m1 == InMelts
             m2 == InMelts'
             cost == RefreshCost(rc)
  <2>7. /\ c1 \in Int /\ m1 \in Int /\ c2 = c1 + worth /\ worth \in Nat
        /\ fee \in Nat /\ m.amt \in Nat /\ m2 = m1 + fee - m.amt
        /\ worth + fee <= cost /\ cost \in Int /\ cost <= m.amt
    BY <1>1, <2>1, <2>2, <2>3, <2>4, <2>5, <2>6 DEF SumsOK
  <2> HIDE DEF fee, c1, c2, m1, m2, worth, cost
  <2>8. c2 + m2 <= c1 + m1
    BY ONLY <2>7
  <2> QED
    BY <1>2, <2>8 DEF c1, c2, m1, m2
<1> QED
  BY <1>4, <1>5

LEMMA MoneyKeptInit == Init => MoneyKept
PROOF
<1> SUFFICES ASSUME Init PROVE MoneyKept
  OBVIOUS
<1>1. /\ Issued = {} /\ deposits = {} /\ refresh_commitments = {}
      /\ reserves_out = {} /\ reserves = InitialBalance
  BY DEF Init, Issued
<1>2. /\ InCoins = 0 /\ InDeposits = 0 /\ InMelts = 0 /\ InWithdrawals = 0
  BY <1>1, SumEmpty DEF InCoins, InDeposits, InMelts, InWithdrawals
<1>3. SumFunction(InitialBalance) = SumFunctionOnSet(InitialBalance, Reserves)
  BY BoundsAssumption DEF SumFunction
<1>4. SumFunctionOnSet(InitialBalance, Reserves) \in Int
  BY BoundsAssumption, ReservesAssumption, SumInt
<1> QED
  BY <1>1, <1>2, <1>3, <1>4 DEF MoneyKept, InReserves

LEMMA MoneyKeptStep ==
    ASSUME CoinInv, SumsOK', LedgerStep, RefundFeesCover, MoneyKept
    PROVE  MoneyKept'
PROOF
<1> DEFINE r == InReserves    r1 == InReserves'
           c == InCoins       c1 == InCoins'
           d == InDeposits    d1 == InDeposits'
           m == InMelts       m1 == InMelts'
           w == InWithdrawals w1 == InWithdrawals'
           all == SumFunction(InitialBalance)
<1>1. /\ r \in Int /\ c \in Int /\ d \in Int /\ m \in Int /\ w \in Int
      /\ r1 \in Int /\ c1 \in Int /\ d1 \in Int /\ m1 \in Int /\ w1 \in Int
  BY SumsTyped DEF SumsOK
<1>2. all \in Int
  <2>1. SumFunction(InitialBalance) = SumFunctionOnSet(InitialBalance, Reserves)
    BY BoundsAssumption DEF SumFunction
  <2> QED
    BY <2>1, BoundsAssumption, ReservesAssumption, SumInt
<1>3. r + c + d + m + w <= all
  BY DEF MoneyKept
<1>4. CASE UNCHANGED ledger
  <2>1. /\ r1 = r /\ d1 = d /\ m1 = m /\ w1 = w /\ Issued' = Issued
    BY <1>4 DEF ledger, InReserves, InDeposits, InMelts, InWithdrawals, Owed,
         Kept, RefundsFor, Issued
  <2>2. \A k \in Coins : Left(k)' = Left(k)
    BY <1>4, TotalQuiet DEF ledger, Left
  <2>3. c1 = c
    BY <2>1, <2>2, CoinsUnchanged
  <2> QED
    BY <2>1, <2>3 DEF MoneyKept
<1>5. ASSUME NEW k, Withdrawn(k)
      PROVE  d1 = d /\ m1 = m /\ r1 + c1 + w1 <= r + c + w
  BY <1>5, MoneyWithdrawn
<1>6. ASSUME NEW e, Deposited(e)
      PROVE  r1 = r /\ m1 = m /\ w1 = w /\ c1 + d1 = c + d
  BY <1>6, MoneyDeposited
<1>7. ASSUME NEW n, Melted(n)
      PROVE  r1 = r /\ d1 = d /\ w1 = w /\ c1 + m1 <= c + m
  BY <1>7, MoneyMelted
<1>8. ASSUME NEW rc, Revealed(rc)
      PROVE  r1 = r /\ d1 = d /\ w1 = w /\ c1 + m1 <= c + m
  BY <1>8, MoneyRevealed
<1>9. ASSUME NEW f, Refunding(f)
      PROVE  r1 = r /\ m1 = m /\ w1 = w /\ c1 + d1 <= c + d
  BY <1>9, MoneyRefunding
<1>10. ASSUME NEW k, NEW a, Recouped(k, a)
       PROVE  d1 = d /\ m1 = m /\ w1 = w /\ c1 + r1 = c + r
  BY <1>10, MoneyRecouped
<1>11. ASSUME NEW k, NEW a, RecoupRefreshed(k, a)
       PROVE  r1 = r /\ d1 = d /\ m1 = m /\ w1 = w /\ c1 = c
  BY <1>11, MoneyRecoupRefreshed
<1>12. CASE ~ UNCHANGED ledger
  <2> HIDE DEF r, c, d, m, w, r1, c1, d1, m1, w1, all
  <2>1. \/ d1 = d /\ m1 = m /\ r1 + c1 + w1 <= r + c + w
        \/ r1 = r /\ m1 = m /\ w1 = w /\ c1 + d1 <= c + d
        \/ r1 = r /\ d1 = d /\ w1 = w /\ c1 + m1 <= c + m
        \/ d1 = d /\ m1 = m /\ w1 = w /\ c1 + r1 = c + r
    <3>1. ASSUME c1 + d1 = c + d PROVE c1 + d1 <= c + d
      BY ONLY <1>1, <3>1
    <3>2. ASSUME r1 = r, c1 = c PROVE c1 + r1 = c + r
      BY <3>2
    <3> QED
      BY <1>5, <1>6, <1>7, <1>8, <1>9, <1>10, <1>11, <1>12, <3>1, <3>2
         DEF LedgerStep
  <2>2. r1 + c1 + d1 + m1 + w1 <= all
    BY ONLY <1>1, <1>2, <1>3, <2>1
  <2> QED
    BY <2>2 DEF r1, c1, d1, m1, w1, all, MoneyKept
<1> QED
  BY <1>4, <1>12

LEMMA AlwaysMoneyKept ==
    ASSUME RefundFeesCover
    PROVE  Spec => []MoneyKept
PROOF
<1>1. CoinInv => SumsOK
  BY SumsTyped
<1>2. CoinInv /\ SumsOK' /\ MoneyKept /\ [Next]_vars => MoneyKept'
  BY StepOfLedger, MoneyKeptStep DEF CoinInv
<1> QED
  BY <1>1, <1>2, MoneyKeptInit, AlwaysCoinInv, PTL DEF Spec

LEMMA MoneyKeptNotCreated ==
    ASSUME CoinInv, MoneyKept
    PROVE  NoMoneyCreated
PROOF
<1>1. SumsOK
  BY SumsTyped
<1>2. SumFunction(reserves) = InReserves
  BY DEF SumFunction, InReserves, CoinInv, WellFormed, TypeOK, TablesTypeOK
<1>3. SumFunction([c \in Issued |-> Residual(c)]) = InCoins
  <2>1. \A c \in Issued : Residual(c) = Left(c)
    <3> TAKE c \in Issued
    <3>1. c \in Coins
      BY <1>1 DEF SumsOK
    <3> QED
      BY <3>1, TotalIs, Zenon DEF CoinInv, Residual, Left
  <2>2. [c \in Issued |-> Residual(c)] = [c \in Issued |-> Left(c)]
    BY <2>1, Zenon
  <2> QED
    BY <2>2 DEF SumFunction, InCoins
<1>4. SumFunction([d \in deposits |-> MerchantShare(d)]) <= InDeposits
      /\ SumFunction([d \in deposits |-> MerchantShare(d)]) \in Int
  <2> DEFINE f == [d \in deposits |-> MerchantShare(d)]
             g == [d \in deposits |-> Owed(d)]
  <2>1. \A d \in deposits : /\ f[d] \in Int /\ g[d] \in Int
                            /\ f[d] <= g[d]
    <3> TAKE d \in deposits
    <3>1. d.amt \in Nat /\ d.coin \in Coins
      BY DEF CoinInv, WellFormed, TypeOK, TablesTypeOK, DepositRow
    <3>2. FeeDeposit[DenomOf[d.coin]] \in Nat
      BY <3>1, DenominationsAssumption, CoinsAssumption
    <3> DEFINE refs == RefundsFor(d.coin, d.contract)
    <3>3. SumAmt(refs) \in Nat /\ (refs = {} => SumAmt(refs) = 0)
      <4>1. AmountsOK(refs)
        BY TablesHaveAmounts, SumAmtSubset DEF CoinInv, TableAmounts, RefundsFor
      <4> HIDE DEF refs
      <4> QED
        BY <4>1, SumAmtNat, SumAmtEmpty
    <3>4. /\ f[d] = IF refs = {} THEN d.amt - FeeDeposit[DenomOf[d.coin]]
                                 ELSE d.amt - SumAmt(refs)
          /\ g[d] = d.amt - SumAmt(refs)
      BY DEF MerchantShare, Owed
    <3> HIDE DEF refs, f, g
    <3> QED
      BY <3>1, <3>2, <3>3, <3>4
  <2>2. /\ IsFiniteSet(deposits)
        /\ SumFunction([d \in deposits |-> MerchantShare(d)])
             = SumFunctionOnSet(f, deposits)
        /\ InDeposits = SumFunctionOnSet(g, deposits)
    BY <1>1 DEF SumsOK, SumFunction, InDeposits
  <2> HIDE DEF f, g
  <2>3. SumFunctionOnSet(f, deposits) <= SumFunctionOnSet(g, deposits)
    BY ONLY <2>1, <2>2, SumMonotone
  <2>4. SumFunctionOnSet(f, deposits) \in Int
    BY <2>1, <2>2, SumInt
  <2> QED
    BY <2>2, <2>3, <2>4
<1>5. SumFunction([c \in reserves_out |-> FeeWithdraw[DenomOf[c]]]) = InWithdrawals
  BY DEF SumFunction, InWithdrawals
<1> DEFINE melts == SumFunction([m \in refresh_commitments |->
                                     FeeRefresh[DenomOf[m.coin]]])
<1>6. melts <= InMelts /\ melts \in Int
  <2> DEFINE f == [m \in refresh_commitments |-> FeeRefresh[DenomOf[m.coin]]]
             g == [m \in refresh_commitments |-> Kept(m)]
  <2>1. \A m \in refresh_commitments : /\ f[m] \in Int /\ g[m] \in Int
                                       /\ f[m] <= g[m]
    <3> TAKE m \in refresh_commitments
    <3>1. m.amt \in Nat /\ m.coin \in Coins
      BY DEF CoinInv, WellFormed, TypeOK, TablesTypeOK, MeltRow
    <3>2. FeeRefresh[DenomOf[m.coin]] \in Nat
      BY <3>1, DenominationsAssumption, CoinsAssumption
    <3>3. FeeRefresh[DenomOf[m.coin]] <= m.amt
      BY DEF CoinInv, RowsOK, MeltsOK
    <3> QED
      BY <3>1, <3>2, <3>3 DEF Kept
  <2>2. /\ IsFiniteSet(refresh_commitments)
        /\ melts = SumFunctionOnSet(f, refresh_commitments)
        /\ InMelts = SumFunctionOnSet(g, refresh_commitments)
    BY <1>1 DEF SumsOK, SumFunction, InMelts
  <2> HIDE DEF f, g, melts
  <2>3. SumFunctionOnSet(f, refresh_commitments) <= SumFunctionOnSet(g, refresh_commitments)
    BY ONLY <2>1, <2>2, SumMonotone
  <2>4. SumFunctionOnSet(f, refresh_commitments) \in Int
    BY <2>1, <2>2, SumInt
  <2> QED
    BY <2>2, <2>3, <2>4
<1> DEFINE all == SumFunction(InitialBalance)
           share == SumFunction([d \in deposits |-> MerchantShare(d)])
           worth == SumFunction([c \in Issued |-> Residual(c)])
           out == SumFunction([c \in reserves_out |-> FeeWithdraw[DenomOf[c]]])
<1>7. /\ SumFunction(reserves) = InReserves /\ worth = InCoins
      /\ share <= InDeposits /\ share \in Int /\ out = InWithdrawals
      /\ melts <= InMelts /\ melts \in Int
  BY <1>2, <1>3, <1>4, <1>5, <1>6
<1>8. InReserves + InCoins + InDeposits + InMelts + InWithdrawals <= all
  BY DEF MoneyKept
<1>9. /\ InReserves \in Int /\ InCoins \in Int /\ InDeposits \in Int
      /\ InMelts \in Int /\ InWithdrawals \in Int
  BY <1>1 DEF SumsOK
<1>10. all \in Int
  <2>1. SumFunction(InitialBalance) = SumFunctionOnSet(InitialBalance, Reserves)
    BY BoundsAssumption DEF SumFunction
  <2> QED
    BY <2>1, BoundsAssumption, ReservesAssumption, SumInt
<1>11. EarnedFees = out + melts
  BY DEF EarnedFees
<1> HIDE DEF melts, all, share, worth, out
<1>12. SumFunction(reserves) + worth + share + (out + melts) <= all
  BY ONLY <1>7, <1>8, <1>9, <1>10
<1>13. SumFunction(reserves) + worth + share + EarnedFees <= all
  BY <1>11, <1>12
<1> QED
  BY <1>13, Zenon DEF worth, share, all, NoMoneyCreated

(* Where a refund costs at least the deposit fee, reserves, coins,         *)
(* merchants and the fees earned never hold more than was wired in,        *)
(* whatever order the handlers' transactions commit in and with however    *)
(* many reserves, coins, commitments and requests.                         *)
THEOREM MoneyNeverCreated ==
    ASSUME RefundFeesCover
    PROVE  Spec => []NoMoneyCreated
PROOF
<1>1. CoinInv /\ MoneyKept => NoMoneyCreated
  BY MoneyKeptNotCreated
<1> QED
  BY <1>1, AlwaysCoinInv, AlwaysMoneyKept, PTL

---------------------------------------------------------------------------
(* Refusals are proven.  The client adds up the entries of a history, the  *)
(* server the rows they are made from.                                     *)

EntriesOK(E) == IsFiniteSet(E) /\ \A e \in E : e.amount \in Nat

(* Entries made one by one from rows add up to what the rows do.           *)
LEMMA EntriesOfRows ==
    ASSUME NEW rows, NEW g, AmountsOK(rows),
           \A x \in rows : g[x].amount = x.amt,
           \A x, y \in rows : g[x] = g[y] => x = y
    PROVE  /\ EntriesOK({g[x] : x \in rows})
           /\ SumOfAmounts({g[x] : x \in rows}) = SumAmt(rows)
PROOF
<1> DEFINE E == {g[x] : x \in rows}
           f == [x \in rows |-> x.amt]
           h == [e \in E |-> e.amount]
<1>1. IsFiniteSet(rows) /\ \A x \in rows : x.amt \in Nat
  BY DEF AmountsOK
<1>2. IsFiniteSet(E)
  <2> DEFINE k == [y \in rows |-> g[y]]
  <2>1. k \in Surjection(rows, E)
    BY DEF Surjection
  <2> HIDE DEF k, E
  <2> QED
    BY <1>1, <2>1, FS_Surjection
<1>3. \A x \in rows : f[x] \in Int /\ h[g[x]] = f[x]
  BY <1>1
<1>4. SumOfAmounts(E) = SumFunctionOnSet(h, E) /\ SumAmt(rows) = SumFunctionOnSet(f, rows)
  BY DEF SumOfAmounts, SumAmt, SumFunction
<1> HIDE DEF f, h
<1>5. SumFunctionOnSet(h, {g[x] : x \in rows}) = SumFunctionOnSet(f, rows)
  BY ONLY <1>1, <1>3, SumImage, \A x, y \in rows : g[x] = g[y] => x = y
<1>6. \A e \in E : e.amount \in Nat
  BY <1>1
<1> QED
  BY <1>2, <1>4, <1>5, <1>6 DEF EntriesOK

LEMMA EntriesUnion ==
    ASSUME NEW A, NEW B, EntriesOK(A), EntriesOK(B), A \cap B = {}
    PROVE  /\ EntriesOK(A \cup B)
           /\ SumOfAmounts(A \cup B) = SumOfAmounts(A) + SumOfAmounts(B)
PROOF
<1> DEFINE E == A \cup B
           f == [e \in A |-> e.amount]
           g == [e \in B |-> e.amount]
           h == [e \in E |-> e.amount]
<1>1. /\ IsFiniteSet(A) /\ IsFiniteSet(B) /\ IsFiniteSet(E)
      /\ \A e \in E : e.amount \in Nat
  BY FS_Union DEF EntriesOK
<1>2. /\ \A x \in A : f[x] \in Int /\ f[x] = h[x]
      /\ \A x \in B : g[x] \in Int /\ g[x] = h[x]
      /\ \A x \in A \cup B : h[x] \in Int
  BY <1>1
<1>3. /\ SumOfAmounts(A) = SumFunctionOnSet(f, A)
      /\ SumOfAmounts(B) = SumFunctionOnSet(g, B)
      /\ SumOfAmounts(E) = SumFunctionOnSet(h, A \cup B)
  BY DEF SumOfAmounts, SumFunction
<1> HIDE DEF f, g, h
<1>4. SumFunctionOnSet(f, A) = SumFunctionOnSet(h, A)
  BY ONLY <1>1, <1>2, SumEqual
<1>5. SumFunctionOnSet(g, B) = SumFunctionOnSet(h, B)
  BY ONLY <1>1, <1>2, SumEqual
<1>6. SumFunctionOnSet(h, A \cup B) = SumFunctionOnSet(h, A) + SumFunctionOnSet(h, B)
  BY ONLY <1>1, <1>2, A \cap B = {}, SumUnion
<1> QED
  BY <1>1, <1>3, <1>4, <1>5, <1>6 DEF EntriesOK

LEMMA EntriesEmpty == EntriesOK({}) /\ SumOfAmounts({}) = 0
PROOF
  BY SumEmpty, FS_EmptySet DEF SumOfAmounts, SumFunction, EntriesOK

\* What a part of a history of coin c made from rows looks like.
FaithfulEntries(E, rows, type, c) ==
    /\ EntriesOK(E)
    /\ SumOfAmounts(E) = SumAmt(rows)
    /\ E = {} <=> rows = {}
    /\ \A e \in E : e.type = type /\ EntryVerifies(e, DenomOf[c])

LEMMA DepositsShown ==
    ASSUME WellFormed, NEW c \in Coins
    PROVE  FaithfulEntries(DepositHistory(c), DepositsOf(c), "DEPOSIT", c)
PROOF
<1> DEFINE fee == FeeDeposit[DenomOf[c]]
           rows == DepositsOf(c)
           g == [d \in rows |-> HistoryEntry("DEPOSIT", d.amt, fee, d,
                                             Signed(d.amt, fee, d))]
<1>1. AmountsOK(rows)
  BY TablesHaveAmounts, SumAmtSubset DEF TableAmounts, DepositsOf
<1>2. DepositHistory(c) = {g[x] : x \in rows}
  BY DEF DepositHistory
<1>3. /\ \A x \in rows : g[x].amount = x.amt
      /\ \A x, y \in rows : g[x] = g[y] => x = y
  BY DEF HistoryEntry
<1>4. \A x \in rows : g[x].type = "DEPOSIT" /\ EntryVerifies(g[x], DenomOf[c])
  BY DEF HistoryEntry, EntryVerifies, FeeOfEntry
<1> HIDE DEF g, rows
<1>5. /\ EntriesOK({g[x] : x \in rows})
      /\ SumOfAmounts({g[x] : x \in rows}) = SumAmt(rows)
  BY ONLY <1>1, <1>3, EntriesOfRows
<1> QED
  BY <1>2, <1>4, <1>5 DEF FaithfulEntries, rows

LEMMA MeltsShown ==
    ASSUME CoinInv, NEW c \in Coins
    PROVE  FaithfulEntries(MeltHistory(c), MeltsOf(c), "MELT", c)
PROOF
<1> DEFINE fee == FeeRefresh[DenomOf[c]]
           rows == MeltsOf(c)
           g == [m \in rows |-> HistoryEntry("MELT", m.amt, fee, m.rc,
                                             Signed(m.amt, fee, m.rc))]
<1>1. AmountsOK(rows)
  BY TablesHaveAmounts, SumAmtSubset DEF TableAmounts, MeltsOf, CoinInv
<1>2. MeltHistory(c) = {g[x] : x \in rows}
  BY DEF MeltHistory
<1>3. \A x \in rows : g[x].amount = x.amt /\ g[x].rest = x.rc
  BY DEF HistoryEntry
<1>4. \A x, y \in rows : g[x] = g[y] => x = y
  <2>1. \A x, y \in rows : x.rc = y.rc => x = y
    BY DEF CoinInv, RowsOK, MeltsOK, MeltsOf
  <2> HIDE DEF g, rows
  <2> QED
    BY <1>3, <2>1
<1>5. \A x \in rows : g[x].type = "MELT" /\ EntryVerifies(g[x], DenomOf[c])
  BY DEF HistoryEntry, EntryVerifies, FeeOfEntry
<1> HIDE DEF g, rows
<1>6. /\ EntriesOK({g[x] : x \in rows})
      /\ SumOfAmounts({g[x] : x \in rows}) = SumAmt(rows)
  BY ONLY <1>1, <1>3, <1>4, EntriesOfRows
<1> QED
  BY <1>2, <1>5, <1>6 DEF FaithfulEntries, rows

LEMMA RecoupsShown ==
    ASSUME WellFormed, NEW c \in Coins
    PROVE  FaithfulEntries(RecoupHistory(c, "RECOUP", RecoupsOf(c)), RecoupsOf(c),
                           "RECOUP", c)
PROOF
<1> DEFINE rows == RecoupsOf(c)
           g == [p \in rows |-> HistoryEntry("RECOUP", p.amt, 0, p,
                                             Signed(p.amt, 0, p))]
<1>1. AmountsOK(rows)
  BY TablesHaveAmounts, SumAmtSubset DEF TableAmounts, RecoupsOf
<1>2. RecoupHistory(c, "RECOUP", rows) = {g[x] : x \in rows}
  BY DEF RecoupHistory
<1>3. /\ \A x \in rows : g[x].amount = x.amt
      /\ \A x, y \in rows : g[x] = g[y] => x = y
  BY DEF HistoryEntry
<1>4. \A x \in rows : g[x].type = "RECOUP" /\ EntryVerifies(g[x], DenomOf[c])
  BY DEF HistoryEntry, EntryVerifies, FeeOfEntry
<1> HIDE DEF g, rows
<1>5. /\ EntriesOK({g[x] : x \in rows})
      /\ SumOfAmounts({g[x] : x \in rows}) = SumAmt(rows)
  BY ONLY <1>1, <1>3, EntriesOfRows
<1> QED
  BY <1>2, <1>4, <1>5 DEF FaithfulEntries, rows

\* A history without entries that the client cannot verify.
PlainHistory(h) == \A e \in h : e.type \in {"DEPOSIT", "MELT", "RECOUP"}

(* The client verifies a plain history, and it adds up to what the server  *)
(* counts.                                                                 *)
LEMMA PlainHistoryAddsUp ==
    ASSUME CoinInv, NEW c \in Coins, NEW b \in BOOLEAN,
           PlainHistory(CompileTransactionHistory(c, b))
    PROVE  LET h == CompileTransactionHistory(c, b)
               n == CoinHistoryTotal(h)
           IN /\ n \in Nat
              /\ \A e \in h : EntryVerifies(e, DenomOf[c])
              /\ \A off \in Nat : TransactionTotals(c, b, off) = off + n
              /\ h = {} => n = 0
PROOF
<1> DEFINE h == CompileTransactionHistory(c, b)
           D == DepositHistory(c)
           M == MeltHistory(c)
           P == RecoupHistory(c, "RECOUP", RecoupsOf(c))
           R == IF b THEN P ELSE {}
           rec == IF b THEN SumAmt(RecoupsOf(c)) ELSE 0
<1>1. WellFormed
  BY DEF CoinInv
<1>2. RefundsOf(c) = {}
  <2>0. \A e \in RefundHistory(c) : e.type = "REFUND"
    <3>1. \A t, a, fee, rest, sig : HistoryEntry(t, a, fee, rest, sig).type = t
      BY DEF HistoryEntry
    <3>2. \A e \in RefundHistory(c) : \E a, fee, rest, sig :
             e = HistoryEntry("REFUND", a, fee, rest, sig)
      BY Zenon DEF RefundHistory
    <3> QED
      BY <3>1, <3>2
  <2>1. \A e \in RefundHistory(c) : e \in h /\ e.type = "REFUND"
    BY <2>0 DEF CompileTransactionHistory
  <2>2. RefundHistory(c) = {}
    BY <2>1 DEF PlainHistory
  <2> QED
    BY <2>2 DEF RefundHistory
<1>3. ASSUME b
      PROVE  RecoupRefreshesOf(c) = {} /\ OldCoinRecoupsOf(c) = {}
  <2> DEFINE X == RecoupHistory(c, "RECOUP-REFRESH", RecoupRefreshesOf(c))
             Y == RecoupHistory(c, "OLD-COIN-RECOUP", OldCoinRecoupsOf(c))
  <2>1. /\ \A e \in X : e \in h /\ e.type = "RECOUP-REFRESH"
        /\ \A e \in Y : e \in h /\ e.type = "OLD-COIN-RECOUP"
    BY <1>3 DEF CompileTransactionHistory, RecoupHistory, HistoryEntry
  <2>2. X = {} /\ Y = {}
    BY <2>1 DEF PlainHistory
  <2> QED
    BY <2>2 DEF RecoupHistory
<1>4. h = (D \cup M) \cup R
  BY <1>2, <1>3 DEF CompileTransactionHistory, RefundHistory, RecoupHistory
<1>5. /\ FaithfulEntries(D, DepositsOf(c), "DEPOSIT", c)
      /\ FaithfulEntries(M, MeltsOf(c), "MELT", c)
      /\ FaithfulEntries(P, RecoupsOf(c), "RECOUP", c)
  BY <1>1, DepositsShown, MeltsShown, RecoupsShown
<1>6. /\ DepositedBy(c) \in Nat /\ MeltedBy(c) \in Nat
      /\ SumAmt(RecoupsOf(c)) \in Nat /\ rec \in Nat
  BY <1>1, TotalsTyped, TablesHaveAmounts, SumAmtSubset, SumAmtNat
     DEF TableAmounts, RecoupsOf
<1>7. /\ EntriesOK(R) /\ SumOfAmounts(R) = rec
      /\ \A e \in R : e.type = "RECOUP" /\ EntryVerifies(e, DenomOf[c])
  BY <1>5, EntriesEmpty DEF FaithfulEntries
<1>8. /\ EntriesOK(D) /\ SumOfAmounts(D) = DepositedBy(c)
      /\ \A e \in D : e.type = "DEPOSIT" /\ EntryVerifies(e, DenomOf[c])
      /\ EntriesOK(M) /\ SumOfAmounts(M) = MeltedBy(c)
      /\ \A e \in M : e.type = "MELT" /\ EntryVerifies(e, DenomOf[c])
  BY <1>5 DEF FaithfulEntries, DepositedBy, MeltedBy
<1> HIDE DEF D, M, P, R, rec
<1>9. D \cap M = {} /\ (D \cup M) \cap R = {}
  BY <1>7, <1>8
<1>10. /\ EntriesOK(D \cup M)
       /\ SumOfAmounts(D \cup M) = DepositedBy(c) + MeltedBy(c)
  BY <1>8, <1>9, EntriesUnion
<1>11. SumOfAmounts(h) = DepositedBy(c) + MeltedBy(c) + rec
  BY <1>4, <1>7, <1>9, <1>10, EntriesUnion
<1>12. \A e \in h : EntryVerifies(e, DenomOf[c])
  BY <1>4, <1>7, <1>8
<1>13. CoinHistoryTotal(h) = SumOfAmounts(h)
  <2>1. Added(h) = h /\ Refunded(h) = {}
    BY DEF Added, Refunded, PlainHistory
  <2>2. SumOfAmounts(h) \in Int
    BY <1>6, <1>11
  <2> HIDE DEF h
  <2> QED
    BY <2>1, <2>2, EntriesEmpty DEF CoinHistoryTotal
<1>14. h = {} => SumOfAmounts(h) = 0
  BY EntriesEmpty
<1>15. \A off \in Nat : TransactionTotals(c, b, off)
                           = off + (DepositedBy(c) + MeltedBy(c) + rec)
  <2> TAKE off \in Nat
  <2>1. RefundedTo(c) = 0 /\ RefundFees(c) = 0 /\ FeeBack(c) = 0
    <3>1. FeeRefund[DenomOf[c]] \in Nat
      BY DenominationsAssumption, CoinsAssumption
    <3> QED
      BY <1>2, <3>1, SumAmtEmpty, FS_EmptySet DEF RefundedTo, RefundFees, FeeBack
  <2>2. NetSpent(c) = DepositedBy(c) + MeltedBy(c)
    BY <1>6, <2>1 DEF NetSpent
  <2>3. CASE b
    <3>1. RecoupedFrom(c) = rec /\ OldRecoups(c) = 0
      BY <1>3, <1>6, <2>3, SumAmtEmpty DEF RecoupedFrom, OldRecoups, rec
    <3>2. TransactionTotals(c, TRUE, off)
            = off + NetSpent(c) + RecoupedFrom(c) - OldRecoups(c)
      BY <1>1, TotalsAre
    <3>3. TransactionTotals(c, b, off) = TransactionTotals(c, TRUE, off)
      <4>1. b = TRUE
        BY <2>3
      <4> QED
        BY <4>1, Zenon
    <3>4. off + NetSpent(c) + RecoupedFrom(c) - OldRecoups(c)
            = off + (DepositedBy(c) + MeltedBy(c) + rec)
      BY <1>6, <2>2, <3>1
    <3> QED
      BY <3>2, <3>3, <3>4, Zenon
  <2>4. CASE ~b
    <3>1. TransactionTotals(c, FALSE, off) = off + NetSpent(c)
      BY <1>1, TotalsAre
    <3>2. TransactionTotals(c, b, off) = TransactionTotals(c, FALSE, off)
      <4>1. b = FALSE
        BY <2>4
      <4> QED
        BY <4>1, Zenon
    <3>3. rec = 0
      BY <2>4 DEF rec
    <3>4. off + NetSpent(c) = off + (DepositedBy(c) + MeltedBy(c) + rec)
      BY <1>6, <2>2, <3>3
    <3> QED
      BY <3>1, <3>2, <3>4, Zenon
  <2> QED
    BY <2>3, <2>4
<1> HIDE DEF h
<1>16. /\ CoinHistoryTotal(h) \in Nat
       /\ \A off \in Nat : TransactionTotals(c, b, off) = off + CoinHistoryTotal(h)
       /\ h = {} => CoinHistoryTotal(h) = 0
  BY <1>6, <1>11, <1>13, <1>14, <1>15
<1> QED
  BY <1>12, <1>16 DEF h

\* A request that no history could make impossible: it does not ask for
\* more than a coin is worth, and a coin is worth something.
WithinCoin(r) ==
    /\ Value[DenomOf[r.coin]] > 0
    /\ r.op \in {"deposit", "melt"} => r.amt <= Value[DenomOf[r.coin]]

(* In every state that the invariant of the tables allows, the client      *)
(* believes the refusal of a request within the value of its coin.         *)
LEMMA RefusalBelieved ==
    ASSUME CoinInv, NEW r \in Requests, RefusedForFunds(r), WithinCoin(r),
           PlainHistory(HistoryOfReply(r))
    PROVE  ClientStatus(r, HistoryOfReply(r)) = 409
PROOF
<1> DEFINE h == HistoryOfReply(r)
           n == CoinHistoryTotal(h)
           v == Value[DenomOf[r.coin]]
           b == r.op # "deposit"
<1>1. /\ r.op \in {"deposit", "melt", "recoup"} /\ r.coin \in Coins
      /\ r.op \in {"deposit", "melt"} => r.amt \in Nat
  BY RequestsAssumption, AmountsAssumption
     DEF RefusedForFunds, DepositShort, MeltShort, RecoupShort, InTransaction
<1>2. v \in Nat /\ v > 0
  BY <1>1, DenominationsAssumption, CoinsAssumption DEF WithinCoin
<1>3. /\ n \in Nat
      /\ \A e \in h : EntryVerifies(e, DenomOf[r.coin])
      /\ \A off \in Nat : TransactionTotals(r.coin, b, off) = off + n
      /\ h = {} => n = 0
  BY <1>1, PlainHistoryAddsUp DEF HistoryOfReply
<1> HIDE DEF h, n, v, b
<1>4. h # {} => VerifyCoinHistory(h, DenomOf[r.coin])
  BY <1>3 DEF VerifyCoinHistory, n
<1>5. CASE r.op = "deposit"
  <2>1. DepositSpent(r) > v
    BY <1>5 DEF RefusedForFunds, DepositShort, MeltShort, RecoupShort,
                InTransaction, v
  <2>2. r.amt + n > v
    BY <1>1, <1>3, <1>5, <2>1 DEF DepositSpent, b
  <2>3. h # {}
    BY <1>1, <1>2, <1>3, <1>5, <2>2 DEF WithinCoin, v
  <2>4. n + r.amt > v
    BY <1>1, <1>2, <1>3, <1>5, <2>2
  <2>5. VerifyDepositForbidden(r, h)
    BY <1>4, <2>3, <2>4 DEF VerifyDepositForbidden, n, v
  <2> QED
    BY <1>5, <2>5 DEF ClientStatus, DepositFinished, h
<1>6. CASE r.op = "melt"
  <2>1. MeltSpent(r) > v
    BY <1>6 DEF RefusedForFunds, DepositShort, MeltShort, RecoupShort,
                InTransaction, v
  <2>2. r.amt + n > v
    BY <1>1, <1>3, <1>6, <2>1 DEF MeltSpent, b
  <2>3. h # {}
    BY <1>1, <1>2, <1>3, <1>6, <2>2 DEF WithinCoin, v
  <2>4. n + r.amt > v
    BY <1>1, <1>2, <1>3, <1>6, <2>2
  <2>5. VerifyMeltConflict(r, h)
    BY <1>4, <2>3, <2>4 DEF VerifyMeltConflict, n, v
  <2> QED
    BY <1>6, <2>5 DEF ClientStatus, MeltFinished, h
<1>7. CASE r.op = "recoup"
  <2>1. v - RecoupSpent(r) = 0
    BY <1>7 DEF RefusedForFunds, DepositShort, MeltShort, RecoupShort,
                InTransaction, RecoupAmount, v
  <2>2. RecoupSpent(r) = n
    <3>1. TransactionTotals(r.coin, b, 0) = 0 + n
      BY <1>3
    <3>2. b = TRUE
      BY <1>7 DEF b
    <3>3. TransactionTotals(r.coin, TRUE, 0) = TransactionTotals(r.coin, b, 0)
      BY <3>2, Zenon
    <3>4. 0 + n = n
      BY <1>3
    <3> QED
      BY <3>1, <3>3, <3>4, Zenon DEF RecoupSpent
  <2>3. h # {}
    BY <1>2, <1>3, <2>1, <2>2
  <2>4. VerifyRecoupConflict(r, h)
    BY <1>4, <2>3 DEF VerifyRecoupConflict
  <2> QED
    BY <1>7, <2>4 DEF ClientStatus, RecoupFinished, h
<1> QED
  BY <1>1, <1>5, <1>6, <1>7

(* An honest exchange can always prove a refusal for lack of funds         *)
(* (TEH_RESPONSE_reply_coin_insufficient_funds): whatever committed        *)
(* before, the client accepts the history it sends, unless that contains a *)
(* refund or a recoup of a refreshed coin.  The hypothesis is needed: an   *)
(* untouched coin has an empty history, which the client never accepts, so *)
(* a request for more than the coin is worth is refused without proof.     *)
THEOREM RefusalsAlwaysProven ==
    ASSUME \A r \in Requests : WithinCoin(r)
    PROVE  Spec => []RefusalProven
PROOF
<1>1. CoinInv => RefusalProven
  BY RefusalBelieved DEF RefusalProven, PlainHistory
<1> QED
  BY <1>1, AlwaysCoinInv, PTL
=============================================================================
