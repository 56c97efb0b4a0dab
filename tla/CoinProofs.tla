----------------------------- MODULE CoinProofs -----------------------------
(***************************************************************************)
(* Proofs about CoinSpending: the tables stay well formed, a refresh has   *)
(* one challenge, refunds stay within deposits and end with the payment, a *)
(* coin is never overspent, histories add up, and no money is created.     *)
(*                                                                         *)
(* The argument has three layers.  CoinInv says of every handler what it   *)
(* has found out so far and still holds when it commits, and of every row  *)
(* which rows it goes with.  From CoinInv follows that every step is one   *)
(* of few changes of the tables (LedgerStep), and the statements about     *)
(* sums of rows are proved for these changes.                              *)
(***************************************************************************)
EXTENDS CoinSpending, SumTheorems

---------------------------------------------------------------------------
(* The inductive invariant.                                                *)

FiniteTables ==
    /\ IsFiniteSet(reserves_out) /\ IsFiniteSet(deposits)
    /\ IsFiniteSet(refunds) /\ IsFiniteSet(refresh_commitments)
    /\ IsFiniteSet(refresh_revealed)
    /\ IsFiniteSet(recoup) /\ IsFiniteSet(recoup_refresh)

\* The melt that a revealed commitment needs.
PaidFor(rc) ==
    \E m \in MeltsFor(rc) : m.coin = OldCoinOf[rc] /\ RefreshCost(rc) <= m.amt

\* What the handler of r relies on while it runs.
HandlerOK(r) ==
    /\ phase[r] \in {"know", "zknow"} => r.op \in {"deposit", "melt", "recoup"}
    /\ phase[r] # "idle" /\ r.op \in {"deposit", "melt", "recoup"}
          => r.coin \in Issued
    /\ phase[r] # "idle" /\ r.op = "deposit"
          => FeeDeposit[DenomOf[r.coin]] <= r.amt
    /\ phase[r] \in {"txn", "ztxn"} /\ r.op = "melt"
          => FeeRefresh[DenomOf[r.coin]] <= r.amt
    /\ phase[r] # "idle" /\ r.op = "refund"
          => FeeRefund[DenomOf[r.coin]] <= r.amt
    /\ phase[r] = "persist" /\ r.op = "reveal" => PaidFor(r.rc)

HandlersOK == \A r \in Requests : HandlerOK(r)

WellFormed == TypeOK /\ FiniteTables /\ HandlersOK

\* Tables only ever get rows.
TablesGrow ==
    /\ reserves_out \subseteq reserves_out'
    /\ known_coins \subseteq known_coins'
    /\ deposits \subseteq deposits' /\ done \subseteq done'
    /\ refunds \subseteq refunds'
    /\ refresh_commitments \subseteq refresh_commitments'
    /\ refresh_revealed \subseteq refresh_revealed'
    /\ recoup \subseteq recoup' /\ recoup_refresh \subseteq recoup_refresh'

LEMMA HandlerGrows ==
    ASSUME Next
    PROVE  TablesGrow
PROOF
<1>1. ASSUME NEW r \in Requests, Handler(r)
      PROVE  TablesGrow
  BY <1>1 DEF Handler, Receive, Refuse, KnowCoin, TransactionFails, Withdraw,
       Deposit, MeltReplay, MeltRefused, Melt, RevealPreflight, RevealVerify,
       RevealPersist, RevealAgain, Refund, Recoup, RecoupNothing, tables,
       TablesGrow, InsertWithdraw, EnsureCoinKnown, InsertDeposit, InsertMelt,
       InsertRefreshReveal, InsertRefund, InsertRecoupRequest,
       InsertRecoupRefreshRequest
<1>2. ASSUME NEW d, Revoke(d) \/ Expire(d) \/ Aggregate(d)
      PROVE  TablesGrow
  BY <1>2 DEF Revoke, Expire, Aggregate, MarkDepositDone, tables, TablesGrow
<1> QED
  BY <1>1, <1>2 DEF Next

---------------------------------------------------------------------------
(* The tables keep their type and stay finite.                             *)

TablesOK == TablesTypeOK /\ FiniteTables

LEMMA InsertFinite ==
    ASSUME NEW S, NEW x, IsFiniteSet(S)
    PROVE  IsFiniteSet(S \cup {x})
PROOF
  BY FS_AddElement

LEMMA InsertRow ==
    ASSUME NEW S, NEW T, NEW x, IsFiniteSet(S), S \subseteq T, x \in T
    PROVE  IsFiniteSet(S \cup {x}) /\ S \cup {x} \subseteq T
PROOF
  BY FS_AddElement

LEMMA TablesUnchanged ==
    ASSUME TablesOK, UNCHANGED tables
    PROVE  TablesOK'
PROOF
  BY DEF TablesOK, TablesTypeOK, FiniteTables, tables

(* A step of a handler: each action stores at most one row.                *)
LEMMA TablesStep ==
    ASSUME WellFormed, Next
    PROVE  TablesOK'
PROOF
<1> USE DenominationsAssumption, CoinsAssumption, AmountsAssumption,
        RequestsAssumption
<1>0. TablesOK
  BY DEF WellFormed, TypeOK, TablesOK
<1>1. ASSUME NEW r \in Requests, KnowCoin(r)
      PROVE  TablesOK'
  <2>1. r.coin \in Coins
    BY <1>1 DEF KnowCoin, WellFormed, HandlersOK, HandlerOK
  <2> QED
    BY <1>0, <1>1, <2>1
       DEF KnowCoin, EnsureCoinKnown, TablesOK, TablesTypeOK, FiniteTables
<1>2. ASSUME NEW r \in Requests, Withdraw(r)
      PROVE  TablesOK'
  <2>1. r.coin \in Coins
    BY <1>2 DEF Withdraw
  <2>2. CASE UNCHANGED <<reserves, reserves_out>>
    BY <1>0, <1>2, <2>2 DEF Withdraw, TablesOK, TablesTypeOK, FiniteTables
  <2>3. CASE Funded(r) /\ InsertWithdraw(r.coin)
    <3>1. IsFiniteSet(reserves_out')
      BY <1>0, <2>3, InsertFinite DEF InsertWithdraw, TablesOK, FiniteTables
    <3>2. reserves' \in [Reserves -> Nat]
      BY <1>0, <2>1, <2>3
         DEF InsertWithdraw, Funded, AmountRequired, TablesOK, TablesTypeOK
    <3> QED
      BY <1>0, <1>2, <2>1, <2>3, <3>1, <3>2
         DEF Withdraw, InsertWithdraw, TablesOK, TablesTypeOK, FiniteTables
  <2> QED
    BY <1>2, <2>2, <2>3 DEF Withdraw
<1>3. ASSUME NEW r \in Requests, Deposit(r)
      PROVE  TablesOK'
  <2>1. /\ deposits' = deposits \/ InsertDeposit(r)
        /\ r.op = "deposit"
        /\ UNCHANGED <<reserves, reserves_out, known_coins, done, refunds,
                       refresh_commitments, refresh_revealed, recoup,
                       recoup_refresh>>
    BY <1>3 DEF Deposit
  <2>2. [coin |-> r.coin, contract |-> r.contract, terms |-> r.terms,
          amt |-> r.amt] \in DepositRow
    BY <2>1 DEF DepositRow
  <2>3. IsFiniteSet(deposits) /\ deposits \subseteq DepositRow
    BY <1>0 DEF TablesOK, TablesTypeOK, FiniteTables
  <2>4. CASE deposits' = deposits
    BY <1>0, <2>1, <2>4 DEF TablesOK, TablesTypeOK, FiniteTables
  <2>5. CASE InsertDeposit(r)
    <3> DEFINE row == [coin |-> r.coin, contract |-> r.contract,
                       terms |-> r.terms, amt |-> r.amt]
    <3>1. row \in DepositRow /\ deposits' = deposits \cup {row}
      BY <2>2, <2>5 DEF InsertDeposit
    <3> HIDE DEF row
    <3>2. IsFiniteSet(deposits') /\ deposits' \subseteq DepositRow
      BY <2>3, <3>1, InsertRow
    <3> QED
      BY <1>0, <2>1, <3>2 DEF TablesOK, TablesTypeOK, FiniteTables
  <2> QED
    BY <2>1, <2>4, <2>5
<1>4. ASSUME NEW r \in Requests, Melt(r)
      PROVE  TablesOK'
  <2>1. PICK idx \in 0..(Kappa - 1) : InsertMelt(r, idx)
    BY <1>4 DEF Melt
  <2>2. [rc |-> r.rc, coin |-> r.coin, amt |-> r.amt, idx |-> idx] \in MeltRow
    BY <1>4 DEF Melt, MeltRow
  <2>3. IsFiniteSet(refresh_commitments')
    BY <1>0, <2>1, InsertFinite DEF InsertMelt, TablesOK, FiniteTables
  <2> QED
    BY <1>0, <1>4, <2>1, <2>2, <2>3
       DEF Melt, InsertMelt, TablesOK, TablesTypeOK, FiniteTables
<1>5. ASSUME NEW r \in Requests, RevealPersist(r)
      PROVE  TablesOK'
  <2>1. IsFiniteSet(refresh_revealed')
    BY <1>0, <1>5, InsertFinite
       DEF RevealPersist, InsertRefreshReveal, TablesOK, FiniteTables
  <2> QED
    BY <1>0, <1>5, <2>1
       DEF RevealPersist, InsertRefreshReveal, TablesOK, TablesTypeOK,
           FiniteTables
<1>6. ASSUME NEW r \in Requests, Refund(r)
      PROVE  TablesOK'
  <2>1. /\ refunds' = refunds \/ InsertRefund(r)
        /\ r.op = "refund"
        /\ UNCHANGED <<reserves, reserves_out, known_coins, deposits, done,
                       refresh_commitments, refresh_revealed, recoup,
                       recoup_refresh>>
    BY <1>6 DEF Refund
  <2>2. [coin |-> r.coin, contract |-> r.contract, rtid |-> r.rtid,
          amt |-> r.amt] \in RefundRow
    BY <2>1 DEF RefundRow
  <2>3. IsFiniteSet(refunds) /\ refunds \subseteq RefundRow
    BY <1>0 DEF TablesOK, TablesTypeOK, FiniteTables
  <2>4. CASE refunds' = refunds
    BY <1>0, <2>1, <2>4 DEF TablesOK, TablesTypeOK, FiniteTables
  <2>5. CASE InsertRefund(r)
    <3> DEFINE row == [coin |-> r.coin, contract |-> r.contract,
                       rtid |-> r.rtid, amt |-> r.amt]
    <3>1. row \in RefundRow /\ refunds' = refunds \cup {row}
      BY <2>2, <2>5 DEF InsertRefund
    <3> HIDE DEF row
    <3>2. IsFiniteSet(refunds') /\ refunds' \subseteq RefundRow
      BY <2>3, <3>1, InsertRow
    <3> QED
      BY <1>0, <2>1, <3>2 DEF TablesOK, TablesTypeOK, FiniteTables
  <2> QED
    BY <2>1, <2>4, <2>5
<1>7. ASSUME NEW r \in Requests, Recoup(r)
      PROVE  TablesOK'
  <2> DEFINE a == RecoupAmount(r)
  <2>1. r.coin \in Coins /\ a \in Nat
    <3>1. a \in 1..Value[DenomOf[r.coin]]
      BY <1>7 DEF Recoup
    <3>2. r.coin \in Coins /\ Value[DenomOf[r.coin]] \in Nat
      BY <1>7 DEF Recoup
    <3> HIDE DEF a
    <3> QED
      BY <3>1, <3>2
  <2>2. UNCHANGED <<reserves_out, known_coins, deposits, done, refunds,
                    refresh_commitments, refresh_revealed>>
    BY <1>7 DEF Recoup
  <2> HIDE DEF a
  <2>3. CASE /\ InsertRecoupRefreshRequest(r.coin, a)
             /\ UNCHANGED <<recoup, reserves>>
    <3>1. NextUuid(recoup_refresh) \in Nat
      BY <1>0, FS_CardinalityType DEF NextUuid, TablesOK, FiniteTables
    <3>2. [coin |-> r.coin, amt |-> a, uuid |-> NextUuid(recoup_refresh)]
            \in RecoupRow
      BY <2>1, <3>1 DEF RecoupRow
    <3>3. IsFiniteSet(recoup_refresh')
      BY <1>0, <2>3, InsertFinite
         DEF InsertRecoupRefreshRequest, TablesOK, FiniteTables
    <3> QED
      BY <1>0, <2>2, <2>3, <3>2, <3>3
         DEF InsertRecoupRefreshRequest, TablesOK, TablesTypeOK, FiniteTables
  <2>4. CASE /\ InsertRecoupRequest(r.coin, a)
             /\ UNCHANGED recoup_refresh
    <3>1. NextUuid(recoup) \in Nat
      BY <1>0, FS_CardinalityType DEF NextUuid, TablesOK, FiniteTables
    <3>2. [coin |-> r.coin, amt |-> a, uuid |-> NextUuid(recoup)] \in RecoupRow
      BY <2>1, <3>1 DEF RecoupRow
    <3>3. IsFiniteSet(recoup')
      BY <1>0, <2>4, InsertFinite
         DEF InsertRecoupRequest, TablesOK, FiniteTables
    <3>4. reserves' \in [Reserves -> Nat]
      BY <1>0, <2>1, <2>4 DEF InsertRecoupRequest, TablesOK, TablesTypeOK
    <3> QED
      BY <1>0, <2>2, <2>4, <3>2, <3>3, <3>4
         DEF InsertRecoupRequest, TablesOK, TablesTypeOK, FiniteTables
  <2> QED
    BY <1>7, <2>3, <2>4 DEF Recoup, a
<1>8. ASSUME NEW d \in deposits, Aggregate(d)
      PROVE  TablesOK'
  BY <1>0, <1>8
     DEF Aggregate, MarkDepositDone, TablesOK, TablesTypeOK, FiniteTables,
         DepositRow
<1>9. ASSUME NEW r \in Requests,
             \/ Receive(r) \/ Refuse(r) \/ TransactionFails(r)
             \/ MeltReplay(r) \/ MeltRefused(r)
             \/ RevealPreflight(r) \/ RevealVerify(r) \/ RevealAgain(r)
             \/ RecoupNothing(r)
      PROVE  TablesOK'
  <2>1. UNCHANGED tables
    BY <1>9 DEF Receive, Refuse, TransactionFails, MeltReplay, MeltRefused,
         RevealPreflight, RevealVerify, RevealAgain, RecoupNothing
  <2> QED
    BY <1>0, <2>1, TablesUnchanged
<1>10. ASSUME NEW d \in Denoms, Revoke(d) \/ Expire(d)
       PROVE  TablesOK'
  <2>1. UNCHANGED tables
    BY <1>10 DEF Revoke, Expire
  <2> QED
    BY <1>0, <2>1, TablesUnchanged
<1> QED
  BY <1>1, <1>2, <1>3, <1>4, <1>5, <1>6, <1>7, <1>8, <1>9, <1>10
     DEF Next, Handler

---------------------------------------------------------------------------
(* What handlers rely on stays true.                                       *)

LEMMA IssuedGrows ==
    ASSUME TablesGrow
    PROVE  Issued \subseteq Issued' /\ \A rc : PaidFor(rc) => PaidFor(rc)'
PROOF
  BY DEF TablesGrow, Issued, PaidFor, MeltsFor

LEMMA HandlerStays ==
    ASSUME TablesGrow, NEW r, HandlerOK(r), phase'[r] = phase[r]
    PROVE  HandlerOK(r)'
PROOF
  BY IssuedGrows DEF HandlerOK

LEMMA HandlerEnds ==
    ASSUME NEW r, phase'[r] = "idle"
    PROVE  HandlerOK(r)'
PROOF
  BY DEF HandlerOK

(* The checks before the first transaction establish what is relied on.    *)
LEMMA EntryOK ==
    ASSUME WellFormed, NEW r \in Requests, Entry(r) # "refused"
    PROVE  /\ Entry(r) \in Phases
           /\ Entry(r) \in {"know", "zknow"} =>
                 r.op \in {"deposit", "melt", "recoup"}
           /\ r.op \in {"deposit", "melt", "recoup"} => r.coin \in Issued
           /\ r.op = "deposit" => FeeDeposit[DenomOf[r.coin]] <= r.amt
           /\ r.op = "melt" /\ Entry(r) \in {"txn", "ztxn"}
                 => FeeRefresh[DenomOf[r.coin]] <= r.amt
           /\ r.op = "refund" => FeeRefund[DenomOf[r.coin]] <= r.amt
           /\ Entry(r) # "persist"
PROOF
<1> USE DenominationsAssumption, CoinsAssumption, AmountsAssumption,
        RequestsAssumption
<1>0. r.op \in Ops
  OBVIOUS
<1>1. CASE r.op = "withdraw"
  <2>1. Entry(r) = WithdrawEntry(r)
    BY <1>1 DEF Entry
  <2> QED
    BY <1>1, <2>1 DEF WithdrawEntry, Phases
<1>2. CASE r.op = "deposit"
  <2>1. Entry(r) = DepositEntry(r)
    BY <1>2 DEF Entry
  <2> QED
    BY <1>2, <2>1 DEF DepositEntry, Phases
<1>3. CASE r.op = "melt"
  <2>1. Entry(r) = MeltEntry(r)
    BY <1>3 DEF Entry
  <2> DEFINE d == DenomOf[r.coin]
             dirty == LookupRecoup(d) /\ r.coin \in known_coins
  <2>2. r.coin \in Issued
    BY <2>1 DEF MeltEntry
  <2>3. MeltEntry(r) = IF LookupDeposit(d) THEN "know"
                       ELSE IF dirty THEN IF r.amt < FeeRefresh[d]
                                          THEN "refused" ELSE "txn"
                       ELSE IF LookupZombie(d) THEN "zknow" ELSE "refused"
    <3>1. ~(LookupDeposit(d) /\ dirty)
      BY DEF LookupDeposit, LookupRecoup
    <3> QED
      BY <2>2, <3>1 DEF MeltEntry
  <2>4. r.amt \in Nat /\ FeeRefresh[d] \in Nat
    BY <1>3
  <2> QED
    BY <1>3, <2>1, <2>2, <2>3, <2>4 DEF Phases
<1>4. CASE r.op = "reveal"
  <2>1. Entry(r) = RevealEntry(r)
    BY <1>4 DEF Entry
  <2> QED
    BY <1>4, <2>1 DEF RevealEntry, Phases
<1>5. CASE r.op = "refund"
  <2>1. Entry(r) = RefundEntry(r)
    BY <1>5 DEF Entry
  <2>2. /\ r.amt \in Nat /\ r.fee \in Nat
        /\ FeeRefund[DenomOf[r.coin]] \in Nat
    BY <1>5
  <2> QED
    BY <1>5, <2>1, <2>2 DEF RefundEntry, Phases
<1>6. CASE r.op = "recoup"
  <2>1. Entry(r) = RecoupEntry(r)
    BY <1>6 DEF Entry
  <2> QED
    BY <1>6, <2>1 DEF RecoupEntry, Phases
<1> QED
  BY <1>0, <1>1, <1>2, <1>3, <1>4, <1>5, <1>6 DEF Ops

---------------------------------------------------------------------------
(* A step of one handler moves this handler only, to a phase it may be in. *)

LEMMA HandlerMoves ==
    ASSUME WellFormed, NEW r \in Requests, Handler(r)
    PROVE  \E p \in Phases : /\ phase' = [phase EXCEPT ![r] = p]
                            /\ HandlerOK(r)'
PROOF
<1> USE DenominationsAssumption, CoinsAssumption, AmountsAssumption,
        RequestsAssumption
<1>0. /\ phase \in [Requests -> Phases] /\ HandlerOK(r) /\ TablesGrow
      /\ \A p : phase' = [phase EXCEPT ![r] = p] => phase'[r] = p
  BY HandlerGrows DEF WellFormed, TypeOK, HandlersOK, Next
<1>1. CASE phase' = [phase EXCEPT ![r] = "idle"]
  BY <1>0, <1>1, HandlerEnds DEF Phases
<1>2. CASE Receive(r)
  <2>1. phase' = [phase EXCEPT ![r] = Entry(r)] /\ Entry(r) # "refused"
    BY <1>2 DEF Receive, Goto
  <2>2. phase'[r] = Entry(r)
    BY <1>0, <2>1
  <2>3. Issued \subseteq Issued'
    BY <1>0, IssuedGrows
  <2>4. HandlerOK(r)'
    BY <2>1, <2>2, <2>3, EntryOK DEF HandlerOK
  <2> QED
    BY <2>1, <2>4, EntryOK
<1>3. CASE KnowCoin(r)
  <2>1. SUFFICES ASSUME ~(phase' = [phase EXCEPT ![r] = "idle"])
                 PROVE  \E p \in Phases : /\ phase' = [phase EXCEPT ![r] = p]
                                         /\ HandlerOK(r)'
    BY <1>1
  <2> DEFINE p == IF phase[r] = "know" THEN "txn" ELSE "ztxn"
  <2>2. /\ phase' = [phase EXCEPT ![r] = p]
        /\ ~(r.op = "melt" /\ r.amt < FeeRefresh[DenomOf[r.coin]])
        /\ phase[r] \in {"know", "zknow"}
    BY <1>3, <2>1 DEF KnowCoin, Goto, Reply, Answer
  <2>3. phase'[r] = p /\ p \in {"txn", "ztxn"}
    BY <1>0, <2>2
  <2>4. r.op = "melt" => r.amt \in Nat /\ FeeRefresh[DenomOf[r.coin]] \in Nat
    OBVIOUS
  <2>5. Issued \subseteq Issued'
    BY <1>0, IssuedGrows
  <2> HIDE DEF p
  <2>6. HandlerOK(r)'
    BY <1>0, <2>2, <2>3, <2>4, <2>5 DEF HandlerOK
  <2> QED
    BY <2>2, <2>3, <2>6 DEF Phases
<1>4. CASE RevealPreflight(r) \/ RevealAgain(r) \/ RevealVerify(r)
  <2>1. SUFFICES ASSUME ~(phase' = [phase EXCEPT ![r] = "idle"])
                 PROVE  \E p \in Phases : /\ phase' = [phase EXCEPT ![r] = p]
                                         /\ HandlerOK(r)'
    BY <1>1
  <2>2. PICK p \in {"verify", "preflight", "persist"} :
            /\ phase' = [phase EXCEPT ![r] = p]
            /\ p = "persist" => PaidFor(r.rc)
    BY <1>4, <2>1 DEF RevealPreflight, RevealAgain, RevealVerify, Goto, Reply,
         Answer, PaidFor
  <2>3. phase'[r] = p /\ r.op = "reveal"
    BY <1>0, <1>4, <2>2 DEF RevealPreflight, RevealAgain, RevealVerify
  <2>4. PaidFor(r.rc) => PaidFor(r.rc)'
    BY <1>0, IssuedGrows
  <2>5. HandlerOK(r)'
    BY <2>2, <2>3, <2>4 DEF HandlerOK
  <2> QED
    BY <2>2, <2>5 DEF Phases
<1>5. CASE \/ Refuse(r) \/ TransactionFails(r) \/ Withdraw(r) \/ Deposit(r)
           \/ MeltReplay(r) \/ MeltRefused(r) \/ Melt(r) \/ RevealPersist(r)
           \/ Refund(r) \/ Recoup(r) \/ RecoupNothing(r)
  <2>1. phase' = [phase EXCEPT ![r] = "idle"]
    BY <1>5, Zenon DEF Refuse, TransactionFails, Withdraw, Deposit, MeltReplay,
         MeltRefused, Melt, RevealPersist, Refund, Recoup, RecoupNothing,
         Reply, Answer
  <2> QED
    BY <1>1, <2>1
<1> QED
  BY <1>2, <1>3, <1>4, <1>5 DEF Handler

(* The answers and histories of a handler's step keep their types.         *)
LEMMA HistoriesStep ==
    ASSUME WellFormed, NEW r \in Requests, Handler(r)
    PROVE  /\ acked' \subseteq Requests
           /\ told' \in [Rcs -> SUBSET (0..(Kappa - 1))]
           /\ late' \subseteq Coins
           /\ UNCHANGED <<revoked, era>>
PROOF
<1> USE RequestsAssumption
<1>0. /\ acked \subseteq Requests /\ late \subseteq Coins
      /\ told \in [Rcs -> SUBSET (0..(Kappa - 1))]
      /\ refresh_commitments \subseteq MeltRow
  BY DEF WellFormed, TypeOK, TablesTypeOK
<1>1. acked' \subseteq Requests
  <2>1. acked' = acked \/ acked' = acked \cup {r}
    BY Zenon DEF Handler, Receive, Refuse, KnowCoin, TransactionFails, Withdraw,
       Deposit, MeltReplay, MeltRefused, Melt, RevealPreflight, RevealVerify,
       RevealPersist, RevealAgain, Refund, Recoup, RecoupNothing,
       Goto, Reply, Answer
  <2> QED
    BY <1>0, <2>1
<1>2. CASE Melt(r) \/ MeltReplay(r)
  <2>1. PICK i \in 0..(Kappa - 1) : told' = [told EXCEPT ![r.rc] = @ \cup {i}]
    BY <1>0, <1>2 DEF Melt, MeltReplay, MeltsFor, MeltRow
  <2>2. /\ r.rc \in Rcs /\ late' = late /\ UNCHANGED <<revoked, era>>
    BY <1>2 DEF Melt, MeltReplay
  <2> QED
    BY <1>0, <1>1, <2>1, <2>2
<1>3. CASE Deposit(r)
  <2>1. /\ r.coin \in Coins /\ told' = told /\ UNCHANGED <<revoked, era>>
        /\ late' = late \/ late' = late \cup {r.coin}
    BY <1>3 DEF Deposit
  <2> QED
    BY <1>0, <1>1, <2>1
<1>4. CASE ~Melt(r) /\ ~MeltReplay(r) /\ ~Deposit(r)
  <2>1. UNCHANGED <<told, late, revoked, era>>
    BY <1>4, Zenon DEF Handler, Receive, Refuse, KnowCoin, TransactionFails,
       Withdraw, MeltRefused, RevealPreflight, RevealVerify, RevealPersist,
       RevealAgain, Refund, Recoup, RecoupNothing, Goto, Reply
  <2> QED
    BY <1>0, <1>1, <2>1
<1> QED
  BY <1>2, <1>3, <1>4

LEMMA WellFormedStep ==
    ASSUME WellFormed, [Next]_vars
    PROVE  WellFormed'
PROOF
<1>1. CASE UNCHANGED vars
  BY <1>1 DEF vars, tables, WellFormed, TypeOK, TablesTypeOK, FiniteTables,
       HandlersOK, HandlerOK, Issued, PaidFor, MeltsFor
<1>2. ASSUME Next PROVE TablesOK' /\ TablesGrow
  BY <1>2, TablesStep, HandlerGrows
<1>3. ASSUME NEW r \in Requests, Handler(r)
      PROVE  WellFormed'
  <2>1. PICK p \in Phases : phase' = [phase EXCEPT ![r] = p] /\ HandlerOK(r)'
    BY <1>3, HandlerMoves
  <2>2. Next
    BY <1>3 DEF Next
  <2>3. phase \in [Requests -> Phases]
    BY DEF WellFormed, TypeOK
  <2>4. HandlersOK'
    <3>1. ASSUME NEW q \in Requests, q # r
          PROVE  HandlerOK(q)'
      <4>1. phase'[q] = phase[q]
        BY <2>1, <2>3, <3>1
      <4>2. HandlerOK(q) /\ TablesGrow
        BY <1>2, <2>2 DEF WellFormed, HandlersOK
      <4> QED
        BY <4>1, <4>2, HandlerStays
    <3> QED
      BY <2>1, <3>1 DEF HandlersOK
  <2>5. TypeOK' /\ FiniteTables'
    <3>1. phase' \in [Requests -> Phases]
      BY <2>1, <2>3
    <3> QED
      BY <1>2, <1>3, <2>2, <3>1, HistoriesStep DEF TypeOK, WellFormed, TablesOK
  <2> QED
    BY <2>4, <2>5 DEF WellFormed
<1>4. ASSUME NEW d, Revoke(d) \/ Expire(d) \/ Aggregate(d),
             Next, Revoke(d) \/ Expire(d) => d \in Denoms
      PROVE  WellFormed'
  <2>1. UNCHANGED <<phase, acked, told, late>>
    BY <1>4 DEF Revoke, Expire, Aggregate
  <2>2. HandlersOK'
    <3>1. ASSUME NEW q \in Requests PROVE HandlerOK(q)'
      <4>1. HandlerOK(q) /\ TablesGrow /\ phase'[q] = phase[q]
        BY <1>2, <1>4, <2>1 DEF WellFormed, HandlersOK
      <4> QED
        BY <4>1, HandlerStays
    <3> QED
      BY <3>1 DEF HandlersOK
  <2>3. /\ revoked' \subseteq Denoms
        /\ era' \in [Denoms -> 0..3]
        /\ \A e \in Denoms : era'[e] <= MaxEra[e]
    BY <1>4, BoundsAssumption
       DEF Revoke, Expire, Aggregate, WellFormed, TypeOK
  <2>4. TypeOK' /\ FiniteTables'
    BY <1>2, <1>4, <2>1, <2>3 DEF TypeOK, WellFormed, TablesOK
  <2> QED
    BY <2>2, <2>4 DEF WellFormed
<1>5. ASSUME NEW d \in Denoms, Revoke(d) \/ Expire(d)
      PROVE  WellFormed'
  BY <1>4, <1>5 DEF Next
<1>6. ASSUME NEW d \in deposits, Aggregate(d)
      PROVE  WellFormed'
  <2>1. ~Revoke(d) /\ ~Expire(d)
    BY <1>6 DEF Aggregate, Revoke, Expire, MarkDepositDone, DepositDone, tables
  <2> QED
    BY <1>4, <1>6, <2>1 DEF Next
<1> QED
  BY <1>1, <1>3, <1>5, <1>6 DEF Next

LEMMA WellFormedInit ==
    ASSUME Init
    PROVE  WellFormed
PROOF
<1> USE BoundsAssumption, AmountsAssumption
<1>1. IsFiniteSet({})
  BY FS_EmptySet
<1>2. TypeOK
  BY DEF Init, TypeOK, TablesTypeOK, Phases
<1>3. FiniteTables
  BY <1>1 DEF Init, FiniteTables
<1>4. HandlersOK
  BY DEF Init, HandlersOK, HandlerOK
<1> QED
  BY <1>2, <1>3, <1>4 DEF WellFormed

LEMMA AlwaysWellFormed == Spec => []WellFormed
PROOF
  BY WellFormedInit, WellFormedStep, PTL DEF Spec

(* The tables and the handlers keep their types, whatever requests come    *)
(* in and however the handlers interleave.                                 *)
THEOREM TypeCorrect == Spec => []TypeOK
PROOF
<1>1. WellFormed => TypeOK
  BY DEF WellFormed
<1> QED
  BY <1>1, AlwaysWellFormed, PTL

---------------------------------------------------------------------------
(* The changes a step can make to the tables that hold money, with what is *)
(* known when they are made.                                               *)

\* A coin is withdrawn.
Withdrawn(c) ==
    /\ c \in Coins \ reserves_out
    /\ InsertWithdraw(c)
    /\ UNCHANGED <<deposits, refunds, refresh_commitments, refresh_revealed,
                   recoup, recoup_refresh, late>>

\* A deposit is stored.
Deposited(d) ==
    /\ d \in DepositRow /\ d.coin \in Issued
    /\ FeeDeposit[DenomOf[d.coin]] <= d.amt
    /\ TransactionTotals(d.coin, FALSE, d.amt) \in 0..Value[DenomOf[d.coin]]
    /\ DepositsFor(d.coin, d.contract) = {}
    /\ deposits' = deposits \cup {d}
    /\ late' = IF RecoupsOf(d.coin) \cup RecoupRefreshesOf(d.coin) # {}
               THEN late \cup {d.coin} ELSE late
    /\ UNCHANGED <<reserves, reserves_out, refunds, refresh_commitments,
                   refresh_revealed, recoup, recoup_refresh>>

\* A coin is melted.
Melted(m) ==
    /\ m \in MeltRow /\ m.coin \in Issued
    /\ FeeRefresh[DenomOf[m.coin]] <= m.amt
    /\ TransactionTotals(m.coin, TRUE, m.amt) \in 0..Value[DenomOf[m.coin]]
    /\ MeltsFor(m.rc) = {}
    /\ refresh_commitments' = refresh_commitments \cup {m}
    /\ UNCHANGED <<reserves, reserves_out, deposits, refunds,
                   refresh_revealed, recoup, recoup_refresh, late>>

\* The fresh coins of a melt are signed.
Revealed(rc) ==
    /\ rc \in Rcs /\ PaidFor(rc)
    /\ refresh_revealed' = refresh_revealed \cup {rc}
    /\ UNCHANGED <<reserves, reserves_out, deposits, refunds,
                   refresh_commitments, recoup, recoup_refresh, late>>

\* A refund is granted.
Refunding(f) ==
    /\ f \in RefundRow
    /\ FeeRefund[DenomOf[f.coin]] <= f.amt
    /\ RefundsFor(f.coin, f.contract) = {}
    /\ <<f.coin, f.contract>> \notin done
    /\ \E d \in DepositsFor(f.coin, f.contract) : f.amt <= d.amt
    /\ refunds' = refunds \cup {f}
    /\ UNCHANGED <<reserves, reserves_out, deposits, refresh_commitments,
                   refresh_revealed, recoup, recoup_refresh, late>>

\* What is left on a coin goes to its reserve,
Recouped(c, a) ==
    /\ c \in Coins /\ c \in reserves_out
    /\ TransactionTotals(c, TRUE, 0) >= 0
    /\ a \in 1..Value[DenomOf[c]]
    /\ a = Value[DenomOf[c]] - TransactionTotals(c, TRUE, 0)
    /\ InsertRecoupRequest(c, a)
    /\ UNCHANGED <<reserves_out, deposits, refunds, refresh_commitments,
                   refresh_revealed, recoup_refresh, late>>

\* or to the coin it was refreshed from.
RecoupRefreshed(c, a) ==
    /\ c \in Coins /\ \E rc \in refresh_revealed : c \in FreshOf[rc]
    /\ TransactionTotals(c, TRUE, 0) >= 0
    /\ a \in 1..Value[DenomOf[c]]
    /\ a = Value[DenomOf[c]] - TransactionTotals(c, TRUE, 0)
    /\ InsertRecoupRefreshRequest(c, a)
    /\ UNCHANGED <<reserves, reserves_out, deposits, refunds,
                   refresh_commitments, refresh_revealed, recoup, late>>

ledger == <<reserves, reserves_out, deposits, refunds, refresh_commitments,
            refresh_revealed, recoup, recoup_refresh, late>>

LedgerStep ==
    \/ UNCHANGED ledger
    \/ \E c : Withdrawn(c)
    \/ \E d : Deposited(d)
    \/ \E m : Melted(m)
    \/ \E rc : Revealed(rc)
    \/ \E f : Refunding(f)
    \/ \E c, a : Recouped(c, a)
    \/ \E c, a : RecoupRefreshed(c, a)

(* Every step is one of these.                                             *)
LEMMA StepOfLedger ==
    ASSUME WellFormed, [Next]_vars
    PROVE  LedgerStep
PROOF
<1> USE DenominationsAssumption, CoinsAssumption, AmountsAssumption,
        RequestsAssumption
<1>1. CASE UNCHANGED vars
  BY <1>1 DEF vars, tables, ledger, LedgerStep
<1>2. ASSUME NEW r \in Requests, Withdraw(r)
      PROVE  LedgerStep
  <2>1. CASE UNCHANGED <<reserves, reserves_out>>
    BY <1>2, <2>1 DEF Withdraw, Reply, ledger, LedgerStep
  <2>2. CASE r.coin \notin reserves_out /\ InsertWithdraw(r.coin)
    <3>1. Withdrawn(r.coin)
      BY <1>2, <2>2 DEF Withdraw, Reply, Withdrawn
    <3> QED
      BY <3>1 DEF LedgerStep
  <2> QED
    BY <1>2, <2>1, <2>2 DEF Withdraw
<1>3. ASSUME NEW r \in Requests, Deposit(r)
      PROVE  LedgerStep
  <2> DEFINE stored == DepositAccepted(r) /\ ~DepositConflict(r)
             d == [coin |-> r.coin, contract |-> r.contract,
                   terms |-> r.terms, amt |-> r.amt]
  <2>1. CASE ~stored
    BY <1>3, <2>1 DEF Deposit, ledger, LedgerStep
  <2>2. CASE stored
    <3>1. /\ deposits' = deposits \cup {d}
          /\ late' = IF RecoupsOf(r.coin) \cup RecoupRefreshesOf(r.coin) # {}
                     THEN late \cup {r.coin} ELSE late
          /\ UNCHANGED <<reserves, reserves_out, refunds, refresh_commitments,
                         refresh_revealed, recoup, recoup_refresh>>
      BY <1>3, <2>2 DEF Deposit, InsertDeposit
    <3>2. /\ d \in DepositRow /\ d.coin = r.coin /\ d.amt = r.amt
          /\ d.contract = r.contract
      BY <1>3 DEF Deposit, DepositRow
    <3>3. r.coin \in Issued /\ FeeDeposit[DenomOf[r.coin]] <= r.amt
      BY <1>3 DEF Deposit, WellFormed, HandlersOK, HandlerOK
    <3>4. TransactionTotals(r.coin, FALSE, r.amt) \in 0..Value[DenomOf[r.coin]]
      BY <2>2 DEF DepositAccepted, DepositSpent
    <3>5. DepositsFor(r.coin, r.contract) = {}
      BY <2>2 DEF DepositConflict, DepositsFor
    <3> HIDE DEF d
    <3>6. Deposited(d)
      BY <3>1, <3>2, <3>3, <3>4, <3>5 DEF Deposited
    <3> QED
      BY <3>6 DEF LedgerStep
  <2> QED
    BY <2>1, <2>2
<1>4. ASSUME NEW r \in Requests, Melt(r)
      PROVE  LedgerStep
  <2>1. PICK idx \in 0..(Kappa - 1) : InsertMelt(r, idx)
    BY <1>4 DEF Melt
  <2> DEFINE m == [rc |-> r.rc, coin |-> r.coin, amt |-> r.amt, idx |-> idx]
  <2>2. /\ m \in MeltRow /\ m.coin = r.coin /\ m.amt = r.amt /\ m.rc = r.rc
    BY <1>4 DEF Melt, MeltRow
  <2>3. r.coin \in Issued /\ FeeRefresh[DenomOf[r.coin]] <= r.amt
    BY <1>4 DEF Melt, WellFormed, HandlersOK, HandlerOK
  <2>4. /\ TransactionTotals(r.coin, TRUE, r.amt) \in 0..Value[DenomOf[r.coin]]
        /\ MeltsFor(r.rc) = {}
        /\ UNCHANGED <<reserves, reserves_out, deposits, refunds,
                       refresh_revealed, recoup, recoup_refresh, late>>
    BY <1>4 DEF Melt, MeltAccepted, MeltSpent
  <2>5. refresh_commitments' = refresh_commitments \cup {m}
    BY <2>1 DEF InsertMelt
  <2> HIDE DEF m
  <2>6. Melted(m)
    BY <2>2, <2>3, <2>4, <2>5 DEF Melted
  <2> QED
    BY <2>6 DEF LedgerStep
<1>5. ASSUME NEW r \in Requests, RevealPersist(r)
      PROVE  LedgerStep
  <2>1. Revealed(r.rc)
    BY <1>5 DEF RevealPersist, InsertRefreshReveal, Reply, Revealed,
         WellFormed, HandlersOK, HandlerOK
  <2> QED
    BY <2>1 DEF LedgerStep
<1>6. ASSUME NEW r \in Requests, Refund(r)
      PROVE  LedgerStep
  <2> DEFINE f == [coin |-> r.coin, contract |-> r.contract,
                   rtid |-> r.rtid, amt |-> r.amt]
  <2>1. CASE ~RefundAccepted(r)
    BY <1>6, <2>1 DEF Refund, Reply, ledger, LedgerStep
  <2>2. CASE RefundAccepted(r)
    <3>1. /\ refunds' = refunds \cup {f}
          /\ UNCHANGED <<reserves, reserves_out, deposits, refresh_commitments,
                         refresh_revealed, recoup, recoup_refresh, late>>
      BY <1>6, <2>2 DEF Refund, Reply, InsertRefund
    <3>2. /\ f \in RefundRow /\ f.coin = r.coin /\ f.amt = r.amt
          /\ f.contract = r.contract
      BY <1>6 DEF Refund, RefundRow
    <3>3. FeeRefund[DenomOf[r.coin]] <= r.amt
      BY <1>6 DEF Refund, WellFormed, HandlersOK, HandlerOK
    <3> HIDE DEF f
    <3>4. Refunding(f)
      BY <2>2, <3>1, <3>2, <3>3 DEF Refunding, RefundAccepted, DepositDone
    <3> QED
      BY <3>4 DEF LedgerStep
  <2> QED
    BY <2>1, <2>2
<1>7. ASSUME NEW r \in Requests, Recoup(r)
      PROVE  LedgerStep
  <2> DEFINE a == RecoupAmount(r)
  <2>1. /\ r.coin \in Coins
        /\ TransactionTotals(r.coin, TRUE, 0) >= 0
        /\ a \in 1..Value[DenomOf[r.coin]]
        /\ a = Value[DenomOf[r.coin]] - TransactionTotals(r.coin, TRUE, 0)
        /\ UNCHANGED <<reserves_out, deposits, refunds, refresh_commitments,
                       refresh_revealed, late>>
    BY <1>7 DEF Recoup, RecoupAmount, RecoupSpent, Reply
  <2>2. \/ /\ InsertRecoupRefreshRequest(r.coin, a)
           /\ UNCHANGED <<recoup, reserves>>
           /\ \E rc \in refresh_revealed : r.coin \in FreshOf[rc]
        \/ /\ InsertRecoupRequest(r.coin, a)
           /\ UNCHANGED recoup_refresh
           /\ r.coin \in reserves_out
    BY <1>7 DEF Recoup, RecoupTargetFound
  <2> HIDE DEF a
  <2>3. Recouped(r.coin, a) \/ RecoupRefreshed(r.coin, a)
    BY <2>1, <2>2 DEF Recouped, RecoupRefreshed
  <2> QED
    BY <2>3 DEF LedgerStep
<1>8. ASSUME NEW r \in Requests,
             \/ Receive(r) \/ Refuse(r) \/ TransactionFails(r)
             \/ MeltReplay(r) \/ MeltRefused(r)
             \/ RevealPreflight(r) \/ RevealVerify(r) \/ RevealAgain(r)
             \/ RecoupNothing(r) \/ KnowCoin(r)
      PROVE  LedgerStep
  <2>1. UNCHANGED ledger
    BY <1>8, Zenon DEF Receive, Refuse, TransactionFails, MeltReplay,
         MeltRefused, RevealPreflight, RevealVerify, RevealAgain,
         RecoupNothing, KnowCoin, Reply, Goto, tables, ledger
  <2> QED
    BY <2>1 DEF LedgerStep
<1>9. ASSUME NEW d, Revoke(d) \/ Expire(d) \/ Aggregate(d)
      PROVE  LedgerStep
  BY <1>9 DEF Revoke, Expire, Aggregate, tables, ledger, LedgerStep
<1> QED
  BY <1>1, <1>2, <1>3, <1>4, <1>5, <1>6, <1>7, <1>8, <1>9 DEF Next, Handler

---------------------------------------------------------------------------
(* Which rows go with which: the keys of the tables are unique, rows are   *)
(* about coins that were issued, a revealed commitment was paid for.       *)

DepositsOK ==
    /\ \A d \in deposits : /\ d.coin \in Issued
                           /\ FeeDeposit[DenomOf[d.coin]] <= d.amt
    /\ \A d, e \in deposits :
          d.coin = e.coin /\ d.contract = e.contract => d = e

MeltsOK ==
    /\ \A m \in refresh_commitments : /\ m.coin \in Issued
                                      /\ FeeRefresh[DenomOf[m.coin]] <= m.amt
    /\ \A m, n \in refresh_commitments : m.rc = n.rc => m = n
    /\ \A rc \in refresh_revealed : PaidFor(rc)

RefundsOK ==
    /\ \A f \in refunds : FeeRefund[DenomOf[f.coin]] <= f.amt
    /\ RefundsWithinDeposits

RecoupsOK ==
    /\ \A p \in recoup : p.coin \in Issued /\ p.uuid <= Cardinality(recoup)
    /\ \A p \in recoup_refresh :
          /\ \E rc \in refresh_revealed : p.coin \in FreshOf[rc]
          /\ p.uuid <= Cardinality(recoup_refresh)

RowsOK == DepositsOK /\ MeltsOK /\ RefundsOK /\ RecoupsOK

CoinInv == WellFormed /\ RowsOK

(* A new row of a recoup table gets a number no row has.                   *)
LEMMA FreshUuid ==
    ASSUME NEW S, IsFiniteSet(S), \A p \in S : p.uuid <= Cardinality(S),
           NEW x, x.uuid = NextUuid(S)
    PROVE  /\ x \notin S
           /\ \A p \in S \cup {x} : p.uuid \in Nat =>
                                     p.uuid <= Cardinality(S \cup {x})
PROOF
<1>1. Cardinality(S) \in Nat
  BY FS_CardinalityType
<1>2. x \notin S
  BY <1>1 DEF NextUuid
<1>3. Cardinality(S \cup {x}) = Cardinality(S) + 1
  BY <1>2, FS_AddElement
<1> QED
  BY <1>1, <1>2, <1>3 DEF NextUuid

LEMMA RowsStep ==
    ASSUME CoinInv, LedgerStep, TablesGrow, WellFormed'
    PROVE  RowsOK'
PROOF
<1>0. /\ Issued \subseteq Issued' /\ \A rc : PaidFor(rc) => PaidFor(rc)'
      /\ RowsOK /\ TablesTypeOK /\ TablesTypeOK' /\ FiniteTables
  BY IssuedGrows DEF CoinInv, WellFormed, TypeOK
<1>1. DepositsOK'
  <2>1. CASE UNCHANGED deposits
    BY <1>0, <2>1 DEF RowsOK, DepositsOK
  <2>2. ASSUME NEW d, Deposited(d)
        PROVE  DepositsOK'
    <3>1. /\ deposits' = deposits \cup {d} /\ d.coin \in Issued
          /\ FeeDeposit[DenomOf[d.coin]] <= d.amt
          /\ \A e \in deposits : ~(e.coin = d.coin /\ e.contract = d.contract)
      BY <2>2 DEF Deposited, DepositsFor
    <3> QED
      BY <1>0, <3>1 DEF RowsOK, DepositsOK
  <2> QED
    BY <2>1, <2>2 DEF LedgerStep, ledger, Withdrawn, Melted, Revealed, Refunding,
         Recouped, RecoupRefreshed
<1>2. MeltsOK'
  <2>1. CASE UNCHANGED <<refresh_commitments, refresh_revealed>>
    BY <1>0, <2>1 DEF RowsOK, MeltsOK
  <2>2. ASSUME NEW m, Melted(m)
        PROVE  MeltsOK'
    <3>1. /\ refresh_commitments' = refresh_commitments \cup {m}
          /\ m.coin \in Issued /\ FeeRefresh[DenomOf[m.coin]] <= m.amt
          /\ \A n \in refresh_commitments : n.rc # m.rc
          /\ UNCHANGED refresh_revealed
      BY <2>2 DEF Melted, MeltsFor
    <3> QED
      BY <1>0, <3>1 DEF RowsOK, MeltsOK
  <2>3. ASSUME NEW rc, Revealed(rc)
        PROVE  MeltsOK'
    BY <1>0, <2>3 DEF Revealed, RowsOK, MeltsOK
  <2> QED
    BY <2>1, <2>2, <2>3 DEF LedgerStep, ledger, Withdrawn, Deposited, Refunding,
         Recouped, RecoupRefreshed
<1>3. RefundsOK'
  <2>1. CASE UNCHANGED refunds
    BY <1>0, <2>1 DEF RowsOK, RefundsOK, RefundsWithinDeposits, RefundsFor,
         DepositsFor, TablesGrow
  <2>2. ASSUME NEW f, Refunding(f)
        PROVE  RefundsOK'
    <3>1. /\ refunds' = refunds \cup {f}
          /\ FeeRefund[DenomOf[f.coin]] <= f.amt
          /\ RefundsFor(f.coin, f.contract) = {}
          /\ \E d \in DepositsFor(f.coin, f.contract) : f.amt <= d.amt
          /\ UNCHANGED deposits
      BY <2>2 DEF Refunding
    <3>2. RefundsFor(f.coin, f.contract)' = {f}
      BY <3>1 DEF RefundsFor
    <3>3. \A g \in refunds : RefundsFor(g.coin, g.contract)' = {g}
      <4> TAKE g \in refunds
      <4>1. RefundsFor(g.coin, g.contract) = {g}
        BY <1>0 DEF RowsOK, RefundsOK, RefundsWithinDeposits
      <4>2. ~(f.coin = g.coin /\ f.contract = g.contract)
        BY <3>1 DEF RefundsFor
      <4> QED
        BY <3>1, <4>1, <4>2 DEF RefundsFor
    <3>4. \A g \in refunds' :
            \E d \in DepositsFor(g.coin, g.contract)' : g.amt <= d.amt
      BY <1>0, <3>1
         DEF RowsOK, RefundsOK, RefundsWithinDeposits, DepositsFor
    <3> QED
      BY <1>0, <3>1, <3>2, <3>3, <3>4
         DEF RowsOK, RefundsOK, RefundsWithinDeposits
  <2> QED
    BY <2>1, <2>2 DEF LedgerStep, ledger, Withdrawn, Deposited, Melted, Revealed,
         Recouped, RecoupRefreshed
<1>4. RecoupsOK'
  <2>1. CASE UNCHANGED <<recoup, recoup_refresh>>
    BY <1>0, <2>1 DEF RowsOK, RecoupsOK, TablesGrow
  <2>2. ASSUME NEW c, NEW a, Recouped(c, a)
        PROVE  RecoupsOK'
    <3> DEFINE x == [coin |-> c, amt |-> a, uuid |-> NextUuid(recoup)]
    <3>1. /\ recoup' = recoup \cup {x} /\ UNCHANGED recoup_refresh
          /\ x.uuid = NextUuid(recoup) /\ x.coin \in Issued
      BY <2>2 DEF Recouped, InsertRecoupRequest, Issued
    <3>2. IsFiniteSet(recoup) /\ \A p \in recoup : p.uuid <= Cardinality(recoup)
      BY <1>0 DEF FiniteTables, RowsOK, RecoupsOK
    <3> HIDE DEF x
    <3>3. \A p \in recoup \cup {x} : p.uuid \in Nat =>
                                      p.uuid <= Cardinality(recoup \cup {x})
      BY ONLY <3>1, <3>2, FreshUuid
    <3>4. \A p \in recoup' : p.uuid \in Nat
      BY <1>0 DEF TablesTypeOK, RecoupRow
    <3> QED
      BY <1>0, <3>1, <3>3, <3>4 DEF RowsOK, RecoupsOK, TablesGrow
  <2>3. ASSUME NEW c, NEW a, RecoupRefreshed(c, a)
        PROVE  RecoupsOK'
    <3> DEFINE x == [coin |-> c, amt |-> a, uuid |-> NextUuid(recoup_refresh)]
    <3>1. /\ recoup_refresh' = recoup_refresh \cup {x} /\ UNCHANGED recoup
          /\ x.uuid = NextUuid(recoup_refresh)
          /\ \E rc \in refresh_revealed : x.coin \in FreshOf[rc]
      BY <2>3 DEF RecoupRefreshed, InsertRecoupRefreshRequest
    <3>2. /\ IsFiniteSet(recoup_refresh)
          /\ \A p \in recoup_refresh : p.uuid <= Cardinality(recoup_refresh)
      BY <1>0 DEF FiniteTables, RowsOK, RecoupsOK
    <3> HIDE DEF x
    <3>3. \A p \in recoup_refresh \cup {x} : p.uuid \in Nat =>
                p.uuid <= Cardinality(recoup_refresh \cup {x})
      BY ONLY <3>1, <3>2, FreshUuid
    <3>4. \A p \in recoup_refresh' : p.uuid \in Nat
      BY <1>0 DEF TablesTypeOK, RecoupRow
    <3> QED
      BY <1>0, <3>1, <3>3, <3>4 DEF RowsOK, RecoupsOK, TablesGrow
  <2> QED
    BY <2>1, <2>2, <2>3 DEF LedgerStep, ledger, Withdrawn, Deposited, Melted,
         Revealed, Refunding
<1> QED
  BY <1>1, <1>2, <1>3, <1>4 DEF RowsOK

LEMMA AlwaysCoinInv == Spec => []CoinInv
PROOF
<1>1. Init => CoinInv
  <2> SUFFICES ASSUME Init PROVE CoinInv
    OBVIOUS
  <2>1. RowsOK
    BY DEF Init, RowsOK, DepositsOK, MeltsOK, RefundsOK, RecoupsOK,
         RefundsWithinDeposits
  <2> QED
    BY <2>1, WellFormedInit DEF CoinInv
<1>2. CoinInv /\ [Next]_vars => CoinInv'
  <2> SUFFICES ASSUME CoinInv, [Next]_vars PROVE CoinInv'
    OBVIOUS
  <2>1. WellFormed' /\ LedgerStep
    BY WellFormedStep, StepOfLedger DEF CoinInv
  <2>2. TablesGrow
    <3>1. CASE UNCHANGED vars
      BY <3>1 DEF vars, tables, TablesGrow
    <3> QED
      BY <3>1, HandlerGrows
  <2> QED
    BY <2>1, <2>2, RowsStep DEF CoinInv
<1> QED
  BY <1>1, <1>2, PTL DEF Spec

---------------------------------------------------------------------------
(* One refund per deposit, and not more than was deposited, whatever       *)
(* refund requests and other transactions come in between.                 *)
THEOREM RefundsAlwaysWithinDeposits == Spec => []RefundsWithinDeposits
PROOF
<1>1. CoinInv => RefundsWithinDeposits
  BY DEF CoinInv, RowsOK, RefundsOK
<1> QED
  BY <1>1, AlwaysCoinInv, PTL

(* Once a deposit is part of a transfer its refunds no longer change.      *)
THEOREM PaidAlwaysFinal == Spec => PaidIsFinal
PROOF
<1>1. CoinInv /\ [Next]_vars
        => [\A p \in done : RefundsFor(p[1], p[2])' = RefundsFor(p[1], p[2])]_vars
  <2> SUFFICES ASSUME CoinInv, [Next]_vars, NEW p \in done
               PROVE  RefundsFor(p[1], p[2])' = RefundsFor(p[1], p[2])
    OBVIOUS
  <2>1. CASE UNCHANGED refunds
    BY <2>1 DEF RefundsFor
  <2>2. ASSUME NEW f, Refunding(f)
        PROVE  RefundsFor(p[1], p[2])' = RefundsFor(p[1], p[2])
    <3>1. p = <<p[1], p[2]>>
      BY DEF CoinInv, WellFormed, TypeOK, TablesTypeOK
    <3>2. ~(f.coin = p[1] /\ f.contract = p[2])
      BY <2>2, <3>1 DEF Refunding
    <3> QED
      BY <2>2, <3>2 DEF Refunding, RefundsFor
  <2> QED
    BY <2>1, <2>2, StepOfLedger DEF CoinInv, LedgerStep, ledger, Withdrawn,
       Deposited, Melted, Revealed, Recouped, RecoupRefreshed
<1> QED
  BY <1>1, AlwaysCoinInv, PTL DEF Spec, PaidIsFinal

(* All success replies to melts of one commitment name one challenge.      *)
THEOREM ChallengeIsUnique == Spec => []OneChallenge
PROOF
<1>1. Init => OneChallenge
  BY DEF Init, OneChallenge
<1>2. CoinInv /\ CoinInv' /\ OneChallenge /\ [Next]_vars => OneChallenge'
  <2> SUFFICES ASSUME CoinInv, CoinInv', OneChallenge, [Next]_vars,
                      NEW rc \in Rcs, told'[rc] # {}
               PROVE  \E m \in refresh_commitments' :
                         MeltsFor(rc)' = {m} /\ told'[rc] = {m.idx}
    BY DEF OneChallenge
  <2>0. told \in [Rcs -> SUBSET (0..(Kappa - 1))]
    BY DEF CoinInv, WellFormed, TypeOK
  <2>1. ASSUME NEW r \in Requests, Melt(r)
        PROVE  \E m \in refresh_commitments' :
                  MeltsFor(rc)' = {m} /\ told'[rc] = {m.idx}
    <3>1. PICK i \in 0..(Kappa - 1) :
              /\ InsertMelt(r, i)
              /\ told' = [told EXCEPT ![r.rc] = @ \cup {i}]
      BY <2>1 DEF Melt
    <3> DEFINE m == [rc |-> r.rc, coin |-> r.coin, amt |-> r.amt, idx |-> i]
    <3>2. /\ refresh_commitments' = refresh_commitments \cup {m}
          /\ m.rc = r.rc /\ m.idx = i
      BY <3>1 DEF InsertMelt
    <3> HIDE DEF m
    <3>3. r.rc \in Rcs /\ MeltsFor(r.rc) = {}
      BY <2>1, RequestsAssumption DEF Melt
    <3>4. CASE rc = r.rc
      <4>1. told[rc] = {}
        BY <3>3, <3>4 DEF OneChallenge
      <4>2. told'[rc] = {m.idx}
        BY <2>0, <3>1, <3>2, <3>4, <4>1
      <4>3. MeltsFor(rc)' = {m}
        BY <3>2, <3>3, <3>4 DEF MeltsFor
      <4> QED
        BY <3>2, <4>2, <4>3
    <3>5. CASE rc # r.rc
      <4>1. told'[rc] = told[rc]
        BY <2>0, <3>1, <3>3, <3>5
      <4>2. MeltsFor(rc)' = MeltsFor(rc)
        BY <3>2, <3>5 DEF MeltsFor
      <4> QED
        BY <3>2, <4>1, <4>2 DEF OneChallenge
    <3> QED
      BY <3>4, <3>5
  <2>2. ASSUME NEW r \in Requests, MeltReplay(r)
        PROVE  \E m \in refresh_commitments' :
                  MeltsFor(rc)' = {m} /\ told'[rc] = {m.idx}
    <3>1. PICK m \in MeltsFor(r.rc) :
              told' = [told EXCEPT ![r.rc] = @ \cup {m.idx}]
      BY <2>2 DEF MeltReplay
    <3>2. UNCHANGED refresh_commitments /\ r.rc \in Rcs
      BY <2>2, RequestsAssumption DEF MeltReplay, tables
    <3>3. MeltsFor(r.rc) = {m}
      BY DEF CoinInv, RowsOK, MeltsOK, MeltsFor
    <3>4. CASE rc = r.rc
      <4>1. told[rc] \subseteq {m.idx}
        BY <3>3, <3>4 DEF OneChallenge
      <4>2. told'[rc] = {m.idx}
        BY <2>0, <3>1, <3>2, <3>4, <4>1
      <4> QED
        BY <3>2, <3>3, <3>4, <4>2 DEF MeltsFor
    <3>5. CASE rc # r.rc
      <4>1. told'[rc] = told[rc]
        BY <2>0, <3>1, <3>2, <3>5
      <4> QED
        BY <3>2, <4>1 DEF OneChallenge, MeltsFor
    <3> QED
      BY <3>4, <3>5
  <2>3. ASSUME UNCHANGED <<told, refresh_commitments>>
        PROVE  \E m \in refresh_commitments' :
                  MeltsFor(rc)' = {m} /\ told'[rc] = {m.idx}
    BY <2>3 DEF OneChallenge, MeltsFor
  <2>4. ASSUME NEW r \in Requests, Handler(r), ~Melt(r), ~MeltReplay(r)
        PROVE  UNCHANGED <<told, refresh_commitments>>
    BY <2>4, Zenon DEF Handler, Receive, Refuse, KnowCoin, TransactionFails,
       Withdraw, Deposit, MeltRefused, RevealPreflight, RevealVerify,
       RevealPersist, RevealAgain, Refund, Recoup, RecoupNothing, Goto, Reply,
       tables
  <2>5. ASSUME NEW d, Revoke(d) \/ Expire(d) \/ Aggregate(d)
        PROVE  UNCHANGED <<told, refresh_commitments>>
    BY <2>5 DEF Revoke, Expire, Aggregate, tables
  <2>6. CASE UNCHANGED vars
    BY <2>3, <2>6 DEF vars, tables
  <2> QED
    BY <2>1, <2>2, <2>3, <2>4, <2>5, <2>6 DEF Next
<1> QED
  BY <1>1, <1>2, AlwaysCoinInv, PTL DEF Spec
=============================================================================
