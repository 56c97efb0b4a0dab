--------------------------- MODULE ReserveProofs ---------------------------
(***************************************************************************)
(* Proofs about ReserveFunds, for every number of accounts, every history  *)
(* of incoming transfers, batch size, expiration period and fee.           *)
(*                                                                         *)
(* CreditedOnce rests on the rows of reserves_in: as long as none has been *)
(* deleted, every credited transfer has its row there, and that row has    *)
(* the reserve and the reference that a second attempt would have.         *)
(* WithdrawalRemembered rests on gc_date: no step moves it back, although  *)
(* wirewatch writes one that it computed from an older snapshot.           *)
(* BalanceExplained rests on the open transaction: the balances that it    *)
(* will write exceed those of its snapshot by its new rows, and the commit *)
(* requires that the reserves still are as in the snapshot.  OwnerBelieves *)
(* (module ReserveStatus) adds the primary keys, by which a history has    *)
(* one entry per row, and that rows belong to reserves that are there.     *)
(***************************************************************************)
EXTENDS ReserveStatus, SumTheorems, SequenceTheorems

\* Rows come from the history of their account.
RowsInv ==
    /\ \A q \in reserves_in \cup txn.new :
          /\ q.ref \in 1..Len(Incoming[q.account])
          /\ q.reserve = Incoming[q.account][q.ref].reserve
    /\ \A a \in Accounts : Len(bank[a]) <= Len(Incoming[a])

\* The transaction of wirewatch.
TxnInv ==
    /\ watch # "rows" => txn.new = {}
    /\ watch = "rows" /\ txn.row < txn.end => txn.end <= Len(bank[wa_pos])
    /\ \A q \in txn.new : q.account = wa_pos
    /\ \A r \in Reserves : txn.snap[r].gc <= txn.cur[r].gc

\* Credited transfers have their rows, until garbage is collected.
CreditInv ==
    /\ credits = [a \in Accounts |-> credits[a]]
    /\ gcs = 0 =>
         /\ \A a \in Accounts : \A i \in 1..Len(Incoming[a]) :
              /\ credits[a][i] <= 1
              /\ credits[a][i] > 0 =>
                    \E q \in reserves_in : q.account = a /\ q.ref = i
         /\ \A q \in txn.new : credits[wa_pos][q.ref] = 0

\* The reserve of a withdrawn coin is kept for the legal period.
MemoryInv ==
    \A c \in Coins :
        withdrawn_at[c] # Never /\ now <= withdrawn_at[c] + LegalExpiration
            => /\ c \in reserves_out
               /\ withdrawn_at[c] + LegalExpiration
                    <= reserves[CoinReserve[c]].gc

IndInv == TypeOK /\ RowsInv /\ TxnInv /\ CreditInv /\ MemoryInv

---------------------------------------------------------------------------
(* Operators.                                                              *)

(* A row of the history of an account names a reserve and an amount.       *)
LEMMA IncomingType ==
    ASSUME NEW a \in Accounts, NEW i \in 1..Len(Incoming[a])
    PROVE  Incoming[a][i].reserve \in Reserves /\ Incoming[a][i].amt \in Nat
<1>1. Incoming[a] \in Seq([reserve : Reserves, amt : Nat \ {0}])
  BY AccountsAssumption
<1>2. Incoming[a][i] \in [reserve : Reserves, amt : Nat \ {0}]
  BY <1>1, ElementOfSeq
<1> QED BY <1>2

(* The history of an account is finite.                                    *)
LEMMA IncomingLength == \A a \in Accounts : Len(Incoming[a]) \in Nat
<1>1. TAKE a \in Accounts
<1>2. Incoming[a] \in Seq([reserve : Reserves, amt : Nat \ {0}])
  BY AccountsAssumption
<1> QED BY <1>2, LenProperties

(* Rounding down yields an amount (TALER_amount_round_down).               *)
LEMMA RoundDownType ==
    ASSUME NEW a \in Nat
    PROVE  RoundDown(a) \in Nat
<1>1. CASE RoundUnit = 0
  BY <1>1 DEF RoundDown
<1>2. CASE RoundUnit # 0
  <2>1. RoundUnit \in Nat
    BY ReservesAssumption
  <2>2. a - (a % RoundUnit) \in Nat
    BY <1>2, <2>1, SMT
  <2> QED BY <1>2, <2>2 DEF RoundDown
<1> QED BY <1>1, <1>2

(* What expired_reserve_cb wires back is an amount: a closing fee above    *)
(* the balance never wraps around.                                         *)
LEMMA ClosingAmountType ==
    ASSUME NEW left \in Nat
    PROVE  ClosingAmount(left) \in Nat
<1>1. ClosingFee \in Nat
  BY ReservesAssumption
<1>2. CASE left <= ClosingFee
  BY <1>2 DEF ClosingAmount
<1>3. CASE ~(left <= ClosingFee)
  <2>1. left - ClosingFee \in Nat
    BY <1>1, <1>3
  <2> QED BY <1>3, <2>1, RoundDownType DEF ClosingAmount
<1> QED BY <1>2, <1>3

(* A credit (reserves_in_insert) never moves gc_date back.                 *)
LEMMA CreditedType ==
    ASSUME NEW rec \in ReserveRecord, NEW row \in InRow
    PROVE  /\ Credited(rec, row) \in ReserveRecord
           /\ rec.gc <= Credited(rec, row).gc
<1>1. /\ rec.bal \in Nat /\ rec.expiry \in Nat /\ rec.gc \in Nat
      /\ row.amt \in Nat /\ row.date \in Nat /\ IdleExpiration \in Nat
  BY ReservesAssumption DEF ReserveRecord, InRow
<1>2. Later(rec.expiry, row.date + IdleExpiration) \in Nat
  BY <1>1 DEF Later
<1> DEFINE e == Later(rec.expiry, row.date + IdleExpiration)
<1> HIDE DEF e
<1>3. Later(rec.gc, e) \in Nat /\ rec.gc <= Later(rec.gc, e)
  BY <1>1, <1>2 DEF Later, e
<1>4. Credited(rec, row) =
        [bal |-> rec.bal + row.amt, expiry |-> e, gc |-> Later(rec.gc, e)]
  BY DEF Credited, e
<1> QED BY <1>1, <1>2, <1>3, <1>4 DEF ReserveRecord, e

(* A withdrawal that the balance covers leaves an amount, and keeps the    *)
(* reserve for the legal period (insert_withdraw_info).                    *)
LEMMA AfterWithdrawalType ==
    ASSUME NEW rec \in ReserveRecord, NEW c \in Coins, now \in Nat,
           Cost[c] <= rec.bal
    PROVE  /\ AfterWithdrawal(rec, c) \in ReserveRecord
           /\ rec.gc <= AfterWithdrawal(rec, c).gc
           /\ now + LegalExpiration <= AfterWithdrawal(rec, c).gc
<1> DEFINE gc == Later(rec.gc, now + LegalExpiration)
           bal == rec.bal - Cost[c]
<1>1. /\ rec.bal \in Nat /\ rec.gc \in Nat /\ Cost[c] \in Nat
      /\ LegalExpiration \in Nat
  BY CoinsAssumption, ReservesAssumption DEF ReserveRecord
<1>2. /\ bal \in Nat /\ gc \in Nat
      /\ rec.gc <= gc /\ now + LegalExpiration <= gc
  BY <1>1 DEF Later
<1>3. AfterWithdrawal(rec, c) = [rec EXCEPT !.bal = bal, !.gc = gc]
  BY Zenon DEF AfterWithdrawal
<1> HIDE DEF bal, gc
<1> QED BY <1>2, <1>3 DEF ReserveRecord

(* A transaction without rows is one.                                      *)
LEMMA BeginType ==
    ASSUME NEW rs \in [Reserves -> ReserveRecord], NEW row \in Nat,
           NEW end \in Nat, in_serial \in Nat
    PROVE  /\ Begin(rs, row, end) \in Transaction
           /\ NoTransaction \in Transaction
  BY DEF Begin, NoTransaction, Transaction, ReserveRecord, NoReserve

---------------------------------------------------------------------------
(* The initial states.                                                     *)

(* The invariant holds in the empty database.                              *)
LEMMA InitIndInv == Init => IndInv
<1> SUFFICES ASSUME Init PROVE IndInv
  OBVIOUS
<1> USE AccountsAssumption, CoinsAssumption, ReservesAssumption
<1>1. TypeOK
  <2>1. reserves \in [Reserves -> ReserveRecord] /\ in_serial \in Nat
    BY DEF Init, NoReserve, ReserveRecord
  <2>2. txn \in Transaction
    BY <2>1, BeginType DEF Init
  <2>3. \A a \in Accounts : credits[a] \in [1..Len(Incoming[a]) -> Nat]
    BY DEF Init
  <2> QED BY <2>1, <2>2, <2>3 DEF Init, TypeOK, Accounts, Never
<1>2. RowsInv /\ TxnInv
  BY DEF Init, RowsInv, TxnInv, NoTransaction, NoReserve
<1>3. CreditInv
  BY DEF Init, CreditInv, NoTransaction
<1>4. MemoryInv
  BY DEF Init, MemoryInv
<1> QED BY <1>1, <1>2, <1>3, <1>4 DEF IndInv

---------------------------------------------------------------------------
(* Steps of the world.                                                     *)

(* Time passes.                                                            *)
LEMMA TickIndInv ==
    ASSUME IndInv, Tick
    PROVE  IndInv'
<1> USE DEF Tick, tableVars, watchVars, historyVars
<1>1. TypeOK'
  BY ReservesAssumption DEF IndInv, TypeOK
<1>2. RowsInv' /\ TxnInv' /\ CreditInv'
  BY DEF IndInv, RowsInv, TxnInv, CreditInv
<1>3. MemoryInv'
  BY ReservesAssumption DEF IndInv, TypeOK, MemoryInv, Never
<1> QED BY <1>1, <1>2, <1>3 DEF IndInv

(* A transfer is booked by the bank.                                       *)
LEMMA BankCreditsIndInv ==
    ASSUME IndInv, NEW a \in Accounts, BankCredits(a)
    PROVE  IndInv'
<1> USE DEF BankCredits, tableVars, watchVars, historyVars
<1>1. /\ bank' \in [Accounts -> Seq(0..MaxTime)]
      /\ \A b \in Accounts : Len(bank'[b]) <= Len(Incoming[b])
      /\ \A b \in Accounts : Len(bank[b]) <= Len(bank'[b])
  <2>1. /\ bank \in [Accounts -> Seq(0..MaxTime)] /\ now \in 0..MaxTime
        /\ \A b \in Accounts : Len(bank[b]) <= Len(Incoming[b])
    BY DEF IndInv, TypeOK, RowsInv
  <2>2. bank[a] \in Seq(0..MaxTime)
    BY <2>1
  <2>3. \A b \in Accounts : Len(Incoming[b]) \in Nat
    BY IncomingLength
  <2>4. /\ Append(bank[a], now) \in Seq(0..MaxTime)
        /\ Len(Append(bank[a], now)) = Len(bank[a]) + 1
    BY <2>1, <2>2, AppendProperties
  <2>5. bank' = [bank EXCEPT ![a] = Append(bank[a], now)]
    OBVIOUS
  <2>6. \A b \in Accounts : Len(bank[b]) \in Nat
    BY <2>1
  <2> QED BY <2>1, <2>3, <2>4, <2>5, <2>6
<1>2. TypeOK'
  BY <1>1 DEF IndInv, TypeOK
<1>3. RowsInv' /\ CreditInv' /\ MemoryInv'
  BY <1>1 DEF IndInv, RowsInv, CreditInv, MemoryInv
<1>4. TxnInv'
  <2>1. wa_pos \in Accounts /\ txn.end \in Nat
    BY DEF IndInv, TypeOK, Transaction
  <2>2. Len(bank[wa_pos]) \in Nat /\ Len(bank'[wa_pos]) \in Nat
    BY <1>1, <2>1 DEF IndInv, TypeOK
  <2> QED BY <1>1, <2>1, <2>2 DEF IndInv, TxnInv
<1> QED BY <1>2, <1>3, <1>4 DEF IndInv

---------------------------------------------------------------------------
(* Steps of wirewatch.                                                     *)

(* Giving up the transaction leaves the tables alone.                      *)
LEMMA GiveUpIndInv ==
    ASSUME IndInv, txn' = NoTransaction, watch' \in {"ready", "down"},
           wa_pos' \in Accounts,
           UNCHANGED <<world, tableVars, returned, last_row_off, reset_mode,
                       closer_up, historyVars>>
    PROVE  IndInv'
<1> USE DEF world, tableVars, historyVars
<1>1. /\ txn' \in Transaction /\ txn'.new = {}
      /\ \A r \in Reserves : txn'.snap[r].gc <= txn'.cur[r].gc
  <2>1. NoTransaction \in Transaction
    BY BeginType DEF IndInv, TypeOK
  <2> QED BY <2>1 DEF NoTransaction, NoReserve
<1>2. TypeOK'
  BY <1>1 DEF IndInv, TypeOK
<1>3. RowsInv' /\ TxnInv' /\ CreditInv' /\ MemoryInv'
  BY <1>1 DEF IndInv, RowsInv, TxnInv, CreditInv, MemoryInv
<1> QED BY <1>2, <1>3 DEF IndInv

(* find_transfers.                                                         *)
LEMMA FindTransfersIndInv ==
    ASSUME IndInv, FindTransfers
    PROVE  IndInv'
<1> USE DEF FindTransfers, world, tableVars, historyVars
<1>1. last_row_off' \in [Accounts -> Nat]
  <2>1. CASE reset_mode
    BY <2>1 DEF IndInv, TypeOK
  <2>2. CASE ~reset_mode
    <3>1. PICK off \in LatestReference(wa_pos) :
             last_row_off' = [last_row_off EXCEPT ![wa_pos] = off]
      BY <2>2
    <3>2. off \in Nat
      BY DEF IndInv, TypeOK, LatestReference, LatestRows, RowsOfAccount, InRow
    <3> QED BY <3>1, <3>2 DEF IndInv, TypeOK
  <2> QED BY <2>1, <2>2
<1>2. /\ txn' \in Transaction /\ txn'.new = {}
      /\ \A r \in Reserves : txn'.snap[r].gc <= txn'.cur[r].gc
  <2>1. CASE reset_mode
    BY <2>1 DEF IndInv, TypeOK, TxnInv
  <2>2. CASE ~reset_mode
    <3>1. txn' = Begin(reserves, 0, 0)
      BY <2>2
    <3>2. txn' \in Transaction
      BY <3>1, BeginType DEF IndInv, TypeOK
    <3>3. txn'.new = {} /\ txn'.snap = reserves /\ txn'.cur = reserves
      BY <3>1 DEF Begin
    <3> QED BY <3>2, <3>3 DEF IndInv, TypeOK, ReserveRecord
  <2> QED BY <2>1, <2>2
<1>3. TypeOK'
  BY <1>1, <1>2 DEF IndInv, TypeOK
<1>4. RowsInv' /\ TxnInv' /\ CreditInv' /\ MemoryInv'
  BY <1>2 DEF IndInv, RowsInv, TxnInv, CreditInv, MemoryInv
<1> QED BY <1>3, <1>4 DEF IndInv

(* The reply of the bank has rows only up to the end of the history.       *)
LEMMA HistoryReplyIndInv ==
    ASSUME IndInv, HistoryReply
    PROVE  IndInv'
<1> USE DEF HistoryReply, world, tableVars, historyVars
<1> DEFINE off == last_row_off[wa_pos]
           len == Len(bank[wa_pos])
           end == IF len <= off THEN off
                  ELSE IF len <= off + BatchSize THEN len
                  ELSE off + BatchSize
           rs == IF reset_mode THEN reserves ELSE txn.snap
<1>1. off \in Nat /\ len \in Nat /\ BatchSize \in Nat
  <2>1. wa_pos \in Accounts /\ bank[wa_pos] \in Seq(0..MaxTime)
    BY DEF IndInv, TypeOK
  <2>2. len \in Nat
    BY <2>1, LenProperties
  <2> QED BY <2>1, <2>2, AccountsAssumption DEF IndInv, TypeOK
<1>2. rs \in [Reserves -> ReserveRecord]
  BY DEF IndInv, TypeOK, Transaction
<1>3. txn' = Begin(rs, off, end)
  OBVIOUS
<1> HIDE DEF off, len, rs
<1>4. end \in Nat /\ (off < end => end <= len)
  BY <1>1
<1> HIDE DEF end
<1>5. txn' \in Transaction
  <2>1. in_serial \in Nat
    BY DEF IndInv, TypeOK
  <2>2. Begin(rs, off, end) \in Transaction
    BY <1>1, <1>2, <1>4, <2>1, BeginType
  <2> QED BY <1>3, <2>2
<1>6. /\ txn'.new = {} /\ txn'.snap = rs /\ txn'.cur = rs
      /\ txn'.row = off /\ txn'.end = end
  BY <1>3 DEF Begin
<1>7. TypeOK'
  BY <1>5 DEF IndInv, TypeOK
<1>8. TxnInv'
  <2>1. \A r \in Reserves : txn'.snap[r].gc <= txn'.cur[r].gc
    BY <1>2, <1>6 DEF ReserveRecord
  <2> QED BY <1>4, <1>6, <2>1 DEF TxnInv, len
<1>9. RowsInv' /\ CreditInv' /\ MemoryInv'
  BY <1>6 DEF IndInv, RowsInv, CreditInv, MemoryInv
<1> QED BY <1>7, <1>8, <1>9 DEF IndInv

(* history_cb: a row is stored only if the transfer was not credited       *)
(* before, because the row of an earlier credit would be a duplicate.      *)
LEMMA HistoryRowIndInv ==
    ASSUME IndInv, HistoryRow
    PROVE  IndInv'
<1> DEFINE i == txn.row + 1
           row == CreditDetails(wa_pos, i)
<1>1. /\ wa_pos \in Accounts /\ txn \in Transaction
      /\ txn.row \in Nat /\ txn.end \in Nat /\ txn.serial \in Nat
      /\ txn.cur \in [Reserves -> ReserveRecord] /\ txn.new \subseteq InRow
  BY DEF IndInv, TypeOK, Transaction
<1>2. i \in 1..Len(bank[wa_pos]) /\ i \in 1..Len(Incoming[wa_pos])
  <2>1. txn.row < txn.end /\ txn.end <= Len(bank[wa_pos])
    BY DEF HistoryRow, IndInv, TxnInv
  <2>2. Len(bank[wa_pos]) <= Len(Incoming[wa_pos])
    BY <1>1 DEF IndInv, RowsInv
  <2>3. bank[wa_pos] \in Seq(0..MaxTime)
    BY <1>1 DEF IndInv, TypeOK
  <2>4. Len(bank[wa_pos]) \in Nat
    BY <2>3, LenProperties
  <2>5. Len(Incoming[wa_pos]) \in Nat
    BY <1>1, IncomingLength
  <2> QED BY <1>1, <2>1, <2>2, <2>4, <2>5
<1> HIDE DEF i
<1>3. /\ row \in InRow /\ row.account = wa_pos /\ row.ref = i
      /\ row.reserve = Incoming[wa_pos][i].reserve
  <2>1. /\ Incoming[wa_pos][i].reserve \in Reserves
        /\ Incoming[wa_pos][i].amt \in Nat
    BY <1>1, <1>2, IncomingType
  <2>2. bank[wa_pos] \in Seq(0..MaxTime)
    BY <1>1 DEF IndInv, TypeOK
  <2>3. bank[wa_pos][i] \in 0..MaxTime
    BY <1>2, <2>2, ElementOfSeq
  <2>4. bank[wa_pos][i] \in Nat /\ i \in Nat
    BY <1>2, <2>3
  <2> QED BY <1>1, <2>1, <2>4 DEF CreditDetails, InRow
<1>4. /\ watch = "rows" /\ txn.row < txn.end
      /\ txn' = IF Duplicate(row)
                THEN [txn EXCEPT !.row = @ + 1]
                ELSE [txn EXCEPT !.row = @ + 1,
                                 !.new = @ \cup {row},
                                 !.serial = @ + 1,
                                 !.cur[row.reserve] = Credited(@, row)]
      /\ UNCHANGED <<world, tableVars, returned, watch, wa_pos,
                     last_row_off, reset_mode, closer_up, historyVars>>
  BY DEF HistoryRow, i
<1> HIDE DEF row
<1> USE DEF world, tableVars, historyVars
<1>5. CASE Duplicate(row)
  <2>1. txn' = [txn EXCEPT !.row = @ + 1]
    BY <1>4, <1>5
  <2>2. /\ txn' \in Transaction /\ txn'.new = txn.new
        /\ txn'.snap = txn.snap /\ txn'.cur = txn.cur
        /\ txn'.end = txn.end
    BY <1>1, <2>1 DEF Transaction
  <2>3. TypeOK'
    BY <1>4, <2>2 DEF IndInv, TypeOK
  <2>4. TxnInv'
    <3>1. txn.end <= Len(bank[wa_pos])
      BY <1>4 DEF IndInv, TxnInv
    <3> QED BY <1>4, <2>2, <3>1 DEF IndInv, TxnInv
  <2>5. RowsInv' /\ CreditInv' /\ MemoryInv'
    BY <1>4, <2>2 DEF IndInv, RowsInv, CreditInv, MemoryInv
  <2> QED BY <2>3, <2>4, <2>5 DEF IndInv
<1>6. CASE ~Duplicate(row)
  <2> DEFINE new == txn.new \cup {row}
             cur == [txn.cur EXCEPT ![row.reserve] = Credited(@, row)]
  <2>1. txn' = [txn EXCEPT !.row = @ + 1, !.new = new, !.serial = @ + 1,
                           !.cur = cur]
    BY <1>1, <1>4, <1>6 DEF Transaction
  <2>2. row.reserve \in Reserves /\ txn.cur[row.reserve] \in ReserveRecord
    BY <1>1, <1>3 DEF InRow
  <2>3. /\ Credited(txn.cur[row.reserve], row) \in ReserveRecord
        /\ txn.cur[row.reserve].gc
             <= Credited(txn.cur[row.reserve], row).gc
    BY <1>3, <2>2, CreditedType
  <2>4. /\ cur \in [Reserves -> ReserveRecord]
        /\ \A r \in Reserves : txn.cur[r].gc <= cur[r].gc
    BY <1>1, <2>2, <2>3 DEF ReserveRecord
  <2>5. new \subseteq InRow
    BY <1>1, <1>3
  <2> HIDE DEF new, cur
  <2>6. /\ txn' \in Transaction /\ txn'.new = new
        /\ txn'.snap = txn.snap /\ txn'.cur = cur
        /\ txn'.end = txn.end
    <3>1. /\ txn.row + 1 \in Nat /\ txn.serial + 1 \in Nat
          /\ new \in SUBSET InRow /\ txn.snap \in [Reserves -> ReserveRecord]
      BY <1>1, <2>5 DEF Transaction
    <3>2. txn' = [snap |-> txn.snap, cur |-> cur, new |-> new,
                  serial |-> txn.serial + 1, row |-> txn.row + 1,
                  end |-> txn.end]
      BY <1>1, <2>1 DEF Transaction
    <3> QED BY <1>1, <2>4, <3>1, <3>2 DEF Transaction
  <2>7. TypeOK'
    BY <1>4, <2>6 DEF IndInv, TypeOK
  <2>8. TxnInv'
    <3>1. txn.end <= Len(bank[wa_pos])
      BY <1>4 DEF IndInv, TxnInv
    <3>2. \A r \in Reserves : txn.snap[r].gc <= cur[r].gc
      <4>1. TAKE r \in Reserves
      <4>2. /\ txn.snap[r].gc \in Nat /\ txn.cur[r].gc \in Nat
            /\ cur[r].gc \in Nat
        BY <1>1, <2>4 DEF Transaction, ReserveRecord
      <4> QED BY <2>4, <4>2 DEF IndInv, TxnInv
    <3> QED BY <1>3, <1>4, <2>6, <3>1, <3>2 DEF IndInv, TxnInv, new
  <2>9. RowsInv'
    BY <1>2, <1>3, <1>4, <2>6 DEF IndInv, RowsInv, new
  <2>10. CreditInv'
    <3>1. \A q \in reserves_in : ~(q.account = wa_pos /\ q.ref = i)
      BY <1>3, <1>6 DEF Duplicate, IndInv, RowsInv
    <3>2. gcs = 0 => credits[wa_pos][i] = 0
      <4>1. credits[wa_pos][i] \in Nat
        BY <1>1, <1>2 DEF IndInv, TypeOK
      <4> QED BY <1>1, <1>2, <3>1, <4>1 DEF IndInv, CreditInv
    <3> QED BY <1>3, <1>4, <2>6, <3>2 DEF IndInv, CreditInv, new
  <2>11. MemoryInv'
    BY <1>4 DEF IndInv, MemoryInv
  <2> QED BY <2>7, <2>8, <2>9, <2>10, <2>11 DEF IndInv
<1> QED BY <1>5, <1>6

(* The commit: a credited transfer gets its row, one that was credited     *)
(* before is not among the new rows, and no gc_date moves back.            *)
LEMMA HistoryEndIndInv ==
    ASSUME IndInv, HistoryEnd
    PROVE  IndInv'
<1> USE DEF HistoryEnd, world
<1>1. /\ wa_pos \in Accounts /\ wa_pos' \in Accounts
      /\ txn \in Transaction /\ txn.new \subseteq InRow
      /\ txn.serial \in Nat
      /\ txn.snap \in [Reserves -> ReserveRecord]
      /\ txn.cur \in [Reserves -> ReserveRecord]
  BY AccountsAssumption
     DEF IndInv, TypeOK, Transaction, NextAccount, Accounts
<1>2. /\ txn' \in Transaction /\ txn'.new = {}
      /\ \A r \in Reserves : txn'.snap[r].gc <= txn'.cur[r].gc
  <2>1. NoTransaction \in Transaction
    BY BeginType DEF IndInv, TypeOK
  <2> QED BY <2>1 DEF NoTransaction, NoReserve
<1>3. /\ reserves' \in [Reserves -> ReserveRecord]
      /\ \A r \in Reserves : reserves[r].gc <= reserves'[r].gc
  <2>1. reserves \in [Reserves -> ReserveRecord]
    BY DEF IndInv, TypeOK
  <2>2. \A r \in Reserves : Updated(r) => reserves[r] = txn.snap[r]
    BY DEF Committable, Updated
  <2>3. \A r \in Reserves : txn.snap[r].gc <= txn.cur[r].gc
    BY DEF IndInv, TxnInv
  <2>4. reserves' = [r \in Reserves |->
                       IF Updated(r) THEN txn.cur[r] ELSE reserves[r]]
    OBVIOUS
  <2>5. \A r \in Reserves : reserves[r].gc \in Nat
    BY <2>1 DEF ReserveRecord
  <2> QED BY <1>1, <2>1, <2>2, <2>3, <2>4, <2>5
<1>4. /\ credits' = [a \in Accounts |-> credits'[a]]
      /\ \A a \in Accounts : a # wa_pos => credits'[a] = credits[a]
      /\ credits'[wa_pos] =
           [i \in 1..Len(Incoming[wa_pos]) |->
              IF Inserted(i) THEN credits[wa_pos][i] + 1
              ELSE credits[wa_pos][i]]
  <2>1. DOMAIN credits[wa_pos] = 1..Len(Incoming[wa_pos])
    BY <1>1 DEF IndInv, TypeOK
  <2>2. credits = [a \in Accounts |-> credits[a]]
    BY DEF IndInv, CreditInv
  <2>3. credits' = [credits EXCEPT ![wa_pos] =
           [i \in DOMAIN credits[wa_pos] |->
              IF Inserted(i) THEN credits[wa_pos][i] + 1
              ELSE credits[wa_pos][i]]]
    OBVIOUS
  <2> QED BY <1>1, <2>1, <2>2, <2>3
<1>5. TypeOK'
  <2>1. \A a \in Accounts : credits'[a] \in [1..Len(Incoming[a]) -> Nat]
    <3>1. credits'[wa_pos] \in [1..Len(Incoming[wa_pos]) -> Nat]
      BY <1>1, <1>4 DEF IndInv, TypeOK
    <3> QED BY <1>4, <3>1 DEF IndInv, TypeOK
  <2>2. reserves_in' \subseteq InRow /\ in_serial' \in Nat
    BY <1>1 DEF IndInv, TypeOK
  <2> QED BY <1>1, <1>2, <1>3, <2>1, <2>2 DEF IndInv, TypeOK
<1>6. RowsInv' /\ TxnInv'
  BY <1>2 DEF IndInv, RowsInv, TxnInv
<1>7. CreditInv'
  <2>1. SUFFICES ASSUME gcs = 0, NEW a \in Accounts,
                        NEW i \in 1..Len(Incoming[a])
                 PROVE  /\ credits'[a][i] <= 1
                        /\ credits'[a][i] > 0 =>
                             \E q \in reserves_in' :
                                q.account = a /\ q.ref = i
    BY <1>2, <1>4 DEF CreditInv
  <2>2. /\ credits[a][i] <= 1
        /\ credits[a][i] > 0 =>
              \E q \in reserves_in : q.account = a /\ q.ref = i
    BY <2>1 DEF IndInv, CreditInv
  <2>3. CASE a = wa_pos /\ Inserted(i)
    <3>1. PICK q \in txn.new : q.ref = i
      BY <2>3 DEF Inserted
    <3>2. credits[a][i] = 0 /\ q.account = a
      BY <2>1, <2>3, <3>1 DEF IndInv, CreditInv, TxnInv
    <3>3. credits'[a][i] = 1
      BY <1>4, <2>1, <2>3, <3>2
    <3> QED BY <3>1, <3>2, <3>3
  <2>4. CASE ~(a = wa_pos /\ Inserted(i))
    <3>1. credits'[a][i] = credits[a][i]
      BY <1>4, <2>1, <2>4
    <3> QED BY <2>2, <3>1
  <2> QED BY <2>3, <2>4
<1>8. MemoryInv'
  <2>1. \A c \in Coins : CoinReserve[c] \in Reserves
    BY CoinsAssumption
  <2>2. \A c \in Coins :
          withdrawn_at[c] # Never => withdrawn_at[c] + LegalExpiration \in Nat
    BY ReservesAssumption DEF IndInv, TypeOK, Never
  <2>3. \A r \in Reserves : reserves[r].gc \in Nat /\ reserves'[r].gc \in Nat
    BY <1>3 DEF IndInv, TypeOK, ReserveRecord
  <2>4. UNCHANGED <<now, withdrawn_at, reserves_out>>
    OBVIOUS
  <2> HIDE DEF HistoryEnd
  <2> QED BY <1>3, <2>1, <2>2, <2>3, <2>4 DEF IndInv, MemoryInv
<1> QED BY <1>5, <1>6, <1>7, <1>8 DEF IndInv

(* No step of wirewatch breaks the invariant.                              *)
LEMMA WirewatchStepIndInv ==
    ASSUME IndInv, WirewatchStep
    PROVE  IndInv'
<1>0. wa_pos \in Accounts /\ NextAccount \in Accounts /\ 1 \in Accounts
  BY AccountsAssumption DEF IndInv, TypeOK, Accounts, NextAccount
<1>1. CASE FindTransfers
  BY <1>1, FindTransfersIndInv
<1>2. CASE HistoryReply
  BY <1>2, HistoryReplyIndInv
<1>3. CASE HistoryRow
  BY <1>3, HistoryRowIndInv
<1>4. CASE HistoryEnd
  BY <1>4, HistoryEndIndInv
<1>5. CASE HistoryError \/ WirewatchSoftError \/ WirewatchStops
  <2>1. /\ txn' = NoTransaction /\ watch' \in {"ready", "down"}
        /\ wa_pos' \in Accounts
        /\ UNCHANGED <<world, tableVars, returned, last_row_off, reset_mode,
                       closer_up, historyVars>>
    BY <1>0, <1>5 DEF HistoryError, WirewatchSoftError, WirewatchStops
  <2> QED BY <2>1, GiveUpIndInv
<1>6. CASE WirewatchStarts
  <2> USE <1>6 DEF WirewatchStarts, world, tableVars, historyVars
  <2>1. txn.new = {}
    BY DEF IndInv, TxnInv
  <2>2. TypeOK'
    BY <1>0 DEF IndInv, TypeOK
  <2>3. RowsInv' /\ TxnInv' /\ CreditInv' /\ MemoryInv'
    BY <2>1 DEF IndInv, RowsInv, TxnInv, CreditInv, MemoryInv
  <2> QED BY <2>2, <2>3 DEF IndInv
<1> QED BY <1>1, <1>2, <1>3, <1>4, <1>5, <1>6 DEF WirewatchStep

---------------------------------------------------------------------------
(* Steps of the server, the closer and the garbage collector.              *)

(* A step that changes neither the rows of reserves_in nor wirewatch, and  *)
(* moves no gc_date back.                                                  *)
LEMMA ReservesChangeIndInv ==
    ASSUME IndInv, TypeOK',
           UNCHANGED <<world, reserves_in, in_serial, watchVars, credits,
                       withdrawn_at>>,
           reserves_out \subseteq reserves_out',
           \A r \in Reserves : reserves[r].gc <= reserves'[r].gc
    PROVE  IndInv'
<1> USE DEF world, watchVars
<1>1. RowsInv' /\ TxnInv' /\ CreditInv'
  BY DEF IndInv, RowsInv, TxnInv, CreditInv
<1>2. MemoryInv'
  <2>1. \A c \in Coins : CoinReserve[c] \in Reserves
    BY CoinsAssumption
  <2>2. \A c \in Coins :
          withdrawn_at[c] # Never => withdrawn_at[c] + LegalExpiration \in Nat
    BY ReservesAssumption DEF IndInv, TypeOK, Never
  <2>3. \A r \in Reserves : reserves[r].gc \in Nat /\ reserves'[r].gc \in Nat
    BY DEF IndInv, TypeOK, ReserveRecord
  <2> QED BY <2>1, <2>2, <2>3 DEF IndInv, MemoryInv
<1> QED BY <1>1, <1>2 DEF IndInv

(* insert_withdraw_info prolongs the life of the reserve and leaves its    *)
(* balance an amount.                                                      *)
LEMMA WithdrawIndInv ==
    ASSUME IndInv, NEW c \in Coins, Withdraw(c)
    PROVE  IndInv'
<1> DEFINE r == CoinReserve[c]
           rec == AfterWithdrawal(reserves[r], c)
<1>1. /\ r \in Reserves /\ Cost[c] \in Nat /\ LegalExpiration \in Nat
      /\ reserves \in [Reserves -> ReserveRecord] /\ now \in Nat
      /\ reserves[r] \in ReserveRecord
  BY CoinsAssumption, ReservesAssumption DEF IndInv, TypeOK
<1>2. Cost[c] <= reserves[r].bal
  BY DEF Withdraw
<1>3. /\ rec \in ReserveRecord /\ reserves[r].gc <= rec.gc
      /\ now + LegalExpiration <= rec.gc
  BY <1>1, <1>2, AfterWithdrawalType
<1>4. reserves' = [reserves EXCEPT ![r] = rec]
  BY DEF Withdraw
<1> HIDE DEF rec
<1>5. /\ reserves' \in [Reserves -> ReserveRecord]
      /\ \A s \in Reserves : reserves[s].gc <= reserves'[s].gc
      /\ now + LegalExpiration <= reserves'[r].gc
  BY <1>1, <1>3, <1>4 DEF ReserveRecord
<1>6. /\ reserves_out' = reserves_out \cup {c}
      /\ withdrawn_at' = [withdrawn_at EXCEPT ![c] = now]
      /\ UNCHANGED <<world, reserves_in, in_serial, recoup, closed, returned,
                     watchVars, closer_up, credits>>
  BY DEF Withdraw
<1>7. TypeOK'
  BY <1>5, <1>6 DEF IndInv, TypeOK, world, watchVars
<1>8. RowsInv' /\ TxnInv' /\ CreditInv'
  BY <1>6 DEF IndInv, RowsInv, TxnInv, CreditInv, world, watchVars
<1>9. MemoryInv'
  <2>1. SUFFICES ASSUME NEW d \in Coins, withdrawn_at'[d] # Never,
                        now' <= withdrawn_at'[d] + LegalExpiration
                 PROVE  /\ d \in reserves_out'
                        /\ withdrawn_at'[d] + LegalExpiration
                             <= reserves'[CoinReserve[d]].gc
    BY DEF MemoryInv
  <2>2. CASE d = c
    <3>1. withdrawn_at'[d] = now
      BY <1>6, <2>2 DEF IndInv, TypeOK
    <3> QED BY <1>5, <1>6, <2>2, <3>1
  <2>3. CASE d # c
    <3>1. withdrawn_at'[d] = withdrawn_at[d] /\ now' = now
      BY <1>6, <2>3 DEF IndInv, TypeOK, world
    <3>2. /\ d \in reserves_out
          /\ withdrawn_at[d] + LegalExpiration <= reserves[CoinReserve[d]].gc
      BY <2>1, <3>1 DEF IndInv, MemoryInv
    <3>3. CoinReserve[d] \in Reserves
      BY CoinsAssumption
    <3>4. /\ reserves[CoinReserve[d]].gc \in Nat
          /\ reserves'[CoinReserve[d]].gc \in Nat
      BY <1>1, <1>5, <3>3 DEF ReserveRecord
    <3>5. withdrawn_at[d] \in 0..MaxTime \cup {Never}
      BY DEF IndInv, TypeOK
    <3>6. withdrawn_at[d] + LegalExpiration \in Nat
      BY <1>1, <2>1, <3>1, <3>5, ReservesAssumption
    <3> QED BY <1>5, <1>6, <3>1, <3>2, <3>3, <3>4, <3>6
  <2> QED BY <2>2, <2>3
<1> QED BY <1>7, <1>8, <1>9 DEF IndInv

(* insert_recoup_request adds to the balance and prolongs the life of the  *)
(* reserve.                                                                *)
LEMMA RecoupIndInv ==
    ASSUME IndInv, NEW c \in Coins, NEW amount \in 1..CoinValue[c],
           Recoup(c, amount)
    PROVE  IndInv'
<1> DEFINE r == CoinReserve[c]
           rec == [bal |-> reserves[r].bal + amount,
                   expiry |-> Later(reserves[r].expiry, now + IdleExpiration),
                   gc |-> Later(reserves[r].gc, now + LegalExpiration)]
<1>1. /\ r \in Reserves /\ amount \in Nat /\ now \in Nat
      /\ LegalExpiration \in Nat /\ IdleExpiration \in Nat
      /\ reserves \in [Reserves -> ReserveRecord]
      /\ reserves[r] \in ReserveRecord
  BY CoinsAssumption, ReservesAssumption DEF IndInv, TypeOK
<1>2. rec \in ReserveRecord /\ reserves[r].gc <= rec.gc
  BY <1>1 DEF Later, ReserveRecord
<1>3. reserves' = [reserves EXCEPT ![r] = rec]
  BY DEF Recoup
<1> HIDE DEF rec
<1>4. /\ reserves' \in [Reserves -> ReserveRecord]
      /\ \A s \in Reserves : reserves[s].gc <= reserves'[s].gc
  BY <1>1, <1>2, <1>3 DEF ReserveRecord
<1>5. /\ recoup' = recoup \cup {[coin |-> c, amt |-> amount]}
      /\ UNCHANGED <<world, reserves_in, in_serial, reserves_out, closed,
                     returned, watchVars, closer_up, historyVars>>
  BY DEF Recoup
<1>6. TypeOK'
  BY <1>1, <1>4, <1>5 DEF IndInv, TypeOK, world, watchVars, historyVars
<1> QED BY <1>4, <1>5, <1>6, ReservesChangeIndInv DEF historyVars

(* run_reserve_closures empties the reserve and does not touch its dates.  *)
LEMMA CloseReserveIndInv ==
    ASSUME IndInv, NEW r \in Reserves, CloseReserve(r)
    PROVE  IndInv'
<1> DEFINE left == reserves[r].bal
<1>1. /\ reserves \in [Reserves -> ReserveRecord]
      /\ reserves[r] \in ReserveRecord /\ left \in Nat
      /\ closed \in [Reserves -> Nat] /\ returned \in [Reserves -> Nat]
  BY DEF IndInv, TypeOK, ReserveRecord
<1>2. /\ closed' = [closed EXCEPT ![r] = @ + left]
      /\ reserves' = [reserves EXCEPT ![r].bal = @ - left]
      /\ returned' = [returned EXCEPT ![r] = @ + ClosingAmount(left)]
      /\ UNCHANGED <<world, reserves_in, in_serial, reserves_out, recoup,
                     watchVars, closer_up, historyVars>>
  BY DEF CloseReserve, ExpiredReserve, InsertReserveClosed
<1>3. ClosingAmount(left) \in Nat
  BY <1>1, ClosingAmountType
<1>4. /\ reserves' \in [Reserves -> ReserveRecord]
      /\ \A s \in Reserves : reserves[s].gc <= reserves'[s].gc
  <2>1. reserves' = [reserves EXCEPT ![r] = [@ EXCEPT !.bal = left - left]]
    BY <1>1, <1>2
  <2>2. [reserves[r] EXCEPT !.bal = left - left] \in ReserveRecord
    BY <1>1 DEF ReserveRecord
  <2>3. [reserves[r] EXCEPT !.bal = left - left].gc = reserves[r].gc
    BY <1>1 DEF ReserveRecord
  <2> QED BY <1>1, <2>1, <2>2, <2>3 DEF ReserveRecord
<1>5. closed' \in [Reserves -> Nat] /\ returned' \in [Reserves -> Nat]
  BY <1>1, <1>2, <1>3
<1>6. TypeOK'
  BY <1>2, <1>4, <1>5 DEF IndInv, TypeOK, world, watchVars, historyVars
<1> QED BY <1>2, <1>4, <1>6, ReservesChangeIndInv DEF historyVars

(* The garbage collector takes a reserve only after its gc_date, when the  *)
(* withdrawals from it need not be remembered any more.                    *)
LEMMA GcIndInv ==
    ASSUME IndInv, Gc
    PROVE  IndInv'
<1>1. reserves' \in [Reserves -> ReserveRecord]
  BY DEF Gc, IndInv, TypeOK, NoReserve, ReserveRecord
<1>2. /\ gcs' = gcs + 1 /\ gcs < MaxGc /\ gcs \in Nat
      /\ UNCHANGED <<now, bank, in_serial, returned, watchVars, closer_up,
                     historyVars>>
      /\ reserves_in' \subseteq reserves_in
      /\ reserves_out' \subseteq reserves_out /\ recoup' \subseteq recoup
      /\ closed' \in [Reserves -> Nat]
  BY DEF Gc, IndInv, TypeOK
<1>3. TypeOK'
  BY <1>1, <1>2, ReservesAssumption DEF IndInv, TypeOK, watchVars, historyVars
<1>4. RowsInv' /\ TxnInv'
  BY <1>2 DEF IndInv, RowsInv, TxnInv, watchVars
<1>5. CreditInv'
  <2>1. gcs' # 0
    BY <1>2
  <2> QED BY <1>2, <2>1 DEF IndInv, CreditInv, historyVars
<1>6. MemoryInv'
  <2>1. SUFFICES ASSUME NEW c \in Coins, withdrawn_at[c] # Never,
                        now <= withdrawn_at[c] + LegalExpiration
                 PROVE  /\ c \in reserves_out'
                        /\ withdrawn_at[c] + LegalExpiration
                             <= reserves'[CoinReserve[c]].gc
    BY <1>2 DEF MemoryInv, historyVars
  <2>2. /\ c \in reserves_out
        /\ withdrawn_at[c] + LegalExpiration <= reserves[CoinReserve[c]].gc
    BY <2>1 DEF IndInv, MemoryInv
  <2>3. CoinReserve[c] \in Reserves
    BY CoinsAssumption
  <2>4. reserves[CoinReserve[c]].gc \in Nat /\ now \in Nat
    BY <2>3, ReservesAssumption DEF IndInv, TypeOK, ReserveRecord
  <2>5. withdrawn_at[c] + LegalExpiration \in Nat
    BY <2>1, ReservesAssumption DEF IndInv, TypeOK, Never
  <2>6. ~(reserves[CoinReserve[c]].gc < now)
    BY <2>1, <2>2, <2>4, <2>5
  <2>7. CoinReserve[c] \notin Garbage
    BY <2>6 DEF Garbage
  <2> QED BY <2>2, <2>3, <2>7 DEF Gc
<1> QED BY <1>3, <1>4, <1>5, <1>6 DEF IndInv

(* Every step of every program keeps the invariant.                        *)
LEMMA NextIndInv == IndInv /\ [Next]_vars => IndInv'
<1> SUFFICES ASSUME IndInv, [Next]_vars PROVE IndInv'
  OBVIOUS
<1>1. CASE Tick
  BY <1>1, TickIndInv
<1>2. ASSUME NEW a \in Accounts, BankCredits(a) PROVE IndInv'
  BY <1>2, BankCreditsIndInv
<1>3. CASE WirewatchStep
  BY <1>3, WirewatchStepIndInv
<1>4. CASE CloserStep
  <2>1. ASSUME NEW r \in Reserves, CloseReserve(r) PROVE IndInv'
    BY <2>1, CloseReserveIndInv
  <2>2. CASE CloserStops \/ CloserStarts
    <3>0. /\ closer_up' \in BOOLEAN
          /\ UNCHANGED <<world, tableVars, returned, watchVars, historyVars>>
      BY <2>2, Zenon DEF CloserStops, CloserStarts
    <3> USE DEF world, tableVars, watchVars, historyVars
    <3>1. TypeOK'
      BY <3>0 DEF IndInv, TypeOK
    <3>2. RowsInv' /\ TxnInv' /\ CreditInv' /\ MemoryInv'
      BY <3>0 DEF IndInv, RowsInv, TxnInv, CreditInv, MemoryInv
    <3> QED BY <3>1, <3>2 DEF IndInv
  <2> QED BY <1>4, <2>1, <2>2 DEF CloserStep
<1>5. CASE ServerStep
  <2>1. ASSUME NEW c \in Coins, Withdraw(c) PROVE IndInv'
    BY <2>1, WithdrawIndInv
  <2>2. ASSUME NEW c \in Coins, NEW amount \in 1..CoinValue[c],
               Recoup(c, amount)
        PROVE  IndInv'
    BY <2>2, RecoupIndInv
  <2> QED BY <1>5, <2>1, <2>2 DEF ServerStep
<1>6. CASE Gc
  BY <1>6, GcIndInv
<1>7. CASE UNCHANGED vars
  <2> USE <1>7 DEF vars, world, tableVars, watchVars, historyVars
  <2>1. TypeOK'
    BY DEF IndInv, TypeOK
  <2>2. RowsInv' /\ TxnInv' /\ CreditInv' /\ MemoryInv'
    BY DEF IndInv, RowsInv, TxnInv, CreditInv, MemoryInv
  <2> QED BY <2>1, <2>2 DEF IndInv
<1> QED BY <1>1, <1>2, <1>3, <1>4, <1>5, <1>6, <1>7 DEF Next

---------------------------------------------------------------------------
(* The theorems.                                                           *)

(* The inductive invariant holds in every reachable state.                 *)
THEOREM Invariance == Spec => []IndInv
  BY InitIndInv, NextIndInv, PTL DEF Spec

(* Balances, rows and amounts wired back never become negative or leave    *)
(* their tables' types, also if wirewatch commits an old balance or the    *)
(* closing fee exceeds what is left.                                       *)
THEOREM TypeCorrect == Spec => []TypeOK
<1>1. IndInv => TypeOK
  BY DEF IndInv
<1> QED BY <1>1, Invariance, PTL

(* Until garbage is collected for the first time no incoming transfer is   *)
(* credited twice, however often wirewatch fails, restarts or is reset in  *)
(* the middle of a batch.                                                  *)
THEOREM CreditedOnceCorrect == Spec => []CreditedOnce
<1>1. IndInv => CreditedOnce
  BY DEF IndInv, CreditInv, CreditedOnce
<1> QED BY <1>1, Invariance, PTL

(* A withdrawal is remembered for the legal period, whatever wirewatch,    *)
(* the closer and the garbage collector do to the reserve.                 *)
THEOREM WithdrawalRememberedCorrect == Spec => []WithdrawalRemembered
<1>1. IndInv => WithdrawalRemembered
  BY DEF IndInv, MemoryInv, WithdrawalRemembered
<1> QED BY <1>1, Invariance, PTL

---------------------------------------------------------------------------
(* Sums of rows.                                                           *)

AmountsOK(rows) == IsFiniteSet(rows) /\ \A x \in rows : x.amt \in Nat

\* What the rows of reserves_in, the withdrawn coins and the recoups add up
\* to for one reserve.
InOf(rows, r) == {q \in rows : q.reserve = r}
OutOf(coins, r) == {c \in coins : CoinReserve[c] = r}
RecoupOf(rows, r) == {p \in rows : CoinReserve[p.coin] = r}

InAmt(rows, r) == SumAmt(InOf(rows, r))
OutAmt(coins, r) == SumFunctionOnSet(Cost, OutOf(coins, r))
RecoupAmt(rows, r) == SumAmt(RecoupOf(rows, r))

(* Nothing adds up to nothing.                                             *)
LEMMA NoAmount == SumAmt({}) = 0 /\ AmountsOK({})
PROOF
  BY SumEmpty, FS_EmptySet DEF SumAmt, SumFunction, AmountsOK

(* What rows add up to is an amount.                                       *)
LEMMA SumAmtNat ==
    ASSUME NEW rows, AmountsOK(rows)
    PROVE  SumAmt(rows) \in Nat
<1> DEFINE f == [x \in rows |-> x.amt]
<1>1. \A x \in rows : f[x] \in Nat
  BY DEF AmountsOK
<1>2. SumAmt(rows) = SumFunctionOnSet(f, rows)
  BY DEF SumAmt, SumFunction
<1> HIDE DEF f
<1> QED BY <1>1, <1>2, SumNat DEF AmountsOK

(* Two sets of rows without a common row.                                  *)
LEMMA SumAmtUnion ==
    ASSUME NEW S, NEW T, AmountsOK(S), AmountsOK(T), S \cap T = {}
    PROVE  SumAmt(S \cup T) = SumAmt(S) + SumAmt(T)
<1> DEFINE U == S \cup T
           f == [x \in S |-> x.amt]
           g == [x \in T |-> x.amt]
           h == [x \in U |-> x.amt]
<1>1. /\ IsFiniteSet(S) /\ \A x \in S : f[x] \in Int /\ f[x] = h[x]
      /\ IsFiniteSet(T) /\ \A x \in T : g[x] \in Int /\ g[x] = h[x]
      /\ \A x \in S \cup T : h[x] \in Int
  BY DEF AmountsOK
<1>2. /\ SumAmt(S) = SumFunctionOnSet(f, S)
      /\ SumAmt(T) = SumFunctionOnSet(g, T)
      /\ SumAmt(U) = SumFunctionOnSet(h, S \cup T)
  BY DEF SumAmt, SumFunction
<1> HIDE DEF f, g, h, U
<1>3. /\ SumFunctionOnSet(f, S) = SumFunctionOnSet(h, S)
      /\ SumFunctionOnSet(g, T) = SumFunctionOnSet(h, T)
  BY ONLY <1>1, SumEqual
<1>4. SumFunctionOnSet(h, S \cup T)
        = SumFunctionOnSet(h, S) + SumFunctionOnSet(h, T)
  BY ONLY <1>1, S \cap T = {}, SumUnion
<1> QED BY <1>2, <1>3, <1>4 DEF U

(* One row.                                                                *)
LEMMA SumAmtSingle ==
    ASSUME NEW x, x.amt \in Nat
    PROVE  SumAmt({x}) = x.amt /\ AmountsOK({x})
<1> DEFINE f == [y \in {x} |-> y.amt]
<1>1. IsFiniteSet({}) /\ x \notin {} /\ \A y \in {} \cup {x} : f[y] \in Int
  BY FS_EmptySet
<1>2. f[x] = x.amt /\ SumAmt({x}) = SumFunctionOnSet(f, {x})
  BY DEF SumAmt, SumFunction
<1> HIDE DEF f
<1>3. SumFunctionOnSet(f, {} \cup {x}) = SumFunctionOnSet(f, {}) + f[x]
  BY ONLY <1>1, SumAdd
<1>4. SumFunctionOnSet(f, {}) = 0 /\ {} \cup {x} = {x}
  BY SumEmpty
<1>5. IsFiniteSet({x})
  BY FS_Singleton
<1> QED BY <1>2, <1>3, <1>4, <1>5 DEF AmountsOK

(* A part of the rows.                                                     *)
LEMMA AmountsPart ==
    ASSUME NEW rows, AmountsOK(rows), NEW part, part \subseteq rows
    PROVE  AmountsOK(part)
  BY FS_Subset DEF AmountsOK

(* A row more.                                                             *)
LEMMA SumAmtAdd ==
    ASSUME NEW rows, AmountsOK(rows), NEW x, x \notin rows, x.amt \in Nat
    PROVE  /\ AmountsOK(rows \cup {x})
           /\ SumAmt(rows \cup {x}) = SumAmt(rows) + x.amt
<1>1. SumAmt({x}) = x.amt /\ AmountsOK({x})
  BY SumAmtSingle
<1>2. rows \cap {x} = {}
  OBVIOUS
<1>3. SumAmt(rows \cup {x}) = SumAmt(rows) + SumAmt({x})
  BY <1>1, <1>2, SumAmtUnion
<1>4. IsFiniteSet(rows \cup {x})
  BY FS_AddElement DEF AmountsOK
<1> QED BY <1>1, <1>3, <1>4 DEF AmountsOK

(* A transfer more into a reserve.                                         *)
LEMMA InAmtAdd ==
    ASSUME NEW rows, AmountsOK(rows), NEW x, x \notin rows, x.amt \in Nat,
           NEW r
    PROVE  InAmt(rows \cup {x}, r) =
             IF x.reserve = r THEN InAmt(rows, r) + x.amt ELSE InAmt(rows, r)
<1>1. AmountsOK(InOf(rows, r)) /\ x \notin InOf(rows, r)
  BY AmountsPart DEF InOf
<1>2. CASE x.reserve = r
  <2>1. InOf(rows \cup {x}, r) = InOf(rows, r) \cup {x}
    BY <1>2 DEF InOf
  <2> QED BY <1>1, <1>2, <2>1, SumAmtAdd DEF InAmt
<1>3. CASE x.reserve # r
  <2>1. InOf(rows \cup {x}, r) = InOf(rows, r)
    BY <1>3 DEF InOf
  <2> QED BY <1>3, <2>1 DEF InAmt
<1> QED BY <1>2, <1>3

LEMMA InAmtNat ==
    ASSUME NEW rows, AmountsOK(rows), NEW r
    PROVE  InAmt(rows, r) \in Nat
<1>1. AmountsOK(InOf(rows, r))
  BY AmountsPart DEF InOf
<1> QED BY <1>1, SumAmtNat DEF InAmt

LEMMA InAmtUnion ==
    ASSUME NEW S, NEW T, AmountsOK(S), AmountsOK(T), S \cap T = {}, NEW r
    PROVE  InAmt(S \cup T, r) = InAmt(S, r) + InAmt(T, r)
<1>1. AmountsOK(InOf(S, r)) /\ AmountsOK(InOf(T, r))
  BY AmountsPart DEF InOf
<1>2. /\ InOf(S, r) \cap InOf(T, r) = {}
      /\ InOf(S \cup T, r) = InOf(S, r) \cup InOf(T, r)
  BY DEF InOf
<1> QED BY <1>1, <1>2, SumAmtUnion DEF InAmt

(* A recoup more.                                                          *)
LEMMA RecoupAmtAdd ==
    ASSUME NEW rows, AmountsOK(rows), NEW x, x \notin rows, x.amt \in Nat,
           NEW r
    PROVE  RecoupAmt(rows \cup {x}, r) =
             IF CoinReserve[x.coin] = r THEN RecoupAmt(rows, r) + x.amt
             ELSE RecoupAmt(rows, r)
<1>1. AmountsOK(RecoupOf(rows, r)) /\ x \notin RecoupOf(rows, r)
  BY AmountsPart DEF RecoupOf
<1>2. CASE CoinReserve[x.coin] = r
  <2>1. RecoupOf(rows \cup {x}, r) = RecoupOf(rows, r) \cup {x}
    BY <1>2 DEF RecoupOf
  <2> QED BY <1>1, <1>2, <2>1, SumAmtAdd DEF RecoupAmt
<1>3. CASE CoinReserve[x.coin] # r
  <2>1. RecoupOf(rows \cup {x}, r) = RecoupOf(rows, r)
    BY <1>3 DEF RecoupOf
  <2> QED BY <1>3, <2>1 DEF RecoupAmt
<1> QED BY <1>2, <1>3

LEMMA RecoupAmtNat ==
    ASSUME NEW rows, AmountsOK(rows), NEW r
    PROVE  RecoupAmt(rows, r) \in Nat
<1>1. AmountsOK(RecoupOf(rows, r))
  BY AmountsPart DEF RecoupOf
<1> QED BY <1>1, SumAmtNat DEF RecoupAmt

(* A withdrawal more.                                                      *)
LEMMA OutAmtAdd ==
    ASSUME NEW S, IsFiniteSet(S), S \subseteq Coins, NEW c \in Coins, c \notin S,
           NEW r
    PROVE  OutAmt(S \cup {c}, r) =
             IF CoinReserve[c] = r THEN OutAmt(S, r) + Cost[c] ELSE OutAmt(S, r)
<1>1. /\ IsFiniteSet(OutOf(S, r)) /\ c \notin OutOf(S, r)
      /\ \A d \in OutOf(S, r) \cup {c} : Cost[d] \in Int
  BY FS_Subset, CoinsAssumption DEF OutOf
<1>2. CASE CoinReserve[c] = r
  <2>1. OutOf(S \cup {c}, r) = OutOf(S, r) \cup {c}
    BY <1>2 DEF OutOf
  <2> QED BY <1>1, <1>2, <2>1, SumAdd DEF OutAmt
<1>3. CASE CoinReserve[c] # r
  <2>1. OutOf(S \cup {c}, r) = OutOf(S, r)
    BY <1>3 DEF OutOf
  <2> QED BY <1>3, <2>1 DEF OutAmt
<1> QED BY <1>2, <1>3

LEMMA OutAmtNat ==
    ASSUME NEW S, IsFiniteSet(S), S \subseteq Coins, NEW r
    PROVE  OutAmt(S, r) \in Nat
<1>1. IsFiniteSet(OutOf(S, r)) /\ \A d \in OutOf(S, r) : Cost[d] \in Nat
  BY FS_Subset, CoinsAssumption DEF OutOf
<1> QED BY <1>1, SumNat DEF OutAmt

---------------------------------------------------------------------------
(* The books.                                                              *)

\* The rows that a reserve's balance comes from.
Explained(bal, cl, ins, outs, recs, r) ==
    bal + cl + OutAmt(outs, r) = InAmt(ins, r) + RecoupAmt(recs, r)

\* The tables are finite, a serial number is given to one row, and the open
\* transaction has added to the balances of its snapshot what its rows say.
BooksInv ==
    /\ IsFiniteSet(reserves_in) /\ IsFiniteSet(reserves_out)
    /\ IsFiniteSet(recoup) /\ IsFiniteSet(txn.new)
    /\ \A q \in reserves_in : q.serial < in_serial
    /\ watch = "rows" => in_serial <= txn.serial
    /\ \A q \in txn.new : in_serial <= q.serial /\ q.serial < txn.serial
    /\ \A r \in Reserves :
          txn.cur[r].bal = txn.snap[r].bal + InAmt(txn.new, r)
    /\ \A r \in Reserves :
          Explained(reserves[r].bal, closed[r], reserves_in, reserves_out,
                    recoup, r)

(* The tables hold amounts.                                                *)
LEMMA BooksTypes ==
    ASSUME IndInv, BooksInv
    PROVE  /\ AmountsOK(reserves_in) /\ AmountsOK(recoup) /\ AmountsOK(txn.new)
           /\ IsFiniteSet(reserves_out) /\ reserves_out \subseteq Coins
  BY DEF IndInv, TypeOK, BooksInv, AmountsOK, InRow, Transaction

(* A database without rows.                                                *)
LEMMA InitBooks == Init => BooksInv
<1> SUFFICES ASSUME Init PROVE BooksInv
  OBVIOUS
<1>1. \A r : InAmt({}, r) = 0 /\ OutAmt({}, r) = 0 /\ RecoupAmt({}, r) = 0
  <2>1. TAKE r
  <2>2. InOf({}, r) = {} /\ OutOf({}, r) = {} /\ RecoupOf({}, r) = {}
    BY DEF InOf, OutOf, RecoupOf
  <2> QED BY <2>2, NoAmount, SumEmpty DEF InAmt, OutAmt, RecoupAmt
<1>2. /\ reserves_in = {} /\ reserves_out = {} /\ recoup = {} /\ txn.new = {}
      /\ watch # "rows"
      /\ \A r \in Reserves :
            /\ txn.cur[r].bal = 0 /\ txn.snap[r].bal = 0
            /\ reserves[r].bal = 0 /\ closed[r] = 0
  BY DEF Init, NoTransaction, NoReserve
<1> QED BY <1>1, <1>2, FS_EmptySet DEF BooksInv, Explained

(* A step that changes neither the tables nor wirewatch.                   *)
LEMMA StillBooks ==
    ASSUME BooksInv, UNCHANGED <<tableVars, watchVars>>
    PROVE  BooksInv'
  BY DEF BooksInv, tableVars, watchVars

(* A step after which wirewatch has read no row.                           *)
LEMMA FreshBooks ==
    ASSUME BooksInv, UNCHANGED tableVars, txn'.new = {},
           \A r \in Reserves : /\ txn'.cur[r].bal = txn'.snap[r].bal
                               /\ txn'.snap[r].bal \in Nat,
           watch' = "rows" => in_serial <= txn'.serial
    PROVE  BooksInv'
<1>1. \A r : InAmt({}, r) = 0
  <2>1. \A r : InOf({}, r) = {}
    BY DEF InOf
  <2> QED BY <2>1, NoAmount DEF InAmt
<1>2. IsFiniteSet({})
  BY FS_EmptySet
<1> QED BY <1>1, <1>2 DEF BooksInv, tableVars

(* The steps of wirewatch around the rows of a reply.                      *)
LEMMA OtherWirewatchBooks ==
    ASSUME IndInv, IndInv', BooksInv,
           FindTransfers \/ HistoryReply \/ HistoryError
             \/ WirewatchSoftError \/ WirewatchStops \/ WirewatchStarts
    PROVE  BooksInv'
<1>0. \A r \in Reserves : txn'.snap[r].bal \in Nat
  BY DEF IndInv, TypeOK, Transaction, ReserveRecord
<1>1. CASE txn' = txn /\ watch # "rows" /\ watch' # "rows" /\ UNCHANGED tableVars
  <2>1. BooksInv' <=> BooksInv
    BY <1>1 DEF BooksInv, tableVars
  <2> QED BY <2>1
<1>2. CASE txn' = NoTransaction /\ watch' # "rows" /\ UNCHANGED tableVars
  <2>1. /\ txn'.new = {}
        /\ \A r \in Reserves : txn'.cur[r].bal = txn'.snap[r].bal
    BY <1>2 DEF NoTransaction
  <2> QED BY <1>0, <1>2, <2>1, FreshBooks
<1>3. CASE (\E rs, row, end : txn' = Begin(rs, row, end)) /\ UNCHANGED tableVars
  <2>1. /\ txn'.new = {} /\ txn'.serial = in_serial /\ in_serial \in Nat
        /\ \A r \in Reserves : txn'.cur[r].bal = txn'.snap[r].bal
    BY <1>3 DEF Begin, IndInv, TypeOK
  <2> QED BY <1>0, <1>3, <2>1, FreshBooks
<1>4. CASE FindTransfers
  <2>1. CASE reset_mode
    BY <1>1, <1>4, <2>1 DEF FindTransfers
  <2>2. CASE ~reset_mode
    BY <1>3, <1>4, <2>2 DEF FindTransfers
  <2> QED BY <2>1, <2>2
<1>5. CASE HistoryReply
  <2>1. (\E rs, row, end : txn' = Begin(rs, row, end)) /\ UNCHANGED tableVars
    BY <1>5 DEF HistoryReply
  <2> QED BY <1>3, <2>1
<1>6. CASE HistoryError \/ WirewatchSoftError \/ WirewatchStops
  BY <1>2, <1>6 DEF HistoryError, WirewatchSoftError, WirewatchStops
<1>7. CASE WirewatchStarts
  BY <1>1, <1>7 DEF WirewatchStarts
<1> QED BY <1>4, <1>5, <1>6, <1>7

(* What history_cb does with a row: skip it, or add it to the transaction. *)
LEMMA HistoryRowChange ==
    ASSUME IndInv, IndInv', HistoryRow
    PROVE  /\ UNCHANGED <<tableVars, watch, wa_pos, credits>>
           /\ watch = "rows" /\ txn'.snap = txn.snap
           /\ txn'.row = txn.row + 1 /\ txn'.end = txn.end
           /\ \/ UNCHANGED <<txn.cur, txn.new, txn.serial>>
              \/ \E row \in InRow :
                    /\ row.serial = txn.serial /\ row.account = wa_pos
                    /\ row.ref = txn.row + 1 /\ ~Duplicate(row)
                    /\ txn'.new = txn.new \cup {row}
                    /\ txn'.serial = txn.serial + 1
                    /\ txn'.cur = [txn.cur EXCEPT ![row.reserve] =
                                     Credited(txn.cur[row.reserve], row)]
<1> DEFINE row == CreditDetails(wa_pos, txn.row + 1)
<1>1. /\ row.serial = txn.serial /\ row.account = wa_pos
      /\ row.ref = txn.row + 1
  BY DEF CreditDetails
<1>2. /\ watch = "rows"
      /\ txn' = IF Duplicate(row)
                THEN [txn EXCEPT !.row = @ + 1]
                ELSE [txn EXCEPT !.row = @ + 1,
                                 !.new = @ \cup {row},
                                 !.serial = @ + 1,
                                 !.cur[row.reserve] = Credited(@, row)]
      /\ UNCHANGED <<tableVars, watch, wa_pos, credits>>
  BY DEF HistoryRow, historyVars
<1>3. txn \in Transaction /\ txn'.new \subseteq InRow
  BY DEF IndInv, TypeOK, Transaction
<1> HIDE DEF row
<1>4. CASE Duplicate(row)
  <2>1. txn' = [txn EXCEPT !.row = @ + 1]
    BY <1>2, <1>4
  <2>2. /\ txn'.snap = txn.snap /\ txn'.row = txn.row + 1
        /\ txn'.end = txn.end
        /\ txn'.cur = txn.cur /\ txn'.new = txn.new
        /\ txn'.serial = txn.serial
    BY <1>3, <2>1 DEF Transaction
  <2> QED BY <1>2, <2>2
<1>5. CASE ~Duplicate(row)
  <2> DEFINE new == txn.new \cup {row}
             cur == [txn.cur EXCEPT ![row.reserve] =
                       Credited(txn.cur[row.reserve], row)]
  <2>1. txn' = [txn EXCEPT !.row = @ + 1, !.new = new, !.serial = @ + 1,
                           !.cur = cur]
    BY <1>2, <1>3, <1>5 DEF Transaction
  <2> HIDE DEF new, cur
  <2>2. txn' = [snap |-> txn.snap, cur |-> cur, new |-> new,
                serial |-> txn.serial + 1, row |-> txn.row + 1,
                end |-> txn.end]
    BY <1>3, <2>1 DEF Transaction
  <2>3. /\ txn'.snap = txn.snap /\ txn'.row = txn.row + 1
        /\ txn'.end = txn.end /\ txn'.serial = txn.serial + 1
        /\ txn'.new = new /\ txn'.cur = cur
    BY <2>2
  <2>4. row \in InRow
    BY <1>3, <2>3 DEF new
  <2> QED BY <1>1, <1>2, <1>5, <2>3, <2>4 DEF new, cur
<1> QED BY <1>4, <1>5

(* history_cb adds the amount of the row to its copy of the balance.       *)
LEMMA HistoryRowBooks ==
    ASSUME IndInv, IndInv', BooksInv, HistoryRow
    PROVE  BooksInv'
<1>1. /\ UNCHANGED <<reserves, reserves_in, in_serial, reserves_out, recoup,
                     closed, watch, wa_pos, credits>>
      /\ watch = "rows" /\ txn'.snap = txn.snap
      /\ \/ UNCHANGED <<txn.cur, txn.new, txn.serial>>
         \/ \E row \in InRow :
               /\ row.serial = txn.serial /\ row.account = wa_pos
               /\ row.ref = txn.row + 1 /\ ~Duplicate(row)
               /\ txn'.new = txn.new \cup {row}
               /\ txn'.serial = txn.serial + 1
               /\ txn'.cur = [txn.cur EXCEPT ![row.reserve] =
                                Credited(txn.cur[row.reserve], row)]
  BY HistoryRowChange DEF tableVars
<1>2. CASE UNCHANGED <<txn.cur, txn.new, txn.serial>>
  BY <1>1, <1>2 DEF BooksInv
<1>3. ASSUME NEW row \in InRow, row.serial = txn.serial,
             txn'.new = txn.new \cup {row}, txn'.serial = txn.serial + 1,
             txn'.cur = [txn.cur EXCEPT ![row.reserve] =
                           Credited(txn.cur[row.reserve], row)]
      PROVE  BooksInv'
  <2>1. /\ txn.serial \in Nat /\ in_serial \in Nat
        /\ row.amt \in Nat /\ row.reserve \in Reserves /\ row.serial \in Nat
        /\ txn.cur \in [Reserves -> ReserveRecord]
        /\ txn.snap \in [Reserves -> ReserveRecord]
        /\ \A q \in txn.new : q.serial \in Nat
    BY DEF IndInv, TypeOK, Transaction, InRow
  <2>2. AmountsOK(txn.new) /\ row \notin txn.new
    BY <1>3, <2>1, BooksTypes DEF BooksInv
  <2>3. IsFiniteSet(txn'.new)
    BY <1>3, <2>1, <2>2, SumAmtAdd DEF AmountsOK
  <2>4. in_serial <= txn'.serial
    BY <1>1, <1>3, <2>1 DEF BooksInv
  <2>5. \A q \in txn'.new : in_serial <= q.serial /\ q.serial < txn'.serial
    BY <1>1, <1>3, <2>1 DEF BooksInv
  <2>6. ASSUME NEW r \in Reserves
        PROVE  txn'.cur[r].bal = txn'.snap[r].bal + InAmt(txn'.new, r)
    <3>1. InAmt(txn'.new, r) =
            IF row.reserve = r THEN InAmt(txn.new, r) + row.amt
            ELSE InAmt(txn.new, r)
      BY <1>3, <2>1, <2>2, InAmtAdd
    <3>2. /\ InAmt(txn.new, r) \in Nat /\ txn.snap[r].bal \in Nat
          /\ txn.cur[r].bal = txn.snap[r].bal + InAmt(txn.new, r)
      BY <2>1, <2>2, InAmtNat DEF BooksInv, ReserveRecord
    <3>3. CASE row.reserve = r
      <4>1. txn'.cur[r] = Credited(txn.cur[r], row)
        BY <1>3, <2>1, <3>3
      <4>2. txn'.cur[r].bal = txn.cur[r].bal + row.amt
        BY <4>1 DEF Credited
      <4> QED BY <1>1, <2>1, <3>1, <3>2, <3>3, <4>2
    <3>4. CASE row.reserve # r
      <4>1. txn'.cur[r] = txn.cur[r]
        BY <1>3, <2>1, <3>4
      <4> QED BY <1>1, <3>1, <3>2, <3>4, <4>1
    <3> QED BY <3>3, <3>4
  <2> QED BY <1>1, <2>3, <2>4, <2>5, <2>6 DEF BooksInv
<1> QED BY <1>1, <1>2, <1>3

(* The commit writes the balances that wirewatch computed.  They are still *)
(* right, because the reserves are those of the snapshot.                  *)
LEMMA HistoryEndBooks ==
    ASSUME IndInv, IndInv', BooksInv, HistoryEnd
    PROVE  BooksInv'
<1>1. /\ Committable
      /\ reserves_in' = reserves_in \cup txn.new
      /\ in_serial' = IF txn.new = {} THEN in_serial ELSE txn.serial
      /\ reserves' = [r \in Reserves |->
                        IF Updated(r) THEN txn.cur[r] ELSE reserves[r]]
      /\ watch' = "ready" /\ txn' = NoTransaction
      /\ UNCHANGED <<reserves_out, recoup, closed>>
  BY DEF HistoryEnd
<1>2. /\ AmountsOK(reserves_in) /\ AmountsOK(txn.new) /\ AmountsOK(recoup)
      /\ IsFiniteSet(reserves_out) /\ reserves_out \subseteq Coins
  BY BooksTypes
<1>3. /\ in_serial \in Nat /\ txn.serial \in Nat
      /\ \A q \in reserves_in \cup txn.new : q.serial \in Nat
      /\ reserves \in [Reserves -> ReserveRecord]
      /\ txn.snap \in [Reserves -> ReserveRecord]
      /\ closed \in [Reserves -> Nat]
  BY DEF IndInv, TypeOK, Transaction, InRow
<1>4. reserves_in \cap txn.new = {}
  BY <1>3 DEF BooksInv
<1>5. \A q \in reserves_in' : q.serial < in_serial'
  <2>1. CASE txn.new = {}
    BY <1>1, <2>1 DEF BooksInv
  <2>2. CASE txn.new # {}
    BY <1>1, <1>3, <2>2 DEF BooksInv
  <2> QED BY <2>1, <2>2
<1>6. IsFiniteSet(reserves_in')
  BY <1>1, <1>2, FS_Union DEF AmountsOK
<1>7. /\ IsFiniteSet(txn'.new) /\ txn'.new = {}
      /\ \A r \in Reserves :
            txn'.cur[r].bal = txn'.snap[r].bal + InAmt(txn'.new, r)
  <2>1. \A r : InOf({}, r) = {}
    BY DEF InOf
  <2>2. \A r : InAmt({}, r) = 0
    BY <2>1, NoAmount DEF InAmt
  <2> QED BY <1>1, <2>2, FS_EmptySet DEF NoTransaction, NoReserve
<1>8. ASSUME NEW r \in Reserves
      PROVE  Explained(reserves'[r].bal, closed'[r], reserves_in',
                       reserves_out', recoup', r)
  <2>1. InAmt(reserves_in', r) = InAmt(reserves_in, r) + InAmt(txn.new, r)
    BY <1>1, <1>2, <1>4, InAmtUnion
  <2>2. /\ InAmt(reserves_in, r) \in Nat /\ InAmt(txn.new, r) \in Nat
        /\ RecoupAmt(recoup, r) \in Nat /\ OutAmt(reserves_out, r) \in Nat
        /\ closed[r] \in Nat /\ reserves[r].bal \in Nat
    BY <1>2, <1>3, InAmtNat, RecoupAmtNat, OutAmtNat DEF ReserveRecord
  <2>3. reserves'[r].bal = reserves[r].bal + InAmt(txn.new, r)
    <3>1. CASE Updated(r)
      <4>1. reserves[r] = txn.snap[r]
        BY <1>1, <3>1 DEF Committable, Updated
      <4> QED BY <1>1, <3>1, <4>1 DEF BooksInv
    <3>2. CASE ~Updated(r)
      <4>1. InOf(txn.new, r) = {}
        BY <3>2 DEF InOf, Updated
      <4>2. InAmt(txn.new, r) = 0
        BY <4>1, NoAmount DEF InAmt
      <4> QED BY <1>1, <2>2, <3>2, <4>2
    <3> QED BY <3>1, <3>2
  <2>4. reserves[r].bal + closed[r] + OutAmt(reserves_out, r)
          = InAmt(reserves_in, r) + RecoupAmt(recoup, r)
    BY DEF BooksInv, Explained
  <2> QED BY <1>1, <2>1, <2>2, <2>3, <2>4 DEF Explained
<1> QED BY <1>1, <1>2, <1>5, <1>6, <1>7, <1>8 DEF BooksInv, AmountsOK

(* insert_withdraw_info takes from the balance what the coin costs.        *)
LEMMA WithdrawBooks ==
    ASSUME IndInv, BooksInv, NEW c \in Coins, Withdraw(c)
    PROVE  BooksInv'
<1> DEFINE w == CoinReserve[c]
<1>1. /\ c \notin reserves_out /\ Cost[c] <= reserves[w].bal
      /\ reserves_out' = reserves_out \cup {c}
      /\ reserves' = [reserves EXCEPT ![w] = AfterWithdrawal(reserves[w], c)]
      /\ UNCHANGED <<reserves_in, in_serial, recoup, closed, watch, txn>>
  BY DEF Withdraw, watchVars
<1>2. /\ AmountsOK(reserves_in) /\ AmountsOK(recoup)
      /\ IsFiniteSet(reserves_out) /\ reserves_out \subseteq Coins
  BY BooksTypes
<1>3. /\ w \in Reserves /\ Cost[c] \in Nat
      /\ reserves \in [Reserves -> ReserveRecord]
      /\ closed \in [Reserves -> Nat]
  BY CoinsAssumption DEF IndInv, TypeOK
<1>4. IsFiniteSet(reserves_out')
  BY <1>1, <1>2, FS_AddElement
<1>5. AfterWithdrawal(reserves[w], c).bal = reserves[w].bal - Cost[c]
  BY <1>3 DEF AfterWithdrawal, ReserveRecord
<1> HIDE DEF w
<1>6. ASSUME NEW r \in Reserves
      PROVE  Explained(reserves'[r].bal, closed[r], reserves_in,
                       reserves_out', recoup, r)
  <2>1. OutAmt(reserves_out', r) =
          IF w = r THEN OutAmt(reserves_out, r) + Cost[c]
          ELSE OutAmt(reserves_out, r)
    BY <1>1, <1>2, OutAmtAdd DEF w
  <2>2. /\ InAmt(reserves_in, r) \in Nat /\ RecoupAmt(recoup, r) \in Nat
        /\ OutAmt(reserves_out, r) \in Nat
        /\ closed[r] \in Nat /\ reserves[r].bal \in Nat
    BY <1>2, <1>3, InAmtNat, RecoupAmtNat, OutAmtNat DEF ReserveRecord
  <2>3. reserves'[r].bal =
          IF w = r THEN reserves[r].bal - Cost[c] ELSE reserves[r].bal
    BY <1>1, <1>3, <1>5
  <2>4. reserves[r].bal + closed[r] + OutAmt(reserves_out, r)
          = InAmt(reserves_in, r) + RecoupAmt(recoup, r)
    BY DEF BooksInv, Explained
  <2> QED BY <1>3, <2>1, <2>2, <2>3, <2>4 DEF Explained
<1> QED BY <1>1, <1>4, <1>6 DEF BooksInv

(* insert_recoup_request puts back what is left of the coin.               *)
LEMMA RecoupBooks ==
    ASSUME IndInv, BooksInv, NEW c \in Coins,
           NEW amount \in 1..CoinValue[c], Recoup(c, amount)
    PROVE  BooksInv'
<1> DEFINE w == CoinReserve[c]
           x == [coin |-> c, amt |-> amount]
           rec == [bal |-> reserves[w].bal + amount,
                   expiry |-> Later(reserves[w].expiry, now + IdleExpiration),
                   gc |-> Later(reserves[w].gc, now + LegalExpiration)]
<1>1. /\ \A p \in recoup : p.coin # c
      /\ recoup' = recoup \cup {x}
      /\ reserves' = [reserves EXCEPT ![w] = rec]
      /\ UNCHANGED <<reserves_in, in_serial, reserves_out, closed, watch, txn>>
  BY DEF Recoup, watchVars
<1>2. /\ AmountsOK(reserves_in) /\ AmountsOK(recoup)
      /\ IsFiniteSet(reserves_out) /\ reserves_out \subseteq Coins
  BY BooksTypes
<1>3. /\ w \in Reserves /\ amount \in Nat
      /\ reserves \in [Reserves -> ReserveRecord]
      /\ closed \in [Reserves -> Nat]
  BY CoinsAssumption DEF IndInv, TypeOK
<1>4. /\ x \notin recoup /\ x.amt = amount /\ x.coin = c
      /\ rec.bal = reserves[w].bal + amount
  BY <1>1
<1> HIDE DEF x, rec, w
<1>5. IsFiniteSet(recoup')
  BY <1>1, <1>2, FS_AddElement DEF AmountsOK
<1>6. ASSUME NEW r \in Reserves
      PROVE  Explained(reserves'[r].bal, closed[r], reserves_in,
                       reserves_out, recoup', r)
  <2>1. RecoupAmt(recoup', r) =
          IF w = r THEN RecoupAmt(recoup, r) + amount ELSE RecoupAmt(recoup, r)
    BY <1>1, <1>2, <1>3, <1>4, RecoupAmtAdd DEF w
  <2>2. /\ InAmt(reserves_in, r) \in Nat /\ RecoupAmt(recoup, r) \in Nat
        /\ OutAmt(reserves_out, r) \in Nat
        /\ closed[r] \in Nat /\ reserves[r].bal \in Nat
    BY <1>2, <1>3, InAmtNat, RecoupAmtNat, OutAmtNat DEF ReserveRecord
  <2>3. reserves'[r].bal =
          IF w = r THEN reserves[r].bal + amount ELSE reserves[r].bal
    BY <1>1, <1>3, <1>4
  <2>4. reserves[r].bal + closed[r] + OutAmt(reserves_out, r)
          = InAmt(reserves_in, r) + RecoupAmt(recoup, r)
    BY DEF BooksInv, Explained
  <2> QED BY <1>3, <2>1, <2>2, <2>3, <2>4 DEF Explained
<1> QED BY <1>1, <1>5, <1>6 DEF BooksInv

(* The closer moves the balance to reserves_close.                         *)
LEMMA CloseReserveBooks ==
    ASSUME IndInv, BooksInv, NEW w \in Reserves, CloseReserve(w)
    PROVE  BooksInv'
<1> DEFINE left == reserves[w].bal
<1>1. /\ closed' = [closed EXCEPT ![w] = @ + left]
      /\ reserves' = [reserves EXCEPT ![w].bal = @ - left]
      /\ UNCHANGED <<reserves_in, in_serial, reserves_out, recoup, watch, txn>>
  BY DEF CloseReserve, ExpiredReserve, InsertReserveClosed, watchVars
<1>2. /\ AmountsOK(reserves_in) /\ AmountsOK(recoup)
      /\ IsFiniteSet(reserves_out) /\ reserves_out \subseteq Coins
  BY BooksTypes
<1>3. /\ reserves \in [Reserves -> ReserveRecord]
      /\ closed \in [Reserves -> Nat] /\ left \in Nat
  BY DEF IndInv, TypeOK, ReserveRecord
<1>4. reserves' = [reserves EXCEPT ![w] = [@ EXCEPT !.bal = left - left]]
  BY <1>1, <1>3
<1>5. [reserves[w] EXCEPT !.bal = left - left].bal = 0
  BY <1>3 DEF ReserveRecord
<1>6. \A r \in Reserves :
        /\ reserves'[r].bal = IF r = w THEN 0 ELSE reserves[r].bal
        /\ closed'[r] = IF r = w THEN closed[r] + reserves[r].bal ELSE closed[r]
  BY <1>1, <1>3, <1>4, <1>5
<1>7. ASSUME NEW r \in Reserves
      PROVE  Explained(reserves'[r].bal, closed'[r], reserves_in,
                       reserves_out, recoup, r)
  <2>1. /\ InAmt(reserves_in, r) \in Nat /\ RecoupAmt(recoup, r) \in Nat
        /\ OutAmt(reserves_out, r) \in Nat
        /\ closed[r] \in Nat /\ reserves[r].bal \in Nat
    BY <1>2, <1>3, InAmtNat, RecoupAmtNat, OutAmtNat DEF ReserveRecord
  <2>2. reserves[r].bal + closed[r] + OutAmt(reserves_out, r)
          = InAmt(reserves_in, r) + RecoupAmt(recoup, r)
    BY DEF BooksInv, Explained
  <2> QED BY <1>6, <2>1, <2>2 DEF Explained
<1> QED BY <1>1, <1>7 DEF BooksInv

(* The garbage collector takes all the rows of a reserve or none.          *)
LEMMA GcBooks ==
    ASSUME IndInv, BooksInv, Gc
    PROVE  BooksInv'
<1>1. /\ reserves' = [r \in Reserves |->
                        IF r \in Garbage THEN NoReserve ELSE reserves[r]]
      /\ reserves_in' = {q \in reserves_in : q.reserve \notin Garbage}
      /\ reserves_out' = {c \in reserves_out : CoinReserve[c] \notin Garbage}
      /\ recoup' = {p \in recoup : CoinReserve[p.coin] \notin Garbage}
      /\ closed' = [r \in Reserves |-> IF r \in Garbage THEN 0 ELSE closed[r]]
      /\ UNCHANGED <<in_serial, watch, txn>>
  BY DEF Gc, watchVars
<1>2. /\ IsFiniteSet(reserves_in') /\ IsFiniteSet(reserves_out')
      /\ IsFiniteSet(recoup')
  BY <1>1, FS_Subset DEF BooksInv
<1>3. ASSUME NEW r \in Reserves
      PROVE  Explained(reserves'[r].bal, closed'[r], reserves_in',
                       reserves_out', recoup', r)
  <2>1. CASE r \in Garbage
    <3>1. /\ InOf(reserves_in', r) = {} /\ OutOf(reserves_out', r) = {}
          /\ RecoupOf(recoup', r) = {}
      BY <1>1, <2>1 DEF InOf, OutOf, RecoupOf
    <3>2. reserves'[r].bal = 0 /\ closed'[r] = 0
      BY <1>1, <2>1 DEF NoReserve
    <3>3. SumAmt({}) = 0 /\ SumFunctionOnSet(Cost, {}) = 0
      BY NoAmount, SumEmpty
    <3> QED BY <3>1, <3>2, <3>3 DEF Explained, InAmt, OutAmt, RecoupAmt
  <2>2. CASE r \notin Garbage
    <3>1. /\ InOf(reserves_in', r) = InOf(reserves_in, r)
          /\ OutOf(reserves_out', r) = OutOf(reserves_out, r)
          /\ RecoupOf(recoup', r) = RecoupOf(recoup, r)
      BY <1>1, <2>2 DEF InOf, OutOf, RecoupOf
    <3>2. reserves'[r] = reserves[r] /\ closed'[r] = closed[r]
      BY <1>1, <2>2
    <3>3. Explained(reserves[r].bal, closed[r], reserves_in, reserves_out,
                    recoup, r)
      BY DEF BooksInv
    <3> QED BY <3>1, <3>2, <3>3 DEF Explained, InAmt, OutAmt, RecoupAmt
  <2> QED BY <2>1, <2>2
<1>4. \A q \in reserves_in' : q \in reserves_in
  BY <1>1
<1> QED BY <1>1, <1>2, <1>3, <1>4 DEF BooksInv

(* Every step of every program keeps the books.                            *)
LEMMA NextBooks == IndInv /\ IndInv' /\ BooksInv /\ [Next]_vars => BooksInv'
<1> SUFFICES ASSUME IndInv, IndInv', BooksInv, [Next]_vars PROVE BooksInv'
  OBVIOUS
<1>1. CASE Tick \/ CloserStops \/ CloserStarts \/ UNCHANGED vars
             \/ \E a \in Accounts : BankCredits(a)
  <2>1. UNCHANGED <<tableVars, watchVars>>
    BY <1>1 DEF Tick, CloserStops, CloserStarts, vars, BankCredits
  <2> QED BY <2>1, StillBooks
<1>2. CASE HistoryRow
  BY <1>2, HistoryRowBooks
<1>3. CASE HistoryEnd
  BY <1>3, HistoryEndBooks
<1>4. CASE FindTransfers \/ HistoryReply \/ HistoryError
             \/ WirewatchSoftError \/ WirewatchStops \/ WirewatchStarts
  BY <1>4, OtherWirewatchBooks
<1>5. ASSUME NEW r \in Reserves, CloseReserve(r) PROVE BooksInv'
  BY <1>5, CloseReserveBooks
<1>6. ASSUME NEW c \in Coins, Withdraw(c) PROVE BooksInv'
  BY <1>6, WithdrawBooks
<1>7. ASSUME NEW c \in Coins, NEW amount \in 1..CoinValue[c],
             Recoup(c, amount)
      PROVE  BooksInv'
  BY <1>7, RecoupBooks
<1>8. CASE Gc
  BY <1>8, GcBooks
<1> QED BY <1>1, <1>2, <1>3, <1>4, <1>5, <1>6, <1>7, <1>8
        DEF Next, WirewatchStep, CloserStep, ServerStep

(* The books are right in every reachable state.                           *)
THEOREM BooksInvariance == Spec => []BooksInv
  BY InitBooks, NextBooks, Invariance, PTL DEF Spec

(* The balance of a reserve is what its rows add up to, although wirewatch *)
(* writes a balance that it computed from a snapshot, while withdrawals,   *)
(* recoups, closures and the garbage collector change the same reserves.   *)
THEOREM BalanceAlwaysExplained == Spec => []BalanceExplained
<1>1. BooksInv => BalanceExplained
  BY DEF BooksInv, BalanceExplained, Explained, InAmt, OutAmt, RecoupAmt,
         InOf, OutOf, RecoupOf
<1> QED BY <1>1, BooksInvariance, PTL

---------------------------------------------------------------------------
(* What the owner of a reserve is told.                                    *)

SameKey(p, q) == p.reserve = q.reserve /\ p.ref = q.ref

\* The primary keys of reserves_in and recoup, with the open transaction.
KeysInv ==
    /\ \A p, q \in reserves_in : SameKey(p, q) => p = q
    /\ \A p, q \in txn.new : p.ref = q.ref => p = q
    /\ \A q \in txn.new : q.ref <= txn.row
    /\ \A p \in reserves_in, q \in txn.new : ~SameKey(p, q)
    /\ \A p, q \in recoup : p.coin = q.coin => p = q

Present(rows, r) == \E q \in rows : q.reserve = r

\* A reserve has a record if it has been credited, and rows in the other
\* tables only then.
PresentInv ==
    /\ \A r \in Reserves :
          IF Present(reserves_in, r) THEN reserves[r].expiry >= IdleExpiration
          ELSE reserves[r] = NoReserve /\ closed[r] = 0
    /\ \A c \in reserves_out : Present(reserves_in, CoinReserve[c])
    /\ \A p \in recoup : Present(reserves_in, CoinReserve[p.coin])
    /\ \A q \in txn.new : txn.cur[q.reserve].expiry >= IdleExpiration

(* The empty database.                                                     *)
LEMMA InitKeys == Init => KeysInv /\ PresentInv
  BY DEF Init, KeysInv, PresentInv, Present, NoTransaction

(* A step that leaves the tables alone and the transaction without rows,   *)
(* or both alone.                                                          *)
LEMMA StillKeys ==
    ASSUME KeysInv, PresentInv, UNCHANGED tableVars,
           txn'.new = {} \/ txn' = txn
    PROVE  KeysInv' /\ PresentInv'
  BY DEF KeysInv, PresentInv, Present, tableVars, SameKey

(* ON CONFLICT DO NOTHING: a new row has a key of its own.                 *)
LEMMA HistoryRowKeys ==
    ASSUME IndInv, IndInv', KeysInv, PresentInv, HistoryRow
    PROVE  KeysInv' /\ PresentInv'
<1>1. /\ UNCHANGED <<reserves, reserves_in, reserves_out, recoup, closed>>
      /\ txn'.row = txn.row + 1
      /\ \/ UNCHANGED <<txn.cur, txn.new, txn.serial>>
         \/ \E row \in InRow :
               /\ row.serial = txn.serial /\ row.account = wa_pos
               /\ row.ref = txn.row + 1 /\ ~Duplicate(row)
               /\ txn'.new = txn.new \cup {row}
               /\ txn'.serial = txn.serial + 1
               /\ txn'.cur = [txn.cur EXCEPT ![row.reserve] =
                                Credited(txn.cur[row.reserve], row)]
  BY HistoryRowChange DEF tableVars
<1>2. /\ txn.row \in Nat /\ \A q \in txn.new : q.ref \in Nat
      /\ txn.cur \in [Reserves -> ReserveRecord]
  BY DEF IndInv, TypeOK, Transaction, InRow
<1>3. CASE UNCHANGED <<txn.cur, txn.new, txn.serial>>
  <2>1. KeysInv'
    <3>1. \A q \in txn.new : q.ref <= txn'.row
      BY <1>1, <1>2 DEF KeysInv
    <3> QED BY <1>1, <1>3, <3>1 DEF KeysInv
  <2>2. PresentInv'
    BY <1>1, <1>3 DEF PresentInv
  <2> QED BY <2>1, <2>2
<1>4. ASSUME NEW row \in InRow, row.ref = txn.row + 1, ~Duplicate(row),
             txn'.new = txn.new \cup {row},
             txn'.cur = [txn.cur EXCEPT ![row.reserve] =
                           Credited(txn.cur[row.reserve], row)]
      PROVE  KeysInv' /\ PresentInv'
  <2>1. KeysInv'
    <3>1. \A q \in txn.new : q.ref <= txn.row /\ q.ref # row.ref
      BY <1>2, <1>4 DEF KeysInv
    <3>2. \A q \in txn'.new : q.ref <= txn'.row
      BY <1>1, <1>2, <1>4, <3>1
    <3>3. \A p, q \in txn'.new : p.ref = q.ref => p = q
      BY <1>4, <3>1 DEF KeysInv
    <3>4. \A p \in reserves_in, q \in txn'.new : ~SameKey(p, q)
      BY <1>4 DEF KeysInv, SameKey, Duplicate
    <3> QED BY <1>1, <3>2, <3>3, <3>4 DEF KeysInv
  <2>2. PresentInv'
    <3>1. /\ row.reserve \in Reserves /\ row.date \in Nat
          /\ txn.cur[row.reserve].expiry \in Nat /\ IdleExpiration \in Nat
      BY <1>2, ReservesAssumption DEF InRow, ReserveRecord
    <3>2. Credited(txn.cur[row.reserve], row).expiry >= IdleExpiration
      BY <3>1 DEF Credited, Later
    <3>3. \A q \in txn.new : q.reserve \in Reserves
      BY DEF IndInv, TypeOK, Transaction, InRow
    <3>4. \A q \in txn'.new : txn'.cur[q.reserve].expiry >= IdleExpiration
      <4>1. TAKE q \in txn'.new
      <4>2. CASE q.reserve = row.reserve
        BY <1>2, <1>4, <3>1, <3>2, <4>2
      <4>3. CASE q.reserve # row.reserve
        <5>1. q \in txn.new
          BY <1>4, <4>3
        <5>2. txn'.cur[q.reserve] = txn.cur[q.reserve]
          BY <1>2, <1>4, <3>3, <4>3, <5>1
        <5> QED BY <5>1, <5>2 DEF PresentInv
      <4> QED BY <4>2, <4>3
    <3> QED BY <1>1, <3>4 DEF PresentInv
  <2> QED BY <2>1, <2>2
<1> QED BY <1>1, <1>3, <1>4

(* The commit: the new rows have keys of their own, and the reserves that  *)
(* they fill have records.                                                 *)
LEMMA HistoryEndKeys ==
    ASSUME IndInv, KeysInv, PresentInv, HistoryEnd
    PROVE  KeysInv' /\ PresentInv'
<1>1. /\ reserves_in' = reserves_in \cup txn.new
      /\ reserves' = [r \in Reserves |->
                        IF Updated(r) THEN txn.cur[r] ELSE reserves[r]]
      /\ txn'.new = {}
      /\ UNCHANGED <<reserves_out, recoup, closed>>
  BY DEF HistoryEnd, NoTransaction
<1>2. KeysInv'
  BY <1>1 DEF KeysInv, SameKey
<1>3. PresentInv'
  <2>1. \A r : Present(reserves_in', r) <=> Present(reserves_in, r) \/ Updated(r)
    BY <1>1 DEF Present, Updated
  <2>2. \A r \in Reserves : Updated(r) => txn.cur[r].expiry >= IdleExpiration
    BY DEF PresentInv, Updated
  <2>3. \A r \in Reserves :
          IF Present(reserves_in', r) THEN reserves'[r].expiry >= IdleExpiration
          ELSE reserves'[r] = NoReserve /\ closed'[r] = 0
    BY <1>1, <2>1, <2>2 DEF PresentInv
  <2>4. /\ \A c \in reserves_out' : Present(reserves_in', CoinReserve[c])
        /\ \A p \in recoup' : Present(reserves_in', CoinReserve[p.coin])
    BY <1>1, <2>1 DEF PresentInv
  <2> QED BY <1>1, <2>3, <2>4 DEF PresentInv
<1> QED BY <1>2, <1>3

(* Withdrawals, recoups and closures change reserves that are there.       *)
LEMMA ServerKeys ==
    ASSUME IndInv, KeysInv, PresentInv, NEW w \in Reserves, NEW rec,
           reserves' = [reserves EXCEPT ![w] = rec],
           Present(reserves_in, w), rec.expiry >= IdleExpiration,
           UNCHANGED <<reserves_in, txn>>,
           \A r \in Reserves : r # w => closed'[r] = closed[r],
           \A c \in reserves_out' : c \in reserves_out \/ CoinReserve[c] = w,
           \A p \in recoup' : p \in recoup \/ CoinReserve[p.coin] = w,
           \A p, q \in recoup' : p.coin = q.coin => p = q
    PROVE  KeysInv' /\ PresentInv'
<1>1. KeysInv'
  BY DEF KeysInv
<1>2. reserves \in [Reserves -> ReserveRecord]
  BY DEF IndInv, TypeOK
<1>3. \A r \in Reserves :
        IF Present(reserves_in, r) THEN reserves'[r].expiry >= IdleExpiration
        ELSE reserves'[r] = NoReserve /\ closed'[r] = 0
  <2>1. TAKE r \in Reserves
  <2>2. CASE r = w
    BY <1>2, <2>2
  <2>3. CASE r # w
    BY <1>2, <2>3 DEF PresentInv
  <2> QED BY <2>2, <2>3
<1>4. PresentInv'
  BY <1>3 DEF PresentInv
<1> QED BY <1>1, <1>4

(* The garbage collector.                                                  *)
LEMMA GcKeys ==
    ASSUME IndInv, KeysInv, PresentInv, Gc
    PROVE  KeysInv' /\ PresentInv'
<1>1. /\ reserves' = [r \in Reserves |->
                        IF r \in Garbage THEN NoReserve ELSE reserves[r]]
      /\ reserves_in' = {q \in reserves_in : q.reserve \notin Garbage}
      /\ reserves_out' = {c \in reserves_out : CoinReserve[c] \notin Garbage}
      /\ recoup' = {p \in recoup : CoinReserve[p.coin] \notin Garbage}
      /\ closed' = [r \in Reserves |-> IF r \in Garbage THEN 0 ELSE closed[r]]
      /\ UNCHANGED txn
  BY DEF Gc, watchVars
<1>2. KeysInv'
  BY <1>1 DEF KeysInv
<1>3. PresentInv'
  <2>1. \A r : Present(reserves_in', r)
                 <=> Present(reserves_in, r) /\ r \notin Garbage
    BY <1>1 DEF Present
  <2>2. \A r \in Reserves :
          IF Present(reserves_in', r) THEN reserves'[r].expiry >= IdleExpiration
          ELSE reserves'[r] = NoReserve /\ closed'[r] = 0
    BY <1>1, <2>1 DEF PresentInv
  <2>3. /\ \A c \in reserves_out' : Present(reserves_in', CoinReserve[c])
        /\ \A p \in recoup' : Present(reserves_in', CoinReserve[p.coin])
    BY <1>1, <2>1 DEF PresentInv
  <2> QED BY <1>1, <2>2, <2>3 DEF PresentInv
<1> QED BY <1>2, <1>3

(* Every step of every program keeps the keys and the records.             *)
LEMMA NextKeys ==
    IndInv /\ IndInv' /\ KeysInv /\ PresentInv /\ [Next]_vars
      => KeysInv' /\ PresentInv'
<1> SUFFICES ASSUME IndInv, IndInv', KeysInv, PresentInv, [Next]_vars
             PROVE  KeysInv' /\ PresentInv'
  OBVIOUS
<1>0. /\ reserves \in [Reserves -> ReserveRecord] /\ closed \in [Reserves -> Nat]
      /\ now \in Nat /\ IdleExpiration \in Nat
  BY ReservesAssumption DEF IndInv, TypeOK
<1>1. CASE Tick \/ CloserStops \/ CloserStarts \/ UNCHANGED vars
             \/ \E a \in Accounts : BankCredits(a)
  <2>1. UNCHANGED <<tableVars, txn>>
    BY <1>1 DEF Tick, CloserStops, CloserStarts, vars, BankCredits, watchVars
  <2> QED BY <2>1, StillKeys
<1>2. CASE HistoryRow
  BY <1>2, HistoryRowKeys
<1>3. CASE HistoryEnd
  BY <1>3, HistoryEndKeys
<1>4. CASE FindTransfers \/ HistoryReply \/ HistoryError
             \/ WirewatchSoftError \/ WirewatchStops \/ WirewatchStarts
  <2>1. UNCHANGED tableVars
    BY <1>4 DEF FindTransfers, HistoryReply, HistoryError, WirewatchSoftError,
                WirewatchStops, WirewatchStarts
  <2>2. txn'.new = {} \/ txn' = txn
    BY <1>4 DEF FindTransfers, HistoryReply, HistoryError, WirewatchSoftError,
                WirewatchStops, WirewatchStarts, NoTransaction, Begin
  <2> QED BY <2>1, <2>2, StillKeys
<1>5. ASSUME NEW w \in Reserves, CloseReserve(w)
      PROVE  KeysInv' /\ PresentInv'
  <2> DEFINE left == reserves[w].bal
             rec == [reserves[w] EXCEPT !.bal = left - left]
  <2>1. /\ closed' = [closed EXCEPT ![w] = @ + left]
        /\ reserves' = [reserves EXCEPT ![w].bal = @ - left]
        /\ UNCHANGED <<reserves_in, reserves_out, recoup, txn>>
    BY <1>5 DEF CloseReserve, ExpiredReserve, InsertReserveClosed, watchVars
  <2>2. reserves' = [reserves EXCEPT ![w] = rec]
    BY <1>0, <2>1
  <2>3. reserves[w].bal # 0
    BY <1>5 DEF CloseReserve, ExpiredFirst, Expired
  <2>4. Present(reserves_in, w) /\ reserves[w].expiry >= IdleExpiration
    BY <2>3 DEF PresentInv, NoReserve
  <2>5. rec.expiry = reserves[w].expiry
    BY <1>0 DEF ReserveRecord
  <2>6. \A r \in Reserves : r # w => closed'[r] = closed[r]
    BY <1>0, <2>1
  <2>7. \A p, q \in recoup' : p.coin = q.coin => p = q
    BY <2>1 DEF KeysInv
  <2> HIDE DEF rec, left
  <2> QED BY <2>1, <2>2, <2>4, <2>5, <2>6, <2>7, ServerKeys
<1>6. ASSUME NEW c \in Coins, Withdraw(c) PROVE KeysInv' /\ PresentInv'
  <2> DEFINE w == CoinReserve[c]
             rec == AfterWithdrawal(reserves[w], c)
  <2>1. /\ reserves[w] # NoReserve
        /\ reserves_out' = reserves_out \cup {c}
        /\ reserves' = [reserves EXCEPT ![w] = rec]
        /\ UNCHANGED <<reserves_in, recoup, closed, txn>>
    BY <1>6 DEF Withdraw, watchVars
  <2>2. w \in Reserves
    BY CoinsAssumption
  <2>3. Present(reserves_in, w) /\ reserves[w].expiry >= IdleExpiration
    BY <2>1, <2>2 DEF PresentInv
  <2>4. rec.expiry = reserves[w].expiry
    BY <1>0, <2>2 DEF ReserveRecord, AfterWithdrawal
  <2>5. \A p, q \in recoup' : p.coin = q.coin => p = q
    BY <2>1 DEF KeysInv
  <2>6. /\ \A d \in reserves_out' : d \in reserves_out \/ CoinReserve[d] = w
        /\ \A p \in recoup' : p \in recoup
        /\ \A r \in Reserves : closed'[r] = closed[r]
    BY <2>1
  <2> HIDE DEF rec, w
  <2> QED BY <2>1, <2>2, <2>3, <2>4, <2>5, <2>6, ServerKeys
<1>7. ASSUME NEW c \in Coins, NEW amount \in 1..CoinValue[c],
             Recoup(c, amount)
      PROVE  KeysInv' /\ PresentInv'
  <2> DEFINE w == CoinReserve[c]
             x == [coin |-> c, amt |-> amount]
             rec == [bal |-> reserves[w].bal + amount,
                     expiry |-> Later(reserves[w].expiry, now + IdleExpiration),
                     gc |-> Later(reserves[w].gc, now + LegalExpiration)]
  <2>1. /\ c \in reserves_out
        /\ \A p \in recoup : p.coin # c
        /\ recoup' = recoup \cup {x}
        /\ reserves' = [reserves EXCEPT ![w] = rec]
        /\ UNCHANGED <<reserves_in, reserves_out, closed, txn>>
    BY <1>7 DEF Recoup, watchVars
  <2>2. w \in Reserves /\ reserves[w].expiry \in Nat
    BY <1>0, CoinsAssumption DEF ReserveRecord
  <2>3. Present(reserves_in, w)
    BY <2>1 DEF PresentInv
  <2>4. rec.expiry >= IdleExpiration
    BY <1>0, <2>2 DEF Later
  <2>5. x.coin = c
    OBVIOUS
  <2> HIDE DEF x
  <2>6. \A p, q \in recoup' : p.coin = q.coin => p = q
    BY <2>1, <2>5 DEF KeysInv
  <2>7. /\ \A d \in reserves_out' : d \in reserves_out
        /\ \A p \in recoup' : p \in recoup \/ CoinReserve[p.coin] = w
        /\ \A r \in Reserves : closed'[r] = closed[r]
    BY <2>1, <2>5
  <2> HIDE DEF rec, w
  <2> QED BY <2>1, <2>2, <2>3, <2>4, <2>6, <2>7, ServerKeys
<1>8. CASE Gc
  BY <1>8, GcKeys
<1> QED BY <1>1, <1>2, <1>3, <1>4, <1>5, <1>6, <1>7, <1>8
        DEF Next, WirewatchStep, CloserStep, ServerStep

(* The primary keys hold, and rows belong to reserves that are there.      *)
THEOREM KeysInvariance == Spec => [](KeysInv /\ PresentInv)
  BY InitKeys, NextKeys, Invariance, PTL DEF Spec

(* The entries of a history add up to what the rows behind them add up to. *)
LEMMA EntriesAddUp ==
    ASSUME NEW S, NEW f, NEW g, NEW type, NEW h, IsFiniteSet(S),
           \A x \in S : f[x] \in Int /\ g[x].amount = f[x],
           \A x, y \in S : g[x] = g[y] => x = y,
           EntriesOf(h, type) = {g[x] : x \in S}
    PROVE  EntryTotal(h, type) = SumFunctionOnSet(f, S)
<1> DEFINE E == EntriesOf(h, type)
           k == [e \in E |-> e.amount]
<1>1. EntryTotal(h, type) = SumFunctionOnSet(k, E)
  BY DEF EntryTotal, SumFunction
<1>2. \A x \in S : f[x] \in Int /\ k[g[x]] = f[x]
  OBVIOUS
<1> HIDE DEF k
<1>3. SumFunctionOnSet(k, {g[x] : x \in S}) = SumFunctionOnSet(f, S)
  BY ONLY <1>2, IsFiniteSet(S), \A x, y \in S : g[x] = g[y] => x = y, SumImage
<1> QED BY <1>1, <1>3

(* The totals of a history are what the tables add up to.                  *)
LEMMA HistoryTotals ==
    ASSUME IndInv, BooksInv, KeysInv, NEW r \in Reserves
    PROVE  /\ EntryTotal(GetReserveHistory(r), "CREDIT") = InAmt(reserves_in, r)
           /\ EntryTotal(GetReserveHistory(r), "WITHDRAW")
                = OutAmt(reserves_out, r)
           /\ EntryTotal(GetReserveHistory(r), "RECOUP") = RecoupAmt(recoup, r)
           /\ EntryTotal(GetReserveHistory(r), "CLOSING") = closed[r]
<1> DEFINE h == GetReserveHistory(r)
<1>1. /\ AmountsOK(InOf(reserves_in, r)) /\ AmountsOK(RecoupOf(recoup, r))
      /\ IsFiniteSet(OutOf(reserves_out, r))
      /\ \A c \in OutOf(reserves_out, r) : Cost[c] \in Nat
      /\ closed[r] \in Nat
  <2>1. /\ InOf(reserves_in, r) \subseteq reserves_in
        /\ RecoupOf(recoup, r) \subseteq recoup
        /\ OutOf(reserves_out, r) \subseteq reserves_out
    BY DEF InOf, RecoupOf, OutOf
  <2>2. /\ AmountsOK(reserves_in) /\ AmountsOK(recoup)
        /\ IsFiniteSet(reserves_out) /\ reserves_out \subseteq Coins
    BY BooksTypes
  <2>3. AmountsOK(InOf(reserves_in, r)) /\ AmountsOK(RecoupOf(recoup, r))
    BY <2>1, <2>2, AmountsPart
  <2>4. IsFiniteSet(OutOf(reserves_out, r))
    BY <2>1, <2>2, FS_Subset
  <2> QED BY <2>1, <2>2, <2>3, <2>4, CoinsAssumption DEF IndInv, TypeOK
<1>2. /\ EntriesOf(h, "CREDIT") = BankToExchange(r)
      /\ EntriesOf(h, "WITHDRAW") = WithdrawCoin(r)
      /\ EntriesOf(h, "RECOUP") = RecoupCoin(r)
      /\ EntriesOf(h, "CLOSING") = ExchangeToBank(r)
  BY DEF EntriesOf, GetReserveHistory, BankToExchange, WithdrawCoin,
         RecoupCoin, ExchangeToBank, HistoryEntry
<1> HIDE DEF h
<1>3. EntryTotal(h, "CREDIT") = InAmt(reserves_in, r)
  <2> DEFINE S == InOf(reserves_in, r)
             f == [q \in S |-> q.amt]
             g == [q \in S |-> HistoryEntry("CREDIT", q.amt, <<q.account, q.ref>>)]
  <2>1. \A q \in S : f[q] \in Int /\ g[q].amount = f[q]
    BY <1>1 DEF AmountsOK, HistoryEntry
  <2>2. \A p, q \in S : g[p] = g[q] => p = q
    BY DEF HistoryEntry, KeysInv, SameKey, InOf
  <2>3. EntriesOf(h, "CREDIT") = {g[q] : q \in S}
    BY <1>2 DEF BankToExchange, InOf
  <2>4. InAmt(reserves_in, r) = SumFunctionOnSet(f, S)
    BY DEF InAmt, SumAmt, SumFunction
  <2>5. IsFiniteSet(S)
    BY <1>1 DEF AmountsOK
  <2> HIDE DEF f, g, S
  <2>6. EntryTotal(h, "CREDIT") = SumFunctionOnSet(f, S)
    BY ONLY <2>1, <2>2, <2>3, <2>5, EntriesAddUp
  <2> QED BY <2>4, <2>6
<1>4. EntryTotal(h, "RECOUP") = RecoupAmt(recoup, r)
  <2> DEFINE S == RecoupOf(recoup, r)
             f == [q \in S |-> q.amt]
             g == [q \in S |-> HistoryEntry("RECOUP", q.amt, q.coin)]
  <2>1. \A q \in S : f[q] \in Int /\ g[q].amount = f[q]
    BY <1>1 DEF AmountsOK, HistoryEntry
  <2>2. \A p, q \in S : g[p] = g[q] => p = q
    BY DEF HistoryEntry, KeysInv, RecoupOf
  <2>3. EntriesOf(h, "RECOUP") = {g[q] : q \in S}
    BY <1>2 DEF RecoupCoin, RecoupOf
  <2>4. RecoupAmt(recoup, r) = SumFunctionOnSet(f, S)
    BY DEF RecoupAmt, SumAmt, SumFunction
  <2>5. IsFiniteSet(S)
    BY <1>1 DEF AmountsOK
  <2> HIDE DEF f, g, S
  <2>6. EntryTotal(h, "RECOUP") = SumFunctionOnSet(f, S)
    BY ONLY <2>1, <2>2, <2>3, <2>5, EntriesAddUp
  <2> QED BY <2>4, <2>6
<1>5. EntryTotal(h, "WITHDRAW") = OutAmt(reserves_out, r)
  <2> DEFINE S == OutOf(reserves_out, r)
             g == [c \in S |-> HistoryEntry("WITHDRAW", Cost[c], c)]
  <2>1. \A c \in S : Cost[c] \in Int /\ g[c].amount = Cost[c]
    BY <1>1 DEF HistoryEntry
  <2>2. \A b, c \in S : g[b] = g[c] => b = c
    BY DEF HistoryEntry
  <2>3. EntriesOf(h, "WITHDRAW") = {g[c] : c \in S}
    BY <1>2 DEF WithdrawCoin, OutOf
  <2>4. OutAmt(reserves_out, r) = SumFunctionOnSet(Cost, S)
    BY DEF OutAmt
  <2>5. IsFiniteSet(S)
    BY <1>1
  <2> HIDE DEF g, S
  <2>6. EntryTotal(h, "WITHDRAW") = SumFunctionOnSet(Cost, S)
    BY ONLY <2>1, <2>2, <2>3, <2>5, EntriesAddUp
  <2> QED BY <2>4, <2>6
<1>6. EntryTotal(h, "CLOSING") = closed[r]
  <2>1. CASE closed[r] = 0
    <3>1. EntriesOf(h, "CLOSING") = {}
      BY <1>2, <2>1 DEF ExchangeToBank
    <3> QED BY <2>1, <3>1, SumEmpty DEF EntryTotal, SumFunction
  <2>2. CASE closed[r] # 0
    <3> DEFINE e == HistoryEntry("CLOSING", closed[r], r)
               k == [x \in {e} |-> x.amount]
    <3>1. EntriesOf(h, "CLOSING") = {e}
      BY <1>2, <2>2 DEF ExchangeToBank
    <3>2. EntryTotal(h, "CLOSING") = SumFunctionOnSet(k, {e})
      BY <3>1 DEF EntryTotal, SumFunction
    <3>3. k[e] = closed[r] /\ \A x \in {} \cup {e} : k[x] \in Int
      BY <1>1 DEF HistoryEntry
    <3>4. IsFiniteSet({}) /\ e \notin {} /\ {} \cup {e} = {e}
      BY FS_EmptySet
    <3> HIDE DEF k, e
    <3>5. SumFunctionOnSet(k, {} \cup {e}) = SumFunctionOnSet(k, {}) + k[e]
      BY ONLY <3>3, <3>4, SumAdd
    <3>6. SumFunctionOnSet(k, {}) = 0
      BY SumEmpty
    <3> QED BY <1>1, <3>2, <3>3, <3>4, <3>5, <3>6
  <2> QED BY <2>1, <2>2
<1> QED BY <1>3, <1>4, <1>5, <1>6 DEF h

(* The history of a reserve that is there shows its balance, and the       *)
(* client library agrees.                                                  *)
LEMMA HistoryBelieved ==
    ASSUME IndInv, BooksInv, KeysInv, PresentInv, NEW r \in Reserves,
           reserves[r] # NoReserve
    PROVE  /\ GetReserveHistory(r) # {}
           /\ Compilable(GetReserveHistory(r))
           /\ HistoryBalance(GetReserveHistory(r)) = reserves[r].bal
           /\ ParseReserveHistory(GetReserveHistory(r), reserves[r].bal)
<1> DEFINE h == GetReserveHistory(r)
           in == InAmt(reserves_in, r)
           out == OutAmt(reserves_out, r)
           rec == RecoupAmt(recoup, r)
<1>1. /\ EntryTotal(h, "CREDIT") = in /\ EntryTotal(h, "WITHDRAW") = out
      /\ EntryTotal(h, "RECOUP") = rec /\ EntryTotal(h, "CLOSING") = closed[r]
  BY HistoryTotals
<1>2. /\ AmountsOK(reserves_in) /\ AmountsOK(recoup)
      /\ IsFiniteSet(reserves_out) /\ reserves_out \subseteq Coins
  BY BooksTypes
<1>3. /\ in \in Nat /\ out \in Nat /\ rec \in Nat
      /\ closed[r] \in Nat /\ reserves[r].bal \in Nat
  BY <1>2, InAmtNat, OutAmtNat, RecoupAmtNat
     DEF IndInv, TypeOK, ReserveRecord
<1>4. reserves[r].bal + closed[r] + out = in + rec
  BY DEF BooksInv, Explained
<1>5. Present(reserves_in, r)
  BY DEF PresentInv
<1>6. EntriesOf(h, "CREDIT") # {} /\ h # {}
  <2>1. PICK q \in reserves_in : q.reserve = r
    BY <1>5 DEF Present
  <2> DEFINE e == HistoryEntry("CREDIT", q.amt, <<q.account, q.ref>>)
  <2>2. e \in BankToExchange(r) /\ e.type = "CREDIT"
    BY <2>1 DEF BankToExchange, HistoryEntry
  <2> HIDE DEF e
  <2>3. e \in h /\ e \in EntriesOf(h, "CREDIT")
    BY <2>2 DEF EntriesOf, GetReserveHistory
  <2> QED BY <2>3
<1>7. WithdrawalsDiffer(h)
  BY DEF WithdrawalsDiffer, EntriesOf, GetReserveHistory, BankToExchange,
         WithdrawCoin, RecoupCoin, ExchangeToBank, HistoryEntry
<1> HIDE DEF h, in, out, rec
<1>8. HistoryBalance(h) = reserves[r].bal
  BY <1>1, <1>3, <1>4 DEF HistoryBalance, CreditTotal, RecoupTotal,
                          WithdrawTotal, ClosingTotal
<1>9. Compilable(h)
  BY <1>3, <1>6, <1>8 DEF Compilable
<1>10. ParseReserveHistory(h, reserves[r].bal)
  BY <1>1, <1>3, <1>4, <1>7
     DEF ParseReserveHistory, ParsedCredits, ParsedRecoups,
         ParsedWithdrawals, ParsedClosings
<1> QED BY <1>6, <1>8, <1>9, <1>10 DEF h

(* The owner of a reserve hears the truth and believes it, if the life of  *)
(* a reserve is not configured as zero (a record of zeros stands for a     *)
(* reserve that is not in the table): GET /reserves/$PUB shows the balance *)
(* of the table with a history that the client library adds up to the same *)
(* balance, and a withdrawal refused for lack of funds is proven, whatever *)
(* wirewatch, the closer, recoups and the garbage collector did before.    *)
THEOREM OwnersAlwaysBelieve == IdleExpiration > 0 => (Spec => []OwnerBelieves)
<1> SUFFICES ASSUME IdleExpiration > 0 PROVE Spec => []OwnerBelieves
  OBVIOUS
<1>1. IndInv /\ BooksInv /\ KeysInv /\ PresentInv => OwnerBelieves
  <2> SUFFICES ASSUME IndInv, BooksInv, KeysInv, PresentInv
               PROVE  OwnerBelieves
    OBVIOUS
  <2>1. ASSUME NEW r \in Reserves, reserves[r] = NoReserve
        PROVE  ReservesGetFinished(ReservesGet(r)) = 404
    <3>1. reserves[r].expiry = 0
      BY <2>1 DEF NoReserve
    <3>2. ~Present(reserves_in, r) /\ closed[r] = 0
      BY <3>1, ReservesAssumption DEF PresentInv
    <3>3. /\ BankToExchange(r) = {} /\ WithdrawCoin(r) = {}
          /\ RecoupCoin(r) = {} /\ ExchangeToBank(r) = {}
      <4>1. \A q \in reserves_in : q.reserve # r
        BY <3>2 DEF Present
      <4>2. \A c \in reserves_out : CoinReserve[c] # r
        BY <3>2 DEF PresentInv
      <4>3. \A p \in recoup : CoinReserve[p.coin] # r
        BY <3>2 DEF PresentInv
      <4>4. BankToExchange(r) = {}
        BY <4>1 DEF BankToExchange
      <4>5. WithdrawCoin(r) = {}
        BY <4>2 DEF WithdrawCoin
      <4>6. RecoupCoin(r) = {}
        BY <4>3 DEF RecoupCoin
      <4>7. ExchangeToBank(r) = {}
        BY <3>2 DEF ExchangeToBank
      <4> QED BY <4>4, <4>5, <4>6, <4>7
    <3>4. GetReserveHistory(r) = {}
      BY <3>3 DEF GetReserveHistory
    <3> QED BY <3>4 DEF ReservesGet, ReservesGetFinished, Response
  <2>2. ASSUME NEW r \in Reserves, reserves[r] # NoReserve
        PROVE  /\ ReservesGetFinished(ReservesGet(r)) = 200
               /\ ReservesGet(r).balance = reserves[r].bal
    <3> DEFINE h == GetReserveHistory(r)
    <3>1. /\ h # {} /\ Compilable(h) /\ HistoryBalance(h) = reserves[r].bal
          /\ ParseReserveHistory(h, reserves[r].bal)
      BY <2>2, HistoryBelieved
    <3>2. ReservesGet(r) = Response(200, reserves[r].bal, h)
      BY <3>1 DEF ReservesGet
    <3> HIDE DEF h
    <3> QED BY <3>1, <3>2 DEF ReservesGetFinished, Response
  <2>3. ASSUME NEW c \in Coins, WithdrawShort(c)
        PROVE  WithdrawFinished(c, WithdrawRefused(c)) = 409
    <3> DEFINE r == CoinReserve[c]
               h == GetReserveHistory(r)
    <3>1. r \in Reserves /\ reserves[r] # NoReserve /\ Cost[c] > reserves[r].bal
      BY <2>3, CoinsAssumption DEF WithdrawShort
    <3>2. /\ h # {} /\ Compilable(h) /\ HistoryBalance(h) = reserves[r].bal
          /\ ParseReserveHistory(h, reserves[r].bal)
      BY <3>1, HistoryBelieved
    <3>3. WithdrawRefused(c) = Response(409, reserves[r].bal, h)
      BY <3>2 DEF WithdrawRefused
    <3> HIDE DEF h, r
    <3>4. WithdrawProven(c, Response(409, reserves[r].bal, h))
      BY <3>1, <3>2 DEF WithdrawProven, Response
    <3> QED BY <3>3, <3>4 DEF WithdrawFinished, Response
  <2> QED BY <2>1, <2>2, <2>3 DEF OwnerBelieves
<1> QED BY <1>1, Invariance, BooksInvariance, KeysInvariance, PTL
=============================================================================
