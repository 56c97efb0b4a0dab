---------------------------- MODULE Aggregation ----------------------------
(***************************************************************************)
(* How merchants are paid: deposits wait in the database until they are    *)
(* due, taler-exchange-aggregator collects the deposits of one merchant    *)
(* account in a wire transfer (run_aggregation, deposit_cb, aggregate_cb), *)
(* and taler-exchange-transfer executes it (module Transfers).  Meanwhile  *)
(* the HTTP server adds deposits and refunds.                              *)
(*                                                                         *)
(* A deposit stands for its row.  A target stands for the pair             *)
(* (merchant_pub, h_wire).  A refund is a number, because a deposit has at *)
(* most one (RefundsWithinDeposits of module CoinSpending).  Wire transfer *)
(* identifiers are drawn at random in the code; a number that no transfer  *)
(* in the database has yet stands for them.                                *)
(*                                                                         *)
(* A transaction of the aggregator sees the database as it was when the    *)
(* transaction began (its snapshot) and is built up in the aggregation     *)
(* unit au, one deposit per step; nobody else sees what it does before it  *)
(* commits.                                                                *)
(***************************************************************************)
EXTENDS Transfers, FiniteSets, FiniteSetsExt

CONSTANTS
    Deposits,        \* deposits that may be made
    TargetOf,        \* target of a deposit
    Amount,          \* amount_with_fee of a deposit
    DepositFee,      \* fee_deposit of the deposit's coin
    WireDeadline, RefundDeadline,
    RefundAmounts,   \* amounts that merchants refund
    WireFee,         \* wire fee of the account
    RoundUnit,       \* CURRENCY_ROUND_UNIT
    Limit,           \* TALER_EXCHANGEDB_MATCHING_DEPOSITS_LIMIT
    MaxAmount,       \* largest amount (MAX_AMOUNT_VALUE)
    MaxTime          \* bound on the clock

(* TEH_handler_deposit refuses a deposit with a refund deadline after the  *)
(* wire deadline.                                                          *)
ASSUME DepositsAssumption ==
    /\ TargetOf \in [Deposits -> Targets]
    /\ Amount \in [Deposits -> Nat]
    /\ DepositFee \in [Deposits -> Nat]
    /\ WireDeadline \in [Deposits -> Nat]
    /\ RefundDeadline \in [Deposits -> Nat]
    /\ \A d \in Deposits : RefundDeadline[d] <= WireDeadline[d]

ASSUME WireAssumption ==
    /\ RefundAmounts \subseteq Nat
    /\ WireFee \in Nat
    /\ RoundUnit \in Nat
    /\ Limit \in Nat
    /\ MaxAmount \in Nat
    /\ MaxTime \in Nat

VARIABLES
    now,                   \* the time
    deposits,              \* deposits in the table deposits
    tiny, done,            \* the ones with tiny=TRUE, with done=TRUE
    refund,                \* per deposit: amount of its refund, or NoRefund
    aggregation_tracking,  \* pairs <<deposit, wtid>>
    wire_out,              \* rows of the table wire_out
    next_wtid,             \* supply of wire transfer identifiers
    agg,                   \* where run_aggregation is
    au                     \* its aggregation unit

aggVars == <<now, deposits, tiny, done, refund, aggregation_tracking, wire_out,
             next_wtid, agg, au>>
vars == <<wireVars, aggVars>>

NoRefund == -1

\* agg is "ready" (the task run_aggregation is scheduled, at once or after
\* the idle interval), "match" (in iterate_matching_deposits), "aborted" (a
\* statement of aggregate_cb failed), "mark" (about to mark the rows as tiny)
\* or "down" (the process ended).
AggPhases == {"ready", "match", "aborted", "mark", "down"}

\* rows: row_id and additional_rows; total: total_amount; todo: matching rows
\* that aggregate_cb has not seen; count: how many it has; snap: the refunds
\* in the snapshot of the transaction.
Unit == [rows : SUBSET Deposits, target : Targets, total : Nat,
         todo : SUBSET Deposits, count : Nat, snap : [Deposits -> Int]]

WireOutRow == [wtid : Uuids, target : Targets, amt : Nat]

RefundsOK(f) ==
    /\ f \in [Deposits -> Int]
    /\ \A d \in Deposits : f[d] = NoRefund \/ f[d] \in 0..Amount[d]

TypeOK ==
    /\ WireTypeOK
    /\ now \in Nat
    /\ deposits \subseteq Deposits
    /\ tiny \subseteq Deposits
    /\ done \subseteq Deposits
    /\ RefundsOK(refund)
    /\ aggregation_tracking \subseteq Deposits \X Uuids
    /\ wire_out \subseteq WireOutRow
    /\ next_wtid \in Uuids
    /\ agg \in AggPhases
    /\ au \in Unit
    /\ RefundsOK(au.snap)

EmptyUnit ==
    [rows |-> {}, target |-> CHOOSE t \in Targets : TRUE, total |-> 0,
     todo |-> {}, count |-> 0, snap |-> [d \in Deposits |-> NoRefund]]

Init ==
    /\ WireInit
    /\ now = 0
    /\ deposits = {} /\ tiny = {} /\ done = {}
    /\ refund = [d \in Deposits |-> NoRefund]
    /\ aggregation_tracking = {} /\ wire_out = {} /\ next_wtid = 1
    /\ agg = "ready"
    /\ au = EmptyUnit

---------------------------------------------------------------------------
(* The HTTP server and the clock.                                          *)

\* The commit of a deposit (deposit_transaction).
Deposit(d) ==
    /\ d \notin deposits
    /\ deposits' = deposits \cup {d}
    /\ UNCHANGED <<wireVars, now, tiny, done, refund, aggregation_tracking,
                   wire_out, next_wtid, agg, au>>

\* (Faulty: the done flag is not looked at.)
RefundableAlways(d, a) ==
    /\ d \in deposits
    /\ refund[d] = NoRefund
    /\ a <= Amount[d]

\* The checks of refund_transaction.
Refundable(d, a) ==
    /\ d \in deposits
    /\ refund[d] = NoRefund
    /\ d \notin done
    /\ a <= Amount[d]

Refund(d, a) ==
    /\ Refundable(d, a)
    /\ refund' = [refund EXCEPT ![d] = a]
    /\ UNCHANGED <<wireVars, now, deposits, tiny, done, aggregation_tracking,
                   wire_out, next_wtid, agg, au>>

Tick ==
    /\ now < MaxTime
    /\ now' = now + 1
    /\ UNCHANGED <<wireVars, deposits, tiny, done, refund,
                   aggregation_tracking, wire_out, next_wtid, agg, au>>

---------------------------------------------------------------------------
(* Amounts.                                                                *)

\* What a deposit adds to the transfer: the refund or the deposit fee is
\* taken off; a fee that exceeds the deposit counts as malformed.
Contribution(d, refunded) ==
    IF refunded # NoRefund THEN Amount[d] - refunded
    ELSE IF DepositFee[d] <= Amount[d] THEN Amount[d] - DepositFee[d]
    ELSE 0

\* TALER_amount_round_down, for a unit that divides one unit of currency.
RoundDown(a) == IF RoundUnit = 0 THEN a ELSE a - (a % RoundUnit)

\* (Faulty: a total below the wire fee is not noticed.)
TooLowUnsigned(total) == RoundDown(total - WireFee) = 0

\* Nothing is left of the total after the wire fee and rounding.
TooLow(total) == total <= WireFee \/ RoundDown(total - WireFee) = 0

FinalAmount(total) == RoundDown(total - WireFee)
---------------------------------------------------------------------------
(* taler-exchange-aggregator.                                              *)

\* deposits_get_ready
Ready(d) ==
    /\ d \in deposits \ (tiny \cup done)
    /\ WireDeadline[d] <= now
    /\ RefundDeadline[d] < now

\* run_aggregation finds a ready deposit, an earliest one, and deposit_cb
\* starts an aggregation unit with it.
StartAggregation(d) ==
    /\ agg = "ready"
    /\ Ready(d)
    /\ \A e \in deposits : Ready(e) => WireDeadline[d] <= WireDeadline[e]
    /\ agg' = "match"
    /\ au' = [rows |-> {d}, target |-> TargetOf[d],
              total |-> Contribution(d, refund[d]),
              todo |-> {e \in deposits \ (done \cup {d}) :
                           TargetOf[e] = TargetOf[d]},
              count |-> 0, snap |-> refund]
    /\ UNCHANGED <<wireVars, now, deposits, tiny, done, refund,
                   aggregation_tracking, wire_out, next_wtid>>

\* The next row of iterate_matching_deposits, ordered by wire_deadline.
NextRow(e) ==
    /\ agg = "match"
    /\ au.count < Limit
    /\ e \in au.todo
    /\ \A f \in au.todo : WireDeadline[e] <= WireDeadline[f]

\* The unit after one more row.
NextUnit(rows, total, todo) ==
    [rows |-> rows, target |-> au.target, total |-> total, todo |-> todo,
     count |-> au.count + 1, snap |-> au.snap]

Sum(e) == au.total + Contribution(e, au.snap[e])
Fits(e) == Sum(e) <= MaxAmount

\* aggregate_cb: add row e, or skip it if the total would overflow.
AggregateRow(e) ==
    /\ NextRow(e)
    /\ au' = IF Fits(e)
             THEN NextUnit(au.rows \cup {e}, Sum(e), au.todo \ {e})
             ELSE NextUnit(au.rows, au.total, au.todo \ {e})
    /\ UNCHANGED <<wireVars, now, deposits, tiny, done, refund,
                   aggregation_tracking, wire_out, next_wtid, agg>>

\* aggregate_cb fails because of the database: either in
\* select_refunds_by_coin, when the total is the amount of this deposit only,
\* or when the row is tracked and marked.  match_deposit_cb stops, and
\* iterate_matching_deposits returns the number of rows as if nothing had
\* happened.
AggregateRowFails(e) ==
    /\ NextRow(e)
    /\ \/ au' = NextUnit(au.rows, Amount[e], {})
       \/ Fits(e) /\ au' = NextUnit(au.rows \cup {e}, Sum(e), {})
    /\ agg' = "aborted"
    /\ UNCHANGED <<wireVars, now, deposits, tiny, done, refund,
                   aggregation_tracking, wire_out, next_wtid>>

IterationOver == agg = "match" /\ (au.todo = {} \/ au.count >= Limit)

\* The transaction is given up, and with it the unit.
GiveUp(p) ==
    /\ agg' = p
    /\ au' = EmptyUnit
    /\ UNCHANGED <<wireVars, now, deposits, tiny, done, refund,
                   aggregation_tracking, wire_out, next_wtid>>

\* A soft error when the matching deposits are selected, when the transfer
\* is prepared or at commit.
AggregationSoftError ==
    /\ agg = "match" /\ (au.count = 0 \/ IterationOver)
    /\ GiveUp("ready")

\* After a failed statement PostgreSQL refuses the next one as well: the
\* aggregator tries again or ends, depending on the class of the error.
PrepareFails ==
    /\ agg = "aborted"
    /\ ~TooLow(au.total)
    /\ GiveUp("ready") \/ GiveUp("down")

\* Roll back, because the value is too low for a transfer.
ValueTooLow ==
    /\ IterationOver \/ agg = "aborted"
    /\ TooLow(au.total)
    /\ agg' = "mark"
    /\ UNCHANGED <<wireVars, now, deposits, tiny, done, refund,
                   aggregation_tracking, wire_out, next_wtid, au>>

\* (Faulty: rolls back and forgets to mark.)
MarkTinyForgotten == agg = "mark" /\ GiveUp("ready")

\* The second transaction, which marks the rows of the unit as tiny.
MarkTiny ==
    /\ agg = "mark"
    /\ tiny' = tiny \cup au.rows
    /\ agg' = "ready" /\ au' = EmptyUnit
    /\ UNCHANGED <<wireVars, now, deposits, done, refund,
                   aggregation_tracking, wire_out, next_wtid>>

MarkTinyFails == agg = "mark" /\ GiveUp("ready")

\* (Faulty: isolation level READ COMMITTED.)
NotSerializable == TRUE

\* The transaction can commit at isolation level SERIALIZABLE: no refund that
\* it did not see was committed for a deposit that it marks as done.
Serializable == \A d \in au.rows : refund[d] = au.snap[d]

\* (Faulty: the rows that aggregate_cb adds are not marked.)
MarkDoneOne == done' = done \cup {CHOOSE d \in au.rows : TRUE}

\* mark_deposit_done and insert_aggregation_tracking of deposit_cb and
\* aggregate_cb take effect.
MarkDone == done' = done \cup au.rows

InsertTracking ==
    aggregation_tracking' = aggregation_tracking \cup (au.rows \X {next_wtid})

\* (Faulty: stores the total before the wire fee is taken off.)
StoreWireTransferOutTotal(a) ==
    /\ wire_out' = wire_out \cup
          {[wtid |-> next_wtid, target |-> au.target, amt |-> au.total]}
    /\ next_wtid' = next_wtid + 1

StoreWireTransferOut(a) ==
    /\ wire_out' = wire_out \cup
          {[wtid |-> next_wtid, target |-> au.target, amt |-> a]}
    /\ next_wtid' = next_wtid + 1

\* Prepare the transfer, store wire_out and commit it all.
CommitAggregation ==
    /\ IterationOver
    /\ ~TooLow(au.total)
    /\ Serializable
    /\ MarkDone
    /\ InsertTracking
    /\ WirePrepareDataInsert(next_wtid, au.target, FinalAmount(au.total))
    /\ StoreWireTransferOut(FinalAmount(au.total))
    /\ agg' = "ready" /\ au' = EmptyUnit
    /\ UNCHANGED <<now, deposits, tiny, refund, finished, wpd, transfer_up,
                   requests, replies, ledger, bank_serial>>

\* The process crashes or shuts down after a hard error, and is restarted.
AggregatorStops == agg # "down" /\ GiveUp("down")
AggregatorRestarts == agg = "down" /\ GiveUp("ready")

---------------------------------------------------------------------------
AggregatorStep ==
    \/ \E d \in deposits : \/ StartAggregation(d)
                           \/ AggregateRow(d)
                           \/ AggregateRowFails(d)
    \/ AggregationSoftError \/ PrepareFails
    \/ ValueTooLow \/ MarkTiny \/ MarkTinyFails
    \/ CommitAggregation
    \/ AggregatorStops \/ AggregatorRestarts

ServerStep ==
    \/ \E d \in Deposits : Deposit(d)
    \/ \E d \in Deposits, a \in RefundAmounts : Refund(d, a)
    \/ Tick

Next ==
    \/ WireStep /\ UNCHANGED aggVars
    \/ AggregatorStep
    \/ ServerStep

Spec == Init /\ [][Next]_vars

(* Both processes are restarted, and the database, the network and the     *)
(* bank do not fail for ever: what is tried again and again succeeds in    *)
(* the end.                                                                *)
Fairness ==
    /\ WF_vars(AggregatorRestarts)
    /\ SF_vars(\E d \in deposits : StartAggregation(d))
    /\ SF_vars(\E d \in deposits : AggregateRow(d))
    /\ SF_vars(ValueTooLow)
    /\ SF_vars(MarkTiny)
    /\ SF_vars(CommitAggregation)
    /\ WF_vars(PrepareFails)
    /\ WF_vars(~Serializable /\ AggregationSoftError)
    /\ WF_vars(TransferRestarts /\ UNCHANGED aggVars)
    /\ SF_vars((\E p \in prewire : RunTransfers(p)) /\ UNCHANGED aggVars)
    /\ SF_vars((\E p \in prewire : p.uuid = wpd /\ BankTransfer(p))
                 /\ UNCHANGED aggVars)
    /\ SF_vars(WireConfirm /\ UNCHANGED aggVars)
    /\ WF_vars(ConnectionBroken /\ UNCHANGED aggVars)

FairSpec == Spec /\ Fairness

---------------------------------------------------------------------------
(* What the aggregator and the transfer process promise.                   *)

TrackingOf(d) == {t \in aggregation_tracking : t[1] = d}
DepositsOf(w) == {d \in Deposits : <<d, w>> \in aggregation_tracking}

(* A deposit is done if and only if it belongs to exactly one wire         *)
(* transfer, and that transfer goes to the deposit's own target.           *)
DoneIsTracked ==
    /\ done = {t[1] : t \in aggregation_tracking}
    /\ \A s, t \in aggregation_tracking : s[1] = t[1] => s = t
    /\ \A t \in aggregation_tracking :
          \E o \in wire_out : o.wtid = t[2] /\ o.target = TargetOf[t[1]]

(* wire_out and prewire tell the same story: whatever fails in between,    *)
(* run_aggregation leaves one prepared transfer per row of wire_out, with  *)
(* its target and amount.                                                  *)
OnePreparationPerTransfer ==
    /\ \A o \in wire_out :
          \E p \in prewire : /\ p.wtid = o.wtid
                             /\ p.target = o.target /\ p.amt = o.amt
                             /\ \A q \in prewire : q.wtid = o.wtid => q = p
    /\ \A p \in prewire : \E o \in wire_out : o.wtid = p.wtid

(* The merchant is paid at most once per wire transfer, and what wire_out  *)
(* says, however often taler-exchange-transfer crashes, loses the bank's   *)
(* reply or fails to record it, and repeats the request.                   *)
PaidOnce ==
    /\ \A e, f \in ledger : e.wtid = f.wtid => e = f
    /\ \A e \in ledger :
          \E o \in wire_out : /\ o.wtid = e.wtid
                              /\ o.target = e.target /\ o.amt = e.amt

(* A prepared transfer is marked as finished only after the bank has       *)
(* executed it.                                                            *)
FinishedIsExecuted == finished \subseteq Executed

(* Being done is final: no deposit is given back, moved to another         *)
(* transfer or refunded after the commit that marked it.                   *)
DoneIsFinal ==
    [][\A d \in done : /\ d \in done'
                       /\ refund'[d] = refund[d]
                       /\ TrackingOf(d)' = TrackingOf(d)]_vars

(* A deposit that is due is dealt with: it becomes part of a transfer or,  *)
(* if there is too little to transfer, is marked as tiny.                  *)
ReadyIsServed ==
    \A d \in Deposits : Ready(d) ~> d \in done \cup tiny

(* A deposit that is done is paid: the bank executes its transfer, and the *)
(* exchange gets to know.                                                  *)
DoneIsPaid ==
    \A d \in Deposits :
        d \in done ~> \E p \in prewire : /\ p.uuid \in finished
                                         /\ <<d, p.wtid>> \in aggregation_tracking

---------------------------------------------------------------------------
(* The refinement mapping to MerchantPayments: a row of wire_out with its  *)
(* tracked deposits is a batch, the ledger in the order of its serial      *)
(* numbers is the bank statement, a finished row of prewire is a booking.  *)

BatchOf(row) ==
    [rows |-> DepositsOf(row.wtid), target |-> row.target, amt |-> row.amt]

LedgerEntry(i) == CHOOSE e \in ledger : e.serial = i

Payments == INSTANCE MerchantPayments WITH
    accepted  <- deposits,
    batches   <- {BatchOf(o) : o \in wire_out},
    statement <- [i \in 1..(bank_serial - 1) |-> BatchOf(LedgerEntry(i))],
    booked    <- {BatchOf(p) : p \in {q \in prewire : q.uuid \in finished}}

(* Aggregator, transfer process, HTTP server and bank together keep the    *)
(* promise of MerchantPayments: with every interleaving, lost message and  *)
(* crash, a deposit goes into one transfer with an amount that is exact    *)
(* for the refunds in the database, a transfer is made only when one of    *)
(* its deposits is due, is paid once, and is marked as finished only       *)
(* after that.                                                             *)
MerchantsArePaid == Payments!PaySpec

(* mark_deposit_tiny: "declaring that it cannot be executed by itself".    *)
TinyIsTooLow ==
    \A d \in tiny : TooLow(Contribution(d, refund[d]))
=============================================================================
