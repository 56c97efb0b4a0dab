------------------------- MODULE AuditAggregation --------------------------
(***************************************************************************)
(* taler-helper-auditor-aggregation: the amount of every wire transfer in  *)
(* the books is what its deposits add up to, after refunds and fees.       *)
(***************************************************************************)
EXTENDS AuditLib

VARIABLES
    ppa,    \* auditor_progress_aggregation: the mark in wire_out
    asum    \* auditor_wire_fee_balance: income from wire fees and rounding

aggregationAuditVars == <<ppa, asum>>

AuditAggregationInit == ppa = 1 /\ asum = 0

\* (Faulty: refunds of the deposit are not subtracted.)
GainWithoutRefunds(d, S) == row[d].amt - DenomOfCoin(Op[d].coin).deposit

\* check_transaction_history_for_deposit: what the merchant gains.  After a
\* refund the deposit fee is not taken.
GainAfterRefunds(d, S) ==
    LET fee == DenomOfCoin(Op[d].coin).deposit
        refunds == {r \in Of(S, "refund") : Op[r].deposit = d}
    IN row[d].amt - fee + (IF refunds = {} THEN 0 ELSE fee) - Total(refunds)
MerchantGain(d, S) == Max({0, GainAfterRefunds(d, S)})

\* check_transaction_history_for_deposit: what was spent of the coin.  Other
\* than Spent it does not give the deposit fee back after a refund.
HistorySpent(c, S) ==
    Spent(c, S) + (IF RowsOf(c, S, {"refund"}) = {} THEN 0 ELSE DenomOfCoin(c).deposit)

\* The refunds are above the deposit or above all that was spent of the coin,
\* or the coin is spent beyond its value.
BadHistory(d, S) ==
    LET spent == HistorySpent(Op[d].coin, S)
    IN \/ GainAfterRefunds(d, S) < 0
       \/ spent < 0 \/ spent > DenomOfCoin(Op[d].coin).value

\* wire_transfer_information_cb for all the deposits of a transfer.
TotalDeposits(o, S) ==
    SumFunctionOnSet([d \in Op[o].deposits |-> MerchantGain(d, S)], Op[o].deposits)

\* check_wire_out_cb: the wire fee is ignored if it exceeds the total.
FeeExceeds(o, S) == TotalDeposits(o, S) < WireFee
ExpectedWire(o, S) ==
    RoundedDown(TotalDeposits(o, S) - (IF FeeExceeds(o, S) THEN 0 ELSE WireFee))

WrongAmount(o, S) == row[o].amt # ExpectedWire(o, S)

\* The auditor's tables.
StoreAggregationProgress(p) == ppa' = p
StoreWireFeeSummary(sum) == asum' = sum

\* analyze_aggregations.  Without new rows nothing is committed.
AuditAggregation ==
    LET S == Committed
        new == WireOutAbove(S, ppa)
    IN /\ Transact("aggregation")
       /\ StoreAggregationProgress(MarkAfter(new, ppa))
       /\ StoreWireFeeSummary(asum + MapThenSumSet(LAMBDA o : TotalDeposits(o, S)
                                                     - ExpectedWire(o, S), new))
       /\ Raise(Alarm("wire out amount", {o \in new : WrongAmount(o, S)})
                \cup Alarm("wire fee", {o \in new : FeeExceeds(o, S)})
                \cup Alarm("coin in aggregation",
                           {Op[d].coin : d \in {e \in UNION {Op[o].deposits : o \in new} :
                                                   BadHistory(e, S)}}))
============================================================================
