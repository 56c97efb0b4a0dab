\* Deposits, refunds, aggregation, transfers and lookups, with all failures.
SPECIFICATION TrackSpec
CONSTANTS
    a1 = a1  a2 = a2  a3 = a3  b = b  shop = shop  bar = bar
    Targets = {shop, bar}
    Deposits = {a1, a2, a3}
    TargetOf <- MCTargetOf
    Amount <- MCAmount
    DepositFee <- MCDepositFee
    WireDeadline <- MCWireDeadline
    RefundDeadline <- MCRefundDeadline
    RefundAmounts = {2}
    WireFee = 1
    RoundUnit = 2
    Limit = 1
    MaxAmount = 4
    MaxTime = 2
    Asked = {a1}
    MaxRetries = 1
INVARIANTS TypeOK DoneIsTracked OnePreparationPerTransfer PaidOnce
           FinishedIsExecuted 
PROPERTIES DoneIsFinal AnswersOnlyAdvance
