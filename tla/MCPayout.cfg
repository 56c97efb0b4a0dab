\* That merchants are paid in the end.
SPECIFICATION FairSpec
CONSTANTS
    a1 = a1  a2 = a2  a3 = a3  b = b  shop = shop  bar = bar
    Targets = {shop, bar}
    Deposits = {a1, a2, b}
    TargetOf <- MCTargetOf
    Amount <- MCAmount
    DepositFee <- MCDepositFee
    WireDeadline <- MCWireDeadline
    RefundDeadline <- MCRefundDeadline
    RefundAmounts = {2}
    WireFee = 1
    RoundUnit = 2
    Limit = 2
    MaxAmount = 10
    MaxTime = 2
PROPERTIES MerchantsArePaid  DoneIsPaid
