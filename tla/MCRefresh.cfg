\* Refresh, recoup of the fresh coin, a second melt and a deposit of the old
\* coin.
SPECIFICATION Spec
CONSTANTS
    d1 = d1  d2 = d2
    c1 = c1  c2 = c2  c3 = c3  c4 = c4
    r1 = r1  k1 = k1  k2 = k2  t1 = t1  t2 = t2  rc1 = rc1  rc2 = rc2
    Denoms = {d1, d2}
    Coins = {c1, c2, c3}
    Reserves = {r1}
    Contracts = {k1, k2}
    Terms = {t1, t2}
    Rcs = {rc1, rc2}
    RTransactions = {1, 2}
    Kappa = 2
    Value <- MCValue
    FeeWithdraw <- MCFeeWithdraw
    FeeDeposit <- MCOneFee
    FeeRefresh <- MCOneFee
    FeeRefund <- MCOneFee
    DenomOf <- MCDenomOf
    ReserveOf <- MCReserveOf
    OldCoinOf <- MCOldCoinOf
    FreshOf <- MCFreshOf
    Amounts <- MCAmounts
    InitialBalance <- MCBalance
    Requests <- RefreshRequests
    MaxEra <- MCOldDates
INVARIANTS NoMoneyCreated OneChallenge RefusalProven
