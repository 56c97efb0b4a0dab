\* Deposits, refunds and recoup of one coin.
SPECIFICATION Spec
CONSTANTS
    d1 = d1  d2 = d2
    c1 = c1  c2 = c2  c3 = c3  c4 = c4
    r1 = r1  k1 = k1  k2 = k2  t1 = t1  t2 = t2  rc1 = rc1  rc2 = rc2
    Denoms = {d1}
    Coins = {c1, c4}
    Reserves = {r1}
    Contracts = {k1, k2}
    Terms = {t1, t2}
    Rcs = {}
    RTransactions = {1, 2}
    Kappa = 3
    Value <- MCValue
    FeeWithdraw <- MCFeeWithdraw
    FeeDeposit <- MCOneFee
    FeeRefresh <- MCOneFee
    FeeRefund <- MCOneFee
    DenomOf <- MCDenomOf
    ReserveOf <- MCReserveOf
    OldCoinOf <- MCOldCoinOf
    FreshOf <- MCFreshOf
    Amounts <- MCAmounts
    InitialBalance <- MCBalance
    Requests <- SpendRequests
    MaxEra <- MCOneDate
INVARIANTS TypeOK CoinNotOverspent RefundsConsistent NoMoneyCreated
PROPERTY PaidIsFinal
