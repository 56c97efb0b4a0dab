\* Credits, withdrawals, recoups, closures and garbage, with all failures.
SPECIFICATION Spec
CONSTANTS
    x = x  y = y  coin = coin
    Reserves = {x, y}
    NumAccounts = 2
    Incoming <- IncomingBoth
    NoMethod = {}
    BatchSize = 2
    ResetModes = {TRUE, FALSE}
    Coins = {coin}
    CoinReserve <- MCCoinReserve
    Cost <- MCCost
    CoinValue <- MCCoinValue
    IdleExpiration = 1
    LegalExpiration = 1
    ClosingFee = 2
    RoundUnit = 2
    MaxGc = 1
    MaxTime = 2
INVARIANTS TypeOK BalanceExplained CreditedOnce OwnerBelieves WithdrawalRemembered
