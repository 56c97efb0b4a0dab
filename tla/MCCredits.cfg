\* That incoming transfers are credited and expired reserves closed.
SPECIFICATION FairSpec
CONSTANTS
    x = x  y = y  coin = coin
    Reserves = {x, y}
    NumAccounts = 2
    Incoming <- IncomingBoth
    NoMethod = {}
    BatchSize = 1
    ResetModes = {FALSE}
    Coins = {}
    CoinReserve <- MCCoinReserve
    Cost <- MCCost
    CoinValue <- MCCoinValue
    IdleExpiration = 0
    LegalExpiration = 2
    ClosingFee = 1
    RoundUnit = 2
    MaxGc = 0
    MaxTime = 1
PROPERTIES CreditsArrive ExpiredIsClosed
