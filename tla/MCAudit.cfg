\* Every plan, with one open transaction at a time.
SPECIFICATION Spec
CONSTANTS
    Op <- MCOp
    Plans <- MCPlans
    Reserves = {"r1", "r2"}
    Coins = {"c1", "c2", "f1"}
    Accounts = {"a1"}
    DenomOf <- MCDenomOf
    Denom <- MCDenom
    ClosingFee = 3
    WireFee = 1
    RoundUnit = 2
    Expiration = 1
    MaxTime = 1
    MaxOpen = 1
    ClosingGrace = 0
    DepositGrace = 0
    WireGrace = 0
    AccountList <- MCAccountList
    StackValues = {5}
INVARIANTS   
           WireAlarmExplained  MissingListedUnlessGuess
CHECK_DEADLOCK FALSE
