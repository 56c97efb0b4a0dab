SPECIFICATION KeysSpec
CONSTANTS
    t1 = t1  t2 = t2
    Threads <- MCThreads
    DurationWithdraw = 3
    DurationSpend = 4
    DurationLegal = 5
    DurationOverlap = 0
    SignkeyDuration = 3
    LookaheadSign = 3
    MaxTime = 5
    MaxKeyups = 1
    MaxRevocations = 1
    Provide = 1
    MaxSignals = 1
    MaxFaults = 1
INVARIANTS ReferencesCounted RevocationHolds CoinsStaySpendable
PROPERTY SignKeyValid
CHECK_DEADLOCK FALSE

SYMMETRY Symmetry
VIEW View
