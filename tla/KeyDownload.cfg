SPECIFICATION DownloadSpec
CONSTANTS
    Threads = {}
    DurationWithdraw = 3
    DurationSpend = 4
    DurationLegal = 5
    DurationOverlap = 0
    SignkeyDuration = 3
    LookaheadSign = 3
    MaxTime = 5
    MaxKeyups = 1
    MaxRevocations = 1
    Provide = 1
    MaxSignals = 1
    MaxFaults = 0
    MaxRequests = 1
    MaxLosses = 1
PROPERTIES DownloadCompletes RevocationsArrive
CHECK_DEADLOCK FALSE
