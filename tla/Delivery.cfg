SPECIFICATION FairSpec
CONSTANTS
    Events = {1, 2, 3}
    Limit = 2
    MaxRequests = 5
    MaxFaults <- MCMaxFaults
    Batches <- MCBatches
    Earliest = 3
    Interval = 2
    Lag <- MCLag
    MaxLines = 3
    MaxTurns = 1
    MaxNow = 4
INVARIANTS FirstCopiesInOrder CopiesNeedDoubt TwiceAndPerRestart GapNeedsDelay SuccessMeansStored
PROPERTY AheadIsStored
CHECK_DEADLOCK FALSE
