SPECIFICATION FairSpec
CONSTANTS
    w1 = w1
    w2 = w2
    Workers = {w1, w2}
    QueueMax = 2
    MaxDatagrams = 6
INVARIANT Conservation
INVARIANT NothingTwice
INVARIANT TakenInOrder
PROPERTY QueuedIsFinished
