SPECIFICATION ConsoleFairSpec
CONSTANTS
    c1 = c1
    c2 = c2
    Clients = {c1, c2}
    QueueMax = 1
    MaxPublished = 2
    Lifetime = 1
    MaxIssued = 2
    MaxNow = 2
    Budgets <- MCBudgets
    Alerts = {1}
    None = None
INVARIANTS NoGap RefusedOnlyForCause NeverGivesUp
PROPERTIES QueuedIsDelivered PageCatchesUp
CHECK_DEADLOCK FALSE
