SPECIFICATION Spec
CHECK_DEADLOCK FALSE
CONSTANTS
    Batches = {b1}
    Workers = {w1, w2}
    Free = Free
    Abandoned = Abandoned
    None = None
    MaxCrashes = 1
    MaxLate = 0
    Costs = {1, 3}
    Hold = 2
    Funds = {1, 3}
    Pool = 2
    MaxRetries = 3
    ZoneAhead = FALSE
    EarlyCancel = FALSE
    Deletions = TRUE
    MaxFaults = 2
    MaxLost = 0
    MaxLapses = 0
    MaxDeaths = 0
INVARIANTS
    RefundHasOwner
PROPERTIES
    HoldIsResolved
