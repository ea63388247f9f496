SPECIFICATION SafetySpec
CHECK_DEADLOCK FALSE
CONSTANTS
    Batches = {b1}
    Workers = {w1}
    Free = Free
    Abandoned = Abandoned
    None = None
    MaxCrashes = 0
    MaxLate = 0
    Costs = {1, 3}
    Hold = 2
    Funds = {1, 3}
    Pool = 2
    MaxRetries = 2
    ZoneAhead = FALSE
    EarlyCancel = TRUE
    Deletions = TRUE
    MaxFaults = 0
    MaxLost = 0
    MaxLapses = 0
    MaxDeaths = 0
INVARIANTS
    NoRefundWhileRunning
