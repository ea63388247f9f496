SPECIFICATION SafetySpec
CHECK_DEADLOCK FALSE
CONSTANTS
    Batches = {b1, b2}
    Workers = {w1}
    Free = Free
    Abandoned = Abandoned
    None = None
    MaxCrashes = 0
    MaxLate = 0
    Costs = {1, 3}
    Hold = 2
    Funds = {4}
    Pool = 0
    MaxRetries = 2
    ZoneAhead = FALSE
    EarlyCancel = TRUE
    Deletions = FALSE
    MaxFaults = 0
    MaxLost = 0
    MaxLapses = 0
    MaxDeaths = 0
SYMMETRY Symmetry
INVARIANTS
    NoPhantomRelease
    PoolCoversHolds
    PoolAccounted
PROPERTIES
    MoneyConserved
