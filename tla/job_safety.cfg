SPECIFICATION SafetySpec
CHECK_DEADLOCK FALSE
CONSTANTS
    Batches = {b1}
    Workers = {w1, w2}
    Free = Free
    Abandoned = Abandoned
    None = None
    MaxCrashes = 1
    MaxLate = 0
    Costs = {1, 3}
    Hold = 2
    Funds = {1, 3}
    Pool = 2
    MaxRetries = 3
    ZoneAhead = TRUE
    EarlyCancel = FALSE
    Deletions = TRUE
    MaxFaults = 1
    MaxLost = 1
    MaxLapses = 1
    MaxDeaths = 1
SYMMETRY Symmetry
INVARIANTS
    BegunJobStaysQueued
    CompletedIsPaid
    NoRefundWhileRunning
PROPERTIES
    TerminalStatusIsFinal
    RefreshedSubmissionIsSpared
    RefundIsPassedOn
    KeepsPromise
