SPECIFICATION Spec
CONSTANTS
    Plain = {p1, p2}
    Live = {c1}
    Worker = worker
    MaxConcurrency = 1
    QueueLimit = 1
    SlotTTL = 2
    LeaseTTL = 1
    WaitTTL = 2
    WaitTimeout = 1
    MaxFaults = 1
    MaxTroubles = 1
    MaxCrashes = 1
INVARIANTS
    LimitHolds
    WaitCountIsHonest
PROPERTIES
    QueueOpens
