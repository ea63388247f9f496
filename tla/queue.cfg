SPECIFICATION QueueSpec
CONSTANTS
    Batches = {b1, b2}
    Workers = {w1, w2}
    Free = Free
    Abandoned = Abandoned
    None = None
    MaxCrashes = 1
    MaxLate = 2
INVARIANTS
    InflightIsListed
    ExclusiveUnlessLapsed
PROPERTIES
    LockLostOnlyToTimeout
    OnlyReservationActivates
    InflightIsServed
