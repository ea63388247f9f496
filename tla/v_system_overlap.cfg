SPECIFICATION Spec
CHECK_DEADLOCK FALSE
CONSTANTS
    MaxStall = 0
    NoRow = NoRow
    Requests = {r1, r2}
    Keys = {k1}
    Admins = {a1}
    NoKey = NoKey
    NoOp = NoOp
    Lease = 3
    RecordTTL = 5
    Backoff = 1
    MaxRun = 4
    MaxFaults = 0
    MaxTroubles = 0
    MaxDeletes = 0
SYMMETRY Symmetry
INVARIANTS
    OneOperationAtATime
