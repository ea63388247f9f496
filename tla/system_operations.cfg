SPECIFICATION Spec
CHECK_DEADLOCK FALSE
CONSTANTS
    MaxStall = 1
    NoRow = NoRow
    Requests = {r1, r2}
    Keys = {k1}
    Admins = {a1, a2}
    NoKey = NoKey
    NoOp = NoOp
    Lease = 3
    RecordTTL = 5
    Backoff = 1
    MaxRun = 3
    MaxFaults = 1
    MaxTroubles = 1
    MaxDeletes = 1
SYMMETRY Symmetry
INVARIANTS
    OneRunPerKey
    FreshSuccessIsNotRepeated
    ReplayIsOwn
    CreatorIsAlone
PROPERTIES
    OrphanedLockLapses
