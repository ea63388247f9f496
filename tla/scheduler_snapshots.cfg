SPECIFICATION FairSpec
CONSTANTS
    Readers = {r1}
    Poller = poller
    Rebuilder = rebuilder
    Buckets = {b1}
    None = None
    Restarts = {TRUE, FALSE}
    MaxAccountChanges = 1
    MaxGroupChanges = 1
    MaxFaults = 1
    MaxTroubles = 2
INVARIANTS
    SnapshotIsOfThisLife
    ClosedStaysClosed
    RetiredIsEmpty
PROPERTIES
    SnapshotsSettle
