SPECIFICATION FairSpec
CONSTANTS
    Sidebands = {s1, s2}
    Creator = c0
    NoOwner = NoOwner
    LeaseTTL = 2
    MaxSession = 3
    RetryLimit = 2
    MaxFaults = 2
    MaxTroubles = 2
    Losses = {"claim", "rerun", "unclaim", "mark", "hang", "crash"}
INVARIANTS
    OpenCallHasKeeper
    OneLogPerCall
    StableConnectionIsCounted
PROPERTIES
    ReleasedLeaseStaysAway
    EveryCallIsLogged
CHECK_DEADLOCK FALSE
