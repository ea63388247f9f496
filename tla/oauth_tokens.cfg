SPECIFICATION Spec
CHECK_DEADLOCK FALSE
CONSTANTS
    Requests = {r1}
    Elsewhere = {r1}
    Background = bg
    None = None
    Orphan = Orphan
    AdminKinds = {"refresh", "apply", "update"}
    MaxRetries = 2
    MaxGen = 3
    MaxFaults = 1
    MaxTroubles = 1
    MaxAdmin = 1
INVARIANTS
    TokenSurvives
    QuarantineIsDeserved
    FillIsNotOlder
PROPERTIES
    RefreshTokenIsUsedOnce
    CooledTokenIsRenewed
