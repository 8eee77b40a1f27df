SPECIFICATION Spec
CONSTANTS
    a = a
    b = b
    r1 = r1
    r2 = r2
    r3 = r3
    Word = 16
    Divider <- MCDivider
    NearNum = 1
    NearDen = 2
    Request = {r1, r2, r3}
    Descriptor = {a, b}
    NoLimit = NoLimit
    MaxDescriptors = 2
    Unit <- MCUnit
    ShadowMode = {}
    Calls <- QuotaCalls
    PerSecondClient = TRUE
    StopCacheKeyIncrementWhenOverlimit = FALSE
    LocalCacheEnabled = TRUE
    ExpirationJitterMaxSeconds = 1
    MaxTime = 0
    MaxFailures = 1
SYMMETRY Symmetry
CHECK_DEADLOCK FALSE
INVARIANTS
    QuotaRespected
    NoSharedQuota
    OnlyFailuresLeakKeys
    OverLimitStatExact
    NearLimitStatExact
