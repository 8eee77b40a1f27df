SPECIFICATION Spec
CONSTANTS
    a = a
    b = b
    r1 = r1
    r2 = r2
    r3 = r3
    Word = 16
    Divider <- MCDivider
    NearNum = 4
    NearDen = 5
    Request = {r1, r2}
    Descriptor = {a, b}
    NoLimit = NoLimit
    MaxDescriptors = 2
    Unit <- MCUnit
    ShadowMode = {}
    Calls <- WindowCalls
    PerSecondClient = TRUE
    StopCacheKeyIncrementWhenOverlimit = FALSE
    LocalCacheEnabled = TRUE
    ExpirationJitterMaxSeconds = 2
    MaxTime = 2
    MaxFailures = 0
SYMMETRY Symmetry
CHECK_DEADLOCK FALSE
INVARIANTS
    TypeOK
    LocalCacheSound
    CounterOutlivesWindow
    ResetStartsLaterWindow
PROPERTIES
    ImplementsQuota
