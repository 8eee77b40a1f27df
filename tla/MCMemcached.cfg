SPECIFICATION FairSpec
CONSTANTS
    Word = 8
    Divider <- MCDivider
    NearNum = 4
    NearDen = 5
    Request = {r1, r2}
    Descriptor = {a, b}
    NoLimit = NoLimit
    MaxDescriptors = 2
    Unit <- MCUnit
    ShadowMode = {}
    Calls <- MCCalls
    NoJob = NoJob
    LocalCacheEnabled = TRUE
    ExpirationJitterMaxSeconds = 2
    MaxTime = 1
    MaxFaults = 1
    a = a
    b = b
    r1 = r1
    r2 = r2
INVARIANTS
    KeyOutlivesWindow
    NoHitLostInRace
    FlushedHitsAreSeen
    CounterIsSumOfHits
    AnswerFitsCounter
    LocalRefusalIsDue
PROPERTIES
    ComesToRest
CHECK_DEADLOCK FALSE
