SPECIFICATION Spec
CONSTANTS
    ConfigLoad <- MCLoad
    ConfigIsEmptyDomains <- MCIsEmptyDomains
    ConfigGetLimit <- MCGetLimit
    NoRule <- MCNoRule
    EmptyText <- MCEmptyText
    Request = {r1, r2}
    Calls <- NestedCalls
    Updates <- NestedUpdates
    MaxUpdates = 1
    MaxRemaining = 1
    MergeDomainConfigs = FALSE
    ForceStart = FALSE
    HealthyWithAtLeastOneConfigLoad = TRUE
    ResponseHeadersEnabled = TRUE
    GlobalShadowMode = FALSE
    r1 = r1
    r2 = r2
INVARIANT
    MetricIsOwn
CHECK_DEADLOCK FALSE
