SPECIFICATION Spec
CONSTANTS
    ConfigLoad <- MCLoad
    ConfigIsEmptyDomains <- MCIsEmptyDomains
    ConfigGetLimit <- MCGetLimit
    NoRule <- MCNoRule
    EmptyText <- MCEmptyText
    Request = {r1, r2}
    Calls <- MCCalls
    Updates <- MCUpdates
    MaxUpdates = 2
    MaxRemaining = 1
    MergeDomainConfigs = FALSE
    ForceStart = TRUE
    HealthyWithAtLeastOneConfigLoad = TRUE
    ResponseHeadersEnabled = TRUE
    GlobalShadowMode = FALSE
    r1 = r1
    r2 = r2
INVARIANTS
    OneConfiguration
    ReplacementIgnoresOrder
    HeadersComplete
    HeadersDescribeTightest
SYMMETRY Symmetry
CHECK_DEADLOCK FALSE
