CONSTANTS
    c1 = c1
    c2 = c2
    main = main
    perSecond = perSecond
    NoThread = NoThread
    ConfigThread = ConfigThread
    SigtermThread = SigtermThread
    Conn <- TwoConns
    Thread <- TwoConnThreads
    Pool <- OnePool
    PoolOf <- InMain
    HealthyWithAtLeastOneConfigLoad = TRUE
    HealthCheckActiveConnection = TRUE
    MaxEvents = 2
SPECIFICATION ServerFairSpec
INVARIANTS
    Coherent
    HealthyIsTruthful
    NoConnectionIsUnhealthy
    ConfigHealthIsCurrent
PROPERTIES
    HealthCheckerSpec
    SigtermFinal
    SigtermDrains
