CONSTANTS
    c1 = c1
    c2 = c2
    main = main
    perSecond = perSecond
    NoThread = NoThread
    ConfigThread = ConfigThread
    SigtermThread = SigtermThread
    Conn <- TwoConns
    Thread <- TwoConnThreads
    Pool <- OnePool
    PoolOf <- InMain
    HealthyWithAtLeastOneConfigLoad = FALSE
    HealthCheckActiveConnection = TRUE
    MaxEvents = 0
SPECIFICATION ServerSpec
INVARIANTS ConnectionIsHealthy
