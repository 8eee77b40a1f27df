SPECIFICATION FairSpec
CONSTANTS
    MaxVersion = 3
    MaxOutages = 2
    Undecodable = {2}
    Invalid = {1}
    DialMayFail = TRUE
    MaxCert = 3
    Settings <- MCSettings
    ForceStart = FALSE
    MaxRPCs = 2
CHECK_DEADLOCK FALSE
INVARIANTS
    NoCallCutOff
    AckedIsInUse
    CertHasKey
PROPERTIES
    LatestConfigArrives
    LatestCertArrives
    ShutdownCompletes
