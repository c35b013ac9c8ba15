\* Devices of one code: activation, kickout, removal and refresh by two
\* handlers, while the administrator changes the limit.
CONSTANTS
    Threads = {t1, t2}
    Apps = {"app"}
    Plains = {"good"}
    Ips = {"ip1"}
    Nonces = {"n1", "n2", "n3", "n4", "n5", "n6"}
    MaxDevices = 2
    Requests <- RegistryRequests
    AppMaxes = {0, 2}
    AppTtls = {0}
    DefaultTtl = 2
    CodeMaxes = {0}
    CodeTtls = {0}
    TSWindow = 1
    NonceTTL = 3
    RateMax = 1
    RateWindow = 1
    RateLock = 1
    MaxStall = 0
    MaxTime = 0
SPECIFICATION Spec
SYMMETRY ThreadSymmetry
INVARIANTS TypeOK KeyFollowsLicense
PROPERTIES RevocationIsFinal QuotaRespected ImplementsRegistry
