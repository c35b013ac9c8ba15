\* A failure recorded after the end of the window, while the lock is in force.
CONSTANTS
    Threads = {t1, t2}
    Apps = {"app"}
    Plains = {"good"}
    Ips = {"ip1"}
    Nonces = {"n1", "n2"}
    MaxDevices = 1
    Requests <- RateRequests
    AppMaxes = {}
    AppTtls = {2}
    DefaultTtl = 2
    CodeMaxes = {}
    CodeTtls = {0}
    TSWindow = 1
    NonceTTL = 9
    RateMax = 2
    RateWindow = 2
    RateLock = 2
    MaxStall = 0
    MaxTime = 3
SPECIFICATION ReadySpec
SYMMETRY ThreadSymmetry
PROPERTIES LockSurvivesFailure
