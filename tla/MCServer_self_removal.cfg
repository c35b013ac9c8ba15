\* A device that removes itself.
CONSTANTS
    Threads = {t1, t2}
    Apps = {"app"}
    Plains = {"good"}
    Ips = {"ip1"}
    Nonces = {"n1", "n2"}
    MaxDevices = 1
    Requests <- LeaveRequests
    AppMaxes = {}
    AppTtls = {2}
    DefaultTtl = 2
    CodeMaxes = {}
    CodeTtls = {0}
    TSWindow = 1
    NonceTTL = 2
    RateMax = 1
    RateWindow = 9
    RateLock = 9
    MaxStall = 0
    MaxTime = 0
SPECIFICATION ReadySpec
SYMMETRY ThreadSymmetry
INVARIANTS RevokedIsRemoved
