\* The durations of the code, NonceTTL = 2 * TSWindow, and no stall at all.
CONSTANTS
    Threads = {t1, t2}
    Apps = {"app"}
    Plains = {"good"}
    Ips = {"ip1"}
    Nonces = {"n0", "n1"}
    MaxDevices = 1
    Requests <- RefreshRequests
    AppMaxes = {}
    AppTtls = {2}
    DefaultTtl = 2
    CodeMaxes = {}
    CodeTtls = {0}
    TSWindow = 1
    NonceTTL = 2
    RateMax = 1
    RateWindow = 9
    RateLock = 9
    MaxStall = 0
    MaxTime = 3
SPECIFICATION EnrolledSpec
SYMMETRY ThreadSymmetry
INVARIANTS NoReplay
