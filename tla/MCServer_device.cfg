\* One device and its licence over time, past the expiry of the licence, with
\* nonces that lapse while their requests are still accepted.
CONSTANTS
    Threads = {t1, t2}
    Apps = {"app"}
    Plains = {"good"}
    Ips = {"ip1"}
    Nonces = {"n0", "n1", "n2", "n3"}
    MaxDevices = 1
    Requests <- ExpiryRequests
    AppMaxes = {}
    AppTtls = {2}
    DefaultTtl = 2
    CodeMaxes = {}
    CodeTtls = {0}
    TSWindow = 1
    NonceTTL = 2
    RateMax = 1
    RateWindow = 9
    RateLock = 9
    MaxStall = 1
    MaxTime = 3
SPECIFICATION EnrolledSpec
SYMMETRY ThreadSymmetry
INVARIANTS ReplayGap RepeatsLimited RepeatedIsAhead
PROPERTIES ServedWhileLive SeenRegression
