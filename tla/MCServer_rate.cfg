\* Failures and successes on the buckets of one address, application and code,
\* past the expiry of the code.
CONSTANTS
    Threads = {t1, t2}
    Apps = {"app"}
    Plains = {"good"}
    Ips = {"ip1"}
    Nonces = {"n1", "n2"}
    MaxDevices = 2
    Requests <- RateRequests
    AppMaxes = {}
    AppTtls = {2}
    DefaultTtl = 2
    CodeMaxes = {}
    CodeTtls = {1}
    TSWindow = 1
    NonceTTL = 2
    RateMax = 2
    RateWindow = 1
    RateLock = 1
    MaxStall = 0
    MaxTime = 2
SPECIFICATION ReadySpec
SYMMETRY ThreadSymmetry
INVARIANTS FailuresBounded
PROPERTIES CodeInForce LockFollowsFailures
