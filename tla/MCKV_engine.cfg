\* One process, its crashes, power failures and failing calls.
CONSTANTS
    Procs = {p1}
    None = None
    Keys = {"k1", "k2"}
    Values = {1}
    Absent = Absent
    Txs <- MixedTxs
    Threshold = 2
    ShortWrites = FALSE
    MaxLog = 3
    MaxDisk = 6
SPECIFICATION Spec
INVARIANTS TypeOK Durable
PROPERTIES CrashLeavesPrefix ImplementsTxMap
