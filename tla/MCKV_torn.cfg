\* A transaction of two records, whose write is torn after the first.
CONSTANTS
    Procs = {p1}
    None = None
    Keys = {"k1", "k2"}
    Values = {1}
    Absent = Absent
    Txs <- PairTxs
    Threshold = 2
    ShortWrites = FALSE
    MaxLog = 2
    MaxDisk = 5
SPECIFICATION Spec
PROPERTIES CrashAtomic
