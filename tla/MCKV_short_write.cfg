\* A write that fails half-way, and commits after it.
CONSTANTS
    Procs = {p1}
    None = None
    Keys = {"k1", "k2"}
    Values = {1}
    Absent = Absent
    Txs <- SingleTxs
    Threshold = 4
    ShortWrites = TRUE
    MaxLog = 3
    MaxDisk = 5
SPECIFICATION Spec
INVARIANTS Durable
