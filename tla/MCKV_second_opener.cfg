\* A second process opens the directory of a running one.
CONSTANTS
    Procs = {p1, p2}
    None = None
    Keys = {"k1", "k2"}
    Values = {1}
    Absent = Absent
    Txs <- SingleTxs
    Threshold = 4
    ShortWrites = FALSE
    MaxLog = 3
    MaxDisk = 5
SPECIFICATION Spec
SYMMETRY ProcSymmetry
INVARIANTS Durable
