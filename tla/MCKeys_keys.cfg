\* Two processes on one data directory, from its first start on.
CONSTANTS
    Procs = {p1, p2}
    Absent = Absent
    Empty = Empty
    MaxKeys = 4
SPECIFICATION Spec
SYMMETRY ProcSymmetry
INVARIANTS TypeOK KeyOnDisk Startable
CHECK_DEADLOCK FALSE
