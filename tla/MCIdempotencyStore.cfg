\* Two server processes on one database file, purge jobs on, database errors.
CONSTANTS
    p1 = p1
    p2 = p2
    c1 = c1
    c2 = c2
    c3 = c3
    NoKey = NoKey
    k1 = k1
    Callers = {c1, c2, c3}
    Keys = {k1}
    Procs = {p1, p2}
    ProcOf <- TwoProcesses
    TTL = 2
    MaxTime = 3
    Purging = TRUE
    DbFaults = TRUE
SPECIFICATION Spec
SYMMETRY NewTasks
INVARIANTS
    LeaseExclusion
    HolderOwnsRow
PROPERTY SettledStays
