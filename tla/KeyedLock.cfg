SPECIFICATION FairSpec
CONSTANTS
    Procs = {p1, p2, p3}
    Keys = {k1, k2}
    Addrs = {a1, a2, a3, a4}
    NULL = NULL
INVARIANTS MutualExclusion NoOrphanedPermit Inv
PROPERTIES EntryLeavesUnused ImplementsMutex EveryCallerServed
