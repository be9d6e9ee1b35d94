SPECIFICATION Spec
CONSTANTS
    a = a
    b = b
    k1 = k1
    k2 = k2
    k3 = k3
    v1 = v1
    v2 = v2
    s1 = s1
    s2 = s2
    Clients <- MCClients
    Keys <- MCKeys
    Values <- MCValues
    SyncOf <- MCSyncOf
    Capacity = 1
    FifoCache = FALSE
    Faults = {"read", "write", "del"}
    NoEntry = NoEntry
    Nobody = Nobody
    NoKey = NoKey
    Absent = Absent
    Failed = Failed
    Done = Done
INVARIANTS ExclusiveAccess CleanMeansSaved
SYMMETRY Interchangeable
VIEW WithoutReplies
CHECK_DEADLOCK FALSE
