SPECIFICATION ASpec
CONSTANTS
    p1 = p1
    p2 = p2
    k1 = k1
    k2 = k2
    k3 = k3
    s1 = s1
    s2 = s2
    Clients <- MCUpdaters
    Updaters <- MCUpdaters
    Keys <- MCKeys
    Values <- MCValues
    SyncOf <- MCSyncOf
    Capacity = 1
    FifoCache = FALSE
    Faults = {}
    NoEntry = NoEntry
    Nobody = Nobody
    NoKey = NoKey
    Absent = Absent
    Failed = Failed
    Done = Done
PROPERTIES FlushSaves
CHECK_DEADLOCK FALSE
