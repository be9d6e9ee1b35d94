SPECIFICATION LSpec
CONSTANTS
    p1 = p1
    p2 = p2
    reader = reader
    k1 = k1
    k2 = k2
    s1 = s1
    s2 = s2
    Clients <- MCClients
    Updaters <- MCUpdaters
    Keys <- MCKeys
    Values <- MCValues
    SyncOf <- MCSyncOf
    Capacity = 1
    FifoCache = FALSE
    Faults = {}
    NoEntry = NoEntry
    Nobody = Nobody
    NoKey = NoKey
    Absent = Absent
    Failed = Failed
    Done = Done
INVARIANTS NoLostUpdate
CHECK_DEADLOCK FALSE
