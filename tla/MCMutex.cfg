SPECIFICATION Spec
CONSTANTS
    c1 = c1
    c2 = c2
    c3 = c3
    Callers <- MCCallers
    MaxTickets = 7
    Nobody = Nobody
INVARIANTS TypeOK MutualExclusion
PROPERTIES ServedInOrder EveryCallerServed ImplementsFifoLock
CHECK_DEADLOCK FALSE
