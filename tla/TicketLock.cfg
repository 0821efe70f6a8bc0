CONSTANTS
    Thread = {t1, t2, t3}
    M = 4
    WrapDuringTry = FALSE
SPECIFICATION Spec
INVARIANTS TypeOK MutualExclusion TicketsConsecutive HasWaitersExact
PROPERTY RefinesFifoLock
