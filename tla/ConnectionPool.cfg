SPECIFICATION DisciplinedSpec
CONSTANTS
    Threads = {t1, t2, t3}
    Conns = {c1, c2, c3, c4}
    PoolSize = 2
    MaxInits = 2
    NULL = NULL
INVARIANTS
    TypeOK
    Exclusive
    Accounted
    Capacity
    NoLostWakeup
PROPERTIES
    ImplementsLease
    ImplementsCount
    ShutdownFreesWaiters
