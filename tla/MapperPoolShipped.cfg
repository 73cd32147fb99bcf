SPECIFICATION MapperSpec
CONSTANTS
    Threads = {t1, t2, t3, t4}
    Conns = {c1, c2, c3, c4}
    PoolSize = 4
    MaxInits = 1
    MaxInner = 1
    NULL = NULL
SYMMETRY Symmetry
INVARIANT NoCircularWait
