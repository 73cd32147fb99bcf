SPECIFICATION FairSpec
CONSTANTS
    Base = {b1}
    Dynamic = {d1}
    Clients = {k1, k2}
    KeepAliveMax = 2
    PoolSize = 2
    None = None
INVARIANTS
    TypeOK
    NoJobForgotten
    EachConnectionOnce
    ResourcesOutliveThreads
PROPERTIES
    CountsConnections
    AcceptedIsClosed
    ListenEndExits
