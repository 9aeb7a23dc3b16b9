SPECIFICATION FairSpec
CONSTANTS
    g1 = g1
    g2 = g2
    g3 = g3
    k1 = k1
    k2 = k2
    k3 = k3
    noConn = noConn
    noCaller = noCaller
    Caller = {g1, g2}
    PoolSize = 2
    Conn = {k1, k2}
    NoConn = noConn
    NoCaller = noCaller
    MaxBackoff = 2
    MaxFailures = 2
CHECK_DEADLOCK FALSE
INVARIANTS
    PoolTypeOK
    
PROPERTIES
    EveryCallReturns
    Recovers
