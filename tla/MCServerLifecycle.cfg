SPECIFICATION FairSpec
CONSTANTS
    r1 = r1
    r2 = r2
    r3 = r3
    term = term
    int = int
    Requests <- ThreeRequests
    Signals <- TwoSignals
    PoolSize = 2
INVARIANTS
    
    OrderlyCutsNobody
    
    PoolOutlivesServer
    
PROPERTIES
    SignalEndsProcess
