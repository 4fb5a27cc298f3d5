SPECIFICATION Spec
CONSTANTS
    r1 = r1
    r2 = r2
    r3 = r3
    term = term
    int = int
    Requests <- TwoRequests
    Signals <- OnlyTerm
    PoolSize = 1
INVARIANTS
    CleanExitKeepsJobs
