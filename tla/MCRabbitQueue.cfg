SPECIFICATION FairSpec
CONSTANTS
    j1 = j1
    j2 = j2
    j3 = j3
    w1 = w1
    w2 = w2
    Nobody = Nobody
    Null = Null
    Jobs <- TwoJobs
    Workers <- TwoWorkers
    Prefetch = 1
    MaxFailures = 1
    MaxStops = 1
    MaxCuts = 1
    MaxRefusals = 1
INVARIANTS
    QueueInv
    WorkerLoad
    AcceptedIsKept
    RefusalHasCause
PROPERTIES
    ImplementsJobQueue
    EnqueueSettles
    QueuedJobIsTried
