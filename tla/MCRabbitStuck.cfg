SPECIFICATION FairSpec
CONSTANTS
    j1 = j1
    j2 = j2
    j3 = j3
    w1 = w1
    w2 = w2
    Nobody = Nobody
    Null = Null
    Jobs <- TwoJobs
    Workers <- OneWorker
    Prefetch = 1
    MaxFailures = 1
    MaxStops = 0
    MaxCuts = 0
    MaxRefusals = 0
PROPERTIES
    QueuedJobIsTried
