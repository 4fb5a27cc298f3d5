SPECIFICATION FairOnboarding
CONSTANTS
    r1 = r1
    r2 = r2
    c1 = c1
    c2 = c2
    c3 = c3
    w1 = w1
    Nobody = Nobody
    Requests <- TwoRequests
    Emails <- OneEmail
    EmailOf <- SameEmail
    Canonical <- AsWritten
    Clients <- ThreeClients
    Workers <- OneWorker
    Timeouts = FALSE
    Attempts = 2
    MaxFaults = 1
    MaxStops = 1
    MaxCrashes = 1
INVARIANTS
    OnboardingInv
    JobsAreOfAccounts
    OnlyFailuresForget
    OnlyFailuresLeak
PROPERTIES
    RegisteredIsWelcomed
