SPECIFICATION FairSpec
CONSTANTS
    i1 = i1
    i2 = i2
    r1 = r1
    r2 = r2
    r3 = r3
    lower = lower
    upper = upper
    p1 = p1
    p2 = p2
    Null = Null
    Ids <- TwoIds
    Emails <- OneAddress
    Canonical <- Lower
    EmailOf <- Addresses
    PasswordOf <- Secrets
    Passwords <- TwoPasswords
    Requests <- TwoRequests
    Calls <- EveryRoute
    Settings <- SomeSettings
    MaxRequests = 1
    MaxFaults = 1
INVARIANTS
    ApiInv
    SessionShowsOwner
    AnswersAreCurrent
    PresentIsFound
    AuditNamesBearer
PROPERTIES
    EveryCallAnswered
    AuthenticatedIsAudited
    ImplementsSessions
