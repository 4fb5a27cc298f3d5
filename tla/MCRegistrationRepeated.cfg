SPECIFICATION Spec
CONSTANTS
    r1 = r1
    r2 = r2
    r3 = r3
    c1 = c1
    c2 = c2
    c3 = c3
    c4 = c4
    Nobody = Nobody
    Emails <- MCEmails
    Canonical <- MCCanonical
    Requests <- MCTwoRequests
    EmailOf <- MCTwoEmailOf
    Clients <- ThreeClients
    Timeouts = FALSE
    MaxFaults = 0
    MaxCrashes = 0
INVARIANTS
    RepeatedAddressGets409
