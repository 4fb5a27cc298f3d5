SPECIFICATION Spec
CONSTANTS
    u1 = u1
    u2 = u2
    c1 = c1
    w1 = w1
    w2 = w2
    Nobody = Nobody
    Users <- OneUser
    Sockets <- OneSocket
    Workers <- OneWorker
    Attempts = 2
    MaxStops = 1
    MaxCrashes = 2
PROPERTIES
    RegistrationIsBroadcast
