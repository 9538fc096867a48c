SPECIFICATION FairSpec
CONSTANTS
    Clients = {c1}
    Servers = {s1, s2}
    s1 = s1
    s2 = s2
    Order <- SameOrder
    ShutDown = {s1}
    MaxObject = 3
    MaxRequest = 1
CHECK_DEADLOCK FALSE
INVARIANT AckedPersisted
PROPERTIES
    CallsReturn
    ClerkFindsLeader
