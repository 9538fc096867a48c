SPECIFICATION FairSpec
CONSTANTS
    KeySpace = 8
    Members = {0, 2, 4, 6}
    Joiners = {}
    NumSucc = 2
    MaxCrashes = 1
    TornWrites = FALSE
    NoNode = NoNode
INVARIANTS
    NeverIsolated
PROPERTIES
    RingConverges
CHECK_DEADLOCK FALSE
