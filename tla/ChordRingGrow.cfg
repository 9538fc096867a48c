SPECIFICATION FairSpec
CONSTANTS
    KeySpace = 8
    Members = {0}
    Joiners = {1, 3}
    NumSucc = 2
    MaxCrashes = 0
    TornWrites = FALSE
    NoNode = NoNode
PROPERTIES
    RingConverges
CHECK_DEADLOCK FALSE
