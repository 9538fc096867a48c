SPECIFICATION FairSpec
CONSTANTS
    KeySpace = 8
    Members = {0, 4}
    Joiners = {}
    NumSucc = 2
    MaxCrashes = 0
    TornWrites = FALSE
    NoNode = NoNode
PROPERTIES
    CallsReturn
CHECK_DEADLOCK FALSE
