SPECIFICATION FairSpec
CONSTANTS
    KeySpace = 8
    Members = {0, 4}
    Joiners = {2}
    NumSucc = 2
    MaxCrashes = 1
    TornWrites = TRUE
    NoNode = NoNode
INVARIANTS
    TypeOK
    NoMemberSkipped
PROPERTIES
    SuccessorKept
    JoinEnds
CHECK_DEADLOCK FALSE
