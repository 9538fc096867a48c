SPECIFICATION FairSpec
CONSTANTS
    KeySpace = 8
    Rings <- SomeRings
    NumSucc = 1
    Fingers = 3
    Users = {3}
    NoNode = NoNode
INVARIANTS
    TypeOK
    LookupCorrect
    FingersCorrect
PROPERTIES
    HopProgress
    LookupReturns
