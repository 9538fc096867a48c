SPECIFICATION FairSpec
CONSTANTS
    Clients = {c1, c2, c3}
    c1 = c1
    c2 = c2
    c3 = c3
    NoClient = NoClient
    Limit = 2
    ProxyLimit = 2
    Blocks = {"o", "1", "2"}
    Plans <- SomePlans
    Stored <- OneFile
    Creatable <- CreatablePaths
CHECK_DEADLOCK FALSE
INVARIANTS
    TypeOK
    ProxySocketsBounded
PROPERTIES
    GetReturnsLastPost
    EveryoneAnswered
