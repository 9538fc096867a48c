SPECIFICATION FairSpec
CONSTANTS
    KeySpace = 8
    Members = {0, 3}
    Joiners = {5}
    Users = {0}
    Readers = {}
    Hashes = {3, 4}
    Powers <- OneKey
    MaxStores = 1
    MaxChanges = 1
INVARIANTS
    KeptAtHome
PROPERTIES
    EventuallyPlaced
CHECK_DEADLOCK FALSE
