SPECIFICATION Spec
CONSTANTS
    KeySpace = 8
    Members = {0, 3, 6}
    Joiners = {}
    Users = {0}
    Readers = {0}
    Hashes = {4, 5}
    Powers <- TwoKeys
    MaxStores = 1
    MaxChanges = 2
INVARIANTS
    TypeOK
    FirstCopyWhole
    StoredIsFound
CHECK_DEADLOCK FALSE
