SPECIFICATION LostSpec

CONSTANTS
    Threads = {t1}
    Names = {a, b}
    MaxDepth = 2
    MAX_INODES = 4
    MAX_DIR_ENTRIES = 2
    MAX_CONTENT = 2
    Bytes = {0, 1}
    MaxInUse = 5

INVARIANTS
    TypeOK
    Hierarchical
    EntriesAreTrue

PROPERTIES
    ImplementsTree

SYMMETRY Symmetry
