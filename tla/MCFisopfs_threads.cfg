SPECIFICATION LostSpec

CONSTANTS
    Threads = {t1, t2}
    Names = {a, b}
    MaxDepth = 2
    MAX_INODES = 4
    MAX_DIR_ENTRIES = 2
    MAX_CONTENT = 1
    Bytes = {0, 1}
    MaxInUse = 8

INVARIANTS
    NoSharedInode

SYMMETRY Symmetry
