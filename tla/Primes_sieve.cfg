SPECIFICATION FairSpec
CONSTANTS
    Procs = {0, 1, 2, 3, 4, 5, 6}
    Main = 0
    InitProc = 99
    Fds = {"padre0", "padre1", "hijo0", "hijo1"}
    Pipes = {1, 2, 3, 4, 5, 6}
    PIPE_BUF = 2
    MaxN = 9
    Faults = {"fork", "pipe"}
INVARIANTS
    TypeOK
    OnlyPrimes
    OneReaderOneWriter
PROPERTIES
    SieveEnds
CHECK_DEADLOCK FALSE
