SPECIFICATION FairSpec
CONSTANTS
    Procs = {0, 1, 2, 3, 4, 5, 6}
    Shell = 0
    InitProc = 99
    Fds = {"0", "1", "2", "r", "w"}
    Pipes = {1, 2, 3, 4}
    PIPE_BUF = 1
    MaxLines = 2
    Writes = 2
    Lines <- MCLines
    Commands <- MCCommands
INVARIANTS
    TypeOK
    StatusIsForegrounds
    PromptMeansDone
    OnlyItsEnds
PROPERTIES
    PromptReturns
    AllReaped
CHECK_DEADLOCK FALSE
