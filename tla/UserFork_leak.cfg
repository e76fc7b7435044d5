SPECIFICATION Spec
CONSTANTS
    e1 = e1
    e2 = e2
    Envs = {e1, e2}
    Pages = {p1, p2, p3, p4, p5, p6, p7, p8, p9, p10, p11, p12, p13, p14}
    NData = 1
    Vals = {0, 1}
    Zero = 0
    NoPage = NoPage
    NoEnv = NoEnv
    InUse = {{}, {p14}, {p5, p6, p7, p8, p9, p10, p11, p12, p13, p14}}
    Frames = 2
    MaxForks = 2
    Programs = {"fork", "fork_v0", "exit", "wild", "cputs", "ipc"}
PROPERTY
    NoPageLost
CHECK_DEADLOCK FALSE
