SPECIFICATION CpuFairSpec

CONSTANTS
    NENV = 3
    NInitial = 2
    Scheduler = "RR"
    PRIORIDAD_MIN = 1
    PRIORIDAD_MAX = 2
    MaxPriority = 2
    GenLimit = 1
    c1 = c1
    c2 = c2
    CPUs = {c1, c2}
    BootCpu = c1
    None = None
    Calls = {"exofork", "set_status", "destroy", "recv", "send"}

INVARIANTS
    TypeOK
    KernelLock
    OneCpuPerEnv
    RunningIsHeld
    FreeListExact
    CpunumIsCurrent
    RecvingIsBlocked

PROPERTIES
    ZombieFreedByItsCpu
    NoIdleWithWork
    BlockedUntilSent
    ZombiesAreFreed
