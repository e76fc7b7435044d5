SPECIFICATION FamilySpec

CONSTANTS
    NENV = 2
    NInitial = 2
    Scheduler = "PR"
    PRIORIDAD_MIN = 1
    PRIORIDAD_MAX = 2
    MaxPriority = 3
    GenLimit = 2
    c1 = c1
    c2 = c2
    CPUs = {c1, c2}
    BootCpu = c1
    None = None
    Calls = {"exofork", "set_status", "destroy", "recv", "send", "modificar", "set_status_any", "destroy_dying", "recv_bad_va"}

INVARIANTS
    MonitorIsFinal
    KernelLock

PROPERTIES
    EndedByFamily
