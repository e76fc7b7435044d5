SPECIFICATION ForkAndExitSpec

CONSTANTS
    NENV = 4
    NInitial = 2
    Scheduler = "PR"
    PRIORIDAD_MIN = 1
    PRIORIDAD_MAX = 2
    MaxPriority = 2
    GenLimit = 2
    c1 = c1
    CPUs = {c1}
    BootCpu = c1
    None = None
    Calls = {"exofork", "set_status", "destroy"}

PROPERTIES
    NoStarvation
