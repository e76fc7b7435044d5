SPECIFICATION FairSpec

CONSTANTS
    NENV = 3
    NInitial = 3
    Scheduler = "PR"
    PRIORIDAD_MIN = 1
    PRIORIDAD_MAX = 2
    MaxPriority = 2
    GenLimit = 1
    c1 = c1
    c2 = c2
    CPUs = {c1, c2}
    BootCpu = c1
    None = None
    Calls = {"recv", "send", "destroy", "modificar"}

PROPERTIES
    NoStarvation
