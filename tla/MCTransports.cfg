SPECIFICATION PartSpec
CONSTANTS
    Callers = {p1, p2}
    Recursive = {p1}
    None = None
    Large = {p1}
    IdSpace = 2
INVARIANTS
    SingleFlight NoLeak CacheSafe ShutdownContract BufferFits
PROPERTIES
    ImplementsAbstract CallsReturn
CHECK_DEADLOCK FALSE
