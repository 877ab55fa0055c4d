SPECIFICATION Spec
CONSTANTS
    None = None
    Tags = {"a", "b"}
    Endpoints = {"e"}
    DefaultTag = ""
INVARIANTS TablesAgree LeaksAreReported EveryoneStarted
CHECK_DEADLOCK FALSE
