SPECIFICATION Spec
CONSTANTS
    None = None
    Tags = {"a", "b"}
    Endpoints = {"e"}
    DefaultTag = ""
INVARIANTS DefaultNeverFakeIP
CHECK_DEADLOCK FALSE
