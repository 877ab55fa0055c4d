SPECIFICATION MCSpec
CONSTANTS
    None = None
    Tags = {"a", "b", "c"}
    Unknown = "x"
    Conns = {c1, c2}
    Interfaces = {"wifi", "cellular"}
    MaxAddress = 2
INVARIANTS ExactlyTheStartable FirstDecides OnCloseOnce FailsOnlyWhenAllFailed
PROPERTY EndsUnlessHeld
CHECK_DEADLOCK FALSE
