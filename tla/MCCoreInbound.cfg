SPECIFICATION MCSpec
CONSTANTS
    None = None
    MaxRead = 2
    Starters = {s1, s2}
    Closers = {c1}
    Waiters = {w1}
    MaxErrors = 1
    Outbounds = {"a", "b"}
    Default = "a"
    Callers = {k1, k2}
    Links = {l1, l2}
    MaxStarts = 2
    Contents = {"v1", "v2"}
    MaxFetch = 3
    MaxChanges = 2
    Sets = {r1, r2}
    MaxUpdates = 2
INVARIANT InboundInterrupted
CHECK_DEADLOCK FALSE
