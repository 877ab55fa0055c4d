SPECIFICATION FakeIPSpec
CONSTANTS
    None = None
    Domains = {x, y, z}
    Families = {"v4", "v6"}
    Ranges = {0, 1}
    Size = 5
    MaxStarts = 2
    Keys = {k1}
    MaxSaves = 3
    Closers = {c1, c2}
    IdSpace = 2
    Savers = {a1, a2}
    MaxAdds = 3
    MaxRuns = 2
    IfIndexes = {1, 2}
    MaxLinks = 2
    Asking = {q1}
    Interfaces = {"i", "j"}
    Fetchers = {f1, f2}
    Monitor = Monitor
    MaxMoves = 3
INVARIANT GivenInRange
CHECK_DEADLOCK FALSE
