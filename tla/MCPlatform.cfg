SPECIFICATION PlatformSpec
CONSTANTS
    Outer = {r1, r2}
    Inner = {n1}
    Keys <- MCKeys
    Options <- MCOptions
    Resolve <- MCResolve
    None = None
    Users = {u1}
    Global = Global
    Links = {l1}
    Calls = {h1, h2}
    MaxBytes = 1
    Services = {s1, s2}
    TimerPolls = {p1}
    Usages = {3, 6, 7}
    Limits <- MCLimits
    MaxPressure = 1
    Interfaces = {i1, i2}
    Conns = {c1}
INVARIANTS
    NoOrphanWaiter
    FilteredAnswers
    AccountsKept
    NATTypeRight
    GuardSound
    ConnectionsFollow
PROPERTIES
    ReturnsUnlessHeld
CHECK_DEADLOCK FALSE
