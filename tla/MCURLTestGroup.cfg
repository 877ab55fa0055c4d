SPECIFICATION MCSpec
CONSTANTS
    Outbounds <- MCOutbounds
    Supports <- MCSupports
    Delays = {0, 1, 4}
    Tolerance = 2
    Width = 16
    Dialers = {d1}
    MaxTickers = 2
    MaxTouches = 4
    MaxCalls = 2
    None = None
INVARIANTS
    LoopOwnsTicker
    NoStaleConnection
PROPERTIES
    SwitchJustified
    ComesToRest
CHECK_DEADLOCK FALSE
