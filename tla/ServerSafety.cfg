\* Two connections that may fail at any phase while the server is stopped. It
\* does stop: no deadlock.
SPECIFICATION Spec
CONSTANTS
    Conns = {c1, c2}
    Signals = {}
    Stops = {s1, s2}
    Main = main
    None = none
    WindowSize = 2
    Threshold = 2
    HealthRetries = 2
SYMMETRY ServerSymmetry
CHECK_DEADLOCK FALSE
INVARIANTS
    ServerTypeOK
    ActiveConnectionsExact
    ShutdownQuiesces
    RotationsMoveOn
PROPERTIES
    HandlersKeepContract
    ServerKeepsContract
