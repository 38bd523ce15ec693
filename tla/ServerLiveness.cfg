\* Every error rotates; what ends, and what holds up a stop.
SPECIFICATION FairSpec
CONSTANTS
    Conns = {c1}
    Signals = {g1}
    Stops = {s1, s2}
    Main = main
    None = none
    WindowSize = 2
    Threshold = 1
    HealthRetries = 3
CHECK_DEADLOCK FALSE
PROPERTIES
    HandlersFinish
    StopCompletes
