\* A connection fails during the drain of a stop, and its error rotates.
SPECIFICATION FairSpec
CONSTANTS
    Conns = {c1}
    Signals = {}
    Stops = {s1}
    Main = main
    None = none
    WindowSize = 1
    Threshold = 1
    HealthRetries = 1
CHECK_DEADLOCK FALSE
PROPERTY ShutdownPreventsRotations
