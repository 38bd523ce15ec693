\* One session with a TIDAL start URL, or two without.
SPECIFICATION MCSpec
CONSTANTS
    Sessions = {s1, s2}
    Tidal = s1
    User = user
    Configured = configured
    Nobody = nobody
CHECK_DEADLOCK FALSE
PROPERTY
    RelayLossClosesBrowser
