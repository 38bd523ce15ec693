\* One session with a TIDAL start URL, or two without. They are used up: no deadlock.
SPECIFICATION MCSpec
CONSTANTS
    Sessions = {s1, s2}
    Tidal = s1
    User = user
    Configured = configured
    Nobody = nobody
CHECK_DEADLOCK FALSE
INVARIANTS
    BrowseTypeOK
    OwnRelaysStopped
    SessionUsesItsRelay
    WarmupEarnsItsCookie
PROPERTY
    LostRelayEndsSession
