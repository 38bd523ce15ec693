\* Every request, up to two pieces of its body, a response above the limit. It ends: no deadlock.
SPECIFICATION FairSpec
CONSTANTS
    ClientPieces = 3
    RemotePieces = 3
    MaxBody = 2
    MaxResponse = 2
CHECK_DEADLOCK FALSE
INVARIANTS
    OneAnswer
    StayingClientIsAnswered
    RecordedOnce
    TunnelClosedAtEnd
    ResponseIsWhole
    BodyIsWhole
PROPERTIES
    HandlerKeepsContract
    RelayEnds
