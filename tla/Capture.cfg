\* Three turns of the reconnect loop, two responses in flight. The session ends: no deadlock.
SPECIFICATION FairSpec
CONSTANTS
    Polls = {cookies, storage}
    StoragePolls = {storage}
    Fetches = {f1, f2}
    MaxReconnects = 3
CHECK_DEADLOCK FALSE
INVARIANTS
    CaptureTypeOK
    NothingLostAtStop
    NobodyWaitsOnLostClient
PROPERTIES
    StopDrawsNear
    StopEnds
    LossIsNoticed
