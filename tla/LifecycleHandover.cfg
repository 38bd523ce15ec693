\* A stop, then a start, while the first server drains.
SPECIFICATION Spec
CONSTANTS
    Servers = {s1, s2}
    Statuses = {}
    Stops = {p1}
    Rotates = {}
    None = none
    Empty = empty
    OverlapStarts = 2
    OverlapStatuses = 0
SYMMETRY LifecycleSymmetry
CHECK_DEADLOCK FALSE
INVARIANT ServingServerIsFound
