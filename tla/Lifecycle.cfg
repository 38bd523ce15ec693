\* Two starts, a status command, two stops and a rotate in any overlap; or, one by
\* one, four starts whose servers crash, two status commands and a rotate.
\* Every process ends: no deadlock.
SPECIFICATION MCSpec
CONSTANTS
    Servers = {s1, s2, s3, s4}
    Statuses = {q1, q2}
    Stops = {p1, p2}
    Rotates = {r1}
    None = none
    Empty = empty
    OverlapStarts = 2
    OverlapStatuses = 1
SYMMETRY LifecycleSymmetry
CHECK_DEADLOCK FALSE
INVARIANTS
    EndedServerIsNotFound
    OneServerServes
    FoundDespiteCrashes
PROPERTY
    ServersKeepContract
