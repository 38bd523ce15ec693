\* Two or three overlapping handlers, a window that overflows (3 < 7 records).
SPECIFICATION BoundedSpec
CONSTANTS
    Callers = {h1, h2, h3}
    WindowSize = 3
    Threshold = 2
    MaxRecords = 7
SYMMETRY CallerSymmetry
INVARIANTS
    OnlyRecentRecordsCount
    NoMissedRotation
PROPERTY
    CooldownWhenQuiet
