\* Two servers, two commands in any overlap. The commands are used up: no deadlock.
SPECIFICATION Spec
CONSTANTS
    Profiles = {default, miami}
    Default = default
    Domains = {tidal, other}
    Tidal = {tidal}
    Commands = {c1, c2}
    NoFile = noFile
    Unset = {unset}
    Nothing = nothing
SYMMETRY CommandSymmetry
CHECK_DEADLOCK FALSE
INVARIANTS
    BlockingTypeOK
    AnnouncedIsInForce
    OnlyUnblockUnblocks
