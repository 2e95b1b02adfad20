SPECIFICATION MigrationSpec
CONSTANTS
    This = this
    Other = other
    Items = {i1, i2}
    None = none
    MaxMoves = 2
    MaxSyncs = 6
SYMMETRY Symmetry
INVARIANTS
    NothingLost
CHECK_DEADLOCK FALSE
