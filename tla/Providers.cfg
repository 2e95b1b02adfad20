SPECIFICATION Spec
CONSTANTS
    Devices = {d1, d2}
    Null = Null
    ETags = TRUE
    CreatesApart = TRUE
    MaxAttempts = 2
    MaxPushes = 2
    MaxRemovals = 1
    MaxFaults = 2
    MaxTroubles = 1
    This = this
    Other = other
    Items = {i1, i2}
    None = none
    MaxMoves = 2
    MaxSyncs = 4
    Base = 4
    Ids = {1, 2, 3}
    Folders = {1, 2}
    Texts = {"old", "new"}
    Tags = {"t"}
    Absent = absent
    Failed = failed
    Machines = {d1, d2}
    Starts <- MCStarts
    Operations = {"add", "edit", "move", "delete", "restore", "resolve", "rebase", "tag", "open"}
    Ttl = 0
    MaxTime = 2
    MaxEdits = 3
SYMMETRY Symmetry
INVARIANTS
    ProviderHoldsVault
    
    UndoRestoresTheBatch
PROPERTIES
    FlipIsComplete
    IsACell
    
CHECK_DEADLOCK FALSE
