SPECIFICATION Spec
CONSTANTS
    Devices = {d1, d2}
    Ids = {x, y}
    Shared = {x}
    Fields = {title}
    Buckets = {x, y}
    BucketOf <- MCBucketOf
    Absent = none
    Null = null
    Overlap = FALSE
    MaxEdits = 2
    MaxPurges = 1
    MaxPasswords = 0
    MaxResolves = 1
    MaxReplaces = 1
    MaxFaults = 1
    MaxRev = 6
INVARIANTS
    BaseIsRemote
PROPERTIES
    UnpushedTextsStay
SYMMETRY Symmetry
CHECK_DEADLOCK FALSE
