SPECIFICATION FairSpec
CONSTANTS
    Devices = {d1, d2}
    Ids = {x}
    Shared = {x}
    Fields = {title}
    Buckets = {x}
    BucketOf <- MCBucketOf
    Absent = none
    Null = null
    Overlap = FALSE
    MaxEdits = 3
    MaxPurges = 0
    MaxPasswords = 1
    MaxResolves = 0
    MaxReplaces = 0
    MaxFaults = 0
    MaxRev = 20
INVARIANTS
    NoTextLost
    

    
CHECK_DEADLOCK FALSE
