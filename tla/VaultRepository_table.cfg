SPECIFICATION Spec
CONSTANTS
    a = a
    v = v
    Ids = {a}
    Buckets <- MCBuckets
    BucketOf <- MCBucketOf
    SettingsBucket = 0
    Values <- MCValues
    Tombstone = gone
    Absent = none
    Settings = {plain, dark}
    NoSettings = plain
    Passwords = {p, q}
    Null = null
    Pulled <- MCNothingPulled
    PulledRevs = {1}
    MaxEvents = 3
INVARIANTS
    RestingVaultOpens
CHECK_DEADLOCK FALSE
