SPECIFICATION FairSpec
CONSTANTS
    a = a
    v = v
    Ids = {a}
    Buckets <- MCBuckets
    BucketOf <- MCBucketOf
    SettingsBucket = 0
    Values <- MCValues
    Tombstone = gone
    Absent = none
    Settings = {plain, dark}
    NoSettings = plain
    Passwords = {p}
    Null = null
    Pulled <- MCPulled
    PulledRevs = {1}
    MaxEvents = 3
PROPERTIES
    ChangesAreWritten
CHECK_DEADLOCK FALSE
