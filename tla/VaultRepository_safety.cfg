SPECIFICATION Spec
CONSTANTS
    a = a
    v = v
    Ids = {a, b}
    Buckets <- MCBuckets
    BucketOf <- MCBucketOf
    SettingsBucket = 0
    Values <- MCValues
    Tombstone = gone
    Absent = none
    Settings = {plain, dark}
    NoSettings = plain
    Passwords = {p, q}
    Null = null
    Pulled <- MCPulled
    PulledRevs = {1}
    MaxEvents = 3
INVARIANTS
    NothingStranded
    TableDescribesItems
    QuietVaultReopens
PROPERTIES
    BucketsBeforeHeader
CHECK_DEADLOCK FALSE
