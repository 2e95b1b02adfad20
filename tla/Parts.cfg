SPECIFICATION Spec
CONSTANTS
    Pushers = {p, q}
    Null = null
    Minute = 2
    Hour = 4
    PerMinute = 3
    PerHour = 4
    MaxTime = 5
    MaxGrants = 6
    Base = 3
    Ids = {1, 2, 3, 4}
    Folders = {1}
    Texts = {"old"}
    Tags = {"t"}
    Absent = absent
    Failed = failed
    MaxArranged = 3
    bmX = bmX
    bmY = bmY
    Importers = {i1, i2}
    Bookmarks = {bmX, bmY}
    Files <- MCFiles
    Disputed = {bmX}
    Nothing = nothing
    RollbackTtl = 1
    MaxImportTime = 2
    MaxImports = 3
    Rows = {1, 2}
    Places = {top, box}
    Words = {"a", "b"}
    Chores = {1, 2}
    None = none
    MaxEvents = 2
    hereW = hereW
    elseW = elseW
    Windows = {hereW, elseW}
    Tab = tab
    HomeOfTab = elseW
    Popup = popup
    Away = away
    MaxMoves = 4
    Pages = {"a", "b"}
    Jobs = {1, 2}
    MaxActs = 4
    Urls <- MCUrls
    Mentions <- MCMentions
    Tasks = {1, 2}
    MaxHistory = 3
    IconJobs = {1, 2}
    MaxIconActs = 5
    IoJobs = {1, 2}
    FilesAround <- MCFilesAround
    VaultHolds = {1, 2}
    ChangedBoth = {2}
    NoWay = noway
    NotUp = notup
    MaxStarts = 3
    MaxElsewhere = 1
INVARIANTS
    
    PromisesAreKept
    PreviewFitsTheBookmark
    PageIconsAreKept
    QuietPageShowsTheVault
    SamplesTellTheTruth
    BudgetHolds
    ArrangementHolds
    ReplacedVaultIsKept
PROPERTIES
    OnlyVaultedHistoryGoes
CHECK_DEADLOCK FALSE
