SPECIFICATION Spec
CONSTANTS
    Natives = {1, 2, 3, 4, 5}
    NativeTitle <- MCTitle
    NativeUrl <- MCUrl
    NativeHome <- MCHome
    Permanent = {1}
    AFolder = folder
    Unsafe = unsafe
    Top = top
    Unborn = unborn
    Removed = removed
    Idle = idle
    MaxOutside = 1
    Played = {"native", "settings", "wire", "popup", "onboarding", "page", "search", "duplicates"}
    pageP = pageP
    WirePages = {pageP}
    Asked = {"MOVE_ITEMS", "CLEAR_VAULTED_HISTORY", "LOOKUP_ACTIVE_TAB", "CONNECT_DRIVE"}
    Misspelt = misspelt
    Refused = refused
    NoCall = nocall
    MaxCalls = 2
    Bookmarks = {pageP}
    NoBookmark = nobookmark
    Matching = {}
    MaxFlights = 2
    MaxHappened = 2
    pcA = pcA
    pcB = pcB
    Computers = {pcA, pcB}
    Fields = {"theme", "sort"}
    Known <- MCKnown
    Default = 0
    Unset = unset
    NoJob = nojob
    MaxClock = 2
    MaxPushed = 3
    MaxChoices = 3
    MaxStops = 1
    Tabs = {wizardTab}
    Shut = shut
    MaxGestures = 3
    MaxAsks = 2
    Switches = {"clearHistoryOnLock", "stripTrackingParams"}
    NoScreen = noscreen
    NoAnswer = noanswer
    MaxDeeds = 5
    MaxSends = 2
    Marks = {1, 2, 3}
    Dirs = {4, 5}
    TitleWords <- MCTitleWords
    TagWords <- MCTagWords
    NoteWords <- MCNoteWords
    UrlWords <- MCUrlWords
    HostWord <- MCHostWord
    StartOf <- MCStartOf
    PartOf <- MCPartOf
    NoIndex = noindex
    Queries <- MCQueries
    Folded <- MCFolded
    Lines <- MCLines
    Terms <- MCTerms
    FirstHome <- MCFirstHome
    FirstAddress = "a"
    MaxEdits = 2
    Copies = {1, 2, 3, 4}
    SavedAs <- MCSavedAs
    Stripped <- MCStripped
    NormalForm <- MCNormalForm
    NotShown = notshown
    NoQuestion = noquestion
    NoOffer = nooffer
    MaxPresses = 5
    MaxMeanwhile = 1
    MaxUnderWay = 2
INVARIANTS
    PopupTellsTheTruth
    
    
    WizardKeepsItsGates
    SettingsPageHolds
    SearchHolds
    DuplicatesHold
PROPERTIES
    PickerHolds
CHECK_DEADLOCK FALSE
